--------------------------- MODULE TerminalProofs ---------------------------
(***************************************************************************)
(* Theorems about the browser's terminal hook and the worker's terminal,   *)
(* its requests and its runtimes, for any number of calls, sockets,        *)
(* timers, connections, PTYs, requests and sandboxes.                      *)
(***************************************************************************)
EXTENDS Terminal, TerminalMachine, SandboxRequests, Runtimes, TLAPS

-----------------------------------------------------------------------------
(* The hook                                                                *)

\* The types and the two promises are inductive together: READY is written by the socket
\* in use because no other is open.
MachineInv == MachineTypeOK /\ OneSocket /\ ConnectedIsOpen

LEMMA MachineStart == MachineInit => MachineInv
<1> SUFFICES ASSUME MachineInit PROVE MachineInv
  OBVIOUS
<1>0. stopping \in BOOLEAN
  BY Zenon DEF MachineInit
<1>1. MachineTypeOK
  BY <1>0, MachineAssumption DEF MachineInit, MachineTypeOK
<1>2. OneSocket /\ ConnectedIsOpen
  BY DEF MachineInit, OneSocket, ConnectedIsOpen
<1> QED
  BY <1>1, <1>2 DEF MachineInv

\* What an opened socket replaces is closed or on its way to it.
LEMMA ConnectKeeps ==
    ASSUME MachineInv, ConnectWs
    PROVE  /\ ui' = "CONNECTING"
           /\ socket' \in [Socket -> {"connecting", "open", "closing", "closed"}]
           /\ current' \in Socket
           /\ OneSocket'
<1>1. PICK w \in Socket :
        /\ socket' = [i \in Socket |-> CASE i = w -> "connecting"
                                         [] i = current /\ i # w -> Closing(socket[i])
                                         [] OTHER -> socket[i]]
        /\ current' = w
  BY DEF ConnectWs
<1>2. \A i \in Socket : socket'[i] = CASE i = w -> "connecting"
                                       [] i = current /\ i # w -> Closing(socket[i])
                                       [] OTHER -> socket[i]
  BY <1>1
<1>3. socket' \in [Socket -> {"connecting", "open", "closing", "closed"}]
  BY <1>1, <1>2 DEF Closing, MachineInv, MachineTypeOK
<1>4. OneSocket'
  BY <1>1, <1>2 DEF OneSocket, Closing, MachineInv, MachineTypeOK
<1> QED
  BY <1>1, <1>3, <1>4 DEF ConnectWs

LEMMA ScheduleKeeps ==
    ASSUME MachineInv, ScheduleReconnect
    PROVE  /\ ui' \in {"RECONNECTING", "SANDBOX_LOST"}
           /\ attempt' \in 0 .. MaxAttempts
           /\ timer' \in [Timer -> {"set", "health", "worker", "done"}]
           /\ pending' \in {0} \cup Timer
<1>1. CASE attempt >= MaxAttempts
  BY <1>1, MachineAssumption DEF ScheduleReconnect, MachineInv, MachineTypeOK
<1>2. CASE attempt < MaxAttempts
  BY <1>2, MachineAssumption DEF ScheduleReconnect, MachineInv, MachineTypeOK
<1> QED
  BY <1>1, <1>2, MachineAssumption DEF MachineInv, MachineTypeOK

LEMMA MachineStep == MachineInv /\ [MachineNext]_machineVars => MachineInv'
<1> SUFFICES ASSUME MachineInv, [MachineNext]_machineVars
             PROVE  MachineInv'
  OBVIOUS
<1> USE DEF MachineInv, MachineTypeOK, OneSocket, ConnectedIsOpen
<1>1. ASSUME NEW c \in Call, Launch(c) \/ Resume(c) \/ Resumed(c) \/ Answered(c)
      PROVE  MachineInv'
  BY <1>1 DEF Launch, Resume, Resumed, Answered
<1>2. ASSUME NEW c \in Call, Probed(c)
      PROVE  MachineInv'
  BY <1>2, ConnectKeeps DEF Probed
<1>3. ASSUME NEW w \in Socket, Opens(w)
      PROVE  MachineInv'
  BY <1>3, MachineAssumption DEF Opens
<1>4. ASSUME NEW w \in Socket, Ready(w)
      PROVE  MachineInv'
  BY <1>4, MachineAssumption DEF Ready, Socket
<1>5. ASSUME NEW w \in Socket, ClosedByServer(w)
      PROVE  MachineInv'
  BY <1>5 DEF ClosedByServer, Closed
<1>6. ASSUME NEW w \in Socket, Dropped(w)
      PROVE  MachineInv'
  BY <1>6, ScheduleKeeps DEF Dropped, Closed
<1>7. ASSUME NEW t \in Timer, Fires(t) \/ HealthKnown(t)
      PROVE  MachineInv'
  BY <1>7 DEF Fires, HealthKnown
<1>8. ASSUME NEW t \in Timer, Reconnects(t)
      PROVE  MachineInv'
  BY <1>8, ConnectKeeps DEF Reconnects
<1>9. CASE Stop
  <2>0. /\ socket' = IF current = 0 THEN socket ELSE [socket EXCEPT ![current] = Closing(@)]
        /\ UNCHANGED <<ui, session, call, attempt, pending>>
        /\ current' = 0 /\ stopping' = TRUE
    BY <1>9 DEF Stop
  <2>1. \A w \in Socket : socket'[w] = IF w = current THEN Closing(socket[w]) ELSE socket[w]
    BY <2>0 DEF Socket
  <2>2. OneSocket' /\ socket' \in [Socket -> {"connecting", "open", "closing", "closed"}]
    BY <2>0, <2>1 DEF Closing
  <2>3. timer' \in [Timer -> {"set", "health", "worker", "done"}]
    BY <1>9 DEF Stop
  <2>4. ConnectedIsOpen'
    BY <2>0
  <2>5. MachineTypeOK'
    BY <2>0, <2>2, <2>3
  <2> QED
    BY <2>2, <2>4, <2>5
<1>10. CASE Stopped
  <2>1. /\ ui' = "IDLE" /\ session' = 0 /\ attempt' = 0
        /\ UNCHANGED <<call, socket, current, timer, pending>>
    BY <1>10 DEF Stopped
  <2>2. stopping' \in BOOLEAN
    BY <1>10, Zenon DEF Stopped
  <2>3. attempt' \in 0 .. MaxAttempts
    BY <2>1, MachineAssumption
  <2> QED
    BY <2>1, <2>2, <2>3
<1>11. CASE UNCHANGED machineVars
  BY <1>11 DEF machineVars
<1> QED
  BY <1>1, <1>2, <1>3, <1>4, <1>5, <1>6, <1>7, <1>8, <1>9, <1>10, <1>11
     DEF MachineNext, CallStep, SocketStep, TimerStep

\* MachineInv holds of the hook.
THEOREM MachineInvariant == MachineSpec => []MachineInv
<1> QED
  BY MachineStart, MachineStep, PTL DEF MachineSpec

\* Every variable of the hook keeps its type, and no more attempts are counted than the
\* limit allows.
THEOREM MachineTypeCorrect == MachineSpec => []MachineTypeOK
<1>1. MachineInv => MachineTypeOK
  BY DEF MachineInv
<1> QED
  BY <1>1, MachineInvariant, PTL

\* However many launches, callbacks and probes reconnect at once, one socket is in use.
THEOREM OneSocketCorrect == MachineSpec => []OneSocket
<1>1. MachineInv => OneSocket
  BY DEF MachineInv
<1> QED
  BY <1>1, MachineInvariant, PTL

\* The page says CONNECTED while its socket is open, or while it stops the session.
THEOREM ConnectedCorrect == MachineSpec => []ConnectedIsOpen
<1>1. MachineInv => ConnectedIsOpen
  BY DEF MachineInv
<1> QED
  BY <1>1, MachineInvariant, PTL

-----------------------------------------------------------------------------
(* The worker's terminal                                                   *)

\* A broadcast is in progress while the read loop has a chunk to send.
Sending ==
    \A p \in Pty : /\ pty[p].to # {} => pty[p].pc = "send"
                   /\ pty[p].pc = "send" => pty[p].chunk # 0

\* Who starts a PTY holds the mutex, and the session has none.
Starting == \A c \in Conn : conn[c].pc = "starting" => lock = c /\ entry = 0

\* A subscriber knows its PTY and its channel is open.
Subscriber == \A p \in Pty : \A c \in subs[p] : conn[c].pty = p /\ ~closed[c]

\* The states of a handler before it subscribes; from the third, the owner was compared.
Before == {"off", "asked", "listen", "wait"}
Owned  == {"tmux", "shared", "starting"}

Unattached ==
    \A c \in Conn :
        /\ conn[c].pc \in Before \cup Owned => conn[c].pty = 0 /\ ~closed[c]
        /\ conn[c].pc \in Owned => c \notin Foreign

TermSafe ==
    /\ Sending /\ Starting /\ Subscriber /\ Unattached
    /\ PtyIsRegistered /\ OpenWhileSent /\ OwnerAttaches

TermInv == TermTypeOK /\ TermSafe

\* Steps that leave the PTYs, their subscribers and every handler's place alone.
LEMMA SafeFrame ==
    ASSUME TermInv, UNCHANGED <<pty, subs, closed, lock, entry>>,
           \A c \in Conn : conn'[c].pc = conn[c].pc /\ conn'[c].pty = conn[c].pty
    PROVE  TermSafe'
<1>1. Sending' /\ PtyIsRegistered' /\ OpenWhileSent' /\ OwnerAttaches'
  BY DEF TermInv, TermSafe, Sending, PtyIsRegistered, OpenWhileSent, OwnerAttaches
<1>2. Starting' /\ Unattached'
  BY DEF TermInv, TermSafe, Starting, Unattached
<1>3. Subscriber'
  BY DEF TermInv, TermSafe, TermTypeOK, Subscriber
<1> QED
  BY <1>1, <1>2, <1>3 DEF TermSafe

\* A handler that goes on, without starting or leaving a PTY.
LEMMA ConnMoves ==
    ASSUME TermInv, NEW c \in Conn, UNCHANGED <<pty, subs, closed, lock, entry>>,
           \A d \in Conn \ {c} : conn'[d] = conn[d],
           conn'[c].pty = conn[c].pty, conn'[c].pc # "starting",
           conn'[c].pc \in Before \cup Owned => conn[c].pc \in Before \cup Owned,
           conn'[c].pc \in Owned => c \notin Foreign
    PROVE  TermSafe'
<1>1. Sending' /\ PtyIsRegistered' /\ OpenWhileSent' /\ OwnerAttaches'
  BY DEF TermInv, TermSafe, Sending, PtyIsRegistered, OpenWhileSent, OwnerAttaches
<1>2. Starting'
  BY DEF TermInv, TermSafe, Starting
<1>3. Subscriber'
  <2>1. \A d \in Conn : conn'[d].pty = conn[d].pty
    OBVIOUS
  <2> QED
    BY <2>1 DEF TermInv, TermSafe, TermTypeOK, Subscriber
<1>4. Unattached'
  BY DEF TermInv, TermSafe, Unattached
<1> QED
  BY <1>1, <1>2, <1>3, <1>4 DEF TermSafe

LEMMA TermStart == TermInit => TermInv
<1> SUFFICES ASSUME TermInit PROVE TermInv
  OBVIOUS
<1>0. on \in BOOLEAN /\ left \in [Conn -> BOOLEAN] /\ shut \in [Conn -> BOOLEAN]
      /\ closed \in [Conn -> BOOLEAN]
  BY Zenon DEF TermInit
<1>1. conn \in [Conn -> [pc: {"off", "asked", "listen", "wait", "tmux", "shared", "starting",
                              "ready", "greet", "open", "leave", "done"},
                         data: {"none", "error", "provisioning", "running"},
                         sent: SUBSET Stage, pty: {0} \cup Pty, since: 0 .. MaxChunks,
                         reader: BOOLEAN, writer: BOOLEAN]]
  BY TerminalAssumption DEF TermInit, NoHandler
<1>2. /\ pub \in [Actor -> [stage: Stage, to: SUBSET Conn]]
      /\ pty \in [Pty -> [pc: {"none", "read", "send", "ended", "closed", "gone"},
                          to: SUBSET Conn, chunk: 0 .. MaxChunks]]
  BY TerminalAssumption DEF TermInit, NoPty, Idle, Stage
<1>3. TermTypeOK
  BY <1>0, <1>1, <1>2, TerminalAssumption DEF TermInit, TermTypeOK
<1>4. TermSafe
  BY <1>3, TerminalAssumption
     DEF TermInit, NoHandler, NoPty, TermSafe, Sending, Starting, Subscriber, Unattached, Owned,
         PtyIsRegistered, OpenWhileSent, OwnerAttaches
<1> QED
  BY <1>3, <1>4 DEF TermInv

\* The parts of the type invariant.
WorkOK ==
    /\ record \in {"none", "provisioning", "running"}
    /\ maker \in [pc: {"idle", "start", "provision", "made", "failed"}, todo: Nat \ {0}]
    /\ count \in [creates: 0 .. MaxCreates, ptys: 0 .. MaxPtys, faults: 0 .. MaxFailures]
TrackerOK ==
    /\ history \subseteq Stage /\ listeners \subseteq Conn
    /\ live \in [Conn -> Seq(Stage)]
    /\ pub \in [Actor -> [stage: Stage, to: SUBSET Conn]]
FlagsOK ==
    on \in BOOLEAN /\ shut \in [Conn -> BOOLEAN] /\ left \in [Conn -> BOOLEAN]
    /\ closed \in [Conn -> BOOLEAN]
Handler ==
    [pc: {"off", "asked", "listen", "wait", "tmux", "shared", "starting",
          "ready", "greet", "open", "leave", "done"},
     data: {"none", "error", "provisioning", "running"},
     sent: SUBSET Stage, pty: {0} \cup Pty, since: 0 .. MaxChunks,
     reader: BOOLEAN, writer: BOOLEAN]
RegistryOK ==
    /\ lock \in Conn \cup {Maker} /\ entry \in {0} \cup Pty
    /\ pty \in [Pty -> [pc: {"none", "read", "send", "ended", "closed", "gone"},
                        to: SUBSET Conn, chunk: 0 .. MaxChunks]]
    /\ subs \in [Pty -> SUBSET Conn]
OutputOK ==
    /\ out \in [Conn -> Seq(1 .. MaxChunks)]
    /\ \A c \in Conn : Len(out[c]) <= Buffer
    /\ passed \in [Conn -> SUBSET (1 .. MaxChunks)]
    /\ chunks \in Seq(Pty) /\ Len(chunks) <= MaxChunks

LEMMA TypeParts ==
    TermTypeOK <=> /\ WorkOK /\ TrackerOK /\ FlagsOK /\ RegistryOK /\ OutputOK
                   /\ conn \in [Conn -> Handler]
BY Zenon DEF TermTypeOK, WorkOK, TrackerOK, FlagsOK, RegistryOK, OutputOK, Handler

LEMMA TypePartsNext ==
    TermTypeOK' <=> /\ WorkOK' /\ TrackerOK' /\ FlagsOK' /\ RegistryOK' /\ OutputOK'
                    /\ (conn \in [Conn -> Handler])'
BY Zenon DEF TermTypeOK, WorkOK, TrackerOK, FlagsOK, RegistryOK, OutputOK, Handler

\* What a step leaves alone keeps its types.
LEMMA TypeFrame ==
    /\ WorkOK /\ UNCHANGED <<record, maker, count>> => WorkOK'
    /\ TrackerOK /\ UNCHANGED <<history, listeners, live, pub>> => TrackerOK'
    /\ FlagsOK /\ UNCHANGED <<on, shut, left, closed>> => FlagsOK'
    /\ RegistryOK /\ UNCHANGED <<lock, entry, pty, subs>> => RegistryOK'
    /\ OutputOK /\ UNCHANGED <<out, passed, chunks>> => OutputOK'
    /\ conn \in [Conn -> Handler] /\ UNCHANGED conn => (conn \in [Conn -> Handler])'
<1>1. WorkOK /\ UNCHANGED <<record, maker, count>> => WorkOK'
  BY DEF WorkOK
<1>2. TrackerOK /\ UNCHANGED <<history, listeners, live, pub>> => TrackerOK'
  BY DEF TrackerOK
<1>3. FlagsOK /\ UNCHANGED <<on, shut, left, closed>> => FlagsOK'
  BY Zenon DEF FlagsOK
<1>4. RegistryOK /\ UNCHANGED <<lock, entry, pty, subs>> => RegistryOK'
  BY DEF RegistryOK
<1>5. OutputOK /\ UNCHANGED <<out, passed, chunks>> => OutputOK'
  BY DEF OutputOK
<1> QED
  BY <1>1, <1>2, <1>3, <1>4, <1>5

\* Publish keeps the tracker well typed.
LEMMA PublishKeeps ==
    ASSUME TrackerOK, NEW a \in Actor, NEW stage \in Stage, Publishes(a, stage)
    PROVE  TrackerOK' /\ UNCHANGED <<listeners, live, shut>>
BY DEF TrackerOK, Publishes

LEMMA ShowingKeeps ==
    ASSUME TermTypeOK, NEW c \in Conn, NEW stages \in SUBSET Stage
    PROVE  /\ Showing(c, stages) \in Handler
           /\ Showing(c, stages).pc = conn[c].pc /\ Showing(c, stages).pty = conn[c].pty
<1>1. Len(chunks) \in 0 .. MaxChunks
  BY TypeParts, TerminalAssumption DEF OutputOK
<1>2. conn[c] \in Handler
  BY TypeParts
<1>3. PICK s \in SUBSET Stage, n \in 0 .. MaxChunks :
        Showing(c, stages) = [conn[c] EXCEPT !.sent = s, !.since = n]
  <2>1. conn[c].sent \cup stages \in SUBSET Stage /\ conn[c].since \in 0 .. MaxChunks
    BY <1>2 DEF Handler
  <2> QED
    BY <1>1, <2>1 DEF Showing
<1> QED
  BY <1>2, <1>3 DEF Handler

\* A call that fails is counted.
LEMMA FailsKeeps ==
    ASSUME WorkOK, Fails
    PROVE  count' \in [creates: 0 .. MaxCreates, ptys: 0 .. MaxPtys, faults: 0 .. MaxFailures]
BY TerminalAssumption DEF WorkOK, Fails

LEMMA MakerKeeps ==
    ASSUME TermInv, Create \/ MakerStep \/ Destroyed
    PROVE  TermInv'
<1>1. Maker \in Actor /\ "pull" \in Stage /\ "failed" \in Stage
      /\ \A i \in 1 .. Len(Made) : Made[i] \in Stage
  BY TerminalAssumption DEF Actor, Stage
<1>2. WorkOK /\ TrackerOK /\ FlagsOK /\ RegistryOK /\ OutputOK /\ conn \in [Conn -> Handler]
  BY TypeParts DEF TermInv
<1>3. UNCHANGED <<on, shut, left, closed, lock, entry, pty, subs, out, passed, chunks, conn>>
  BY DEF Create, MakerStep, Pull, Provision, Tell, Register, DeleteRecord, Destroyed, Publishes,
         progressVars, outputVars
<1>4. WorkOK'
  <2>1. CASE Create
    BY <2>1, <1>2, TerminalAssumption DEF Create, WorkOK
  <2>2. CASE Pull \/ Tell \/ DeleteRecord \/ Destroyed
    BY <2>2, <1>2 DEF Pull, Tell, DeleteRecord, Destroyed, WorkOK
  <2>3. CASE Provision \/ Register
    BY <2>3, <1>2, FailsKeeps DEF Provision, Register, WorkOK
  <2> QED
    BY <2>1, <2>2, <2>3 DEF MakerStep
<1>5. TrackerOK'
  <2>1. CASE Pull \/ Provision
    BY <2>1, <1>1, <1>2, PublishKeeps, TypeFrame DEF Pull, Provision, progressVars
  <2>2. CASE Tell
    <3>1. maker.todo \in 1 .. Len(Made)
      BY <2>2, <1>2, TerminalAssumption DEF Tell, WorkOK
    <3> QED
      BY <2>2, <3>1, <1>1, <1>2, PublishKeeps DEF Tell
  <2>3. CASE Create \/ Register \/ DeleteRecord \/ Destroyed
    BY <2>3, <1>2, TypeFrame DEF Create, Register, DeleteRecord, Destroyed, progressVars
  <2> QED
    BY <2>1, <2>2, <2>3 DEF MakerStep
<1>6. TermSafe'
  BY <1>3, SafeFrame
<1> QED
  BY <1>2, <1>3, <1>4, <1>5, <1>6, TypeFrame, TypePartsNext DEF TermInv

\* The parts of the type invariant that most steps of a handler keep.
LEMMA Parts ==
    ASSUME TermInv
    PROVE  /\ WorkOK /\ TrackerOK /\ FlagsOK /\ RegistryOK /\ OutputOK
           /\ conn \in [Conn -> Handler]
BY TypeParts DEF TermInv

\* A handler that moves: its record changes, and at most the tracker and the count.
LEMMA HandlerMoves ==
    ASSUME TermInv, NEW c \in Conn, NEW h \in Handler, conn' = [conn EXCEPT ![c] = h],
           h.pty = conn[c].pty, h.pc # "starting",
           h.pc \in Before \cup Owned => conn[c].pc \in Before \cup Owned,
           h.pc \in Owned => c \notin Foreign,
           UNCHANGED <<pty, subs, closed, lock, entry>>,
           WorkOK', TrackerOK', FlagsOK', OutputOK'
    PROVE  TermInv'
<1>1. /\ conn'[c] = h /\ \A d \in Conn \ {c} : conn'[d] = conn[d]
      /\ conn' \in [Conn -> Handler]
  BY Parts
<1>2. TermSafe'
  BY <1>1, ConnMoves
<1> QED
  BY <1>1, <1>2, Parts, TypeFrame, TypePartsNext DEF TermInv

LEMMA SetPc ==
    ASSUME TermInv, NEW c \in Conn,
           NEW pc \in {"off", "asked", "listen", "wait", "tmux", "shared", "starting",
                       "ready", "greet", "open", "leave", "done"}
    PROVE  /\ [conn[c] EXCEPT !.pc = pc] \in Handler
           /\ [conn[c] EXCEPT !.pc = pc].pty = conn[c].pty
           /\ [conn[c] EXCEPT !.pc = pc].pc = pc
BY Parts DEF Handler

LEMMA GotoIs ==
    ASSUME TermInv, NEW c \in Conn, NEW pc, Goto(c, pc)
    PROVE  conn' = [conn EXCEPT ![c] = [conn[c] EXCEPT !.pc = pc]]
BY Parts DEF Goto

LEMMA EndedIs == Ended \in Handler /\ Ended.pty = 0 /\ Ended.pc = "done"
<1>1. NoHandler \in Handler /\ NoHandler.pty = 0
  BY TerminalAssumption DEF NoHandler, Handler
<1> QED
  BY <1>1 DEF Ended, Handler

\* The lookup, the upgrade, and the wait for the sandbox.
LEMMA AskKeeps == ASSUME TermInv, NEW c \in Conn, Ask(c) PROVE TermInv'
<1>1. PICK data \in {"none", "error", "provisioning", "running"} :
        conn' = [conn EXCEPT ![c] = [conn[c] EXCEPT !.pc = "asked", !.data = data]]
  BY Parts DEF Ask, WorkOK
<1>2. [conn[c] EXCEPT !.pc = "asked", !.data = data] \in Handler
  BY Parts DEF Handler
<1>3. WorkOK'
  BY Parts, FailsKeeps DEF Ask, WorkOK
<1>4. TrackerOK' /\ FlagsOK' /\ OutputOK'
  BY Parts, TypeFrame DEF Ask, progressVars, outputVars
<1>5. /\ [conn[c] EXCEPT !.pc = "asked", !.data = data].pty = conn[c].pty
      /\ [conn[c] EXCEPT !.pc = "asked", !.data = data].pc = "asked"
  BY Parts DEF Handler
<1> QED
  BY <1>1, <1>2, <1>3, <1>4, <1>5, HandlerMoves DEF Ask, outputVars, Before, Owned

LEMMA FlushKeeps == ASSUME TermInv, NEW c \in Conn, Flush(c) PROVE TermInv'
<1> DEFINE s == Showing(c, Told(history))
<1>0. Told(history) \in SUBSET Stage
  BY Parts DEF TrackerOK, Told
<1>1. s \in Handler /\ s.pc = conn[c].pc /\ s.pty = conn[c].pty
  BY <1>0, ShowingKeeps DEF TermInv
<1>2. PICK h \in {Ended} \cup {[s EXCEPT !.pc = pc, !.data = "none"] : pc \in {"tmux", "listen"}} :
        /\ conn' = [conn EXCEPT ![c] = h]
        /\ h.pc = "tmux" => Mine(c)
  <2>1. CASE conn[c].data = "none" /\ history = {}
    BY <2>1, EndedIs DEF Flush
  <2>2. CASE conn[c].data \in {"provisioning", "running"} /\ ~Mine(c)
    BY <2>2, EndedIs DEF Flush
  <2>3. CASE conn[c].data = "running" /\ Mine(c)
    BY <2>3 DEF Flush
  <2>4. CASE ~(conn[c].data = "none" /\ history = {}) /\ conn[c].data # "running"
             /\ ~(conn[c].data = "provisioning" /\ ~Mine(c))
    <3>1. conn' = [conn EXCEPT ![c] = [s EXCEPT !.pc = "listen", !.data = "none"]]
      BY <2>4 DEF Flush
    <3>2. [s EXCEPT !.pc = "listen", !.data = "none"].pc = "listen"
      BY <1>1 DEF Handler
    <3> QED
      BY <3>1, <3>2
  <2> QED
    BY <2>1, <2>2, <2>3, <2>4
<1>3. conn[c].pc = "asked" /\ conn[c].pty = 0
  BY DEF Flush, TermInv, TermSafe, Unattached, Before
<1>4. h \in Handler /\ h.pty = 0 /\ h.pc \in {"tmux", "listen", "done"}
  <2>1. CASE h = Ended
    BY <2>1, EndedIs
  <2>2. CASE h # Ended
    BY <2>2, <1>1, <1>3 DEF Handler
  <2> QED
    BY <2>1, <2>2
<1>5. WorkOK' /\ TrackerOK' /\ FlagsOK' /\ OutputOK'
  BY Parts, TypeFrame DEF Flush, progressVars, outputVars
<1>6. UNCHANGED <<pty, subs, closed, lock, entry>>
  BY DEF Flush, outputVars
<1> HIDE DEF s
<1> QED
  BY <1>2, <1>3, <1>4, <1>5, <1>6, HandlerMoves DEF Before, Owned, Mine

LEMMA ListenKeeps == ASSUME TermInv, NEW c \in Conn, Listen(c) PROVE TermInv'
<1> DEFINE s == Showing(c, Told(history))
           h == [s EXCEPT !.pc = "wait"]
<1>0. Told(history) \in SUBSET Stage
  BY Parts DEF TrackerOK, Told
<1>1. s \in Handler /\ s.pty = conn[c].pty
  BY <1>0, ShowingKeeps DEF TermInv
<1>2. h \in Handler /\ h.pty = conn[c].pty /\ h.pc = "wait"
  BY <1>1 DEF Handler
<1>3. conn' = [conn EXCEPT ![c] = h] /\ conn[c].pc = "listen"
      /\ UNCHANGED <<pty, subs, closed, lock, entry>>
  BY DEF Listen, outputVars
<1>4. TrackerOK'
  BY Parts DEF Listen, TrackerOK
<1>5. WorkOK' /\ FlagsOK' /\ OutputOK'
  BY Parts, TypeFrame DEF Listen, outputVars
<1> HIDE DEF h
<1> QED
  BY <1>2, <1>3, <1>4, <1>5, HandlerMoves DEF Before, Owned

LEMMA WaitingKeeps == ASSUME TermInv, NEW c \in Conn, Waiting(c) PROVE TermInv'
<1>1. /\ conn[c].pc = "wait" /\ TrackerOK'
      /\ UNCHANGED <<pty, subs, closed, lock, entry>>
      /\ WorkOK' /\ FlagsOK' /\ OutputOK'
  <2>1. \/ live' = [live EXCEPT ![c] = <<>>]
        \/ live[c] # <<>> /\ live' = [live EXCEPT ![c] = Tail(@)]
    BY DEF Waiting, Live, Tick, TimeOut
  <2>2. UNCHANGED <<on, record, maker, history, listeners, shut, pub, left, lock, entry, outputVars,
                    count>>
    BY DEF Waiting, Live, Tick, TimeOut
  <2>3. TrackerOK'
    <3>1. live[c] # <<>> => Tail(live[c]) \in Seq(Stage)
      BY Parts DEF TrackerOK
    <3>2. <<>> \in Seq(Stage)
      OBVIOUS
    <3>3. live' \in [Conn -> Seq(Stage)]
      <4>1. CASE live' = [live EXCEPT ![c] = <<>>]
        BY <3>2, <4>1, Parts DEF TrackerOK
      <4>2. CASE live[c] # <<>> /\ live' = [live EXCEPT ![c] = Tail(@)]
        BY <3>1, <4>2, Parts DEF TrackerOK
      <4> QED
        BY <2>1, <4>1, <4>2
    <3> QED
      BY <2>2, <3>3, Parts DEF TrackerOK
  <2>4. WorkOK' /\ FlagsOK' /\ OutputOK' /\ UNCHANGED <<pty, subs, closed, lock, entry>>
    BY <2>2, Parts, TypeFrame DEF outputVars
  <2> QED
    BY <2>3, <2>4 DEF Waiting, Live, Tick, TimeOut
<1>2. CASE Live(c)
  <2> DEFINE s == Showing(c, Told({Head(live[c])}))
  <2>1. Told({Head(live[c])}) \in SUBSET Stage
    BY <1>2, Parts DEF Live, TrackerOK, Told
  <2>2. s \in Handler /\ s.pc = conn[c].pc /\ s.pty = conn[c].pty
    BY <2>1, ShowingKeeps DEF TermInv
  <2>3. conn' = [conn EXCEPT ![c] = s]
    BY <1>2 DEF Live
  <2> HIDE DEF s
  <2> QED
    BY <1>1, <2>2, <2>3, HandlerMoves DEF Before, Owned
<1>3. CASE Tick(c) \/ TimeOut(c)
  <2>1. PICK pc \in {"tmux", "leave"} : Goto(c, pc) /\ (pc = "tmux" => Mine(c))
    BY <1>3 DEF Tick, TimeOut
  <2> DEFINE h == [conn[c] EXCEPT !.pc = pc]
  <2>2. h \in Handler /\ h.pty = conn[c].pty /\ h.pc = pc
    BY Parts DEF Handler
  <2>3. conn' = [conn EXCEPT ![c] = h]
    BY <2>1, GotoIs
  <2> HIDE DEF h
  <2> QED
    BY <1>1, <2>1, <2>2, <2>3, HandlerMoves DEF Before, Owned, Mine
<1> QED
  BY <1>2, <1>3 DEF Waiting

\* From the announcement of tmux to the end of the bridge.
LEMMA AttachKeeps == ASSUME TermInv, NEW c \in Conn, Attach(c) PROVE TermInv'
<1> DEFINE s == Showing(c, {"tmux"})
           h == [s EXCEPT !.pc = "shared"]
<1>0. {"tmux"} \in SUBSET Stage /\ c \in Actor
  BY DEF Stage, Actor
<1>1. s \in Handler /\ s.pty = conn[c].pty
  BY <1>0, ShowingKeeps DEF TermInv
<1>2. h \in Handler /\ h.pty = conn[c].pty /\ h.pc = "shared"
  BY <1>1 DEF Handler
<1>3. conn' = [conn EXCEPT ![c] = h] /\ conn[c].pc = "tmux"
      /\ UNCHANGED <<pty, subs, closed, lock, entry>>
  BY DEF Attach, outputVars
<1>4. c \notin Foreign
  BY <1>3 DEF TermInv, TermSafe, Unattached, Owned
<1>5. TrackerOK' /\ UNCHANGED <<on, shut, left, closed>>
  BY <1>0, Parts, PublishKeeps, TypeFrame DEF Attach, progressVars, outputVars
<1>6. WorkOK' /\ FlagsOK' /\ OutputOK'
  BY <1>5, Parts, TypeFrame DEF Attach, outputVars
<1> HIDE DEF h
<1> QED
  BY <1>2, <1>3, <1>4, <1>5, <1>6, HandlerMoves DEF Before, Owned

LEMMA AnnounceKeeps == ASSUME TermInv, NEW c \in Conn, Announce(c) PROVE TermInv'
<1>0. "ready" \in Stage /\ c \in Actor
  BY DEF Stage, Actor
<1>1. TrackerOK' /\ UNCHANGED <<on, shut, left, closed>>
  BY <1>0, Parts, PublishKeeps DEF Announce, outputVars
<1>2. WorkOK' /\ FlagsOK' /\ OutputOK'
  BY <1>1, Parts, TypeFrame DEF Announce, outputVars
<1>3. Goto(c, "greet") /\ UNCHANGED <<pty, subs, closed, lock, entry>>
  BY DEF Announce, outputVars
<1> DEFINE h == [conn[c] EXCEPT !.pc = "greet"]
<1>4. h \in Handler /\ h.pty = conn[c].pty /\ h.pc = "greet"
  BY SetPc
<1>5. conn' = [conn EXCEPT ![c] = h]
  BY <1>3, GotoIs
<1> HIDE DEF h
<1> QED
  BY <1>1, <1>2, <1>3, <1>4, <1>5, HandlerMoves DEF Before, Owned

LEMMA GreetKeeps == ASSUME TermInv, NEW c \in Conn, Greet(c) PROVE TermInv'
<1> DEFINE s == Showing(c, {"ready"})
           h == [s EXCEPT !.pc = "open", !.reader = TRUE, !.writer = TRUE]
<1>0. {"ready"} \in SUBSET Stage
  BY DEF Stage
<1>1. s \in Handler /\ s.pty = conn[c].pty
  BY <1>0, ShowingKeeps DEF TermInv
<1>2. h \in Handler /\ h.pty = conn[c].pty /\ h.pc = "open"
  BY <1>1 DEF Handler
<1>3. conn' = [conn EXCEPT ![c] = h] /\ UNCHANGED <<pty, subs, closed, lock, entry>>
  BY DEF Greet, outputVars
<1>4. WorkOK' /\ TrackerOK' /\ FlagsOK' /\ OutputOK'
  BY Parts, TypeFrame DEF Greet, progressVars, outputVars
<1> HIDE DEF h
<1> QED
  BY <1>2, <1>3, <1>4, HandlerMoves DEF Before, Owned

\* A handler that only moves on.
LEMMA GotoKeeps ==
    ASSUME TermInv, NEW c \in Conn, NEW pc \in {"greet", "leave"}, Goto(c, pc),
           UNCHANGED <<pty, subs, closed, lock, entry>>,
           WorkOK', TrackerOK', FlagsOK', OutputOK'
    PROVE  TermInv'
<1> DEFINE h == [conn[c] EXCEPT !.pc = pc]
<1>1. h \in Handler /\ h.pty = conn[c].pty /\ h.pc = pc
  BY Parts DEF Handler
<1>2. conn' = [conn EXCEPT ![c] = h]
  BY GotoIs
<1> HIDE DEF h
<1> QED
  BY <1>1, <1>2, HandlerMoves DEF Before, Owned

LEMMA BridgedKeeps == ASSUME TermInv, NEW c \in Conn, Bridged(c) PROVE TermInv'
<1>1. WorkOK' /\ TrackerOK' /\ FlagsOK' /\ OutputOK'
  BY Parts, TypeFrame DEF Bridged, progressVars, outputVars
<1> QED
  BY <1>1, GotoKeeps DEF Bridged, outputVars

LEMMA WriterEndsKeeps == ASSUME TermInv, NEW c \in Conn, WriterEnds(c) PROVE TermInv'
<1> DEFINE h == [conn[c] EXCEPT !.writer = FALSE]
<1>1. WorkOK' /\ TrackerOK' /\ FlagsOK' /\ OutputOK'
  BY Parts, TypeFrame DEF WriterEnds, progressVars, outputVars
<1>2. h \in Handler /\ h.pty = conn[c].pty /\ h.pc = conn[c].pc
  BY Parts DEF Handler
<1>3. conn' = [conn EXCEPT ![c] = h] /\ conn[c].pc = "open"
      /\ UNCHANGED <<pty, subs, closed, lock, entry>>
  BY DEF WriterEnds, outputVars
<1> HIDE DEF h
<1> QED
  BY <1>1, <1>2, <1>3, HandlerMoves DEF Before, Owned

LEMMA WriteKeeps == ASSUME TermInv, NEW c \in Conn, Write(c) PROVE TermInv'
<1>1. /\ conn[c].pc = "open" /\ out[c] # <<>>
      /\ out' = [out EXCEPT ![c] = Tail(out[c])]
      /\ passed' = [passed EXCEPT ![c] = passed[c] \cup {Head(out[c])}]
      /\ UNCHANGED <<on, record, maker, progressVars, left, lock, entry, pty, subs, closed, chunks,
                     count>>
      /\ conn' = conn \/ conn' = [conn EXCEPT ![c] = [conn[c] EXCEPT !.writer = FALSE]]
  BY DEF Write
<1>2. /\ Head(out[c]) \in 1 .. MaxChunks /\ Tail(out[c]) \in Seq(1 .. MaxChunks)
      /\ Len(Tail(out[c])) <= Buffer
  BY <1>1, Parts, TerminalAssumption DEF OutputOK
<1>3. OutputOK'
  BY <1>1, <1>2, Parts DEF OutputOK
<1>4. WorkOK' /\ TrackerOK' /\ FlagsOK'
  BY <1>1, Parts, TypeFrame DEF progressVars
<1>5. CASE conn' = conn
  <2>1. TermSafe'
    BY <1>1, <1>5, SafeFrame
  <2> QED
    BY <1>1, <1>3, <1>4, <1>5, <2>1, Parts, TypeFrame, TypePartsNext DEF TermInv
<1>6. CASE conn' = [conn EXCEPT ![c] = [conn[c] EXCEPT !.writer = FALSE]]
  <2> DEFINE h == [conn[c] EXCEPT !.writer = FALSE]
  <2>1. h \in Handler /\ h.pty = conn[c].pty /\ h.pc = conn[c].pc
    BY Parts DEF Handler
  <2>2. conn' = [conn EXCEPT ![c] = h]
    BY <1>6
  <2> HIDE DEF h
  <2> QED
    BY <1>1, <1>3, <1>4, <2>1, <2>2, HandlerMoves DEF Before, Owned
<1> QED
  BY <1>1, <1>5, <1>6

LEMMA ClientKeeps == ASSUME TermInv, NEW c \in Conn, ClientLeaves(c) PROVE TermInv'
<1>1. left' \in [Conn -> BOOLEAN]
  BY Parts DEF ClientLeaves, FlagsOK
<1>2. FlagsOK'
  BY <1>1, Parts, Zenon DEF ClientLeaves, FlagsOK, progressVars, outputVars
<1>3. TermSafe'
  BY SafeFrame DEF ClientLeaves, outputVars
<1>4. UNCHANGED <<record, maker, count, history, listeners, live, pub, lock, entry, pty, subs, out,
                  passed, chunks, conn>>
  BY DEF ClientLeaves, progressVars, outputVars
<1> QED
  BY <1>2, <1>3, <1>4, Parts, TypeFrame, TypePartsNext DEF TermInv

\* An event reaches a listener, or finds its channel closed.
LEMMA SendKeeps == ASSUME TermInv, NEW a \in Actor, Send(a) PROVE TermInv'
<1>1. PICK c \in pub[a].to :
        /\ live' = IF conn[c].pc = "wait" THEN [live EXCEPT ![c] = Append(live[c], pub[a].stage)]
                                          ELSE live
        /\ pub' = [pub EXCEPT ![a].to = pub[a].to \ {c}]
  BY DEF Send
<1>2. pub[a] \in [stage: Stage, to: SUBSET Conn] /\ c \in Conn
  BY Parts DEF TrackerOK
<1>3. Append(live[c], pub[a].stage) \in Seq(Stage)
  BY <1>2, Parts DEF TrackerOK
<1>4. live' \in [Conn -> Seq(Stage)]
  BY <1>1, <1>2, <1>3, Parts DEF TrackerOK
<1>5. pub' \in [Actor -> [stage: Stage, to: SUBSET Conn]]
  BY <1>1, <1>2, Parts DEF TrackerOK
<1>6. TrackerOK'
  BY <1>4, <1>5, Parts DEF Send, TrackerOK
<1>7. TermSafe'
  BY SafeFrame DEF Send, outputVars
<1>8. UNCHANGED <<on, shut, left, closed, record, maker, count, lock, entry, pty, subs, out, passed,
                  chunks, conn>>
  BY DEF Send, outputVars
<1> QED
  BY <1>6, <1>7, <1>8, Parts, TypeFrame, TypePartsNext DEF TermInv

LEMMA PanicKeeps == ASSUME TermInv, NEW a \in Actor, HandlerPanics(a) PROVE TermInv'
<1>1. a \in Conn /\ Goto(a, "leave") /\ UNCHANGED <<pty, subs, closed, lock, entry>>
  BY DEF HandlerPanics, Goto, outputVars
<1>2. pub' \in [Actor -> [stage: Stage, to: SUBSET Conn]]
  BY Parts DEF HandlerPanics, TrackerOK
<1>3. TrackerOK'
  BY <1>2, Parts DEF HandlerPanics, TrackerOK
<1>4. WorkOK' /\ FlagsOK' /\ OutputOK'
  BY Parts, TypeFrame DEF HandlerPanics, outputVars
<1> QED
  BY <1>1, <1>3, <1>4, GotoKeeps

LEMMA CrashKeeps == ASSUME TermInv, WorkerPanics PROVE TermInv'
<1>1. /\ conn' = [c \in Conn |-> Ended]
      /\ pty' = [p \in Pty |-> NoPty] /\ subs' = [p \in Pty |-> {}]
      /\ lock' = Maker /\ entry' = 0
      /\ pub' = [a \in Actor |-> Idle] /\ listeners' = {} /\ history' = {}
      /\ maker' = [pc |-> "idle", todo |-> 1] /\ on' = FALSE
      /\ UNCHANGED <<record, live, shut, left, out, closed, passed, chunks, count>>
  BY DEF WorkerPanics
<1>2. conn' \in [Conn -> Handler]
  BY <1>1, EndedIs
<1>3. TrackerOK'
  BY <1>1, Parts DEF TrackerOK, Idle, Stage
<1>4. NoPty \in [pc: {"none", "read", "send", "ended", "closed", "gone"}, to: SUBSET Conn,
                 chunk: 0 .. MaxChunks]
  BY TerminalAssumption DEF NoPty
<1>5. RegistryOK'
  BY <1>1, <1>4 DEF RegistryOK
<1>6. FlagsOK'
  BY <1>1, Parts, Zenon DEF FlagsOK
<1>7. WorkOK' /\ OutputOK'
  <2>1. OutputOK'
    BY <1>1, Parts, TypeFrame
  <2>2. WorkOK'
    BY <1>1, Parts DEF WorkOK
  <2> QED
    BY <2>1, <2>2
<1>8. TermSafe'
  BY <1>1, EndedIs, TerminalAssumption
     DEF TermSafe, Sending, Starting, Subscriber, Unattached, PtyIsRegistered, OpenWhileSent,
         OwnerAttaches, NoPty, Before, Owned
<1> QED
  BY <1>2, <1>3, <1>5, <1>6, <1>7, <1>8, TypePartsNext DEF TermInv

\* A handler joins a PTY that is registered and that nobody sends on.
LEMMA SubscribeKeeps ==
    ASSUME TermInv, NEW c \in Conn, NEW p \in Pty, Subscribe(c, p), conn[c].pc \in Owned
    PROVE  /\ conn' \in [Conn -> Handler] /\ subs' \in [Pty -> SUBSET Conn]
           /\ UNCHANGED <<out, closed, passed, chunks>>
           /\ conn'[c].pc = "ready"
           /\ \A d \in Conn \ {c} : conn'[d] = conn[d]
           /\ subs'[p] = subs[p] \cup {c} /\ \A q \in Pty \ {p} : subs'[q] = subs[q]
           /\ Subscriber' /\ Unattached' /\ OwnerAttaches'
<1>1. conn' = [conn EXCEPT ![c] = [conn[c] EXCEPT !.pc = "ready", !.pty = p]]
      /\ subs' = [subs EXCEPT ![p] = subs[p] \cup {c}]
      /\ UNCHANGED <<out, closed, passed, chunks>>
  BY Parts DEF Subscribe
<1> DEFINE h == [conn[c] EXCEPT !.pc = "ready", !.pty = p]
<1>2. h \in Handler /\ h.pc = "ready" /\ h.pty = p
  BY Parts DEF Handler
<1>3. conn' \in [Conn -> Handler] /\ conn'[c] = h /\ \A d \in Conn \ {c} : conn'[d] = conn[d]
  BY <1>1, <1>2, Parts
<1>4. /\ subs' \in [Pty -> SUBSET Conn]
      /\ subs'[p] = subs[p] \cup {c} /\ \A q \in Pty \ {p} : subs'[q] = subs[q]
  BY <1>1, Parts DEF RegistryOK
<1>5. /\ ~closed[c] /\ c \notin Foreign
      /\ \A q \in Pty : c \notin subs[q]
  <2>1. conn[c].pty = 0
    BY DEF TermInv, TermSafe, Unattached
  <2> QED
    BY <2>1 DEF TermInv, TermSafe, Unattached, Subscriber, Pty
<1> HIDE DEF h
<1>6. Subscriber'
  <2> SUFFICES ASSUME NEW q \in Pty, NEW d \in subs'[q]
               PROVE  conn'[d].pty = q /\ ~closed'[d]
    BY DEF Subscriber
  <2>1. CASE d = c
    BY <2>1, <1>1, <1>2, <1>3, <1>4, <1>5
  <2>2. CASE d # c
    <3>1. d \in subs[q] /\ d \in Conn
      BY <2>2, <1>4, Parts DEF RegistryOK
    <3> QED
      BY <2>2, <3>1, <1>1, <1>3 DEF TermInv, TermSafe, Subscriber
  <2> QED
    BY <2>1, <2>2
<1>7. Unattached'
  BY <1>1, <1>2, <1>3 DEF TermInv, TermSafe, Unattached, Before, Owned
<1>8. OwnerAttaches'
  BY <1>4, <1>5 DEF TermInv, TermSafe, OwnerAttaches
<1> QED
  BY <1>1, <1>2, <1>3, <1>4, <1>6, <1>7, <1>8

LEMMA JoinKeeps == ASSUME TermInv, NEW c \in Conn, Join(c) PROVE TermInv'
<1>1. /\ entry \in Pty /\ Subscribe(c, entry) /\ conn[c].pc \in Owned
      /\ UNCHANGED <<on, record, maker, progressVars, left, lock, entry, pty, count>>
  BY Parts DEF Join, RegistryOK, Owned
<1>2. /\ conn' \in [Conn -> Handler] /\ subs' \in [Pty -> SUBSET Conn]
      /\ UNCHANGED <<out, closed, passed, chunks>>
      /\ conn'[c].pc = "ready" /\ \A d \in Conn \ {c} : conn'[d] = conn[d]
      /\ \A q \in Pty : subs[q] \subseteq subs'[q]
      /\ Subscriber' /\ Unattached' /\ OwnerAttaches'
  BY <1>1, SubscribeKeeps
<1>3. Sending' /\ PtyIsRegistered'
  BY <1>1 DEF TermInv, TermSafe, Sending, PtyIsRegistered
<1>4. Starting'
  BY <1>1, <1>2 DEF TermInv, TermSafe, Starting
<1>5. OpenWhileSent'
  BY <1>1, <1>2 DEF TermInv, TermSafe, OpenWhileSent
<1>6. RegistryOK'
  BY <1>1, <1>2, Parts DEF RegistryOK
<1>7. WorkOK' /\ TrackerOK' /\ FlagsOK' /\ OutputOK'
  BY <1>1, <1>2, Parts, TypeFrame DEF progressVars
<1> QED
  BY <1>2, <1>3, <1>4, <1>5, <1>6, <1>7, TypePartsNext DEF TermInv, TermSafe

\* The mutex is free, so nobody is starting a PTY.
LEMMA FreeIsIdle == TermInv /\ Free => \A d \in Conn : conn[d].pc # "starting"
BY TerminalAssumption DEF TermInv, TermSafe, Starting, Free

LEMMA EnterKeeps == ASSUME TermInv, NEW c \in Conn, Enter(c) PROVE TermInv'
<1>1. /\ conn[c].pc = "shared" /\ Free /\ entry = 0 /\ lock' = c
      /\ Goto(c, "starting")
      /\ UNCHANGED <<on, record, maker, progressVars, left, entry, outputVars, count>>
  BY DEF Enter
<1> DEFINE h == [conn[c] EXCEPT !.pc = "starting"]
<1>2. h \in Handler /\ h.pty = conn[c].pty /\ h.pc = "starting"
  BY Parts DEF Handler
<1>3. conn' = [conn EXCEPT ![c] = h]
  BY <1>1, GotoIs
<1> HIDE DEF h
<1>4. conn' \in [Conn -> Handler] /\ conn'[c] = h /\ \A d \in Conn \ {c} : conn'[d] = conn[d]
  BY <1>2, <1>3, Parts
<1>5. Starting'
  BY <1>1, <1>2, <1>4, FreeIsIdle DEF Starting
<1>6. Unattached'
  BY <1>1, <1>2, <1>4 DEF outputVars, TermInv, TermSafe, Unattached, Owned
<1>7. Subscriber'
  <2>1. \A d \in Conn : conn'[d].pty = conn[d].pty
    BY <1>2, <1>4
  <2> QED
    BY <1>1, <2>1 DEF outputVars, TermInv, TermSafe, TermTypeOK, Subscriber
<1>8. Sending' /\ PtyIsRegistered' /\ OpenWhileSent' /\ OwnerAttaches'
  BY <1>1 DEF outputVars, TermInv, TermSafe, Sending, PtyIsRegistered, OpenWhileSent, OwnerAttaches
<1>9. RegistryOK'
  BY <1>1, Parts DEF RegistryOK, outputVars
<1>10. WorkOK' /\ TrackerOK' /\ FlagsOK' /\ OutputOK'
  BY <1>1, Parts, TypeFrame DEF progressVars, outputVars
<1> QED
  BY <1>4, <1>5, <1>6, <1>7, <1>8, <1>9, <1>10, TypePartsNext DEF TermInv, TermSafe

LEMMA StartKeeps == ASSUME TermInv, NEW c \in Conn, Start(c) PROVE TermInv'
<1> DEFINE p == count.ptys + 1
<1>1. /\ conn[c].pc = "starting" /\ Subscribe(c, p)
      /\ pty' = [pty EXCEPT ![p].pc = "read"] /\ entry' = p /\ lock' = Maker
      /\ count' = [count EXCEPT !.ptys = @ + 1]
      /\ UNCHANGED <<on, record, maker, progressVars, left>>
  BY DEF Start
<1>2. p \in Pty /\ WorkOK'
  BY <1>1, Parts, TerminalAssumption DEF Start, WorkOK, Pty
<1> HIDE DEF p
<1>3. lock = c /\ entry = 0 /\ \A d \in Conn \ {c} : conn[d].pc # "starting"
  BY <1>1 DEF TermInv, TermSafe, Starting
<1>4. \A q \in Pty : pty[q].pc \notin {"read", "send"} /\ pty[q].to = {}
  BY <1>3 DEF TermInv, TermSafe, PtyIsRegistered, Sending, Pty
<1>5. /\ conn' \in [Conn -> Handler] /\ subs' \in [Pty -> SUBSET Conn]
      /\ UNCHANGED <<out, closed, passed, chunks>>
      /\ conn'[c].pc = "ready" /\ \A d \in Conn \ {c} : conn'[d] = conn[d]
      /\ Subscriber' /\ Unattached' /\ OwnerAttaches'
  BY <1>1, <1>2, SubscribeKeeps DEF Owned
<1>6. /\ pty' \in [Pty -> [pc: {"none", "read", "send", "ended", "closed", "gone"},
                           to: SUBSET Conn, chunk: 0 .. MaxChunks]]
      /\ pty'[p].pc = "read" /\ pty'[p].to = {}
      /\ \A q \in Pty \ {p} : pty'[q] = pty[q]
  BY <1>1, <1>2, <1>4, Parts DEF RegistryOK
<1>7. Sending' /\ PtyIsRegistered' /\ OpenWhileSent'
  BY <1>1, <1>4, <1>6 DEF Sending, PtyIsRegistered, OpenWhileSent
<1>8. Starting'
  BY <1>3, <1>5 DEF Starting
<1>9. RegistryOK'
  BY <1>1, <1>2, <1>5, <1>6 DEF RegistryOK
<1>10. TrackerOK' /\ FlagsOK' /\ OutputOK'
  BY <1>1, <1>5, Parts, TypeFrame DEF progressVars
<1> QED
  BY <1>2, <1>5, <1>7, <1>8, <1>9, <1>10, TypePartsNext DEF TermInv, TermSafe

LEMMA StartFailsKeeps == ASSUME TermInv, NEW c \in Conn, StartFails(c) PROVE TermInv'
<1>1. /\ conn[c].pc = "starting" /\ lock' = Maker /\ Goto(c, "leave")
      /\ UNCHANGED <<on, record, maker, progressVars, left, entry, outputVars>>
      /\ UNCHANGED count \/ Fails
  BY DEF StartFails
<1> DEFINE h == [conn[c] EXCEPT !.pc = "leave"]
<1>2. h \in Handler /\ h.pty = conn[c].pty /\ h.pc = "leave"
  BY Parts DEF Handler
<1>3. conn' = [conn EXCEPT ![c] = h]
  BY <1>1, GotoIs
<1> HIDE DEF h
<1>4. conn' \in [Conn -> Handler] /\ conn'[c] = h /\ \A d \in Conn \ {c} : conn'[d] = conn[d]
  BY <1>2, <1>3, Parts
<1>5. Starting'
  BY <1>1, <1>2, <1>4 DEF TermInv, TermSafe, Starting
<1>6. Unattached'
  BY <1>1, <1>2, <1>4 DEF outputVars, TermInv, TermSafe, Unattached, Before, Owned
<1>7. Subscriber'
  <2>1. \A d \in Conn : conn'[d].pty = conn[d].pty
    BY <1>2, <1>4
  <2> QED
    BY <1>1, <2>1 DEF outputVars, TermInv, TermSafe, TermTypeOK, Subscriber
<1>8. Sending' /\ PtyIsRegistered' /\ OpenWhileSent' /\ OwnerAttaches'
  BY <1>1 DEF outputVars, TermInv, TermSafe, Sending, PtyIsRegistered, OpenWhileSent, OwnerAttaches
<1>9. RegistryOK' /\ WorkOK'
  BY <1>1, Parts, FailsKeeps DEF RegistryOK, WorkOK, outputVars
<1>10. TrackerOK' /\ FlagsOK' /\ OutputOK'
  BY <1>1, Parts, TypeFrame DEF progressVars, outputVars
<1> QED
  BY <1>4, <1>5, <1>6, <1>7, <1>8, <1>9, <1>10, TypePartsNext DEF TermInv, TermSafe

\* The subscription of one connection ends, and its channel is closed with it.
LEMMA UnsubscribeKeeps ==
    ASSUME TermInv, NEW c \in Conn, Unsubscribe(c), conn[c].pc \notin Before \cup Owned
    PROVE  /\ subs' \in [Pty -> SUBSET Conn] /\ closed' \in [Conn -> BOOLEAN]
           /\ \A q \in Pty : subs'[q] = subs[q] \ {c}
           /\ \A d \in Conn \ {c} : closed'[d] = closed[d]
           /\ UNCHANGED <<pty, out, passed, chunks>>
           /\ Sending' /\ OpenWhileSent' /\ OwnerAttaches'
<1>1. subs \in [Pty -> SUBSET Conn] /\ closed \in [Conn -> BOOLEAN] /\ conn[c].pty \in {0} \cup Pty
  BY Parts DEF RegistryOK, FlagsOK, Handler
<1>2. /\ subs' \in [Pty -> SUBSET Conn]
      /\ closed' \in [Conn -> BOOLEAN]
      /\ \A q \in Pty : subs'[q] = subs[q] \ {c}
      /\ \A d \in Conn \ {c} : closed'[d] = closed[d]
      /\ \A q \in Pty : c \in subs[q] => pty[q].pc # "send"
  <2>1. \A q \in Pty : c \in subs[q] => q = conn[c].pty
    BY DEF TermInv, TermSafe, Subscriber
  <2>2. CASE Subscribed(c)
    <3>1. /\ conn[c].pty \in Pty /\ pty[conn[c].pty].pc # "send"
          /\ subs' = [subs EXCEPT ![conn[c].pty] = subs[conn[c].pty] \ {c}]
          /\ closed' = [closed EXCEPT ![c] = TRUE]
      BY <2>2, <1>1 DEF Unsubscribe, Subscribed, NotSending
    <3>2. subs' \in [Pty -> SUBSET Conn] /\ \A q \in Pty : subs'[q] = subs[q] \ {c}
      BY <3>1, <1>1, <2>1
    <3>3. closed' \in [Conn -> BOOLEAN] /\ \A d \in Conn \ {c} : closed'[d] = closed[d]
      BY <3>1, <1>1
    <3> QED
      BY <3>1, <3>2, <3>3, <2>1
  <2>3. CASE ~Subscribed(c)
    <3>1. \A q \in Pty : c \notin subs[q]
      BY <2>1, <2>3 DEF Subscribed, Pty
    <3>2. subs' = subs /\ closed' = closed
      BY <2>3 DEF Unsubscribe
    <3> QED
      BY <3>1, <3>2, <1>1
  <2> QED
    BY <2>2, <2>3
<1>3. UNCHANGED <<pty, out, passed, chunks>>
  BY DEF Unsubscribe
<1>4. Sending' /\ OwnerAttaches'
  BY <1>2, <1>3 DEF TermInv, TermSafe, Sending, OwnerAttaches
<1>5. OpenWhileSent'
  <2> SUFFICES ASSUME NEW q \in Pty, NEW d \in pty[q].to
               PROVE  d \in subs'[q] /\ ~closed'[d]
    BY <1>3 DEF OpenWhileSent
  <2>1. d \in subs[q] /\ ~closed[d] /\ pty[q].pc = "send" /\ d \in Conn
    BY Parts DEF TermInv, TermSafe, OpenWhileSent, Sending, RegistryOK
  <2>2. d # c
    BY <2>1, <1>2
  <2> QED
    BY <2>1, <2>2, <1>2
<1> QED
  BY <1>2, <1>3, <1>4, <1>5

LEMMA ReaderEndsKeeps == ASSUME TermInv, NEW c \in Conn, ReaderEnds(c) PROVE TermInv'
<1> DEFINE h == [conn[c] EXCEPT !.reader = FALSE]
<1>1. /\ conn[c].pc = "open" /\ conn' = [conn EXCEPT ![c] = h] /\ Unsubscribe(c)
      /\ UNCHANGED <<on, record, maker, progressVars, left, lock, entry, count>>
  BY DEF ReaderEnds
<1>2. h \in Handler /\ h.pty = conn[c].pty /\ h.pc = "open"
  BY <1>1, Parts DEF Handler
<1> HIDE DEF h
<1>3. /\ conn' \in [Conn -> Handler]
      /\ \A d \in Conn : conn'[d].pty = conn[d].pty
      /\ \A d \in Conn : conn'[d].pc = conn[d].pc
  BY <1>1, <1>2, Parts
<1>4. /\ subs' \in [Pty -> SUBSET Conn] /\ closed' \in [Conn -> BOOLEAN]
      /\ \A q \in Pty : subs'[q] = subs[q] \ {c}
      /\ \A d \in Conn \ {c} : closed'[d] = closed[d]
      /\ UNCHANGED <<pty, out, passed, chunks>>
      /\ Sending' /\ OpenWhileSent' /\ OwnerAttaches'
  BY <1>1, UnsubscribeKeeps DEF Before, Owned
<1>5. Subscriber'
  BY <1>3, <1>4, Parts DEF TermInv, TermSafe, Subscriber, RegistryOK
<1>6. Unattached'
  BY <1>1, <1>3, <1>4 DEF TermInv, TermSafe, Unattached, Before, Owned
<1>7. Starting' /\ PtyIsRegistered'
  BY <1>1, <1>3, <1>4 DEF TermInv, TermSafe, Starting, PtyIsRegistered
<1>8. WorkOK' /\ TrackerOK' /\ OutputOK'
  BY <1>1, <1>4, Parts, TypeFrame DEF progressVars
<1>9. FlagsOK'
  BY <1>1, <1>4, Parts, Zenon DEF FlagsOK, progressVars
<1>10. RegistryOK'
  BY <1>1, <1>4, Parts DEF RegistryOK
<1> QED
  BY <1>3, <1>4, <1>5, <1>6, <1>7, <1>8, <1>9, <1>10, TypePartsNext DEF TermInv, TermSafe

LEMMA ReturnKeeps == ASSUME TermInv, NEW c \in Conn, Return(c) PROVE TermInv'
<1>1. /\ conn[c].pc = "leave" /\ conn' = [conn EXCEPT ![c] = Ended] /\ Unsubscribe(c)
      /\ listeners' = listeners \ {c} /\ shut' = [shut EXCEPT ![c] = c \in listeners]
      /\ UNCHANGED <<on, record, maker, history, live, pub, left, lock, entry, count>>
  BY DEF Return
<1>2. /\ conn' \in [Conn -> Handler] /\ conn'[c].pc = "done"
      /\ \A d \in Conn \ {c} : conn'[d] = conn[d]
  BY <1>1, EndedIs, Parts
<1>3. /\ subs' \in [Pty -> SUBSET Conn] /\ closed' \in [Conn -> BOOLEAN]
      /\ \A q \in Pty : subs'[q] = subs[q] \ {c}
      /\ \A d \in Conn \ {c} : closed'[d] = closed[d]
      /\ UNCHANGED <<pty, out, passed, chunks>>
      /\ Sending' /\ OpenWhileSent' /\ OwnerAttaches'
  BY <1>1, UnsubscribeKeeps DEF Before, Owned
<1>4. Subscriber'
  BY <1>2, <1>3, Parts DEF TermInv, TermSafe, Subscriber, RegistryOK
<1>5. Unattached'
  BY <1>1, <1>2, <1>3 DEF TermInv, TermSafe, Unattached, Before, Owned
<1>6. Starting' /\ PtyIsRegistered'
  BY <1>1, <1>2, <1>3 DEF TermInv, TermSafe, Starting, PtyIsRegistered
<1>7. WorkOK' /\ OutputOK'
  BY <1>1, <1>3, Parts, TypeFrame
<1>8. TrackerOK'
  BY <1>1, Parts DEF TrackerOK
<1>9. FlagsOK'
  <2>1. (c \in listeners) \in BOOLEAN
    <3>1. CASE c \in listeners
      <4>1. (c \in listeners) = TRUE
        BY <3>1
      <4> QED
        BY <4>1
    <3>2. CASE c \notin listeners
      <4>1. (c \in listeners) = FALSE
        BY <3>2
      <4> QED
        BY <4>1
    <3> QED
      BY <3>1, <3>2
  <2>2. shut' \in [Conn -> BOOLEAN]
    BY <1>1, <2>1, Parts, Zenon DEF FlagsOK
  <2> QED
    BY <1>1, <1>3, <2>2, Parts, Zenon DEF FlagsOK
<1>10. RegistryOK'
  BY <1>1, <1>3, Parts DEF RegistryOK
<1> QED
  BY <1>2, <1>3, <1>4, <1>5, <1>6, <1>7, <1>8, <1>9, <1>10, TypePartsNext DEF TermInv, TermSafe

\* What the read loop of a PTY does leaves the handlers alone.
PtyKind == {"none", "read", "send", "ended", "closed", "gone"}

\* A read loop goes on: it sends to no one who is not a subscriber.
LEMMA PtyMoves ==
    ASSUME TermInv, NEW p \in Pty,
           NEW q \in [pc: PtyKind, to: SUBSET Conn, chunk: 0 .. MaxChunks],
           pty' = [pty EXCEPT ![p] = q], UNCHANGED <<conn, lock, entry, subs, closed>>,
           q.to \subseteq subs[p], q.to # {} => q.pc = "send", q.pc = "send" => q.chunk # 0,
           q.pc \in {"read", "send"} => pty[p].pc \in {"read", "send"}
    PROVE  TermSafe' /\ RegistryOK'
<1>1. pty'[p] = q /\ \A r \in Pty \ {p} : pty'[r] = pty[r]
  BY Parts DEF RegistryOK
<1>2. Sending' /\ PtyIsRegistered'
  BY <1>1 DEF TermInv, TermSafe, Sending, PtyIsRegistered
<1>3. Starting' /\ Subscriber' /\ Unattached' /\ OwnerAttaches'
  BY DEF TermInv, TermSafe, Starting, Subscriber, Unattached, OwnerAttaches
<1>4. OpenWhileSent'
  BY <1>1 DEF TermInv, TermSafe, OpenWhileSent, Subscriber
<1>5. RegistryOK'
  BY Parts DEF RegistryOK, PtyKind
<1> QED
  BY <1>2, <1>3, <1>4, <1>5 DEF TermSafe

LEMMA OutputKeeps == ASSUME TermInv, NEW p \in Pty, Output(p) PROVE TermInv'
<1> DEFINE n == Len(chunks) + 1
           q == [pc |-> "send", to |-> subs[p], chunk |-> n]
<1>1. /\ pty[p].pc = "read" /\ Len(chunks) < MaxChunks /\ chunks' = Append(chunks, p)
      /\ pty' = [pty EXCEPT ![p] = q]
      /\ UNCHANGED <<on, record, maker, progressVars, conn, left, lock, entry, subs, out, closed,
                     passed, count>>
  BY DEF Output
<1>2. n \in 1 .. MaxChunks /\ subs[p] \in SUBSET Conn
  BY <1>1, Parts, TerminalAssumption DEF OutputOK, RegistryOK
<1>3. q \in [pc: PtyKind, to: SUBSET Conn, chunk: 0 .. MaxChunks]
      /\ q.to = subs[p] /\ q.pc = "send" /\ q.chunk # 0
  BY <1>2, TerminalAssumption DEF PtyKind
<1> HIDE DEF q
<1>4. TermSafe' /\ RegistryOK'
  BY <1>1, <1>3, PtyMoves
<1>5. OutputOK'
  BY <1>1, Parts, TerminalAssumption DEF OutputOK
<1>6. WorkOK' /\ TrackerOK' /\ FlagsOK' /\ (conn \in [Conn -> Handler])'
  BY <1>1, Parts, TypeFrame DEF progressVars
<1> QED
  BY <1>4, <1>5, <1>6, TypePartsNext DEF TermInv

LEMMA BroadcastKeeps == ASSUME TermInv, NEW p \in Pty, Broadcast(p) PROVE TermInv'
<1>1. PICK c \in pty[p].to :
        /\ pty' = [pty EXCEPT ![p] = [pty[p] EXCEPT !.to = pty[p].to \ {c}]]
        /\ \/ /\ Len(out[c]) < Buffer /\ out' = [out EXCEPT ![c] = Append(out[c], pty[p].chunk)]
              /\ UNCHANGED passed
           \/ /\ passed' = [passed EXCEPT ![c] = passed[c] \cup {pty[p].chunk}]
              /\ UNCHANGED out
  BY DEF Broadcast
<1>2. UNCHANGED <<on, record, maker, progressVars, conn, left, lock, entry, subs, closed,
                  chunks, count>>
  BY DEF Broadcast
<1>3. /\ pty[p].pc = "send" /\ pty[p].chunk \in 1 .. MaxChunks /\ c \in Conn
      /\ pty[p].to \subseteq subs[p]
      /\ pty[p] \in [pc: PtyKind, to: SUBSET Conn, chunk: 0 .. MaxChunks]
  BY Parts, TerminalAssumption DEF RegistryOK, PtyKind, TermInv, TermSafe, Sending, OpenWhileSent
<1> DEFINE q == [pty[p] EXCEPT !.to = pty[p].to \ {c}]
<1>4. /\ q \in [pc: PtyKind, to: SUBSET Conn, chunk: 0 .. MaxChunks]
      /\ q.to \subseteq subs[p] /\ q.pc = "send" /\ q.chunk # 0
  BY <1>3
<1>5. pty' = [pty EXCEPT ![p] = q]
  BY <1>1
<1> HIDE DEF q
<1>6. TermSafe' /\ RegistryOK'
  BY <1>2, <1>3, <1>4, <1>5, PtyMoves
<1>7. OutputOK'
  <2>1. CASE /\ Len(out[c]) < Buffer /\ out' = [out EXCEPT ![c] = Append(out[c], pty[p].chunk)]
             /\ UNCHANGED passed
    <3>1. Append(out[c], pty[p].chunk) \in Seq(1 .. MaxChunks)
          /\ Len(Append(out[c], pty[p].chunk)) <= Buffer
      BY <2>1, <1>3, Parts, TerminalAssumption DEF OutputOK
    <3> QED
      BY <2>1, <3>1, <1>2, <1>3, Parts DEF OutputOK
  <2>2. CASE /\ passed' = [passed EXCEPT ![c] = passed[c] \cup {pty[p].chunk}]
             /\ UNCHANGED out
    BY <2>2, <1>2, <1>3, Parts DEF OutputOK
  <2> QED
    BY <1>1, <2>1, <2>2
<1>8. WorkOK' /\ TrackerOK' /\ FlagsOK' /\ (conn \in [Conn -> Handler])'
  BY <1>2, Parts, TypeFrame DEF progressVars
<1> QED
  BY <1>6, <1>7, <1>8, TypePartsNext DEF TermInv

\* A read loop that is not sending moves on.
LEMMA LoopMoves ==
    ASSUME TermInv, NEW p \in Pty, NEW pc \in PtyKind \ {"send"},
           pty' = [pty EXCEPT ![p].pc = pc], pty[p].to = {},
           pc = "read" => pty[p].pc = "send",
           UNCHANGED <<conn, lock, entry, subs, closed>>
    PROVE  TermSafe' /\ RegistryOK'
<1> DEFINE q == [pty[p] EXCEPT !.pc = pc]
<1>1. /\ q \in [pc: PtyKind, to: SUBSET Conn, chunk: 0 .. MaxChunks]
      /\ q.to = {} /\ q.pc = pc
  BY Parts DEF RegistryOK, PtyKind
<1>2. pty' = [pty EXCEPT ![p] = q]
  BY Parts DEF RegistryOK
<1> HIDE DEF q
<1> QED
  BY <1>1, <1>2, PtyMoves

LEMMA LoopKeeps ==
    ASSUME TermInv, NEW p \in Pty, BroadcastDone(p) \/ PtyEnds(p)
    PROVE  TermInv'
<1>1. UNCHANGED <<on, record, maker, progressVars, conn, left, lock, entry, subs, out, closed,
                  passed, chunks, count>>
  BY DEF BroadcastDone, PtyEnds
<1>2. TermSafe' /\ RegistryOK'
  <2>1. CASE BroadcastDone(p)
    BY <2>1, <1>1, LoopMoves DEF BroadcastDone, PtyKind
  <2>2. CASE PtyEnds(p)
    <3>1. pty[p].to = {}
      BY <2>2 DEF PtyEnds, TermInv, TermSafe, Sending
    <3> QED
      BY <2>2, <3>1, <1>1, LoopMoves DEF PtyEnds, PtyKind
  <2> QED
    BY <2>1, <2>2
<1>3. WorkOK' /\ TrackerOK' /\ FlagsOK' /\ OutputOK' /\ (conn \in [Conn -> Handler])'
  BY <1>1, Parts, TypeFrame DEF progressVars
<1> QED
  BY <1>2, <1>3, TypePartsNext DEF TermInv

LEMMA CloseKeeps == ASSUME TermInv, NEW p \in Pty, CloseSubscribers(p) PROVE TermInv'
<1>1. /\ pty[p].pc = "ended" /\ closed' = [c \in Conn |-> closed[c] \/ c \in subs[p]]
      /\ subs' = [subs EXCEPT ![p] = {}] /\ pty' = [pty EXCEPT ![p].pc = "closed"]
      /\ UNCHANGED <<on, record, maker, progressVars, conn, left, lock, entry, out, passed, chunks,
                     count>>
  BY DEF CloseSubscribers
<1>2. /\ subs' \in [Pty -> SUBSET Conn] /\ subs'[p] = {}
      /\ \A r \in Pty \ {p} : subs'[r] = subs[r]
  BY <1>1, Parts DEF RegistryOK
<1>3. /\ pty' \in [Pty -> [pc: PtyKind, to: SUBSET Conn, chunk: 0 .. MaxChunks]]
      /\ pty'[p].to = {} /\ pty'[p].pc = "closed"
      /\ \A r \in Pty \ {p} : pty'[r] = pty[r]
  BY <1>1, Parts DEF RegistryOK, PtyKind, TermInv, TermSafe, Sending
<1>4. \A c \in Conn : closed'[c] <=> closed[c] \/ c \in subs[p]
  BY <1>1
<1>5. \A r \in Pty \ {p} : \A c \in subs[r] : c \in Conn /\ c \notin subs[p]
  BY Parts DEF RegistryOK, TermInv, TermSafe, Subscriber
<1>6. Subscriber' /\ OwnerAttaches'
  BY <1>1, <1>2, <1>4, <1>5 DEF TermInv, TermSafe, Subscriber, OwnerAttaches
<1>7. Unattached'
  <2>1. \A c \in subs[p] : conn[c].pty = p /\ p # 0
    BY DEF TermInv, TermSafe, Subscriber, Pty
  <2> QED
    BY <1>1, <1>4, <2>1 DEF TermInv, TermSafe, Unattached
<1>8. Starting' /\ Sending' /\ PtyIsRegistered'
  BY <1>1, <1>3 DEF TermInv, TermSafe, Starting, Sending, PtyIsRegistered
<1>9. OpenWhileSent'
  BY <1>2, <1>3, <1>4, <1>5 DEF TermInv, TermSafe, OpenWhileSent
<1>10. RegistryOK'
  BY <1>1, <1>2, <1>3, Parts DEF RegistryOK, PtyKind
<1>11. FlagsOK'
  BY <1>1, Parts, Zenon DEF FlagsOK, progressVars
<1>12. WorkOK' /\ TrackerOK' /\ OutputOK' /\ (conn \in [Conn -> Handler])'
  BY <1>1, Parts, TypeFrame DEF progressVars
<1> QED
  BY <1>6, <1>7, <1>8, <1>9, <1>10, <1>11, <1>12, TypePartsNext DEF TermInv, TermSafe

LEMMA ForgetKeeps == ASSUME TermInv, NEW p \in Pty, Forget(p) PROVE TermInv'
<1>1. /\ pty[p].pc = "closed" /\ Free /\ pty' = [pty EXCEPT ![p].pc = "gone"]
      /\ entry' = IF entry = p THEN 0 ELSE entry
      /\ UNCHANGED <<on, record, maker, progressVars, conn, left, lock, subs, out, closed, passed,
                     chunks, count>>
  BY DEF Forget
<1>2. /\ pty' \in [Pty -> [pc: PtyKind, to: SUBSET Conn, chunk: 0 .. MaxChunks]]
      /\ pty'[p].to = {} /\ pty'[p].pc = "gone"
      /\ \A r \in Pty \ {p} : pty'[r] = pty[r]
  BY <1>1, Parts DEF RegistryOK, PtyKind, TermInv, TermSafe, Sending
<1>3. Starting'
  BY <1>1, FreeIsIdle DEF Starting
<1>4. Subscriber' /\ Unattached' /\ OwnerAttaches'
  BY <1>1 DEF TermInv, TermSafe, Subscriber, Unattached, OwnerAttaches
<1>5. Sending' /\ PtyIsRegistered' /\ OpenWhileSent'
  BY <1>1, <1>2 DEF TermInv, TermSafe, Sending, PtyIsRegistered, OpenWhileSent
<1>6. RegistryOK'
  BY <1>1, <1>2, Parts DEF RegistryOK, PtyKind
<1>7. WorkOK' /\ TrackerOK' /\ FlagsOK' /\ OutputOK' /\ (conn \in [Conn -> Handler])'
  BY <1>1, Parts, TypeFrame DEF progressVars
<1> QED
  BY <1>3, <1>4, <1>5, <1>6, <1>7, TypePartsNext DEF TermInv, TermSafe

LEMMA TermStep == TermInv /\ [TermNext]_termVars => TermInv'
<1> SUFFICES ASSUME TermInv, [TermNext]_termVars
             PROVE  TermInv'
  OBVIOUS
<1>1. CASE Create \/ MakerStep \/ Destroyed
  BY <1>1, MakerKeeps
<1>2. CASE WorkerPanics
  BY <1>2, CrashKeeps
<1>3. ASSUME NEW a \in Actor, Send(a) \/ HandlerPanics(a)
      PROVE  TermInv'
  BY <1>3, SendKeeps, PanicKeeps
<1>4. ASSUME NEW c \in Conn, Ask(c) \/ HandlerStep(c)
      PROVE  TermInv'
  BY <1>4, AskKeeps, FlushKeeps, ListenKeeps, AttachKeeps, JoinKeeps, EnterKeeps, StartKeeps,
     StartFailsKeeps, AnnounceKeeps, GreetKeeps, BridgedKeeps, ReturnKeeps DEF HandlerStep
<1>5. ASSUME NEW c \in Conn, Waiting(c) \/ ClientLeaves(c) \/ Write(c) \/ WriterEnds(c)
                             \/ ReaderEnds(c)
      PROVE  TermInv'
  BY <1>5, WaitingKeeps, ClientKeeps, WriteKeeps, WriterEndsKeeps, ReaderEndsKeeps
<1>6. ASSUME NEW p \in Pty, Output(p) \/ PtyEnds(p) \/ PtyStep(p)
      PROVE  TermInv'
  BY <1>6, OutputKeeps, BroadcastKeeps, LoopKeeps, CloseKeeps, ForgetKeeps DEF PtyStep
<1>7. CASE UNCHANGED termVars
  <2>1. /\ UNCHANGED <<on, record, maker, count, history, listeners, live, shut, pub, conn, left>>
        /\ UNCHANGED <<lock, entry, pty, subs, out, closed, passed, chunks>>
    BY <1>7 DEF termVars, progressVars, outputVars
  <2>2. TermSafe'
    BY <2>1, SafeFrame
  <2> QED
    BY <2>1, <2>2, Parts, TypeFrame, TypePartsNext DEF TermInv
<1> QED
  BY <1>1, <1>2, <1>3, <1>4, <1>5, <1>6, <1>7 DEF TermNext

\* TermInv holds of the terminal.
THEOREM TermInvariant == TermSpec => []TermInv
<1> QED
  BY TermStart, TermStep, PTL DEF TermSpec

\* Every variable keeps its type: no channel holds more than its places.
THEOREM TermTypeCorrect == TermSpec => []TermTypeOK
<1>1. TermInv => TermTypeOK
  BY DEF TermInv
<1> QED
  BY <1>1, TermInvariant, PTL

\* However many connections ask at once, the PTY that is read is the registered one.
THEOREM RegisteredCorrect == TermSpec => []PtyIsRegistered
<1>1. TermInv => PtyIsRegistered
  BY DEF TermInv, TermSafe
<1> QED
  BY <1>1, TermInvariant, PTL

\* The read loop sends on the channels of subscribers only, and they are open.
THEOREM OpenCorrect == TermSpec => []OpenWhileSent
<1>1. TermInv => OpenWhileSent
  BY DEF TermInv, TermSafe
<1> QED
  BY <1>1, TermInvariant, PTL

\* No connection of another user is ever subscribed to the session's PTY.
THEOREM OwnerCorrect == TermSpec => []OwnerAttaches
<1>1. TermInv => OwnerAttaches
  BY DEF TermInv, TermSafe
<1> QED
  BY <1>1, TermInvariant, PTL

\* The shared PTY of a session is sound, for any number of connections and PTYs.
THEOREM PtyCorrect == TermSpec => []PtySound
<1>1. TermTypeOK /\ PtyIsRegistered /\ OpenWhileSent => PtySound
  BY DEF PtySound
<1> QED
  BY <1>1, TermTypeCorrect, RegisteredCorrect, OpenCorrect, PTL

\* The page and its sockets agree, for any number of sockets, timers and calls.
THEOREM MachineCorrect == MachineSpec => []MachineSound
<1>1. MachineTypeOK /\ OneSocket /\ ConnectedIsOpen => MachineSound
  BY DEF MachineSound
<1> QED
  BY <1>1, MachineTypeCorrect, OneSocketCorrect, ConnectedCorrect, PTL

-----------------------------------------------------------------------------
(* What a watcher is sent                                                   *)

Holds(queue, x) == \E i \in DOMAIN queue : queue[i] = x

\* A queue holds what it held and what is appended, and gives up its head only.
LEMMA QueueMoves ==
    ASSUME NEW S, NEW queue \in Seq(S), NEW x, NEW y \in S
    PROVE  /\ Holds(Append(queue, y), y)
           /\ Holds(queue, x) => Holds(Append(queue, y), x)
           /\ queue # <<>> /\ Holds(queue, x) => x = Head(queue) \/ Holds(Tail(queue), x)
<1>. DEFINE longer == Append(queue, y)
<1>1. /\ Len(queue) \in Nat /\ DOMAIN queue = 1 .. Len(queue)
      /\ DOMAIN longer = 1 .. Len(queue) + 1 /\ longer[Len(queue) + 1] = y
      /\ \A i \in 1 .. Len(queue) : longer[i] = queue[i]
  OBVIOUS
<1>2. Holds(longer, y) /\ (Holds(queue, x) => Holds(longer, x))
  <2>1. Len(queue) + 1 \in DOMAIN longer
    BY <1>1
  <2>. QED BY <1>1, <2>1 DEF Holds
<1>3. ASSUME queue # <<>>, Holds(queue, x)
      PROVE  x = Head(queue) \/ Holds(Tail(queue), x)
  <2>1. PICK i \in 1 .. Len(queue) : queue[i] = x
    BY <1>1, <1>3 DEF Holds
  <2>2. CASE i = 1
    BY <2>1, <2>2, <1>3
  <2>3. CASE i # 1
    <3>1. i - 1 \in DOMAIN Tail(queue) /\ Tail(queue)[i - 1] = x
      BY <1>3, <2>1, <2>3
    <3>. QED BY <3>1 DEF Holds
  <2>. QED BY <2>2, <2>3
<1>. QED BY <1>2, <1>3

\* A handler that has yet to go on has published nothing that is still being sent, and
\* the stages of the provisioning come from its maker.
Publishers ==
    /\ \A c \in Conn :
          /\ conn[c].pc \notin {"shared", "greet"} => Silent(c)
          /\ pub[c].to # {} => pub[c].stage \in {"tmux", "ready"}
    /\ maker.pc \in {"idle", "start"} => Silent(Maker)

StagePart ==
    /\ Publishers /\ NoStageMissed
    /\ \A c \in Conn : conn[c].pc = "wait" => c \in listeners

\* READY is the last thing that a handler is told, of a PTY that has it as a subscriber
\* until the client leaves or the PTY ends.
Attached(c) ==
    /\ "ready" \in conn[c].sent => conn[c].pc \in {"open", "leave", "done"}
    /\ conn[c].pc \in {"ready", "greet", "open"} => conn[c].pty \in Pty
    /\ conn[c].pc \in {"ready", "greet"} \/ (conn[c].pc = "open" /\ ~left[c]) =>
          c \in subs[conn[c].pty] \/ pty[conn[c].pty].pc \in {"closed", "gone"}

Seen(c, k) ==
    k \in passed[c] \/ Holds(out[c], k) \/ (pty[chunks[k]].chunk = k /\ c \in pty[chunks[k]].to)

Received(c) ==
    "ready" \in conn[c].sent /\ ~left[c] /\ conn[c].pc \notin {"leave", "done"} =>
        \A k \in conn[c].since + 1 .. Len(chunks) : chunks[k] = conn[c].pty => Seen(c, k)

OutPart ==
    /\ \A c \in Conn : Attached(c) /\ Received(c)
    /\ \A p \in Pty : p > count.ptys => pty[p].pc = "none"

WatchInv == StagePart /\ OutPart

-----------------------------------------------------------------------------
(* The stages                                                               *)

\* A step that publishes nothing.
LEMMA StageMoves ==
    ASSUME TermInv, StagePart, history' = history, pub' = pub,
           \A c \in Conn : conn'[c].pc = "wait" =>
              /\ conn[c].pc = "wait" /\ conn[c].sent \subseteq conn'[c].sent
              /\ live'[c] = live[c] /\ (c \in listeners => c \in listeners'),
           \A c \in Conn : conn[c].pc \in {"shared", "greet"} =>
              conn'[c].pc \in {"shared", "greet"} \/ Silent(c),
           maker'.pc \in {"idle", "start"} => maker.pc \in {"idle", "start"} \/ Silent(Maker)
    PROVE  StagePart'
<1>1. Publishers'
  BY DEF StagePart, Publishers, Silent
<1>2. NoStageMissed'
  BY DEF StagePart, NoStageMissed, Told
<1>. QED BY <1>1, <1>2 DEF StagePart

\* A step that publishes a stage to all who listen.
LEMMA PublishMoves ==
    ASSUME TermInv, StagePart, NEW a \in Actor, NEW stage, Silent(a), Publishes(a, stage),
           a \in Conn => stage \in {"tmux", "ready"} /\ conn'[a].pc \in {"shared", "greet"},
           \A c \in Conn \ {a} : conn'[c] = conn[c],
           maker'.pc \in {"idle", "start"} => a # Maker /\ maker.pc \in {"idle", "start"}
    PROVE  StagePart'
<1>1. /\ history' = history \cup {stage} /\ UNCHANGED <<listeners, live>>
      /\ pub'[a] = [stage |-> stage, to |-> listeners]
      /\ \A b \in Actor \ {a} : pub'[b] = pub[b]
  BY Parts DEF Publishes, TrackerOK
<1>2. Maker \in Actor /\ Conn \subseteq Actor /\ Maker \notin Conn
  BY TerminalAssumption DEF Actor
<1>3. Publishers'
  BY <1>1, <1>2 DEF StagePart, Publishers, Silent
<1>4. ASSUME NEW c \in Conn, conn'[c].pc = "wait"
      PROVE  c # a /\ conn'[c] = conn[c] /\ c \in listeners
  BY <1>4 DEF StagePart
<1>5. NoStageMissed'
  <2>. SUFFICES ASSUME NEW c \in Conn, conn'[c].pc = "wait", NEW s \in Told(history') \ {"tmux"}
                PROVE  \/ s \in conn'[c].sent
                       \/ \E i \in DOMAIN live'[c] : live'[c][i] = s
                       \/ \E b \in Actor : pub'[b].stage = s /\ c \in pub'[b].to
    BY DEF NoStageMissed, Told
  <2>1. CASE s = stage
    BY <1>1, <1>4, <2>1
  <2>2. CASE s # stage
    <3>1. s \in Told(history) \ {"tmux"}
      BY <1>1, <2>2 DEF Told
    <3>. QED BY <1>1, <1>4, <3>1 DEF StagePart, NoStageMissed, Silent
  <2>. QED BY <2>1, <2>2
<1>. QED BY <1>1, <1>3, <1>4, <1>5 DEF StagePart

\* Manager.Create.
LEMMA MakerStages == ASSUME TermInv, StagePart, Create \/ MakerStep \/ Destroyed PROVE StagePart'
<1>1. maker.pc \in {"idle", "start", "provision", "made", "failed"} /\ conn' = conn
  BY Parts DEF WorkOK, Create, MakerStep, Pull, Provision, Tell, Register, DeleteRecord, Destroyed
<1>2. Maker \in Actor /\ Maker \notin Conn
  BY TerminalAssumption DEF Actor
<1>3. CASE Pull
  <2>1. Silent(Maker) /\ Publishes(Maker, "pull") /\ maker'.pc = "provision"
    BY <1>3, Parts DEF Pull, WorkOK, StagePart, Publishers
  <2>. QED BY <1>1, <1>2, <2>1, PublishMoves
<1>4. CASE Tell
  <2>1. Silent(Maker) /\ Publishes(Maker, Made[maker.todo]) /\ maker'.pc = "made"
    BY <1>4, Parts DEF Tell, WorkOK
  <2>. QED BY <1>1, <1>2, <2>1, PublishMoves
<1>5. CASE Provision /\ Publishes(Maker, "failed")
  <2>1. Silent(Maker) /\ maker'.pc \in {"made", "failed"}
    BY <1>5, Parts DEF Provision, WorkOK
  <2>. QED BY <1>1, <1>2, <1>5, <2>1, PublishMoves
<1>6. CASE \/ Create \/ Register \/ DeleteRecord \/ Destroyed
           \/ Provision /\ UNCHANGED progressVars
  <2>1. /\ UNCHANGED progressVars
        /\ maker'.pc \in {"idle", "start"} => maker.pc \in {"idle", "start"} \/ Silent(Maker)
    BY <1>6, Parts DEF Create, Register, DeleteRecord, Destroyed, Provision, WorkOK
  <2>. QED BY <1>1, <2>1, StageMoves DEF progressVars
<1>. QED BY <1>3, <1>4, <1>5, <1>6 DEF MakerStep, Provision

\* The channels of those who listen are sent to, one by one.
LEMMA SendStages == ASSUME TermInv, StagePart, NEW a \in Actor, Send(a) PROVE StagePart'
<1>1. PICK c \in pub[a].to :
        /\ live' = IF conn[c].pc = "wait" THEN [live EXCEPT ![c] = Append(@, pub[a].stage)]
                                          ELSE live
        /\ pub' = [pub EXCEPT ![a].to = @ \ {c}]
        /\ UNCHANGED <<maker, history, listeners, conn>>
  BY DEF Send
<1>2. /\ c \in Conn /\ pub[a].stage \in Stage /\ pub \in [Actor -> [stage: Stage, to: SUBSET Conn]]
      /\ live \in [Conn -> Seq(Stage)]
  BY Parts DEF TrackerOK
<1>3. /\ pub'[a].stage = pub[a].stage /\ pub'[a].to = pub[a].to \ {c}
      /\ \A b \in Actor \ {a} : pub'[b] = pub[b]
      /\ \A d \in Conn \ {c} : live'[d] = live[d]
      /\ conn[c].pc = "wait" => live'[c] = Append(live[c], pub[a].stage)
  BY <1>1, <1>2
<1>4. Maker \in Actor /\ Conn \subseteq Actor
  BY DEF Actor
<1>5. Publishers'
  BY <1>1, <1>3, <1>4 DEF StagePart, Publishers, Silent
<1>. DEFINE longer == Append(live[c], pub[a].stage)
<1>6. Holds(longer, pub[a].stage) /\ \A s : Holds(live[c], s) => Holds(longer, s)
  <2>1. live[c] \in Seq(Stage) /\ pub[a].stage \in Stage
    BY <1>2
  <2>. QED BY <2>1, QueueMoves, Zenon
<1>. HIDE DEF longer
<1>7. NoStageMissed'
  <2>. SUFFICES ASSUME NEW d \in Conn, conn[d].pc = "wait", NEW s \in Told(history) \ {"tmux"}
                PROVE  \/ s \in conn[d].sent \/ Holds(live'[d], s)
                       \/ \E b \in Actor : pub'[b].stage = s /\ d \in pub'[b].to
    BY <1>1 DEF NoStageMissed, Told, Holds
  <2>1. \/ s \in conn[d].sent \/ Holds(live[d], s)
        \/ \E b \in Actor : pub[b].stage = s /\ d \in pub[b].to
    BY DEF StagePart, NoStageMissed, Holds
  <2>0. d = c => live'[d] = longer
    BY <1>3 DEF longer
  <2>2. Holds(live[d], s) => Holds(live'[d], s)
    <3>1. CASE d = c
      BY <1>6, <2>0, <3>1
    <3>2. CASE d # c
      BY <1>3, <3>2
    <3>. QED BY <3>1, <3>2
  <2>3. d = c => Holds(live'[d], pub[a].stage)
    BY <1>6, <2>0
  <2>. QED BY <1>3, <2>1, <2>2, <2>3
<1>. QED BY <1>1, <1>5, <1>7 DEF StagePart

\* A handler that panics has published only what is not of the provisioning.
LEMMA PanicStages == ASSUME TermInv, StagePart, NEW a \in Actor, HandlerPanics(a) PROVE StagePart'
<1>1. /\ a \in Conn /\ pub' = [pub EXCEPT ![a].to = {}] /\ conn' = [conn EXCEPT ![a].pc = "leave"]
      /\ UNCHANGED <<maker, history, listeners, live>> /\ pub[a].to # {}
  BY DEF HandlerPanics
<1>2. /\ conn'[a].pc = "leave" /\ \A c \in Conn \ {a} : conn'[c] = conn[c]
      /\ pub'[a].to = {} /\ \A b \in Actor \ {a} : pub'[b] = pub[b]
  BY <1>1, Parts DEF TrackerOK, Handler
<1>3. Conn \subseteq Actor /\ Maker \in Actor \ {a}
  BY <1>1, TerminalAssumption DEF Actor
<1>4. Publishers'
  BY <1>1, <1>2, <1>3 DEF StagePart, Publishers, Silent
<1>5. NoStageMissed'
  <2>. SUFFICES ASSUME NEW d \in Conn, conn'[d].pc = "wait", NEW s \in Told(history) \ {"tmux"}
                PROVE  \/ s \in conn'[d].sent \/ \E i \in DOMAIN live[d] : live[d][i] = s
                       \/ \E b \in Actor : pub'[b].stage = s /\ d \in pub'[b].to
    BY <1>1 DEF NoStageMissed, Told
  <2>1. pub[a].stage # s
    BY <1>1 DEF StagePart, Publishers, Told
  <2>. QED BY <1>2, <2>1 DEF StagePart, NoStageMissed
<1>. QED BY <1>1, <1>2, <1>4, <1>5 DEF StagePart

\* The worker ends, and with it all that is published and all who wait.
LEMMA CrashStages == ASSUME TermInv, WorkerPanics PROVE StagePart'
<1>1. /\ \A c \in Conn : conn'[c] = Ended
      /\ \A a \in Actor : pub'[a] = Idle
  BY DEF WorkerPanics
<1>2. Conn \subseteq Actor /\ Maker \in Actor
  BY DEF Actor
<1>. QED BY <1>1, <1>2, EndedIs DEF StagePart, Publishers, NoStageMissed, Silent, Idle

\* A handler that goes on, without waiting.
LEMMA HandlerStages ==
    ASSUME TermInv, StagePart, NEW c \in Conn, NEW h, conn' = [conn EXCEPT ![c] = h],
           UNCHANGED <<maker, history, pub>>, \A d \in Conn \ {c} : live'[d] = live[d],
           \A d \in Conn \ {c} : d \in listeners => d \in listeners',
           h.pc # "wait", conn[c].pc \in {"shared", "greet"} => Silent(c)
    PROVE  StagePart'
<1>1. conn'[c] = h /\ \A d \in Conn \ {c} : conn'[d] = conn[d]
  BY Parts
<1>. QED BY <1>1, StageMoves

\* The events before the subscription come from the history.
LEMMA ListenStages == ASSUME TermInv, StagePart, NEW c \in Conn, Listen(c) PROVE StagePart'
<1>1. /\ conn' = [conn EXCEPT ![c] = [Showing(c, Told(history)) EXCEPT !.pc = "wait"]]
      /\ UNCHANGED <<maker, history, live, pub>> /\ listeners' = listeners \cup {c}
      /\ conn[c].pc = "listen"
  BY DEF Listen
<1>2. /\ conn'[c].pc = "wait" /\ Told(history) \subseteq conn'[c].sent
      /\ \A d \in Conn \ {c} : conn'[d] = conn[d]
  BY <1>1, Parts DEF Showing, Handler
<1>3. Publishers'
  BY <1>1, <1>2 DEF StagePart, Publishers, Silent
<1>4. NoStageMissed'
  <2>. SUFFICES ASSUME NEW d \in Conn, conn'[d].pc = "wait", NEW s \in Told(history) \ {"tmux"}
                PROVE  \/ s \in conn'[d].sent \/ Holds(live'[d], s)
                       \/ \E b \in Actor : pub[b].stage = s /\ d \in pub[b].to
    BY <1>1 DEF NoStageMissed, Told, Holds
  <2>1. CASE d = c
    BY <1>2, <2>1
  <2>2. CASE d # c
    BY <1>1, <1>2, <2>2 DEF StagePart, NoStageMissed, Holds
  <2>. QED BY <2>1, <2>2
<1>. QED BY <1>1, <1>2, <1>3, <1>4 DEF StagePart

\* The head of the channel is sent to the WebSocket.
LEMMA LiveStages == ASSUME TermInv, StagePart, NEW c \in Conn, Live(c) PROVE StagePart'
<1>1. /\ conn' = [conn EXCEPT ![c] = Showing(c, Told({Head(live[c])}))]
      /\ live' = [live EXCEPT ![c] = Tail(@)] /\ live[c] # <<>> /\ conn[c].pc = "wait"
      /\ UNCHANGED <<maker, history, listeners, pub>>
  BY DEF Live
<1>2. /\ conn'[c].pc = "wait" /\ conn[c].sent \cup Told({Head(live[c])}) \subseteq conn'[c].sent
      /\ \A d \in Conn \ {c} : conn'[d] = conn[d] /\ live'[d] = live[d]
      /\ live'[c] = Tail(live[c]) /\ live[c] \in Seq(Stage)
  BY <1>1, Parts DEF Showing, Handler, TrackerOK
<1>3. Publishers'
  BY <1>1, <1>2 DEF StagePart, Publishers, Silent
<1>4. NoStageMissed'
  <2>. SUFFICES ASSUME NEW d \in Conn, conn'[d].pc = "wait", NEW s \in Told(history) \ {"tmux"}
                PROVE  \/ s \in conn'[d].sent \/ Holds(live'[d], s)
                       \/ \E b \in Actor : pub[b].stage = s /\ d \in pub[b].to
    BY <1>1 DEF NoStageMissed, Told, Holds
  <2>1. \/ s \in conn[d].sent \/ Holds(live[d], s)
        \/ \E b \in Actor : pub[b].stage = s /\ d \in pub[b].to
    BY <1>1, <1>2 DEF StagePart, NoStageMissed, Holds
  <2>2. ASSUME d = c, Holds(live[c], s)
        PROVE  s \in conn'[c].sent \/ Holds(live'[c], s)
    <3>1. s = Head(live[c]) \/ Holds(Tail(live[c]), s)
      <4>1. s \in Stage
        BY Parts DEF TrackerOK, Told
      <4>. QED BY <1>1, <1>2, <2>2, <4>1, QueueMoves
    <3>. QED BY <1>2, <3>1 DEF Told
  <2>. QED BY <1>2, <2>1, <2>2
<1>. QED BY <1>1, <1>2, <1>3, <1>4 DEF StagePart

\* TMUX_ATTACHED and READY are published by the handlers.
LEMMA AttachStages == ASSUME TermInv, StagePart, NEW c \in Conn, Attach(c) PROVE StagePart'
<1>1. /\ conn' = [conn EXCEPT ![c] = [Showing(c, {"tmux"}) EXCEPT !.pc = "shared"]]
      /\ conn[c].pc = "tmux" /\ maker' = maker
  BY DEF Attach
<1>2. conn'[c].pc = "shared" /\ \A d \in Conn \ {c} : conn'[d] = conn[d]
  BY <1>1, Parts DEF Showing, Handler
<1>3. Silent(c) /\ c \in Actor /\ c # Maker
  BY <1>1, TerminalAssumption DEF StagePart, Publishers, Actor
<1>4. CASE UNCHANGED progressVars
  BY <1>1, <1>2, <1>3, <1>4, StageMoves DEF progressVars
<1>5. CASE Publishes(c, "tmux")
  BY <1>1, <1>2, <1>3, <1>5, PublishMoves DEF StagePart, Publishers
<1>. QED BY <1>4, <1>5 DEF Attach

\* The tmux stage is announced again: the watchers are told once more.
LEMMA AnnounceStages == ASSUME TermInv, StagePart, NEW c \in Conn, Announce(c) PROVE StagePart'
<1>1. conn' = [conn EXCEPT ![c].pc = "greet"] /\ conn[c].pc = "ready" /\ maker' = maker
  BY DEF Announce, Goto
<1>2. conn'[c].pc = "greet" /\ \A d \in Conn \ {c} : conn'[d] = conn[d]
  BY <1>1, Parts DEF Handler
<1>3. Silent(c) /\ c \in Actor /\ c # Maker /\ Publishes(c, "ready")
  BY <1>1, TerminalAssumption DEF StagePart, Publishers, Actor, Announce
<1>. QED BY <1>1, <1>2, <1>3, PublishMoves

\* The steps of a handler that publish nothing.
LEMMA QuietStages ==
    ASSUME TermInv, StagePart, NEW c \in Conn,
           \/ Ask(c) \/ Flush(c) \/ Join(c) \/ Enter(c) \/ Start(c) \/ StartFails(c) \/ Greet(c)
           \/ Bridged(c) \/ Return(c) \/ Tick(c) \/ TimeOut(c)
    PROVE  StagePart'
<1>1. conn[c] \in Handler /\ conn \in [Conn -> Handler] /\ live \in [Conn -> Seq(Stage)]
  BY Parts DEF TrackerOK
<1>2. CASE Ask(c)
  <2>1. PICK data \in {"none", "error", "provisioning", "running"} :
          conn' = [conn EXCEPT ![c] = [conn[c] EXCEPT !.pc = "asked", !.data = data]]
    BY <1>2, Parts DEF Ask, WorkOK
  <2>2. [conn[c] EXCEPT !.pc = "asked", !.data = data].pc = "asked"
    BY <1>1 DEF Handler
  <2>3. UNCHANGED <<maker, history, pub, live, listeners>> /\ conn[c].pc = "off"
    BY <1>2 DEF Ask, progressVars
  <2>. QED BY <2>1, <2>2, <2>3, HandlerStages
<1>3. CASE Flush(c)
  <2>1. PICK next \in {"done", "tmux", "listen"} :
          conn' = [conn EXCEPT ![c] =
                     IF next = "done" THEN Ended
                     ELSE [Showing(c, Told(history)) EXCEPT !.pc = next, !.data = "none"]]
    BY <1>3 DEF Flush
  <2>. DEFINE h == IF next = "done" THEN Ended
                   ELSE [Showing(c, Told(history)) EXCEPT !.pc = next, !.data = "none"]
  <2>2. h.pc \in {"done", "tmux", "listen"}
    BY <1>1, <2>1, EndedIs DEF Showing, Handler
  <2>3. UNCHANGED <<maker, history, pub, live, listeners>> /\ conn[c].pc = "asked"
    BY <1>3 DEF Flush, progressVars
  <2>4. conn' = [conn EXCEPT ![c] = h]
    BY <2>1
  <2>. HIDE DEF h
  <2>. QED BY <2>2, <2>3, <2>4, HandlerStages
<1>4. CASE Join(c) \/ Enter(c) \/ Start(c)
  <2>1. /\ UNCHANGED <<maker, history, pub, live, listeners>>
        /\ conn[c].pc \in {"shared", "greet"} => Silent(c)
    BY <1>4 DEF Join, Enter, Start, progressVars
  <2>2. conn'[c].pc # "wait" /\ \A d \in Conn \ {c} : conn'[d] = conn[d]
    <3>1. CASE Join(c)
      <4>1. entry \in Pty /\ Subscribe(c, entry) /\ conn[c].pc \in Owned
        BY <3>1, Parts DEF Join, RegistryOK, Owned
      <4>. QED BY <4>1, SubscribeKeeps
    <3>2. CASE Enter(c)
      <4>1. conn' = [conn EXCEPT ![c] = [conn[c] EXCEPT !.pc = "starting"]]
        BY <3>2, GotoIs DEF Enter
      <4>. QED BY <1>1, <4>1, SetPc
    <3>3. CASE Start(c)
      <4>1. count.ptys + 1 \in Pty /\ Subscribe(c, count.ptys + 1) /\ conn[c].pc \in Owned
        BY <3>3, Parts, TerminalAssumption DEF Start, WorkOK, Pty, Owned
      <4>. QED BY <4>1, SubscribeKeeps
    <3>. QED BY <1>4, <3>1, <3>2, <3>3
  <2>. QED BY <2>1, <2>2, StageMoves
<1>5. CASE StartFails(c) \/ Bridged(c)
  <2>1. conn' = [conn EXCEPT ![c] = [conn[c] EXCEPT !.pc = "leave"]]
    BY <1>5, GotoIs DEF StartFails, Bridged
  <2>2. [conn[c] EXCEPT !.pc = "leave"].pc = "leave"
    BY SetPc
  <2>3. UNCHANGED <<maker, history, pub, live, listeners>> /\ conn[c].pc \in {"starting", "open"}
    BY <1>5 DEF StartFails, Bridged, progressVars
  <2>. QED BY <2>1, <2>2, <2>3, HandlerStages
<1>6. CASE Greet(c)
  <2>. DEFINE h == [Showing(c, {"ready"}) EXCEPT !.pc = "open", !.reader = TRUE, !.writer = TRUE]
  <2>1. conn' = [conn EXCEPT ![c] = h] /\ Silent(c) /\ UNCHANGED <<maker, history, pub, live, listeners>>
    BY <1>6 DEF Greet, progressVars
  <2>2. h.pc = "open"
    BY <1>1 DEF Showing, Handler
  <2>. HIDE DEF h
  <2>. QED BY <2>1, <2>2, HandlerStages
<1>7. CASE Return(c)
  <2>1. /\ conn' = [conn EXCEPT ![c] = Ended] /\ conn[c].pc = "leave"
        /\ UNCHANGED <<maker, history, pub, live>> /\ listeners' = listeners \ {c}
    BY <1>7 DEF Return
  <2>. QED BY <2>1, EndedIs, HandlerStages
<1>8. CASE Tick(c) \/ TimeOut(c)
  <2>1. PICK pc \in {"tmux", "leave"} : Goto(c, pc)
    BY <1>8 DEF Tick, TimeOut
  <2>2. conn' = [conn EXCEPT ![c] = [conn[c] EXCEPT !.pc = pc]] /\ [conn[c] EXCEPT !.pc = pc].pc = pc
    BY <2>1, GotoIs, SetPc
  <2>3. /\ UNCHANGED <<maker, history, pub, listeners>> /\ live' = [live EXCEPT ![c] = <<>>]
        /\ conn[c].pc = "wait"
    BY <1>8 DEF Tick, TimeOut
  <2>4. \A d \in Conn \ {c} : live'[d] = live[d]
    BY <1>1, <2>3
  <2>. QED BY <2>2, <2>3, <2>4, HandlerStages
<1>. QED BY <1>2, <1>3, <1>4, <1>5, <1>6, <1>7, <1>8

\* The bridge and the PTYs have nothing to do with the stages.
LEMMA BridgeStages ==
    ASSUME TermInv, StagePart,
           \/ \E c \in Conn : ClientLeaves(c) \/ Write(c) \/ WriterEnds(c) \/ ReaderEnds(c)
           \/ \E p \in Pty : Output(p) \/ PtyEnds(p) \/ PtyStep(p)
    PROVE  StagePart'
<1>1. UNCHANGED <<maker, history, listeners, live, shut, pub>>
  BY DEF ClientLeaves, Write, WriterEnds, ReaderEnds, Output, PtyEnds, PtyStep, Broadcast,
         BroadcastDone, CloseSubscribers, Forget, progressVars
<1>2. \/ conn' = conn
      \/ \E c \in Conn : /\ conn[c].pc = "open"
                         /\ \/ conn' = [conn EXCEPT ![c].writer = FALSE]
                            \/ conn' = [conn EXCEPT ![c].reader = FALSE]
  BY DEF ClientLeaves, Write, WriterEnds, ReaderEnds, Output, PtyEnds, PtyStep, Broadcast,
         BroadcastDone, CloseSubscribers, Forget
<1>3. \A d \in Conn : conn'[d].pc = conn[d].pc /\ conn'[d].sent = conn[d].sent
  BY <1>2, Parts DEF Handler
<1>. QED BY <1>1, <1>3, StageMoves

\* Every step of the terminal keeps what is known of the stages,
LEMMA StageStep == TermInv /\ StagePart /\ [TermNext]_termVars => StagePart'
<1>. SUFFICES ASSUME TermInv, StagePart, [TermNext]_termVars PROVE StagePart'
  OBVIOUS
<1>1. CASE UNCHANGED termVars
  BY <1>1, StageMoves DEF termVars, progressVars
<1>2. CASE \E c \in Conn : Ask(c) \/ HandlerStep(c) \/ Waiting(c)
  BY <1>2, ListenStages, LiveStages, AttachStages, AnnounceStages, QuietStages
     DEF HandlerStep, Waiting
<1>. QED BY <1>1, <1>2, MakerStages, SendStages, PanicStages, CrashStages, BridgeStages DEF TermNext

-----------------------------------------------------------------------------
(* The output                                                               *)

\* What a step does to a handler: it stays at the PTY, goes its way before it has one or
\* after it, joins one, or is told READY.
Stays(c) ==
    /\ conn'[c].pc = conn[c].pc \/ (conn[c].pc = "ready" /\ conn'[c].pc = "greet")
    /\ conn'[c].pty = conn[c].pty /\ conn'[c].since = conn[c].since
    /\ "ready" \in conn'[c].sent => "ready" \in conn[c].sent
Passes(c) ==
    \/ conn'[c].pc \in {"leave", "done"}
    \/ /\ conn[c].pc \in Before \cup Owned /\ conn'[c].pc \in Before \cup Owned
       /\ "ready" \in conn'[c].sent => "ready" \in conn[c].sent
Joins(c) ==
    /\ conn[c].pc \in Owned /\ conn'[c].pc = "ready" /\ conn'[c].sent = conn[c].sent
    /\ conn'[c].pty \in Pty /\ c \in subs'[conn'[c].pty]
IsTold(c) ==
    /\ conn[c].pc = "greet" /\ conn'[c].pc = "open" /\ conn'[c].pty = conn[c].pty
    /\ conn'[c].since = Len(chunks)

\* A step that reads no chunk.
LEMMA OutMoves ==
    ASSUME TermInv, OutPart, chunks' = chunks,
           \A c \in Conn : Stays(c) \/ Passes(c) \/ Joins(c) \/ IsTold(c),
           \A c \in Conn : left[c] => left'[c],
           \A p \in Pty, c \in Conn :
              c \in subs[p] => \/ c \in subs'[p] \/ pty'[p].pc \in {"closed", "gone"}
                               \/ (left'[c] /\ conn[c].pc = "open")
                               \/ conn'[c].pc \in {"leave", "done"},
           \A p \in Pty : /\ pty[p].pc \in {"closed", "gone"} => pty'[p].pc \in {"closed", "gone"}
                          /\ p > count'.ptys => p > count.ptys
                                                /\ (pty[p].pc = "none" => pty'[p].pc = "none"),
           \A c \in Conn, k \in 1 .. Len(chunks) : Seen(c, k) => Seen(c, k)'
    PROVE  OutPart'
<1>1. ASSUME NEW c \in Conn
      PROVE  Attached(c)'
  <2>1. Attached(c)
    BY DEF OutPart
  <2>2. CASE Stays(c)
    BY <2>1, <2>2 DEF Attached, Stays
  <2>3. CASE Passes(c)
    BY <2>1, <2>3 DEF Attached, Passes, Before, Owned
  <2>4. CASE Joins(c)
    BY <2>1, <2>4 DEF Attached, Joins, Owned
  <2>5. CASE IsTold(c)
    BY <2>1, <2>5 DEF Attached, IsTold
  <2>. QED BY <2>2, <2>3, <2>4, <2>5
<1>2. ASSUME NEW c \in Conn
      PROVE  Received(c)'
  <2>1. Attached(c) /\ Received(c)
    BY DEF OutPart
  <2>2. /\ Len(chunks) \in Nat
        /\ conn[c].since \in Nat
    BY Parts, TerminalAssumption DEF OutputOK, Handler
  <2>3. CASE Stays(c)
    <3>. SUFFICES ASSUME "ready" \in conn'[c].sent, ~left'[c], conn'[c].pc \notin {"leave", "done"},
                         NEW k \in conn'[c].since + 1 .. Len(chunks), chunks[k] = conn'[c].pty
                  PROVE  Seen(c, k)'
      BY DEF Received
    <3>1. Seen(c, k) /\ k \in 1 .. Len(chunks)
      BY <2>1, <2>2, <2>3 DEF Received, Stays, Attached
    <3>. QED BY <3>1
  <2>4. CASE Passes(c) \/ Joins(c)
    BY <2>1, <2>4 DEF Received, Attached, Passes, Joins, Before, Owned
  <2>5. CASE IsTold(c)
    BY <2>2, <2>5 DEF Received, IsTold
  <2>. QED BY <2>3, <2>4, <2>5
<1>3. \A p \in Pty : p > count'.ptys => pty'[p].pc = "none"
  BY DEF OutPart
<1>. QED BY <1>1, <1>2, <1>3 DEF OutPart

\* The steps that leave the PTYs and the output alone.
LEMMA OutFrame ==
    ASSUME TermInv, OutPart, UNCHANGED outputVars, count'.ptys = count.ptys,
           \A c \in Conn : Stays(c) \/ Passes(c) \/ IsTold(c),
           \A c \in Conn : left[c] => left'[c]
    PROVE  OutPart'
<1>1. \A c \in Conn, k \in 1 .. Len(chunks) : Seen(c, k) => Seen(c, k)'
  BY DEF outputVars, Seen
<1>. QED BY <1>1, OutMoves DEF outputVars

\* The places of the handlers whose record is not written.
LEMMA OthersStay == ASSUME NEW c \in Conn, conn'[c] = conn[c] PROVE Stays(c)
BY DEF Stays

\* A handler that has no PTY yet is not told READY.
LEMMA EarlyPasses ==
    ASSUME TermInv, NEW c \in Conn,
           Ask(c) \/ Flush(c) \/ Listen(c) \/ Attach(c) \/ Enter(c) \/ Waiting(c)
    PROVE  Passes(c) /\ \A d \in Conn \ {c} : conn'[d] = conn[d]
<1>1. conn \in [Conn -> Handler] /\ conn[c] \in Handler
  BY Parts
<1>2. ASSUME NEW h, conn' = [conn EXCEPT ![c] = h], conn[c].pc \in Before \cup Owned,
             \/ h.pc \in {"leave", "done"}
             \/ h.pc \in Before \cup Owned /\ ("ready" \in h.sent => "ready" \in conn[c].sent)
      PROVE  Passes(c) /\ \A d \in Conn \ {c} : conn'[d] = conn[d]
  BY <1>1, <1>2 DEF Passes
<1>3. ASSUME NEW stages, "ready" \notin stages
      PROVE  /\ Showing(c, stages) = [conn[c] EXCEPT !.sent = @ \cup stages]
             /\ Showing(c, stages).pc = conn[c].pc
             /\ "ready" \in Showing(c, stages).sent => "ready" \in conn[c].sent
  BY <1>1, <1>3 DEF Showing, Handler
<1>4. CASE Ask(c)
  <2>1. PICK data : conn' = [conn EXCEPT ![c] = [conn[c] EXCEPT !.pc = "asked", !.data = data]]
    BY <1>1, <1>4 DEF Ask
  <2>. DEFINE h == [conn[c] EXCEPT !.pc = "asked", !.data = data]
  <2>2. h.pc = "asked" /\ h.sent = conn[c].sent
    BY <1>1 DEF Handler
  <2>3. conn' = [conn EXCEPT ![c] = h] /\ conn[c].pc = "off"
    BY <1>4, <2>1 DEF Ask
  <2>. HIDE DEF h
  <2>. QED BY <1>2, <2>2, <2>3 DEF Before
<1>5. CASE Flush(c)
  <2>1. PICK next \in {"done", "tmux", "listen"} :
          conn' = [conn EXCEPT ![c] =
                     IF next = "done" THEN Ended
                     ELSE [Showing(c, Told(history)) EXCEPT !.pc = next, !.data = "none"]]
    BY <1>5 DEF Flush
  <2>. DEFINE h == IF next = "done" THEN Ended
                   ELSE [Showing(c, Told(history)) EXCEPT !.pc = next, !.data = "none"]
  <2>2. h.pc = next /\ (next # "done" => ("ready" \in h.sent => "ready" \in conn[c].sent))
    BY <1>1, EndedIs DEF Showing, Handler, Told
  <2>3. conn' = [conn EXCEPT ![c] = h] /\ conn[c].pc = "asked"
    BY <1>5, <2>1 DEF Flush
  <2>. HIDE DEF h
  <2>. QED BY <1>2, <2>1, <2>2, <2>3 DEF Before, Owned
<1>6. CASE Listen(c)
  <2>. DEFINE stages == Told(history)
              h == [Showing(c, stages) EXCEPT !.pc = "wait"]
  <2>1. "ready" \notin stages
    BY DEF Told
  <2>2. conn' = [conn EXCEPT ![c] = h] /\ conn[c].pc = "listen"
    BY <1>6 DEF Listen
  <2>. HIDE DEF stages
  <2>3. h.pc = "wait" /\ ("ready" \in h.sent => "ready" \in conn[c].sent)
    BY <1>1, <2>1 DEF Showing, Handler
  <2>. HIDE DEF h
  <2>. QED BY <1>2, <2>2, <2>3 DEF Before, Owned
<1>9. CASE Attach(c)
  <2>. DEFINE stages == {"tmux"}
              h == [Showing(c, stages) EXCEPT !.pc = "shared"]
  <2>1. "ready" \notin stages
    OBVIOUS
  <2>2. conn' = [conn EXCEPT ![c] = h] /\ conn[c].pc = "tmux"
    BY <1>9 DEF Attach
  <2>. HIDE DEF stages
  <2>3. h.pc = "shared" /\ ("ready" \in h.sent => "ready" \in conn[c].sent)
    BY <1>1, <2>1 DEF Showing, Handler
  <2>. HIDE DEF h
  <2>. QED BY <1>2, <2>2, <2>3 DEF Before, Owned
<1>7. CASE Live(c)
  <2>. DEFINE h == Showing(c, Told({Head(live[c])}))
  <2>1. conn' = [conn EXCEPT ![c] = h] /\ conn[c].pc = "wait"
    BY <1>7 DEF Live
  <2>2. h.pc = "wait" /\ ("ready" \in h.sent => "ready" \in conn[c].sent)
    BY <1>3, <2>1 DEF Told
  <2>. HIDE DEF h
  <2>. QED BY <1>2, <2>1, <2>2 DEF Before
<1>8. CASE Enter(c) \/ Tick(c) \/ TimeOut(c)
  <2>1. PICK pc \in {"starting", "tmux", "leave"} : Goto(c, pc)
    BY <1>8 DEF Enter, Tick, TimeOut
  <2>. DEFINE h == [conn[c] EXCEPT !.pc = pc]
  <2>2. conn' = [conn EXCEPT ![c] = h] /\ h.pc = pc /\ h.sent = conn[c].sent
    BY <1>1, <2>1, GotoIs DEF Handler
  <2>3. conn[c].pc \in {"shared", "wait"}
    BY <1>8 DEF Enter, Tick, TimeOut
  <2>. HIDE DEF h
  <2>. QED BY <1>2, <2>1, <2>2, <2>3 DEF Before, Owned
<1>. QED BY <1>4, <1>5, <1>6, <1>7, <1>8, <1>9 DEF Waiting

\* Every step of a handler but those that change the PTYs, its output or its subscription.
LEMMA QuietOut ==
    ASSUME TermInv, OutPart,
           \/ Create \/ MakerStep \/ Destroyed
           \/ \E a \in Actor : Send(a) \/ HandlerPanics(a)
           \/ \E c \in Conn : \/ Ask(c) \/ Flush(c) \/ Listen(c) \/ Attach(c) \/ Enter(c) \/ StartFails(c)
                              \/ Announce(c) \/ Greet(c) \/ Bridged(c) \/ Waiting(c) \/ WriterEnds(c)
                              \/ ClientLeaves(c)
    PROVE  OutPart'
<1>1. conn \in [Conn -> Handler] /\ left \in [Conn -> BOOLEAN]
      /\ count \in [creates: 0 .. MaxCreates, ptys: 0 .. MaxPtys, faults: 0 .. MaxFailures]
  BY Parts DEF FlagsOK, WorkOK
<1>2. CASE Create \/ MakerStep \/ Destroyed \/ \E a \in Actor : Send(a)
  <2>1. UNCHANGED <<conn, left, outputVars>> /\ count'.ptys = count.ptys
    BY <1>1, <1>2 DEF Create, MakerStep, Pull, Provision, Tell, Register, DeleteRecord, Destroyed,
                      Send, Fails
  <2>. QED BY <2>1, OutFrame, OthersStay
<1>3. ASSUME NEW a \in Actor, HandlerPanics(a)
      PROVE  OutPart'
  <2>1. /\ conn' = [conn EXCEPT ![a].pc = "leave"] /\ a \in Conn
        /\ UNCHANGED <<left, outputVars, count>>
    BY <1>3 DEF HandlerPanics
  <2>2. conn'[a].pc = "leave" /\ \A d \in Conn \ {a} : conn'[d] = conn[d]
    BY <1>1, <2>1 DEF Handler
  <2>. QED BY <2>1, <2>2, OutFrame, OthersStay DEF Passes
<1>4. ASSUME NEW c \in Conn, Ask(c) \/ Flush(c) \/ Listen(c) \/ Attach(c) \/ Enter(c) \/ Waiting(c)
      PROVE  OutPart'
  <2>1. UNCHANGED <<left, outputVars>> /\ count'.ptys = count.ptys
    BY <1>1, <1>4 DEF Ask, Flush, Listen, Attach, Enter, Waiting, Live, Tick, TimeOut, Fails
  <2>2. Passes(c) /\ \A d \in Conn \ {c} : conn'[d] = conn[d]
    BY <1>4, EarlyPasses
  <2>. QED BY <2>1, <2>2, OutFrame, OthersStay
<1>5. ASSUME NEW c \in Conn, StartFails(c) \/ Bridged(c)
      PROVE  OutPart'
  <2>1. UNCHANGED <<left, outputVars>> /\ count'.ptys = count.ptys
    BY <1>1, <1>5 DEF StartFails, Bridged, Fails
  <2>2. conn'[c].pc = "leave" /\ \A d \in Conn \ {c} : conn'[d] = conn[d]
    BY <1>1, <1>5 DEF StartFails, Bridged, Goto, Handler
  <2>. QED BY <2>1, <2>2, OutFrame, OthersStay DEF Passes
<1>6. ASSUME NEW c \in Conn, Announce(c) \/ WriterEnds(c) \/ ClientLeaves(c)
      PROVE  OutPart'
  <2>1. UNCHANGED <<outputVars, count>> /\ \A d \in Conn : left[d] => left'[d]
    BY <1>1, <1>6 DEF Announce, WriterEnds, ClientLeaves
  <2>2. /\ Stays(c) /\ \A d \in Conn \ {c} : conn'[d] = conn[d]
    BY <1>1, <1>6 DEF Announce, WriterEnds, ClientLeaves, Goto, Handler, Stays
  <2>. QED BY <2>1, <2>2, OutFrame, OthersStay
<1>7. ASSUME NEW c \in Conn, Greet(c)
      PROVE  OutPart'
  <2>1. UNCHANGED <<left, outputVars, count>> /\ \A d \in Conn \ {c} : conn'[d] = conn[d]
    BY <1>1, <1>7 DEF Greet
  <2>2. "ready" \notin conn[c].sent
    BY <1>7 DEF Greet, OutPart, Attached
  <2>3. IsTold(c)
    BY <1>1, <1>7, <2>2 DEF Greet, IsTold, Showing, Handler
  <2>. QED BY <2>1, <2>3, OutFrame, OthersStay
<1>. QED BY <1>2, <1>3, <1>4, <1>5, <1>6, <1>7

\* A handler subscribes to the PTY that it finds or starts.
LEMMA JoinOut == ASSUME TermInv, OutPart, NEW c \in Conn, Join(c) \/ Start(c) PROVE OutPart'
<1>1. PICK p \in Pty :
        /\ Subscribe(c, p) /\ conn[c].pc \in Owned /\ left' = left
        /\ \/ pty' = pty /\ count' = count
           \/ /\ pty' = [pty EXCEPT ![p].pc = "read"] /\ p = count.ptys + 1
              /\ count' = [count EXCEPT !.ptys = @ + 1]
  <2>1. CASE Join(c)
    BY <2>1, Parts DEF Join, RegistryOK, Owned
  <2>2. CASE Start(c)
    <3>1. count.ptys + 1 \in Pty
      BY <2>2, Parts, TerminalAssumption DEF Start, WorkOK, Pty
    <3>. QED BY <2>2, <3>1 DEF Start, Owned
  <2>. QED BY <2>1, <2>2
<1>2. /\ UNCHANGED <<out, closed, passed, chunks>> /\ conn'[c].pc = "ready"
      /\ \A d \in Conn \ {c} : conn'[d] = conn[d]
      /\ subs'[p] = subs[p] \cup {c} /\ \A q \in Pty \ {p} : subs'[q] = subs[q]
  BY <1>1, SubscribeKeeps
<1>3. Joins(c)
  BY <1>1, <1>2, Parts DEF Joins, Subscribe, Handler
<1>4. count.ptys \in Nat /\ \A q \in Pty : q \in Nat /\ pty'[q].chunk = pty[q].chunk /\ pty'[q].to = pty[q].to
  <2>1. count.ptys \in Nat /\ \A q \in Pty : q \in Nat
    BY Parts, TerminalAssumption DEF WorkOK, Pty
  <2>2. \A q \in Pty : pty'[q].chunk = pty[q].chunk /\ pty'[q].to = pty[q].to
    BY <1>1, Parts DEF RegistryOK
  <2>. QED BY <2>1, <2>2
<1>5. \A q \in Pty : /\ pty[q].pc \in {"closed", "gone"} => pty'[q].pc \in {"closed", "gone"}
                     /\ q > count'.ptys => q > count.ptys
                                           /\ (pty[q].pc = "none" => pty'[q].pc = "none")
  <2>1. CASE pty' = pty /\ count' = count
    BY <2>1
  <2>2. CASE /\ pty' = [pty EXCEPT ![p].pc = "read"] /\ p = count.ptys + 1
             /\ count' = [count EXCEPT !.ptys = @ + 1]
    <3>1. /\ \A q \in Pty \ {p} : pty'[q] = pty[q]
          /\ count'.ptys = count.ptys + 1
      BY <2>2, Parts DEF RegistryOK, WorkOK
    <3>2. pty[p].pc = "none"
      BY <1>4, <2>2 DEF OutPart
    <3>. QED BY <1>4, <2>2, <3>1, <3>2
  <2>. QED BY <1>1, <2>1, <2>2
<1>6. \A d \in Conn, k \in 1 .. Len(chunks) : Seen(d, k) => Seen(d, k)'
  <2>1. chunks \in Seq(Pty)
    BY Parts DEF OutputOK
  <2>. QED BY <1>2, <1>4, <2>1 DEF Seen
<1>. QED BY <1>1, <1>2, <1>3, <1>5, <1>6, OutMoves, OthersStay

\* A connection that leaves is unsubscribed, and its channel closed.
LEMMA LeaveOut == ASSUME TermInv, OutPart, NEW c \in Conn, ReaderEnds(c) \/ Return(c) PROVE OutPart'
<1>1. /\ Unsubscribe(c) /\ UNCHANGED <<left, count>>
      /\ \/ conn[c].pc = "open" /\ left[c] /\ conn' = [conn EXCEPT ![c].reader = FALSE]
         \/ conn[c].pc = "leave" /\ conn' = [conn EXCEPT ![c] = Ended]
  BY DEF ReaderEnds, Return
<1>2. /\ UNCHANGED <<pty, out, passed, chunks>>
      /\ \A p \in Pty, d \in Conn \ {c} : d \in subs[p] => d \in subs'[p]
  BY <1>1, Parts DEF Unsubscribe, RegistryOK
<1>3. /\ \A d \in Conn \ {c} : conn'[d] = conn[d]
      /\ Stays(c) \/ Passes(c)
  BY <1>1, EndedIs, Parts DEF Stays, Passes, Handler
<1>4. (conn[c].pc = "open" /\ left[c]) \/ conn'[c].pc = "done"
  BY <1>1, EndedIs, Parts
<1>5. \A d \in Conn, k \in 1 .. Len(chunks) : Seen(d, k) => Seen(d, k)'
  BY <1>2 DEF Seen
<1>. QED BY <1>1, <1>2, <1>3, <1>4, <1>5, OutMoves, OthersStay

\* A chunk goes from the channel to the WebSocket.
LEMMA WriteOut == ASSUME TermInv, OutPart, NEW c \in Conn, Write(c) PROVE OutPart'
<1>1. /\ out' = [out EXCEPT ![c] = Tail(@)] /\ out[c] # <<>>
      /\ passed' = [passed EXCEPT ![c] = @ \cup {Head(out[c])}]
      /\ UNCHANGED <<left, pty, subs, chunks, count>>
      /\ conn' = conn \/ conn' = [conn EXCEPT ![c].writer = FALSE]
  BY DEF Write
<1>2. Stays(c) /\ \A d \in Conn \ {c} : conn'[d] = conn[d]
  BY <1>1, Parts DEF Stays, Handler
<1>3. /\ out'[c] = Tail(out[c]) /\ passed'[c] = passed[c] \cup {Head(out[c])}
      /\ \A d \in Conn \ {c} : out'[d] = out[d] /\ passed'[d] = passed[d]
      /\ out[c] \in Seq(1 .. MaxChunks)
  BY <1>1, Parts DEF OutputOK
<1>4. \A k \in 1 .. Len(chunks) : Holds(out[c], k) => k = Head(out[c]) \/ Holds(Tail(out[c]), k)
  <2>1. 1 .. Len(chunks) \subseteq 1 .. MaxChunks
    BY Parts, TerminalAssumption DEF OutputOK
  <2>. QED BY <1>1, <1>3, <2>1, QueueMoves
<1>5. \A d \in Conn, k \in 1 .. Len(chunks) : Seen(d, k) => Seen(d, k)'
  BY <1>1, <1>3, <1>4 DEF Seen
<1>. QED BY <1>1, <1>2, <1>5, OutMoves, OthersStay

\* A chunk is read, and to be sent to all subscribers.
LEMMA OutputOut == ASSUME TermInv, OutPart, NEW p \in Pty, Output(p) PROVE OutPart'
<1>. DEFINE n == Len(chunks) + 1
<1>1. /\ pty[p].pc = "read" /\ chunks' = Append(chunks, p)
      /\ pty' = [pty EXCEPT ![p] = [pc |-> "send", to |-> subs[p], chunk |-> n]]
      /\ UNCHANGED <<conn, left, subs, out, passed, count>>
  BY DEF Output
<1>2. /\ chunks \in Seq(Pty) /\ Len(chunks) \in Nat /\ Len(chunks') = n /\ chunks'[n] = p
      /\ \A k \in 1 .. Len(chunks) : chunks'[k] = chunks[k] /\ chunks[k] \in Pty
  BY <1>1, Parts DEF OutputOK
<1>3. /\ pty'[p] = [pc |-> "send", to |-> subs[p], chunk |-> n]
      /\ \A q \in Pty \ {p} : pty'[q] = pty[q]
      /\ pty[p].to = {}
  BY <1>1, Parts DEF RegistryOK, TermInv, TermSafe, Sending
<1>4. \A c \in Conn, k \in 1 .. Len(chunks) : Seen(c, k) => Seen(c, k)'
  BY <1>1, <1>2, <1>3 DEF Seen
<1>5. ASSUME NEW c \in Conn
      PROVE  Attached(c)'
  BY <1>1, <1>3 DEF OutPart, Attached
<1>6. ASSUME NEW c \in Conn
      PROVE  Received(c)'
  <2>. SUFFICES ASSUME "ready" \in conn[c].sent, ~left[c], conn[c].pc \notin {"leave", "done"},
                       NEW k \in conn[c].since + 1 .. n, chunks'[k] = conn[c].pty
                PROVE  Seen(c, k)'
    BY <1>1, <1>2 DEF Received
  <2>1. conn[c].since \in Nat /\ k \in 1 .. n
    BY <1>2, Parts, TerminalAssumption DEF Handler
  <2>2. CASE k = n
    <3>1. conn[c].pc = "open" /\ conn[c].pty = p
      BY <1>2, <2>2 DEF OutPart, Attached
    <3>2. c \in subs[p]
      BY <1>1, <3>1 DEF OutPart, Attached
    <3>. QED BY <1>2, <1>3, <2>2, <3>2 DEF Seen
  <2>3. CASE k # n
    <3>1. k \in 1 .. Len(chunks)
      BY <1>2, <2>1, <2>3
    <3>2. Seen(c, k)
      BY <1>2, <2>1, <3>1 DEF OutPart, Received
    <3>. QED BY <1>4, <3>1, <3>2
  <2>. QED BY <2>2, <2>3
<1>7. ASSUME NEW q \in Pty, q > count'.ptys
      PROVE  pty'[q].pc = "none"
  BY <1>1, <1>3, <1>7 DEF OutPart
<1>. QED BY <1>5, <1>6, <1>7 DEF OutPart

\* A subscriber gets the chunk, unless its channel is full.
LEMMA BroadcastOut == ASSUME TermInv, OutPart, NEW p \in Pty, Broadcast(p) PROVE OutPart'
<1>1. PICK c \in pty[p].to :
        /\ pty' = [pty EXCEPT ![p].to = @ \ {c}]
        /\ \/ out' = [out EXCEPT ![c] = Append(@, pty[p].chunk)] /\ UNCHANGED passed
           \/ passed' = [passed EXCEPT ![c] = @ \cup {pty[p].chunk}] /\ UNCHANGED out
        /\ UNCHANGED <<conn, left, subs, chunks, count>>
  BY DEF Broadcast
<1>2. /\ c \in Conn /\ pty'[p].pc = pty[p].pc /\ pty'[p].chunk = pty[p].chunk
      /\ pty'[p].to = pty[p].to \ {c} /\ \A q \in Pty \ {p} : pty'[q] = pty[q]
  BY <1>1, Parts DEF RegistryOK
<1>3. /\ out[c] \in Seq(1 .. MaxChunks) /\ pty[p].chunk \in 1 .. MaxChunks
      /\ chunks \in Seq(Pty)
  <2>1. pty[p].chunk \in 0 .. MaxChunks /\ pty[p].chunk # 0
    BY <1>1, Parts DEF RegistryOK, TermInv, TermSafe, Sending
  <2>. QED BY <1>2, <2>1, Parts, TerminalAssumption DEF OutputOK
<1>. DEFINE longer == Append(out[c], pty[p].chunk)
<1>4. Holds(longer, pty[p].chunk) /\ \A k : Holds(out[c], k) => Holds(longer, k)
  BY <1>3, QueueMoves, Zenon
<1>5. \/ out'[c] = longer /\ passed' = passed
      \/ passed'[c] = passed[c] \cup {pty[p].chunk} /\ out' = out
  BY <1>1, <1>2, Parts DEF OutputOK
<1>6. \A d \in Conn \ {c} : out'[d] = out[d] /\ passed'[d] = passed[d]
  BY <1>1, <1>2, Parts DEF OutputOK
<1>. HIDE DEF longer
<1>7. ASSUME NEW d \in Conn, NEW k \in 1 .. Len(chunks), Seen(d, k)
      PROVE  Seen(d, k)'
  <2>1. chunks[k] \in Pty /\ chunks' = chunks
    BY <1>1, <1>3
  <2>2. CASE d = c
    BY <1>2, <1>4, <1>5, <1>7, <2>1, <2>2 DEF Seen
  <2>3. CASE d # c
    BY <1>2, <1>6, <1>7, <2>1, <2>3 DEF Seen
  <2>. QED BY <2>2, <2>3
<1>. QED BY <1>1, <1>2, <1>7, OutMoves, OthersStay

\* The end of a broadcast and of a PTY, whose subscribers are no longer its.
LEMMA PtyOut ==
    ASSUME TermInv, OutPart, NEW p \in Pty,
           BroadcastDone(p) \/ PtyEnds(p) \/ CloseSubscribers(p) \/ Forget(p)
    PROVE  OutPart'
<1>1. /\ UNCHANGED <<conn, left, out, passed, chunks, count>>
      /\ \/ /\ pty[p].pc = "send" /\ pty' = [pty EXCEPT ![p].pc = "read"] /\ subs' = subs
         \/ /\ pty[p].pc = "read" /\ pty' = [pty EXCEPT ![p].pc = "ended"] /\ subs' = subs
         \/ /\ pty[p].pc = "ended" /\ pty' = [pty EXCEPT ![p].pc = "closed"]
            /\ subs' = [subs EXCEPT ![p] = {}]
         \/ /\ pty[p].pc = "closed" /\ pty' = [pty EXCEPT ![p].pc = "gone"] /\ subs' = subs
  BY DEF BroadcastDone, PtyEnds, CloseSubscribers, Forget
<1>2. /\ pty'[p].to = pty[p].to /\ pty'[p].chunk = pty[p].chunk
      /\ \A q \in Pty \ {p} : pty'[q] = pty[q] /\ subs'[q] = subs[q]
      /\ subs'[p] = subs[p] \/ pty'[p].pc = "closed"
      /\ pty[p].pc # "none" /\ (pty[p].pc \in {"closed", "gone"} => pty'[p].pc = "gone")
  BY <1>1, Parts DEF RegistryOK
<1>3. ASSUME NEW c \in Conn, NEW k \in 1 .. Len(chunks), Seen(c, k)
      PROVE  Seen(c, k)'
  <2>1. chunks[k] \in Pty /\ chunks' = chunks
    BY <1>1, Parts DEF OutputOK
  <2>. QED BY <1>1, <1>2, <1>3, <2>1 DEF Seen
<1>. QED BY <1>1, <1>2, <1>3, OutMoves, OthersStay

\* The worker ends, and with it the handlers and the PTYs.
LEMMA CrashOut == ASSUME TermInv, WorkerPanics PROVE OutPart'
<1>1. /\ \A c \in Conn : conn'[c] = Ended
      /\ \A p \in Pty : pty'[p] = NoPty
  BY DEF WorkerPanics
<1>2. Ended.sent = {} /\ Ended.pc = "done"
  BY EndedIs DEF Ended, NoHandler
<1>. QED BY <1>1, <1>2 DEF OutPart, Attached, Received, NoPty

\* and what is known of the output.
LEMMA OutStep == TermInv /\ OutPart /\ [TermNext]_termVars => OutPart'
<1>. SUFFICES ASSUME TermInv, OutPart, [TermNext]_termVars PROVE OutPart'
  OBVIOUS
<1>1. CASE UNCHANGED termVars
  BY <1>1, OutFrame, OthersStay DEF termVars
<1>2. ASSUME NEW c \in Conn, HandlerStep(c)
      PROVE  OutPart'
  BY <1>2, QuietOut, JoinOut, LeaveOut DEF HandlerStep
<1>3. ASSUME NEW c \in Conn, \/ Ask(c) \/ Waiting(c) \/ ClientLeaves(c) \/ Write(c)
                             \/ WriterEnds(c) \/ ReaderEnds(c)
      PROVE  OutPart'
  BY <1>3, QuietOut, WriteOut, LeaveOut
<1>4. ASSUME NEW p \in Pty, Output(p) \/ PtyEnds(p) \/ PtyStep(p)
      PROVE  OutPart'
  BY <1>4, OutputOut, BroadcastOut, PtyOut DEF PtyStep
<1>5. CASE \/ Create \/ MakerStep \/ Destroyed \/ WorkerPanics
           \/ \E a \in Actor : Send(a) \/ HandlerPanics(a)
  BY <1>5, QuietOut, CrashOut
<1>. QED BY <1>1, <1>2, <1>3, <1>4, <1>5 DEF TermNext

\* The invariant holds before the first connection.
LEMMA WatchStart == TermInit => WatchInv
<1>. SUFFICES ASSUME TermInit PROVE WatchInv
  OBVIOUS
<1>1. \A c \in Conn : conn[c].pc = "off" /\ conn[c].sent = {}
  BY DEF TermInit, NoHandler
<1>2. Conn \subseteq Actor /\ Maker \in Actor /\ \A a \in Actor : pub[a] = Idle
  BY DEF TermInit, Actor
<1>3. StagePart
  BY <1>1, <1>2 DEF StagePart, Publishers, NoStageMissed, Silent, Idle
<1>4. OutPart
  BY <1>1 DEF TermInit, OutPart, Attached, Received, NoPty
<1>. QED BY <1>3, <1>4 DEF WatchInv

\* For any number of connections, a watcher misses no stage of the provisioning while it
\* waits, and no output once it was told READY.
THEOREM WatcherCorrect == TermSpec => []WatcherMissesNothing
<1>1. TermInv /\ WatchInv /\ [TermNext]_termVars => (TermInv /\ WatchInv)'
  BY TermStep, StageStep, OutStep DEF WatchInv
<1>2. TermInit => TermInv /\ WatchInv
  BY TermStart, WatchStart
<1>3. WatchInv => WatcherMissesNothing
  <2>. SUFFICES ASSUME WatchInv PROVE NoStageMissed /\ ReadyMeansSubscribed
    BY DEF WatcherMissesNothing
  <2>1. ReadyMeansSubscribed
    BY DEF WatchInv, OutPart, Attached, Received, Seen, Holds, ReadyMeansSubscribed, Pty
  <2>. QED BY <2>1 DEF WatchInv, StagePart
<1>. QED BY <1>1, <1>2, <1>3, PTL DEF TermSpec

-----------------------------------------------------------------------------
(* The requests                                                            *)

Handling == [pc: {"idle", "route", "revoked?", "find", "exec", "inspect", "emit", "answer", "done"},
             path: Path, token: Token, exit: Exit, status: Status,
             alive: BOOLEAN, unsent: BOOLEAN, met: BOOLEAN]

\* What a handler that stands at a call has established.
Unanswered(r) == ~Done(r) => req[r].status = 0 /\ ~req[r].alive

Checked(r) ==
    /\ req[r].pc = "inspect" => req[r].met
    /\ req[r].pc \in {"emit", "answer"} => IsCheck(r) /\ req[r].met /\ req[r].exit # 2
    /\ req[r].pc = "answer" /\ ~req[r].unsent => <<r, Verdict(req[r].exit)>> \in topics

Admitted(r) ==
    ~IsCheck(r) =>
       /\ req[r].pc \in {"find", "exec", "inspect"} =>
             req[r].token # "none" /\ (req[r].token = "revoked" => tally.refusals > 0)
       /\ req[r].pc \in {"exec", "inspect"} => req[r].token # "other"

\* Nothing is announced of a request before its handler has announced it.
EventsAreLate == \A e \in topics : req[e[1]].pc \in {"answer", "done"}

RequestInv ==
    /\ RequestTypeOK
    /\ \A r \in Request : Unanswered(r) /\ Checked(r) /\ Admitted(r)
    /\ EventsAreLate /\ CheckedIsReported /\ EventForCause /\ AliveForCause

LEMMA VerdictIs ==
    /\ \A e \in Exit : Verdict(e) \in {"challenge.solved", "challenge.failed", "error"}
    /\ \A e \in Exit : Verdict(e) = "error" <=> e = 2
    /\ \A e \in Exit : Verdict(e) = "challenge.solved" <=> e = 0
BY DEF Verdict, Exit

LEMMA RequestStart == RequestInit => RequestInv
<1> SUFFICES ASSUME RequestInit PROVE RequestInv
  OBVIOUS
<1>1. NoRequest \in Handling
  BY DEF NoRequest, Handling, Path, Token, Exit, Status
<1>2. RequestTypeOK
  <2>1. container \in BOOLEAN /\ serving \in BOOLEAN /\ gone \in [Request -> BOOLEAN]
    BY Zenon DEF RequestInit
  <2>2. req \in [Request -> Handling]
    BY <1>1 DEF RequestInit
  <2>3. tally \in [exchanges: 0 .. MaxExchanges, refusals: 0 .. MaxRefusals]
    BY RequestAssumption DEF RequestInit
  <2> QED
    BY <2>1, <2>2, <2>3 DEF RequestInit, RequestTypeOK, Handling
<1>3. \A r \in Request : req[r] = NoRequest
  BY DEF RequestInit
<1>4. \A r \in Request : Unanswered(r) /\ Checked(r) /\ Admitted(r)
  BY <1>3 DEF Unanswered, Checked, Admitted, NoRequest, Done
<1>5. EventsAreLate /\ CheckedIsReported /\ EventForCause /\ AliveForCause
  BY <1>3 DEF RequestInit, EventsAreLate, CheckedIsReported, EventForCause, AliveForCause, NoRequest,
     IsCheck, Done
<1> QED
  BY <1>2, <1>4, <1>5 DEF RequestInv

\* One handler moves: what the invariant says of the others is not touched, whatever it
\* announces of its own request.
LEMMA OneMoves ==
    ASSUME RequestInv, NEW r \in Request, NEW v \in Handling,
           req' = [req EXCEPT ![r] = v],
           topics' = topics \/ topics' = topics \cup {<<r, Verdict(v.exit)>>},
           tally' \in [exchanges: 0 .. MaxExchanges, refusals: 0 .. MaxRefusals],
           tally'.refusals >= tally.refusals,
           UNCHANGED <<place, container, serving, gone>>,
           ~Done(r),
           req[r].pc = "answer" => v.pc = "done" /\ v.path = req[r].path /\ v.exit = req[r].exit
                                   /\ v.met = req[r].met,
           topics' # topics => v.pc = "answer" /\ v.path = "/validate/id" /\ v.met /\ v.exit # 2,
           v.pc # "done" => v.status = 0 /\ ~v.alive,
           Checked(r)', Admitted(r)',
           v.pc = "done" => /\ v.status \in {200, 422} /\ v.path = "/validate/id" /\ ~v.unsent
                                 => <<r, Verdict(v.exit)>> \in topics
                            /\ req[r].pc = "answer" => v.status \in {200, 422, 502}
                            /\ v.alive => /\ v.met
                                          /\ \/ v.token = "owner"
                                             \/ v.token = "revoked" /\ tally'.refusals > 0
    PROVE  RequestInv'
<1>1. /\ \A q \in Request \ {r} : req'[q] = req[q]
      /\ req'[r] = v
  BY DEF RequestInv, RequestTypeOK
<1>2. tally.refusals \in Nat /\ tally'.refusals \in Nat
  BY RequestAssumption DEF RequestInv, RequestTypeOK
<1>3. topics' \subseteq Request \X {"challenge.solved", "challenge.failed"}
  BY VerdictIs DEF RequestInv, RequestTypeOK, Handling
<1>4. RequestTypeOK'
  BY <1>3 DEF RequestInv, RequestTypeOK, Handling
<1>5. ASSUME NEW q \in Request
      PROVE  (Unanswered(q) /\ Checked(q) /\ Admitted(q))'
  <2>1. CASE q = r
    BY <2>1, <1>1 DEF Unanswered, Done
  <2>2. CASE q # r
    BY <2>2, <1>1, <1>2 DEF Unanswered, Done, Checked, Admitted, IsCheck, RequestInv
  <2> QED
    BY <2>1, <2>2
<1>6. ASSUME NEW e \in topics'
      PROVE  /\ e[1] \in Request
             /\ e[1] # r => e \in topics
             /\ e[1] = r => \/ e \in topics /\ req[r].pc = "answer" /\ v.pc = "done"
                            \/ e = <<r, Verdict(v.exit)>> /\ topics' # topics
  <2>1. CASE e \in topics
    BY <2>1 DEF RequestInv, RequestTypeOK, EventsAreLate, Done
  <2>2. CASE e \notin topics
    BY <2>2, <1>3
  <2> QED
    BY <2>1, <2>2
<1>7. EventsAreLate'
  BY <1>1, <1>6 DEF EventsAreLate, RequestInv
<1>8. CheckedIsReported'
  <2> SUFFICES ASSUME NEW q \in Request, req'[q].status \in {200, 422}, IsCheck(q)', ~req'[q].unsent
               PROVE  <<q, Verdict(req'[q].exit)>> \in topics'
    BY DEF CheckedIsReported
  <2>1. CASE q = r
    BY <2>1, <1>1 DEF IsCheck
  <2>2. CASE q # r
    BY <2>2, <1>1 DEF RequestInv, CheckedIsReported, IsCheck
  <2> QED
    BY <2>1, <2>2
<1>9. EventForCause'
  <2> SUFFICES ASSUME NEW e \in topics'
               PROVE  /\ IsCheck(e[1])' /\ req'[e[1]].met
                      /\ e[2] = "challenge.solved" <=> req'[e[1]].exit = 0
                      /\ req'[e[1]].exit # 2 /\ req'[e[1]].status \in {0, 200, 422, 502}
    BY DEF EventForCause
  <2>1. CASE e[1] # r
    BY <2>1, <1>1, <1>6 DEF RequestInv, EventForCause, IsCheck
  <2>2. CASE e[1] = r /\ e \in topics
    BY <2>2, <1>1, <1>6 DEF RequestInv, EventForCause, IsCheck
  <2>3. CASE e = <<r, Verdict(v.exit)>> /\ topics' # topics
    BY <2>3, <1>1, VerdictIs DEF IsCheck, Handling
  <2> QED
    BY <2>1, <2>2, <2>3, <1>6
<1>10. AliveForCause'
  <2> SUFFICES ASSUME NEW q \in Request, Done(q)', req'[q].alive
               PROVE  /\ req'[q].met
                      /\ \/ req'[q].token = "owner"
                         \/ req'[q].token = "revoked" /\ tally'.refusals > 0
    BY DEF AliveForCause
  <2>1. CASE q = r
    BY <2>1, <1>1 DEF Done
  <2>2. CASE q # r
    BY <2>2, <1>1, <1>2 DEF RequestInv, AliveForCause, Done
  <2> QED
    BY <2>1, <2>2
<1> QED
  BY <1>4, <1>5, <1>7, <1>8, <1>9, <1>10 DEF RequestInv

-----------------------------------------------------------------------------
LEMMA RequestTypes ==
    RequestInv => /\ req \in [Request -> Handling]
                  /\ tally \in [exchanges: 0 .. MaxExchanges, refusals: 0 .. MaxRefusals]
                  /\ \A r \in Request : req[r] \in Handling
BY DEF RequestInv, RequestTypeOK, Handling

LEMMA RefuseCounts ==
    ASSUME RequestInv, Refuse
    PROVE  /\ tally' \in [exchanges: 0 .. MaxExchanges, refusals: 0 .. MaxRefusals]
           /\ tally'.refusals = tally.refusals + 1
BY RequestTypes, RequestAssumption DEF Refuse

\* A handler that has announced nothing yet passes on, or answers.
Quiet(r, v) ==
    /\ v \in Handling /\ req' = [req EXCEPT ![r] = v]
    /\ ~Done(r) /\ req[r].pc # "answer"
    /\ UNCHANGED <<place, container, serving, gone, topics>> /\ (UNCHANGED tally \/ Refuse)
    /\ v.pc # "answer"
    /\ v.pc # "done" => v.status = 0 /\ ~v.alive
    /\ v.pc = "inspect" => v.met
    /\ v.pc = "emit" => v.path = "/validate/id" /\ v.met /\ v.exit # 2
    /\ v.path # "/validate/id" =>
          /\ v.pc \in {"find", "exec", "inspect"} =>
                v.token # "none" /\ (v.token = "revoked" => tally'.refusals > 0)
          /\ v.pc \in {"exec", "inspect"} => v.token # "other"
    /\ v.path = "/validate/id" => v.status \notin {200, 422}
    /\ v.pc = "done" /\ v.alive => /\ v.met
                                   /\ \/ v.token = "owner"
                                      \/ v.token = "revoked" /\ tally'.refusals > 0

LEMMA QuietKeeps == ASSUME RequestInv, NEW r \in Request, NEW v, Quiet(r, v) PROVE RequestInv'
<1>1. req'[r] = v
  BY RequestTypes DEF Quiet
<1>2. /\ tally' \in [exchanges: 0 .. MaxExchanges, refusals: 0 .. MaxRefusals]
      /\ tally'.refusals >= tally.refusals
  BY RequestTypes, RefuseCounts, RequestAssumption DEF Quiet
<1>3. Checked(r)' /\ Admitted(r)'
  BY <1>1 DEF Checked, Admitted, IsCheck, Quiet
<1> QED
  BY <1>1, <1>2, <1>3, OneMoves DEF Quiet

LEMMA RequestedKeeps == ASSUME RequestInv, NEW r \in Request, Requested(r) PROVE RequestInv'
<1>1. PICK p \in Path, t \in Token :
        req' = [req EXCEPT ![r] = [NoRequest EXCEPT !.pc = "route", !.path = p, !.token = t]]
  BY DEF Requested, Token
<1> DEFINE v == [NoRequest EXCEPT !.pc = "route", !.path = p, !.token = t]
<1>2. /\ v \in Handling
      /\ v.pc = "route" /\ v.status = 0 /\ ~v.alive
  BY DEF NoRequest, Handling, Exit, Status
<1> HIDE DEF v
<1>3. req' = [req EXCEPT ![r] = v]
  BY <1>1 DEF v
<1>4. /\ ~Done(r) /\ req[r].pc # "answer"
      /\ UNCHANGED <<place, container, serving, gone, topics>> /\ UNCHANGED tally
  BY DEF Requested, Done
<1>5. v.status \notin {200, 422}
  BY <1>2
<1>6. Quiet(r, v)
  BY <1>2, <1>3, <1>4, <1>5 DEF Quiet
<1> QED
  BY <1>6, QuietKeeps

\* What a handler that passes on, answers or reports is afterwards.
Moved(r, pc)     == [req[r] EXCEPT !.pc = pc]
Replied(r, code) == [req[r] EXCEPT !.pc = "done", !.status = code]
Reported(r, yes) == [req[r] EXCEPT !.pc = "done", !.status = 200, !.alive = yes]

\* The columns that a step leaves alone.
Alike(v, w) ==
    v.path = w.path /\ v.token = w.token /\ v.exit = w.exit /\ v.met = w.met /\ v.unsent = w.unsent

LEMMA MovedIs ==
    ASSUME RequestInv, NEW r \in Request, NEW pc \in {"find", "revoked?", "exec", "emit", "answer"}
    PROVE  /\ Moved(r, pc) \in Handling /\ Alike(Moved(r, pc), req[r])
           /\ Moved(r, pc).pc = pc
           /\ Moved(r, pc).status = req[r].status /\ Moved(r, pc).alive = req[r].alive
           /\ Move(r, pc) => req' = [req EXCEPT ![r] = Moved(r, pc)]
BY RequestTypes DEF Handling, Moved, Alike, Move

LEMMA RepliedIs ==
    ASSUME RequestInv, NEW r \in Request, NEW code \in Status
    PROVE  /\ Replied(r, code) \in Handling /\ Alike(Replied(r, code), req[r])
           /\ Replied(r, code).pc = "done"
           /\ Replied(r, code).status = code /\ Replied(r, code).alive = req[r].alive
           /\ Reply(r, code) => req' = [req EXCEPT ![r] = Replied(r, code)]
BY RequestTypes DEF Handling, Replied, Alike, Reply

LEMMA ReportedIs ==
    ASSUME RequestInv, NEW r \in Request, NEW yes \in BOOLEAN
    PROVE  /\ Reported(r, yes) \in Handling /\ Alike(Reported(r, yes), req[r])
           /\ Reported(r, yes).pc = "done"
           /\ Reported(r, yes).status = 200 /\ Reported(r, yes).alive = yes
           /\ Report(r, yes) => req' = [req EXCEPT ![r] = Reported(r, yes)]
<1>1. req[r] \in Handling /\ req \in [Request -> Handling] /\ 200 \in Status
  BY RequestTypes DEF Status
<1>2. Reported(r, yes) \in Handling
  BY <1>1 DEF Handling, Reported
<1>3. Alike(Reported(r, yes), req[r]) /\ Reported(r, yes).pc = "done" /\ Reported(r, yes).status = 200
  BY <1>1 DEF Handling, Reported, Alike
<1>4. Reported(r, yes).alive = yes
  BY <1>1, Zenon DEF Handling, Reported
<1>5. ASSUME Report(r, yes)
      PROVE  req' = [req EXCEPT ![r] = Reported(r, yes)]
  <2>1. CASE yes = TRUE
    BY <1>1, <1>5, <2>1 DEF Reported, Report
  <2>2. CASE yes = FALSE
    BY <1>1, <1>5, <2>2 DEF Reported, Report
  <2> QED
    BY <2>1, <2>2
<1> QED
  BY <1>2, <1>3, <1>4, <1>5

\* A refusal, of a check or of a probe, is no answer of a check and never "alive".
LEMMA ReplyKeeps ==
    ASSUME RequestInv, NEW r \in Request, NEW code \in Status \ {200, 422}, Reply(r, code),
           ~Done(r), req[r].pc # "answer",
           UNCHANGED <<place, container, serving, gone, topics>>, UNCHANGED tally \/ Refuse
    PROVE  RequestInv'
<1>1. /\ Replied(r, code) \in Handling /\ Replied(r, code).pc = "done"
      /\ Replied(r, code).status = code /\ Replied(r, code).alive = req[r].alive
      /\ req' = [req EXCEPT ![r] = Replied(r, code)]
  BY RepliedIs
<1>2. ~req[r].alive
  BY DEF RequestInv, Unanswered
<1> QED
  BY <1>1, <1>2, QuietKeeps DEF Quiet

LEMMA ReportKeeps ==
    ASSUME RequestInv, NEW r \in Request, NEW yes \in BOOLEAN, Report(r, yes), ~IsCheck(r),
           ~Done(r), req[r].pc # "answer", yes => req[r].pc = "inspect",
           UNCHANGED <<place, container, serving, gone, topics>>, UNCHANGED tally \/ Refuse
    PROVE  RequestInv'
<1>1. /\ Reported(r, yes) \in Handling /\ Reported(r, yes).pc = "done"
      /\ Reported(r, yes).path = req[r].path /\ Reported(r, yes).token = req[r].token
      /\ Reported(r, yes).alive = yes /\ Reported(r, yes).met = req[r].met
      /\ req' = [req EXCEPT ![r] = Reported(r, yes)]
  BY ReportedIs DEF Alike
<1>2. yes => /\ req[r].met /\ req[r].token # "none" /\ req[r].token # "other"
             /\ req[r].token = "revoked" => tally.refusals > 0
  BY DEF RequestInv, Checked, Admitted
<1>3. tally.refusals > 0 => tally'.refusals > 0
  BY RefuseCounts, RequestTypes, RequestAssumption
<1>4. req[r].token \in Token
  BY RequestTypes DEF Handling
<1> QED
  BY <1>1, <1>2, <1>3, <1>4, QuietKeeps DEF Quiet, IsCheck, Token

\* Passing on within the worker.
LEMMA MoveKeeps ==
    ASSUME RequestInv, NEW r \in Request, NEW pc \in {"find", "revoked?", "exec", "emit"}, Move(r, pc),
           ~Done(r), req[r].pc # "answer",
           UNCHANGED <<place, container, serving, gone, topics>>, UNCHANGED tally \/ Refuse,
           pc = "emit" => IsCheck(r) /\ req[r].met /\ req[r].exit # 2,
           pc = "find" /\ ~IsCheck(r) =>
              req[r].token # "none" /\ (req[r].token = "revoked" => tally'.refusals > 0),
           pc = "exec" => req[r].pc = "find" /\ (req[r].token = "other" => IsCheck(r))
    PROVE  RequestInv'
<1>1. /\ Moved(r, pc) \in Handling /\ Moved(r, pc).pc = pc
      /\ Moved(r, pc).path = req[r].path /\ Moved(r, pc).token = req[r].token
      /\ Moved(r, pc).exit = req[r].exit /\ Moved(r, pc).met = req[r].met
      /\ Moved(r, pc).status = req[r].status /\ Moved(r, pc).alive = req[r].alive
      /\ req' = [req EXCEPT ![r] = Moved(r, pc)]
  BY MovedIs DEF Alike
<1>2. req[r].status = 0 /\ ~req[r].alive
  BY DEF RequestInv, Unanswered
<1>3. pc = "exec" /\ ~IsCheck(r) =>
        req[r].token # "none" /\ (req[r].token = "revoked" => tally'.refusals > 0)
  BY RefuseCounts, RequestTypes, RequestAssumption DEF RequestInv, Admitted
<1>4. IsCheck(r) <=> req[r].path = "/validate/id"
  BY DEF IsCheck
<1>5. pc = "exec" /\ ~IsCheck(r) => req[r].token # "other"
  OBVIOUS
<1>6. pc # "done" /\ pc # "answer" /\ pc # "inspect"
  OBVIOUS
<1>7. Quiet(r, Moved(r, pc))
  BY <1>1, <1>2, <1>3, <1>4, <1>5, <1>6 DEF Quiet
<1> QED
  BY <1>7, QuietKeeps

LEMMA ProxyKeeps == ASSUME RequestInv, NEW r \in Request, Proxy(r) PROVE RequestInv'
<1>1. /\ ~Done(r) /\ req[r].pc # "answer"
      /\ UNCHANGED <<place, container, serving, gone, topics>> /\ (UNCHANGED tally \/ Refuse)
  BY DEF Proxy, Done
<1>2. CASE \E code \in {400, 404, 500, 502} : Reply(r, code)
  BY <1>1, <1>2, ReplyKeeps DEF Status
<1>3. CASE Move(r, IF IsCheck(r) THEN "find" ELSE "revoked?")
  BY <1>1, <1>3, MoveKeeps
<1> QED
  BY <1>2, <1>3 DEF Proxy

LEMMA AuthorizeKeeps == ASSUME RequestInv, NEW r \in Request, Authorize(r) PROVE RequestInv'
<1>1. /\ ~Done(r) /\ req[r].pc # "answer"
      /\ UNCHANGED <<place, container, serving, gone, topics>> /\ (UNCHANGED tally \/ Refuse)
  BY DEF Authorize, Done
<1>2. CASE Reply(r, 401)
  BY <1>1, <1>2, ReplyKeeps DEF Status
<1>3. CASE req[r].token # "none" /\ Move(r, "find") /\ (Refuse \/ req[r].token # "revoked")
  <2>1. Refuse => tally'.refusals > 0
    BY RefuseCounts, RequestTypes, RequestAssumption
  <2> QED
    BY <1>1, <1>3, <2>1, MoveKeeps
<1> QED
  BY <1>2, <1>3 DEF Authorize

LEMMA FindKeeps == ASSUME RequestInv, NEW r \in Request, Find(r) PROVE RequestInv'
<1>1. /\ ~Done(r) /\ req[r].pc = "find"
      /\ UNCHANGED <<place, container, serving, gone, topics>> /\ (UNCHANGED tally \/ Refuse)
  BY DEF Find, Done
<1>2. CASE \E code \in {403, 404} : Reply(r, code)
  BY <1>1, <1>2, ReplyKeeps DEF Status
<1>3. CASE ~IsCheck(r) /\ Report(r, FALSE)
  BY <1>1, <1>3, ReportKeeps
<1>4. CASE Move(r, "exec") /\ (req[r].token = "other" => IsCheck(r))
  BY <1>1, <1>4, MoveKeeps
<1>5. \/ \E code \in {403, 404} : Reply(r, code)
      \/ ~IsCheck(r) /\ Report(r, FALSE)
      \/ Move(r, "exec") /\ (req[r].token = "other" => IsCheck(r))
  BY DEF Find
<1> QED
  BY <1>2, <1>3, <1>4, <1>5

LEMMA FailedKeeps ==
    ASSUME RequestInv, NEW r \in Request, Failed(r), ~Done(r), req[r].pc # "answer",
           UNCHANGED <<place, container, serving, gone, topics>>, UNCHANGED tally \/ Refuse
    PROVE  RequestInv'
<1>1. CASE Reply(r, 500)
  BY <1>1, ReplyKeeps DEF Status
<1>2. CASE ~IsCheck(r) /\ Report(r, FALSE)
  BY <1>2, ReportKeeps
<1> QED
  BY <1>1, <1>2 DEF Failed

LEMMA RunKeeps == ASSUME RequestInv, NEW r \in Request, Run(r) PROVE RequestInv'
<1>1. /\ ~Done(r) /\ req[r].pc = "exec"
      /\ UNCHANGED <<place, container, serving, gone, topics>> /\ (UNCHANGED tally \/ Refuse)
  BY DEF Run, Done
<1>2. CASE Failed(r)
  BY <1>1, <1>2, FailedKeeps
<1>3. ASSUME NEW e \in Exit, UNCHANGED tally,
             req' = [req EXCEPT ![r].pc = "inspect", ![r].exit = e, ![r].met = TRUE]
      PROVE  RequestInv'
  <2> DEFINE v == [req[r] EXCEPT !.pc = "inspect", !.exit = e, !.met = TRUE]
  <2>1. req' = [req EXCEPT ![r] = v]
    BY <1>3
  <2>2. /\ v \in Handling
        /\ v.pc = "inspect" /\ v.path = req[r].path /\ v.token = req[r].token
        /\ v.status = req[r].status /\ v.alive = req[r].alive /\ v.met
    BY RequestTypes DEF Handling
  <2>3. req[r].status = 0 /\ ~req[r].alive
    BY <1>1 DEF RequestInv, Unanswered
  <2>4. v.path # "/validate/id" =>
          /\ v.token # "none" /\ v.token # "other"
          /\ v.token = "revoked" => tally'.refusals > 0
    BY <1>1, <1>3, <2>2 DEF RequestInv, Admitted, IsCheck
  <2> HIDE DEF v
  <2>5. v.status \notin {200, 422} /\ ~v.alive
    BY <2>2, <2>3
  <2>6. v.pc # "done" /\ v.pc # "answer" /\ v.pc # "emit" /\ req[r].pc # "answer"
    BY <1>1, <2>2
  <2>7. Quiet(r, v)
    BY <1>1, <1>3, <2>1, <2>2, <2>3, <2>4, <2>5, <2>6 DEF Quiet
  <2> QED
    BY <2>7, QuietKeeps
<1> QED
  BY <1>2, <1>3 DEF Run, Exit

LEMMA InspectKeeps == ASSUME RequestInv, NEW r \in Request, Inspect(r) PROVE RequestInv'
<1>1. /\ ~Done(r) /\ req[r].pc = "inspect"
      /\ UNCHANGED <<place, container, serving, gone, topics>> /\ (UNCHANGED tally \/ Refuse)
  BY DEF Inspect, Done
<1>2. CASE Failed(r) \/ Reply(r, 500)
  BY <1>1, <1>2, FailedKeeps, ReplyKeeps DEF Status
<1>3. CASE ~IsCheck(r) /\ Report(r, req[r].exit = 0)
  BY <1>1, <1>3, ReportKeeps
<1>4. CASE IsCheck(r) /\ Verdict(req[r].exit) # "error" /\ Move(r, "emit")
  <2>1. req[r].met /\ req[r].exit # 2
    BY <1>1, <1>4, RequestTypes, VerdictIs DEF RequestInv, Checked, Handling
  <2> QED
    BY <1>1, <1>4, <2>1, MoveKeeps
<1> QED
  BY <1>2, <1>3, <1>4 DEF Inspect

-----------------------------------------------------------------------------
(* The announcement, the answer and what happens around a handler          *)

LEMMA EmitKeeps == ASSUME RequestInv, NEW r \in Request, EmitResult(r) PROVE RequestInv'
<1>1. /\ req[r].pc = "emit" /\ IsCheck(r) /\ req[r].met /\ req[r].exit # 2
      /\ req[r].status = 0 /\ ~req[r].alive /\ req[r] \in Handling
  BY RequestTypes DEF EmitResult, RequestInv, Checked, Unanswered, Done
<1>2. PICK v \in Handling :
        /\ req' = [req EXCEPT ![r] = v]
        /\ v.pc = "answer" /\ v.path = req[r].path /\ v.exit = req[r].exit /\ v.met = req[r].met
        /\ v.status = 0 /\ ~v.alive
        /\ topics' = topics \/ topics' = topics \cup {<<r, Verdict(v.exit)>>}
        /\ v.unsent \/ topics' = topics \cup {<<r, Verdict(v.exit)>>}
        /\ UNCHANGED <<place, container, serving, gone>> /\ (UNCHANGED tally \/ Refuse)
  <2>1. CASE Move(r, "answer") /\ Emitted(r) /\ UNCHANGED tally
    <3> DEFINE w == Moved(r, "answer")
    <3>1. /\ w \in Handling /\ w.pc = "answer" /\ w.path = req[r].path /\ w.exit = req[r].exit
          /\ w.met = req[r].met /\ w.status = 0 /\ ~w.alive
          /\ req' = [req EXCEPT ![r] = w]
      BY <1>1, <2>1, MovedIs DEF Alike
    <3> HIDE DEF w
    <3> QED
      BY <1>1, <2>1, <3>1 DEF EmitResult, Emitted
  <2>2. CASE /\ Refuse /\ req' = [req EXCEPT ![r].pc = "answer", ![r].unsent = TRUE]
             /\ Emitted(r) \/ UNCHANGED topics
    <3> DEFINE w == [req[r] EXCEPT !.pc = "answer", !.unsent = TRUE]
    <3>1. /\ w \in Handling /\ w.pc = "answer" /\ w.path = req[r].path /\ w.exit = req[r].exit
          /\ w.met = req[r].met /\ w.status = 0 /\ ~w.alive /\ w.unsent
      BY <1>1 DEF Handling
    <3>2. req' = [req EXCEPT ![r] = w]
      BY <2>2
    <3> HIDE DEF w
    <3> QED
      BY <1>1, <2>2, <3>1, <3>2 DEF EmitResult, Emitted
  <2> QED
    BY <2>1, <2>2 DEF EmitResult
<1>3. req'[r] = v
  BY <1>2, RequestTypes
<1>4. /\ tally' \in [exchanges: 0 .. MaxExchanges, refusals: 0 .. MaxRefusals]
      /\ tally'.refusals >= tally.refusals
  BY <1>2, RequestTypes, RefuseCounts, RequestAssumption
<1>5. Checked(r)' /\ Admitted(r)'
  BY <1>1, <1>2, <1>3 DEF Checked, Admitted, IsCheck
<1>6. ~Done(r) /\ req[r].pc # "answer" /\ v.pc # "done" /\ v.path = "/validate/id"
  BY <1>1, <1>2 DEF Done, IsCheck
<1> QED
  BY <1>1, <1>2, <1>4, <1>5, <1>6, OneMoves

LEMMA RespondKeeps == ASSUME RequestInv, NEW r \in Request, Respond(r) PROVE RequestInv'
<1> DEFINE code == IF Verdict(req[r].exit) = "challenge.solved" THEN 200 ELSE 422
<1>1. /\ req[r].pc = "answer" /\ IsCheck(r) /\ req[r].met /\ req[r].exit # 2
      /\ ~req[r].unsent => <<r, Verdict(req[r].exit)>> \in topics
      /\ ~req[r].alive
  BY DEF Respond, RequestInv, Checked, Unanswered, Done
<1>2. code \in Status /\ code \in {200, 422}
  BY DEF Status
<1> HIDE DEF code
<1>3. /\ Reply(r, code)
      /\ UNCHANGED <<place, container, serving, gone, topics, tally>>
  BY DEF Respond, code
<1>4a. Replied(r, code) \in Handling /\ Alike(Replied(r, code), req[r])
  BY <1>2, RepliedIs
<1> DEFINE v == Replied(r, code)
<1>4. /\ v \in Handling /\ v.pc = "done" /\ v.status = code /\ ~v.alive
      /\ v.path = req[r].path /\ v.exit = req[r].exit /\ v.met = req[r].met /\ v.unsent = req[r].unsent
      /\ req' = [req EXCEPT ![r] = v]
  BY <1>1, <1>2, <1>3, <1>4a, RepliedIs DEF Alike
<1> HIDE DEF v
<1>5. req'[r] = v
  BY <1>4, RequestTypes
<1>6. Checked(r)' /\ Admitted(r)'
  BY <1>4, <1>5 DEF Checked, Admitted, IsCheck
<1>7. /\ tally' \in [exchanges: 0 .. MaxExchanges, refusals: 0 .. MaxRefusals]
      /\ tally'.refusals >= tally.refusals
  BY <1>3, RequestTypes, RequestAssumption
<1>8. ~Done(r)
  BY <1>1 DEF Done
<1> QED
  BY <1>1, <1>2, <1>3, <1>4, <1>6, <1>7, <1>8, OneMoves

\* The sandbox and the client change, the handlers do not.
LEMMA AroundKeeps ==
    ASSUME RequestInv, UNCHANGED <<req, topics>>,
           place' \in {"none", "provisioning", "running"},
           container' \in BOOLEAN, serving' \in BOOLEAN, gone' \in [Request -> BOOLEAN],
           UNCHANGED tally \/ Exchange
    PROVE  RequestInv'
<1>1. /\ tally' \in [exchanges: 0 .. MaxExchanges, refusals: 0 .. MaxRefusals]
      /\ tally'.refusals = tally.refusals
  BY RequestTypes, RequestAssumption DEF Exchange
<1>2. RequestTypeOK'
  BY <1>1 DEF RequestInv, RequestTypeOK
<1>3. \A r \in Request : (Unanswered(r) /\ Checked(r) /\ Admitted(r))'
  BY <1>1 DEF RequestInv, Unanswered, Checked, Admitted, Done, IsCheck
<1>4. EventsAreLate' /\ CheckedIsReported' /\ EventForCause' /\ AliveForCause'
  BY <1>1 DEF RequestInv, EventsAreLate, CheckedIsReported, EventForCause, AliveForCause, Done, IsCheck
<1> QED
  BY <1>2, <1>3, <1>4 DEF RequestInv

LEMMA SandboxKeeps ==
    ASSUME RequestInv, Recorded \/ Provisioned \/ Removed \/ WorkerStarts PROVE RequestInv'
<1>1. place \in {"none", "provisioning", "running"} /\ gone \in [Request -> BOOLEAN]
  BY DEF RequestInv, RequestTypeOK
<1>2. container \in BOOLEAN /\ serving \in BOOLEAN
  BY DEF RequestInv, RequestTypeOK
<1>3. container' \in BOOLEAN /\ serving' \in BOOLEAN
  BY <1>2, Zenon DEF Recorded, Provisioned, Removed, WorkerStarts
<1>4. /\ UNCHANGED <<req, topics, gone>> /\ place' \in {"none", "provisioning", "running"}
      /\ UNCHANGED tally \/ Exchange
  BY <1>1 DEF Recorded, Provisioned, Removed, WorkerStarts
<1> QED
  BY <1>1, <1>3, <1>4, AroundKeeps

LEMMA LeaveKeeps == ASSUME RequestInv, NEW r \in Request, LeavePage(r) PROVE RequestInv'
<1>1. gone' \in [Request -> BOOLEAN]
  BY DEF LeavePage, RequestInv, RequestTypeOK
<1>2. container' \in BOOLEAN /\ serving' \in BOOLEAN
  BY DEF LeavePage, RequestInv, RequestTypeOK
<1> QED
  BY <1>1, <1>2, AroundKeeps DEF LeavePage, RequestInv, RequestTypeOK

\* The end of the worker answers 502 for everything it was handling.
LEMMA StopsKeeps == ASSUME RequestInv, WorkerStops PROVE RequestInv'
<1>1. /\ req' = [r \in Request |-> IF AtWorker(r) THEN Replied(r, 502) ELSE req[r]]
      /\ UNCHANGED <<place, container, gone, topics>> /\ serving' = FALSE /\ Exchange
  BY DEF WorkerStops, Replied
<1>2. \A r \in Request :
        /\ Replied(r, 502) \in Handling /\ Alike(Replied(r, 502), req[r])
        /\ Replied(r, 502).pc = "done" /\ Replied(r, 502).status = 502
        /\ Replied(r, 502).alive = req[r].alive
  BY RepliedIs DEF Status
<1>3. /\ tally' \in [exchanges: 0 .. MaxExchanges, refusals: 0 .. MaxRefusals]
      /\ tally'.refusals = tally.refusals
  BY <1>1, RequestTypes, RequestAssumption DEF Exchange
<1>4. RequestTypeOK'
  <2>1. req' \in [Request -> Handling]
    BY <1>1, <1>2, RequestTypes
  <2>2. container' \in BOOLEAN /\ serving' \in BOOLEAN
    BY <1>1, Zenon DEF RequestInv, RequestTypeOK
  <2> QED
    BY <1>1, <1>3, <2>1, <2>2 DEF RequestInv, RequestTypeOK, Handling
<1>5. ASSUME NEW r \in Request
      PROVE  /\ AtWorker(r) => req'[r] = Replied(r, 502) /\ ~req[r].alive /\ ~Done(r) /\ req[r].pc # "idle"
             /\ ~AtWorker(r) => req'[r] = req[r]
  BY <1>1 DEF RequestInv, Unanswered, AtWorker, Done
<1>6. ASSUME NEW r \in Request
      PROVE  (Unanswered(r) /\ Checked(r) /\ Admitted(r))'
  <2>1. CASE AtWorker(r)
    BY <1>2, <1>5, <2>1 DEF Unanswered, Checked, Admitted, Done
  <2>2. CASE ~AtWorker(r)
    BY <1>1, <1>3, <1>5, <2>2 DEF Unanswered, Checked, Admitted, Done, IsCheck, RequestInv
  <2> QED
    BY <2>1, <2>2
<1>7. ASSUME NEW e \in topics
      PROVE  /\ e[1] \in Request
             /\ req'[e[1]].pc \in {"answer", "done"}
             /\ Alike(req'[e[1]], req[e[1]])
             /\ req'[e[1]].status \in {0, 200, 422, 502}
  <2>1. e[1] \in Request /\ req[e[1]].pc \in {"answer", "done"} /\ req[e[1]].status \in {0, 200, 422, 502}
    BY DEF RequestInv, RequestTypeOK, EventsAreLate, EventForCause
  <2> QED
    BY <1>2, <1>5, <2>1 DEF Alike
<1>8. EventsAreLate' /\ EventForCause'
  BY <1>1, <1>7 DEF EventsAreLate, EventForCause, RequestInv, Alike, IsCheck
<1>9. CheckedIsReported'
  <2> SUFFICES ASSUME NEW r \in Request, req'[r].status \in {200, 422}, IsCheck(r)', ~req'[r].unsent
               PROVE  <<r, Verdict(req'[r].exit)>> \in topics'
    BY DEF CheckedIsReported
  <2> QED
    BY <1>1, <1>2, <1>5 DEF RequestInv, CheckedIsReported, IsCheck
<1>10. AliveForCause'
  <2> SUFFICES ASSUME NEW r \in Request, Done(r)', req'[r].alive
               PROVE  /\ req'[r].met
                      /\ \/ req'[r].token = "owner"
                         \/ req'[r].token = "revoked" /\ tally'.refusals > 0
    BY DEF AliveForCause
  <2> QED
    BY <1>2, <1>3, <1>5 DEF RequestInv, AliveForCause, Done
<1> QED
  BY <1>4, <1>6, <1>8, <1>9, <1>10 DEF RequestInv

LEMMA RequestStep == RequestInv /\ [RequestNext]_requestVars => RequestInv'
<1> SUFFICES ASSUME RequestInv, [RequestNext]_requestVars
             PROVE  RequestInv'
  OBVIOUS
<1>1. ASSUME NEW r \in Request, Requested(r) \/ Proxy(r) \/ Authorize(r) \/ Find(r)
      PROVE  RequestInv'
  BY <1>1, RequestedKeeps, ProxyKeeps, AuthorizeKeeps, FindKeeps
<1>2. ASSUME NEW r \in Request, Run(r) \/ Inspect(r) \/ EmitResult(r) \/ Respond(r) \/ LeavePage(r)
      PROVE  RequestInv'
  BY <1>2, RunKeeps, InspectKeeps, EmitKeeps, RespondKeeps, LeaveKeeps
<1>3. CASE Recorded \/ Provisioned \/ Removed \/ WorkerStarts
  BY <1>3, SandboxKeeps
<1>4. CASE WorkerStops
  BY <1>4, StopsKeeps
<1>5. CASE UNCHANGED requestVars
  <2>1. container' \in BOOLEAN /\ serving' \in BOOLEAN
    BY <1>5 DEF requestVars, RequestInv, RequestTypeOK
  <2> QED
    BY <1>5, <2>1, AroundKeeps DEF requestVars, RequestInv, RequestTypeOK
<1> QED
  BY <1>1, <1>2, <1>3, <1>4, <1>5 DEF RequestNext

\* Every variable of the requests keeps its type; a check that has come back is announced,
\* an event is one of a script that ran for its request, and only an owner is told that a
\* sandbox is alive - whatever leaves, fails or ends between any two calls (main.go:158).
THEOREM RequestsCorrect == RequestSpec => []RequestsSound
<1>1. RequestInv => RequestsSound
  BY DEF RequestInv, RequestsSound
<1> QED
  BY <1>1, RequestStart, RequestStep, PTL DEF RequestSpec

-----------------------------------------------------------------------------
(* The runtimes                                                            *)

BoxKind == [pc: {"off", "local", "mirror", "pull", "fallback", "create", "start", "vm", "made",
                 "failed", "removed"},
            runtime: Runtime, life: {"none", "created", "up"}, image: ImageName, lost: BOOLEAN]
TermKind == [pc: {"off", "probe", "create", "attach", "shell", "open"},
             tmux: BOOLEAN, attached: BOOLEAN, hurt: BOOLEAN, opened: 0 .. MaxTerminals]
CallKind == [kind: {"none", "exec", "attach", "shell"}, at: 0 .. 8,
             open: SUBSET {"conn", "client", "sess"}]

\* What is not made yet is not there, and the registry's name is used only where one is set.
BoxInv(b) ==
    /\ box[b].life # "none" => box[b].pc \in {"start", "made"} \/ box[b].lost
    /\ box[b].pc \in {"off", "local", "mirror", "pull", "fallback", "create", "vm"} =>
          box[b].life = "none"
    /\ box[b].runtime \in host
    /\ box[b].image = "registry" \/ box[b].pc = "mirror" => registry

\* The step of a terminal says which call is in progress; a tmux session is there before
\* it is attached to, and without a failure a shell is opened only where there is no tmux.
ShellInv(b) ==
    /\ term[b].pc = "off" => exec[b].kind = "none" /\ exec[b].open = {}
    /\ term[b].pc \notin {"off", "open"} => exec[b].kind # "none"
    /\ term[b].pc = "attach" => term[b].tmux
    /\ term[b].pc = "shell" /\ hasTmux => term[b].hurt
    /\ term[b].pc \in {"probe", "create"} => ~term[b].hurt
    /\ term[b].pc = "open" /\ hasTmux => /\ ~term[b].hurt => term[b].attached
                                         /\ term[b].attached => term[b].tmux

RuntimeInv == RuntimeTypeOK /\ \A b \in Box : BoxInv(b) /\ ShellInv(b)

LEMMA RuntimeTypes ==
    /\ RuntimeInv => /\ box \in [Box -> BoxKind] /\ term \in [Box -> TermKind]
                     /\ exec \in [Box -> CallKind]
                     /\ \A b \in Box : box[b] \in BoxKind /\ term[b] \in TermKind /\ exec[b] \in CallKind
BY DEF RuntimeInv, RuntimeTypeOK, BoxKind, TermKind, CallKind

LEMMA RuntimeStart == RuntimeInit => RuntimeInv
<1> SUFFICES ASSUME RuntimeInit PROVE RuntimeInv
  OBVIOUS
<1>1. NoBox \in BoxKind
  BY DEF NoBox, BoxKind, Runtime, ImageName
<1>2. NoTerm \in TermKind
  BY RuntimeAssumption DEF NoTerm, TermKind
<1>3. NoCall \in CallKind
  BY DEF NoCall, CallKind
<1>4. registry \in BOOLEAN /\ hasTmux \in BOOLEAN
  BY Zenon DEF RuntimeInit
<1>5. RuntimeTypeOK
  BY <1>1, <1>2, <1>3, <1>4, RuntimeAssumption
  DEF RuntimeInit, RuntimeTypeOK, BoxKind, TermKind, CallKind
<1>6. \A b \in Box : BoxInv(b) /\ ShellInv(b)
  BY DEF RuntimeInit, BoxInv, ShellInv, NoBox, NoTerm, NoCall
<1> QED
  BY <1>5, <1>6 DEF RuntimeInv

\* A step of the sandbox: its terminal and the other sandboxes are as they were.
LEMMA BoxMoves ==
    ASSUME RuntimeInv, NEW b \in Box, NEW v \in BoxKind,
           box' = [box EXCEPT ![b] = v],
           UNCHANGED <<host, registry, hasTmux, term, exec>>,
           images' \subseteq ImageName, UNCHANGED mishaps \/ Mishap,
           v.life # "none" => v.pc \in {"start", "made"} \/ v.lost,
           v.pc \in {"off", "local", "mirror", "pull", "fallback", "create", "vm"} => v.life = "none",
           v.runtime \in host,
           v.image = "registry" \/ v.pc = "mirror" => registry
    PROVE  RuntimeInv'
<1>1. box'[b] = v /\ \A c \in Box \ {b} : box'[c] = box[c]
  BY RuntimeTypes
<1>2. mishaps' \in 0 .. MaxMishaps
  BY RuntimeAssumption DEF Mishap, RuntimeInv, RuntimeTypeOK
<1>3. registry' \in BOOLEAN /\ hasTmux' \in BOOLEAN
  BY Zenon DEF RuntimeInv, RuntimeTypeOK
<1>4. RuntimeTypeOK'
  BY <1>2, <1>3 DEF RuntimeInv, RuntimeTypeOK, BoxKind
<1>5. ASSUME NEW c \in Box
      PROVE  (BoxInv(c) /\ ShellInv(c))'
  BY <1>1 DEF RuntimeInv, BoxInv, ShellInv
<1> QED
  BY <1>4, <1>5 DEF RuntimeInv

\* A step of its terminal, and of the call that is in progress for it.
LEMMA TermMoves ==
    ASSUME RuntimeInv, NEW b \in Box, NEW v \in TermKind, NEW w \in CallKind,
           term' = [term EXCEPT ![b] = v], exec' = [exec EXCEPT ![b] = w],
           UNCHANGED <<host, images, registry, hasTmux, box>>, UNCHANGED mishaps \/ Mishap,
           v.pc = "off" => w.kind = "none" /\ w.open = {},
           v.pc \notin {"off", "open"} => w.kind # "none",
           v.pc = "attach" => v.tmux,
           v.pc = "shell" /\ hasTmux => v.hurt,
           v.pc \in {"probe", "create"} => ~v.hurt,
           v.pc = "open" /\ hasTmux => (~v.hurt => v.attached) /\ (v.attached => v.tmux)
    PROVE  RuntimeInv'
<1>1. /\ term'[b] = v /\ \A c \in Box \ {b} : term'[c] = term[c]
      /\ exec'[b] = w /\ \A c \in Box \ {b} : exec'[c] = exec[c]
  BY RuntimeTypes
<1>2. mishaps' \in 0 .. MaxMishaps
  BY RuntimeAssumption DEF Mishap, RuntimeInv, RuntimeTypeOK
<1>3. registry' \in BOOLEAN /\ hasTmux' \in BOOLEAN
  BY Zenon DEF RuntimeInv, RuntimeTypeOK
<1>4. RuntimeTypeOK'
  BY <1>2, <1>3 DEF RuntimeInv, RuntimeTypeOK, TermKind, CallKind
<1>5. ASSUME NEW c \in Box
      PROVE  (BoxInv(c) /\ ShellInv(c))'
  BY <1>1 DEF RuntimeInv, BoxInv, ShellInv
<1> QED
  BY <1>4, <1>5 DEF RuntimeInv

LEMMA ProviderIsHosts ==
    ASSUME RuntimeInv, NEW name \in Runtime
    PROVE  GetProviderByName(name) \in host /\ GetProviderByName(name) \in Runtime
<1>1. host \subseteq Runtime /\ "docker" \in host
  BY DEF RuntimeInv, RuntimeTypeOK
<1>2. "docker" \in DOMAIN providers /\ providers["docker"] \in host
  BY <1>1 DEF providers
<1>3. ASSUME name \in DOMAIN providers
      PROVE  providers[name] \in host
  BY <1>1, <1>3 DEF providers
<1> QED
  BY <1>1, <1>2, <1>3 DEF GetProviderByName

LEMMA SandboxAskKeeps == ASSUME RuntimeInv, NEW b \in Box, AskSandbox(b) PROVE RuntimeInv'
<1>1. PICK name \in Runtime : LET r == GetProviderByName(name) IN
         box' = [box EXCEPT ![b].runtime = r, ![b].pc = IF r = "flintlock" THEN "vm" ELSE "local"]
  BY DEF AskSandbox
<1> DEFINE r == GetProviderByName(name)
           v == [box[b] EXCEPT !.runtime = r, !.pc = IF r = "flintlock" THEN "vm" ELSE "local"]
<1>2. r \in host /\ r \in Runtime
  BY ProviderIsHosts
<1>3. box' = [box EXCEPT ![b] = v]
  BY <1>1
<1> HIDE DEF r
<1>4. box[b] \in BoxKind /\ BoxInv(b) /\ box[b].pc = "off"
  BY RuntimeTypes DEF RuntimeInv, AskSandbox
<1>5. v \in BoxKind
  BY <1>2, <1>4 DEF BoxKind
<1>6. /\ v.life = "none" /\ v.runtime \in host /\ v.pc \in {"vm", "local"}
      /\ v.image = "registry" => registry
  BY <1>2, <1>4 DEF BoxKind, BoxInv
<1> HIDE DEF v
<1>7. UNCHANGED <<host, registry, hasTmux, term, exec, mishaps>> /\ images' \subseteq ImageName
  BY DEF AskSandbox, RuntimeInv, RuntimeTypeOK
<1> QED
  BY <1>3, <1>5, <1>6, <1>7, BoxMoves

\* Provision goes on to another of its steps, before there is a sandbox.
LEMMA PlaceKeeps ==
    ASSUME RuntimeInv, NEW b \in Box, NEW pc, NEW name \in ImageName,
           pc \in {"mirror", "pull", "fallback", "failed", "create"},
           box[b].pc \in {"local", "mirror", "pull", "fallback", "create"},
           box' = [box EXCEPT ![b].pc = pc, ![b].image = name],
           pc = "mirror" \/ name = "registry" => registry,
           UNCHANGED <<host, registry, hasTmux, term, exec>>,
           images' \subseteq ImageName, UNCHANGED mishaps \/ Mishap
    PROVE  RuntimeInv'
<1> DEFINE v == [box[b] EXCEPT !.pc = pc, !.image = name]
<1>1. box[b] \in BoxKind /\ BoxInv(b)
  BY RuntimeTypes DEF RuntimeInv
<1>2. box' = [box EXCEPT ![b] = v]
  OBVIOUS
<1>3. v \in BoxKind
  BY <1>1 DEF BoxKind
<1>4. v.life = "none" /\ v.runtime \in host /\ v.pc = pc /\ v.image = name
  BY <1>1 DEF BoxKind, BoxInv
<1> HIDE DEF v
<1> QED
  BY <1>2, <1>3, <1>4, BoxMoves

LEMMA ToIsPlace ==
    ASSUME RuntimeInv, NEW b \in Box, NEW pc, To(b, pc)
    PROVE  box' = [box EXCEPT ![b].pc = pc, ![b].image = box[b].image]
<1>1. box[b] \in BoxKind
  BY RuntimeTypes
<1>2. [box[b] EXCEPT !.pc = pc] = [box[b] EXCEPT !.pc = pc, !.image = box[b].image]
  BY <1>1 DEF BoxKind
<1> QED
  BY <1>2 DEF To

LEMMA LocalKeeps == ASSUME RuntimeInv, NEW b \in Box, Local(b) PROVE RuntimeInv'
<1> DEFINE name == IF box[b].pc = "local" THEN "plain" ELSE "registry"
           next == IF box[b].pc = "local" /\ registry THEN "mirror" ELSE "pull"
<1>1. box[b] \in BoxKind /\ BoxInv(b) /\ box[b].pc \in {"local", "mirror"}
  BY RuntimeTypes DEF RuntimeInv, Local
<1>2. /\ UNCHANGED <<host, registry, hasTmux, term, exec>> /\ images' \subseteq ImageName
      /\ UNCHANGED mishaps \/ Mishap
  BY DEF Local, RuntimeInv, RuntimeTypeOK
<1>3. Use(b, name) \/ To(b, next)
  BY DEF Local
<1>4. name \in ImageName /\ next \in {"mirror", "pull"}
  BY DEF ImageName
<1>5. (name = "registry" => registry) /\ (next = "mirror" => registry)
  BY <1>1 DEF BoxInv
<1>6. box[b].image \in ImageName /\ (box[b].image = "registry" => registry)
  BY <1>1 DEF BoxKind, BoxInv
<1> HIDE DEF name, next
<1>7. CASE Use(b, name)
  <2> DEFINE step == "create"
  <2>1. box' = [box EXCEPT ![b].pc = step, ![b].image = name]
    BY <1>7 DEF Use
  <2>2. /\ step \in {"mirror", "pull", "fallback", "failed", "create"}
        /\ step = "mirror" \/ name = "registry" => registry
    BY <1>2, <1>5
  <2> HIDE DEF step
  <2> QED
    BY <1>1, <1>2, <1>4, <1>5, <2>1, <2>2, PlaceKeeps
<1>8. CASE To(b, next)
  <2>1. box' = [box EXCEPT ![b].pc = next, ![b].image = box[b].image]
    BY <1>8, ToIsPlace
  <2> QED
    BY <1>1, <1>2, <1>4, <1>5, <1>6, <2>1, PlaceKeeps
<1> QED
  BY <1>3, <1>7, <1>8

LEMMA PullKeeps == ASSUME RuntimeInv, NEW b \in Box, PullImage(b) PROVE RuntimeInv'
<1> DEFINE name == IF registry /\ box[b].pc = "pull" THEN "registry" ELSE "plain"
           next == IF name = "registry" THEN "fallback" ELSE "failed"
<1>1. box[b] \in BoxKind /\ BoxInv(b) /\ box[b].pc \in {"pull", "fallback"}
  BY RuntimeTypes DEF RuntimeInv, PullImage
<1>2. name \in ImageName /\ next \in {"fallback", "failed"} /\ (name = "registry" => registry)
  BY DEF ImageName
<1>3. /\ UNCHANGED <<host, registry, hasTmux, term, exec>> /\ images' \subseteq ImageName
      /\ UNCHANGED mishaps \/ Mishap
  BY <1>2 DEF PullImage, RuntimeInv, RuntimeTypeOK
<1>4. Use(b, name) \/ To(b, next)
  BY DEF PullImage
<1>5. box[b].image \in ImageName /\ (box[b].image = "registry" => registry)
  BY <1>1 DEF BoxKind, BoxInv
<1> HIDE DEF name, next
<1>6. CASE Use(b, name)
  <2> DEFINE step == "create"
  <2>1. box' = [box EXCEPT ![b].pc = step, ![b].image = name]
    BY <1>6 DEF Use
  <2>2. /\ step \in {"mirror", "pull", "fallback", "failed", "create"}
        /\ step = "mirror" \/ name = "registry" => registry
    BY <1>2, <1>5
  <2> HIDE DEF step
  <2> QED
    BY <1>1, <1>2, <1>3, <2>1, <2>2, PlaceKeeps
<1>7. CASE To(b, next)
  <2>1. box' = [box EXCEPT ![b].pc = next, ![b].image = box[b].image]
    BY <1>7, ToIsPlace
  <2> QED
    BY <1>1, <1>2, <1>3, <1>5, <2>1, PlaceKeeps
<1> QED
  BY <1>4, <1>6, <1>7

\* A sandbox is made, or not, or is gone: it is there only where Provision knows it, or
\* its answer was lost.
LEMMA LifeKeeps ==
    ASSUME RuntimeInv, NEW b \in Box, NEW pc, NEW life, NEW lost \in BOOLEAN,
           box' = [box EXCEPT ![b].pc = pc, ![b].life = life, ![b].lost = lost],
           pc \in {"start", "made", "failed", "removed"}, life \in {"none", "created", "up"},
           life # "none" => pc \in {"start", "made"} \/ lost,
           UNCHANGED <<host, images, registry, hasTmux, term, exec>>, UNCHANGED mishaps \/ Mishap
    PROVE  RuntimeInv'
<1> DEFINE v == [box[b] EXCEPT !.pc = pc, !.life = life, !.lost = lost]
<1>1. box[b] \in BoxKind /\ BoxInv(b) /\ images' \subseteq ImageName
  BY RuntimeTypes DEF RuntimeInv, RuntimeTypeOK
<1>2. box' = [box EXCEPT ![b] = v]
  OBVIOUS
<1>3. v \in BoxKind
  BY <1>1 DEF BoxKind
<1>4. /\ v.pc = pc /\ v.life = life /\ v.lost = lost
      /\ v.runtime \in host /\ (v.image = "registry" => registry)
  BY <1>1 DEF BoxKind, BoxInv
<1> HIDE DEF v
<1> QED
  BY <1>1, <1>2, <1>3, <1>4, BoxMoves

\* The steps of a sandbox that is being made or removed, each with what becomes of it.
Lives(b, pc, life, lost) == box' = [box EXCEPT ![b].pc = pc, ![b].life = life, ![b].lost = lost]

LEMMA LifeIsLives ==
    ASSUME RuntimeInv, NEW b \in Box, NEW pc, NEW life
    PROVE  /\ To(b, pc) => Lives(b, pc, box[b].life, box[b].lost)
           /\ box' = [box EXCEPT ![b].pc = pc, ![b].life = life] => Lives(b, pc, life, box[b].lost)
           /\ box' = [box EXCEPT ![b].pc = pc, ![b].lost = TRUE] => Lives(b, pc, box[b].life, TRUE)
<1>1. box[b] \in BoxKind
  BY RuntimeTypes
<1>2. /\ [box[b] EXCEPT !.pc = pc]
           = [box[b] EXCEPT !.pc = pc, !.life = box[b].life, !.lost = box[b].lost]
      /\ [box[b] EXCEPT !.pc = pc, !.life = life]
           = [box[b] EXCEPT !.pc = pc, !.life = life, !.lost = box[b].lost]
      /\ [box[b] EXCEPT !.pc = pc, !.lost = TRUE]
           = [box[b] EXCEPT !.pc = pc, !.life = box[b].life, !.lost = TRUE]
  BY <1>1 DEF BoxKind
<1> QED
  BY <1>2 DEF To, Lives

LEMMA BoxStepsKeep ==
    ASSUME RuntimeInv, NEW b \in Box,
           CreateContainer(b) \/ StartContainer(b) \/ CreateMicroVM(b) \/ Remove(b)
    PROVE  RuntimeInv'
<1>1. /\ UNCHANGED <<host, images, registry, hasTmux, term, exec>>
      /\ UNCHANGED mishaps \/ Mishap
  BY DEF CreateContainer, StartContainer, CreateMicroVM, Remove
<1>2. /\ box[b] \in BoxKind /\ box[b].lost \in BOOLEAN /\ box[b].life \in {"none", "created", "up"}
      /\ box[b].pc \in {"create", "vm"} => box[b].life = "none"
  BY RuntimeTypes DEF RuntimeInv, BoxInv, BoxKind
<1>3. CASE CreateContainer(b)
  <2>1. \/ box' = [box EXCEPT ![b].pc = "start", ![b].life = "created"]
        \/ To(b, "failed")
        \/ box' = [box EXCEPT ![b].pc = "failed", ![b].life = "created", ![b].lost = TRUE]
    BY <1>3 DEF CreateContainer
  <2>2. box' = [box EXCEPT ![b].pc = "start", ![b].life = "created"]
        => Lives(b, "start", "created", box[b].lost)
    BY <1>2, LifeIsLives
  <2>3. To(b, "failed") => Lives(b, "failed", box[b].life, box[b].lost)
    BY <1>2, LifeIsLives
  <2>4. box' = [box EXCEPT ![b].pc = "failed", ![b].life = "created", ![b].lost = TRUE]
        => Lives(b, "failed", "created", TRUE)
    BY DEF Lives
  <2> QED
    BY <1>1, <1>2, <1>3, <2>1, <2>2, <2>3, <2>4, LifeKeeps DEF Lives, CreateContainer
<1>4. CASE StartContainer(b)
  <2>1. \/ box' = [box EXCEPT ![b].pc = "made", ![b].life = "up"]
        \/ box' = [box EXCEPT ![b].pc = "failed", ![b].life = "none"]
        \/ box' = [box EXCEPT ![b].pc = "failed", ![b].lost = TRUE]
    BY <1>4 DEF StartContainer
  <2>2. box' = [box EXCEPT ![b].pc = "made", ![b].life = "up"]
        => Lives(b, "made", "up", box[b].lost)
    BY <1>2, LifeIsLives
  <2>3. box' = [box EXCEPT ![b].pc = "failed", ![b].life = "none"]
        => Lives(b, "failed", "none", box[b].lost)
    BY <1>2, LifeIsLives
  <2>4. box' = [box EXCEPT ![b].pc = "failed", ![b].lost = TRUE]
        => Lives(b, "failed", box[b].life, TRUE)
    BY <1>2, LifeIsLives
  <2> QED
    <3>1. CASE Lives(b, "made", "up", box[b].lost)
      BY <1>1, <1>2, <3>1, LifeKeeps DEF Lives
    <3>2. CASE Lives(b, "failed", "none", box[b].lost)
      BY <1>1, <1>2, <3>2, LifeKeeps DEF Lives
    <3>3. CASE Lives(b, "failed", box[b].life, TRUE)
      BY <1>1, <1>2, <3>3, LifeKeeps DEF Lives
    <3> QED
      BY <2>1, <2>2, <2>3, <2>4, <3>1, <3>2, <3>3
<1>5. CASE CreateMicroVM(b)
  <2>1. \/ box' = [box EXCEPT ![b].pc = "made", ![b].life = "up"]
        \/ To(b, "failed")
        \/ box' = [box EXCEPT ![b].pc = "failed", ![b].life = "up", ![b].lost = TRUE]
    BY <1>5 DEF CreateMicroVM
  <2>2. box' = [box EXCEPT ![b].pc = "made", ![b].life = "up"]
        => Lives(b, "made", "up", box[b].lost)
    BY <1>2, LifeIsLives
  <2>3. To(b, "failed") => Lives(b, "failed", box[b].life, box[b].lost)
    BY <1>2, LifeIsLives
  <2>4. box' = [box EXCEPT ![b].pc = "failed", ![b].life = "up", ![b].lost = TRUE]
        => Lives(b, "failed", "up", TRUE)
    BY DEF Lives
  <2> QED
    BY <1>1, <1>2, <1>5, <2>1, <2>2, <2>3, <2>4, LifeKeeps DEF Lives, CreateMicroVM
<1>6. CASE Remove(b)
  <2>1. \/ box' = [box EXCEPT ![b].pc = "removed", ![b].life = "none"]
        \/ box' = [box EXCEPT ![b].pc = "removed", ![b].lost = TRUE]
    BY <1>6 DEF Remove
  <2>2. box' = [box EXCEPT ![b].pc = "removed", ![b].life = "none"]
        => Lives(b, "removed", "none", box[b].lost)
    BY <1>2, LifeIsLives
  <2>3. box' = [box EXCEPT ![b].pc = "removed", ![b].lost = TRUE]
        => Lives(b, "removed", box[b].life, TRUE)
    BY <1>2, LifeIsLives
  <2> QED
    BY <1>1, <1>2, <1>6, <2>1, <2>2, <2>3, LifeKeeps DEF Lives, Remove
<1> QED
  BY <1>3, <1>4, <1>5, <1>6

LEMMA CallsAreFew ==
    ASSUME NEW runtime, NEW kind
    PROVE  Len(CallsOf(runtime, kind)) \in 1 .. 7
BY DEF CallsOf


\* The next call of a command, or of a terminal that is opened.
LEMMA ProceedsKeeps == ASSUME RuntimeInv, NEW b \in Box, Proceeds(b) PROVE RuntimeInv'
<1> DEFINE opened == {Steps(b)[exec[b].at]} \cap {"conn", "client", "sess"}
           w == [exec[b] EXCEPT !.at = @ + 1, !.open = @ \cup opened]
<1>1. term[b] \in TermKind /\ exec[b] \in CallKind /\ ShellInv(b)
  BY RuntimeTypes DEF RuntimeInv
<1>2. exec[b].at \in 0 .. 7
  <2> DEFINE n == Len(Steps(b))
             at == exec[b].at
  <2>1. at <= n /\ at \in 0 .. 8
    BY <1>1 DEF Proceeds, CallKind
  <2>2. n \in 1 .. 7
    BY CallsAreFew DEF Steps
  <2> HIDE DEF n, at
  <2>3. at \in 0 .. 7
    BY <2>1, <2>2
  <2> QED
    BY <2>3 DEF at
<1>3. exec' = [exec EXCEPT ![b] = w] /\ term' = [term EXCEPT ![b] = term[b]]
  BY RuntimeTypes DEF Proceeds
<1>4. opened \subseteq {"conn", "client", "sess"}
  OBVIOUS
<1>5. UNCHANGED <<host, images, registry, hasTmux, box, mishaps>> /\ exec[b].kind # "none"
  BY DEF Proceeds
<1> HIDE DEF opened
<1>6. w \in CallKind /\ w.kind = exec[b].kind
  <2>1. exec[b].at + 1 \in 0 .. 8
    BY <1>2
  <2>2. exec[b].open \cup opened \in SUBSET {"conn", "client", "sess"}
    BY <1>1, <1>4 DEF CallKind
  <2> QED
    BY <1>1, <2>1, <2>2 DEF CallKind
<1> HIDE DEF w
<1>7. term[b].pc # "off"
  BY <1>1, <1>5 DEF ShellInv
<1> QED
  BY <1>1, <1>3, <1>5, <1>6, <1>7, TermMoves DEF ShellInv

\* A terminal goes on with the first call of a command, ...
LEMMA BeginKeeps ==
    ASSUME RuntimeInv, NEW b \in Box, NEW v \in TermKind, NEW kind \in {"exec", "attach", "shell"},
           term' = [term EXCEPT ![b] = v], Begin(b, kind),
           UNCHANGED <<host, images, registry, hasTmux, box, mishaps>>,
           v.pc \notin {"off", "open"},
           v.pc = "attach" => v.tmux,
           v.pc = "shell" /\ hasTmux => v.hurt,
           v.pc \in {"probe", "create"} => ~v.hurt
    PROVE  RuntimeInv'
<1> DEFINE w == [NoCall EXCEPT !.kind = kind, !.at = 1]
<1>1. [NoCall EXCEPT !.kind = kind] = [kind |-> kind, at |-> 0, open |-> {}]
  BY DEF NoCall
<1>2. w = [[kind |-> kind, at |-> 0, open |-> {}] EXCEPT !.at = 1]
  BY <1>1
<1>3. w = [kind |-> kind, at |-> 1, open |-> {}]
  BY <1>2
<1>4. exec' = [exec EXCEPT ![b] = w]
  BY DEF Begin
<1> HIDE DEF w
<1>5. w \in CallKind /\ w.kind = kind
  BY <1>3 DEF CallKind
<1> QED
  BY <1>4, <1>5, TermMoves

\* ... or after its last one.
LEMMA BoxReturnKeeps ==
    ASSUME RuntimeInv, NEW b \in Box, NEW v \in TermKind,
           NEW kept \in SUBSET {"conn", "client", "sess"},
           term' = [term EXCEPT ![b] = v], Returns(b, kept),
           UNCHANGED <<host, images, registry, hasTmux, box, mishaps>>,
           (v.pc = "off" /\ kept = {}) \/ v.pc = "open",
           v.pc = "open" /\ hasTmux => (~v.hurt => v.attached) /\ (v.attached => v.tmux)
    PROVE  RuntimeInv'
<1> DEFINE w == [kind |-> "none", at |-> 0, open |-> kept]
<1>1. w \in CallKind /\ w.kind = "none" /\ w.open = kept
  BY DEF CallKind
<1>2. w = [NoCall EXCEPT !.open = kept]
  BY DEF NoCall
<1>3. exec' = [exec EXCEPT ![b] = w]
  BY <1>2 DEF Returns
<1> HIDE DEF w
<1> QED
  BY <1>1, <1>3, TermMoves

LEMMA StartTerminalKeeps == ASSUME RuntimeInv, NEW b \in Box, StartTerminal(b) PROVE RuntimeInv'
<1> DEFINE v == [term[b] EXCEPT !.pc = "probe", !.hurt = FALSE, !.attached = FALSE,
                                !.opened = @ + 1]
<1>1. term[b] \in TermKind /\ term[b].opened < MaxTerminals
  BY RuntimeTypes DEF StartTerminal
<1>2. term' = [term EXCEPT ![b] = v]
  BY DEF StartTerminal
<1>3. v \in TermKind /\ v.pc = "probe" /\ ~v.hurt
  <2>1. term[b].opened + 1 \in 0 .. MaxTerminals
    BY <1>1, RuntimeAssumption DEF TermKind
  <2> QED
    BY <1>1, <2>1 DEF TermKind
<1> DEFINE kind == "exec"
<1>4. Begin(b, kind) /\ kind \in {"exec", "attach", "shell"}
  BY DEF StartTerminal
<1>5. UNCHANGED <<host, images, registry, hasTmux, box, mishaps>>
  BY DEF StartTerminal
<1> HIDE DEF v, kind
<1> QED
  BY <1>2, <1>3, <1>4, <1>5, BeginKeeps

LEMMA ProbedKeeps == ASSUME RuntimeInv, NEW b \in Box, SessionProbed(b) PROVE RuntimeInv'
<1> DEFINE next == IF term[b].tmux THEN "attach" ELSE "create"
           kind == IF next = "attach" THEN "attach" ELSE "exec"
           v == [term[b] EXCEPT !.pc = next]
<1>1. term[b] \in TermKind /\ ShellInv(b) /\ term[b].pc = "probe"
  BY RuntimeTypes DEF RuntimeInv, SessionProbed
<1>2. term' = [term EXCEPT ![b] = v]
  BY DEF SessionProbed, CallBegins
<1>3. v \in TermKind /\ v.pc = next /\ v.hurt = term[b].hurt /\ v.tmux = term[b].tmux
  BY <1>1 DEF TermKind
<1>4. Begin(b, kind)
  BY DEF SessionProbed
<1>5. UNCHANGED <<host, images, registry, hasTmux, box, mishaps>>
  BY DEF SessionProbed
<1>6. /\ next \in {"attach", "create"} /\ kind \in {"attach", "exec"}
      /\ next = "attach" => term[b].tmux
  OBVIOUS
<1>7. ~v.hurt
  BY <1>1, <1>3 DEF ShellInv
<1> HIDE DEF v, next, kind
<1> QED
  BY <1>2, <1>3, <1>4, <1>5, <1>6, <1>7, BeginKeeps

LEMMA MadeKeeps == ASSUME RuntimeInv, NEW b \in Box, SessionMade(b) PROVE RuntimeInv'
<1> DEFINE next == IF hasTmux THEN "attach" ELSE "shell"
           v == [term[b] EXCEPT !.pc = next, !.tmux = hasTmux]
<1>1. term[b] \in TermKind /\ ShellInv(b) /\ hasTmux \in BOOLEAN
  BY RuntimeTypes, Zenon DEF RuntimeInv, RuntimeTypeOK
<1>2. term' = [term EXCEPT ![b] = v]
  BY DEF SessionMade
<1>3. v \in TermKind /\ v.pc = next /\ v.tmux = hasTmux
  BY <1>1 DEF TermKind
<1>4. Begin(b, next)
  BY DEF SessionMade
<1>5. UNCHANGED <<host, images, registry, hasTmux, box, mishaps>>
  BY DEF SessionMade
<1>6. next \in {"attach", "shell"} /\ (next = "attach" => hasTmux) /\ (next = "shell" => ~hasTmux)
  OBVIOUS
<1> HIDE DEF v, next
<1> QED
  BY <1>2, <1>3, <1>4, <1>5, <1>6, BeginKeeps

LEMMA OpenedKeeps == ASSUME RuntimeInv, NEW b \in Box, Opened(b) PROVE RuntimeInv'
<1> DEFINE v == [term[b] EXCEPT !.pc = "open", !.attached = (term[b].pc = "attach")]
<1>1. /\ term[b] \in TermKind /\ exec[b] \in CallKind /\ ShellInv(b)
      /\ term[b].pc \in {"attach", "shell"}
  BY RuntimeTypes DEF RuntimeInv, Opened
<1>2. term' = [term EXCEPT ![b] = v]
  BY DEF Opened
<1>3. /\ v \in TermKind /\ v.pc = "open" /\ v.tmux = term[b].tmux /\ v.hurt = term[b].hurt
      /\ v.attached = (term[b].pc = "attach")
  BY <1>1 DEF TermKind
<1>4. Returns(b, exec[b].open)
  BY DEF Opened
<1>5. UNCHANGED <<host, images, registry, hasTmux, box, mishaps>>
  BY DEF Opened
<1>6. exec[b].open \in SUBSET {"conn", "client", "sess"}
  BY <1>1 DEF CallKind
<1>7. hasTmux => (~v.hurt => v.attached) /\ (v.attached => v.tmux)
  BY <1>1, <1>3 DEF ShellInv
<1> HIDE DEF v
<1> QED
  BY <1>2, <1>3, <1>4, <1>5, <1>6, <1>7, BoxReturnKeeps

LEMMA CallFailsKeeps == ASSUME RuntimeInv, NEW b \in Box, CallFails(b) PROVE RuntimeInv'
<1> DEFINE next == IF term[b].pc = "shell" THEN "off" ELSE "shell"
           kind == IF next = "off" THEN "none" ELSE "shell"
           at == IF next = "off" THEN 0 ELSE 1
<1>1. term[b] \in TermKind /\ ShellInv(b)
  BY RuntimeTypes DEF RuntimeInv
<1>2. PICK made \in {FALSE, term[b].pc = "create" /\ hasTmux /\ exec[b].at = Len(Steps(b))} :
         term' = [term EXCEPT ![b].pc = next, ![b].hurt = TRUE, ![b].tmux = @ \/ made]
  BY DEF CallFails
<1> DEFINE v == [term[b] EXCEPT !.pc = next, !.hurt = TRUE, !.tmux = @ \/ made]
<1>3. term' = [term EXCEPT ![b] = v]
  BY <1>2
<1>4. v \in TermKind /\ v.pc = next /\ v.hurt
  BY <1>1 DEF TermKind
<1> DEFINE w == [kind |-> kind, at |-> at, open |-> {}]
<1>5. exec' = [exec EXCEPT ![b] = w]
  BY DEF CallFails, ClosedBy
<1>6. UNCHANGED <<host, images, registry, hasTmux, box>> /\ (UNCHANGED mishaps \/ Mishap)
  BY DEF CallFails
<1>7. /\ next \in {"off", "shell"} /\ kind \in {"none", "shell"} /\ at \in 0 .. 8
      /\ next = "off" => kind = "none"
      /\ next = "shell" => kind # "none"
  OBVIOUS
<1> HIDE DEF v, next, kind, at
<1>8. w \in CallKind /\ w.kind = kind /\ w.open = {}
  BY <1>7 DEF CallKind
<1> HIDE DEF w
<1> QED
  BY <1>3, <1>4, <1>5, <1>6, <1>7, <1>8, TermMoves

LEMMA HangUpKeeps == ASSUME RuntimeInv, NEW b \in Box, HangUp(b) PROVE RuntimeInv'
<1> DEFINE v == [term[b] EXCEPT !.pc = "off"]
<1>1. term[b] \in TermKind
  BY RuntimeTypes
<1>2. term' = [term EXCEPT ![b] = v]
  BY DEF HangUp
<1>3. v \in TermKind /\ v.pc = "off"
  BY <1>1 DEF TermKind
<1> DEFINE kept == {}
<1>4. Returns(b, kept) /\ kept \in SUBSET {"conn", "client", "sess"} /\ kept = {}
  BY DEF HangUp
<1>5. UNCHANGED <<host, images, registry, hasTmux, box, mishaps>>
  BY DEF HangUp
<1> HIDE DEF v, kept
<1> QED
  BY <1>2, <1>3, <1>4, <1>5, BoxReturnKeeps

LEMMA RuntimeStep == RuntimeInv /\ [RuntimeNext]_runtimeVars => RuntimeInv'
<1> SUFFICES ASSUME RuntimeInv, [RuntimeNext]_runtimeVars PROVE RuntimeInv'
  OBVIOUS
<1>1. ASSUME NEW b \in Box, AskSandbox(b) \/ Local(b) \/ PullImage(b)
      PROVE  RuntimeInv'
  BY <1>1, SandboxAskKeeps, LocalKeeps, PullKeeps
<1>2. ASSUME NEW b \in Box, CreateContainer(b) \/ StartContainer(b) \/ CreateMicroVM(b) \/ Remove(b)
      PROVE  RuntimeInv'
  BY <1>2, BoxStepsKeep
<1>3. ASSUME NEW b \in Box, StartTerminal(b) \/ Proceeds(b) \/ SessionProbed(b) \/ SessionMade(b)
      PROVE  RuntimeInv'
  BY <1>3, StartTerminalKeeps, ProceedsKeeps, ProbedKeeps, MadeKeeps
<1>4. ASSUME NEW b \in Box, Opened(b) \/ CallFails(b) \/ HangUp(b)
      PROVE  RuntimeInv'
  BY <1>4, OpenedKeeps, CallFailsKeeps, HangUpKeeps
<1>5. CASE UNCHANGED runtimeVars
  <2>1. registry' \in BOOLEAN /\ hasTmux' \in BOOLEAN
    BY <1>5, Zenon DEF runtimeVars, RuntimeInv, RuntimeTypeOK
  <2>2. RuntimeTypeOK'
    BY <1>5, <2>1 DEF runtimeVars, RuntimeInv, RuntimeTypeOK
  <2>3. \A b \in Box : (BoxInv(b) /\ ShellInv(b))'
    BY <1>5 DEF runtimeVars, RuntimeInv, BoxInv, ShellInv
  <2> QED
    BY <2>2, <2>3 DEF RuntimeInv
<1> QED
  BY <1>1, <1>2, <1>3, <1>4, <1>5 DEF RuntimeNext

\* Every variable of the runtimes keeps its type; a sandbox nobody knows comes of a lost
\* answer, nothing stays open behind a call that failed, a terminal is attached to the
\* user's session unless a call of it failed, and the runtime and the image are ones the
\* host has - whatever fails, and in whichever order (docker.go, flintlock.go, tmux.go).
THEOREM RuntimesCorrect == RuntimeSpec => []RuntimesSound
<1>1. RuntimeInv => BoxIsKnown
  BY DEF RuntimeInv, BoxInv, BoxIsKnown
<1>2. RuntimeInv => ConnectionIsUsed
  BY RuntimeTypes DEF RuntimeInv, ShellInv, ConnectionIsUsed, TermKind
<1>3. RuntimeInv => ShellIsKept
  BY DEF RuntimeInv, ShellInv, ShellIsKept
<1>4. RuntimeInv => RuntimeForCause
  BY DEF RuntimeInv, BoxInv, RuntimeForCause
<1>5. RuntimeInv => RuntimesSound
  BY <1>1, <1>2, <1>3, <1>4 DEF RuntimeInv, RuntimesSound
<1> QED
  BY <1>5, RuntimeStart, RuntimeStep, PTL DEF RuntimeSpec
=============================================================================
