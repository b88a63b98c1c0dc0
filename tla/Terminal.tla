------------------------------ MODULE Terminal ------------------------------
(***************************************************************************)
(* The terminal of one session in the sandbox worker: the progress stream  *)
(* of its provisioning (session/progress.go), the handler of the WebSocket *)
(* (terminal/handler.go) and the multiplexer that shares one PTY between   *)
(* the session's connections (terminal/multiplexer.go).                    *)
(*                                                                         *)
(* Goroutines interleave at every lock and channel.  Left out: what is     *)
(* typed, resizing, the TTL warning, and the fifty places of a progress    *)
(* channel, more than a session has stages.                                *)
(***************************************************************************)
EXTENDS Naturals, Sequences, FiniteSets

CONSTANTS
    Conn,       \* WebSocket connections; a browser that reconnects is another one
    Foreign,    \* those whose token is of another user
    Maker,      \* the consumer's goroutine, in Manager.Create
    Made,       \* the stages it publishes once the container is there
    MaxCreates, \* how often the start is delivered
    MaxPtys,    \* PTYs ever opened
    MaxChunks,  \* chunks of output ever read from them
    Buffer,     \* places in a subscriber's channel
    MaxFailures   \* failed calls

Pty   == 1 .. MaxPtys
Actor == Conn \cup {Maker}
Stage == {"pull", "failed", "tmux", "ready"} \cup {Made[i] : i \in DOMAIN Made}

ASSUME TerminalAssumption ==
    /\ Foreign \subseteq Conn /\ Maker \notin Conn
    /\ Made \in Seq(STRING)
    /\ {MaxCreates, MaxPtys, MaxChunks, MaxFailures} \subseteq Nat
    /\ Buffer \in Nat \ {0}

VARIABLES
    on,        \* the worker runs
    record,    \* what Manager.Get finds
    maker,     \* Manager.Create
    history,   \* ProgressTracker: the stages published for the session
    listeners, \* and its subscribers, whose channel is
    live,      \* ... this queue
    shut,      \* ... closed
    pub,       \* Publish of each actor: the event and the channels it has yet to reach
    conn,      \* handleTerminal of each connection
    left,      \* the client has closed the WebSocket
    lock,      \* who starts a PTY and holds the multiplexer's mutex
    entry,     \* the session's PTY in the registry, 0 when there is none
    pty,       \* the read loop of each PTY
    subs,      \* its subscribers, whose channel is
    out,       \* ... this queue
    closed,    \* ... closed
    passed,    \* chunks written to each WebSocket, and chunks that found the channel full
    chunks,    \* the PTY each chunk was read from
    count      \* creates, opened PTYs and faults so far

progressVars == <<history, listeners, live, shut, pub>>
outputVars   == <<pty, subs, out, closed, passed, chunks>>
termVars     == <<on, record, maker, progressVars, conn, left, lock, entry, outputVars, count>>

NoHandler == [pc |-> "off", data |-> "none", sent |-> {}, pty |-> 0, since |-> 0,
              reader |-> FALSE, writer |-> FALSE]
NoPty     == [pc |-> "none", to |-> {}, chunk |-> 0]
Ended     == [NoHandler EXCEPT !.pc = "done"]
Idle      == [stage |-> "pull", to |-> {}]

TermTypeOK ==
    /\ on \in BOOLEAN
    /\ record \in {"none", "provisioning", "running"}
    /\ maker \in [pc: {"idle", "start", "provision", "made", "failed"}, todo: Nat \ {0}]
    /\ history \subseteq Stage
    /\ listeners \subseteq Conn
    /\ live \in [Conn -> Seq(Stage)] /\ shut \in [Conn -> BOOLEAN]
    /\ pub \in [Actor -> [stage: Stage, to: SUBSET Conn]]
    /\ conn \in [Conn -> [pc: {"off", "asked", "listen", "wait", "tmux", "shared", "starting",
                               "ready", "greet", "open", "leave", "done"},
                          data: {"none", "error", "provisioning", "running"},
                          sent: SUBSET Stage, pty: {0} \cup Pty, since: 0 .. MaxChunks,
                          reader: BOOLEAN, writer: BOOLEAN]]
    /\ left \in [Conn -> BOOLEAN]
    /\ lock \in Conn \cup {Maker}
    /\ entry \in {0} \cup Pty
    /\ pty \in [Pty -> [pc: {"none", "read", "send", "ended", "closed", "gone"},
                        to: SUBSET Conn, chunk: 0 .. MaxChunks]]
    /\ subs \in [Pty -> SUBSET Conn]
    /\ out \in [Conn -> Seq(1 .. MaxChunks)] /\ closed \in [Conn -> BOOLEAN]
    /\ \A c \in Conn : Len(out[c]) <= Buffer
    /\ passed \in [Conn -> SUBSET (1 .. MaxChunks)]
    /\ chunks \in Seq(Pty) /\ Len(chunks) <= MaxChunks
    /\ count \in [creates: 0 .. MaxCreates, ptys: 0 .. MaxPtys, faults: 0 .. MaxFailures]

TermInit ==
    /\ on = TRUE /\ record = "none" /\ maker = [pc |-> "idle", todo |-> 1]
    /\ history = {} /\ listeners = {}
    /\ live = [c \in Conn |-> <<>>] /\ shut = [c \in Conn |-> FALSE]
    /\ pub = [a \in Actor |-> Idle]
    /\ conn = [c \in Conn |-> NoHandler] /\ left = [c \in Conn |-> FALSE]
    /\ lock = Maker /\ entry = 0
    /\ pty = [p \in Pty |-> NoPty] /\ subs = [p \in Pty |-> {}]
    /\ out = [c \in Conn |-> <<>>] /\ closed = [c \in Conn |-> FALSE]
    /\ passed = [c \in Conn |-> {}]
    /\ chunks = <<>>
    /\ count = [creates |-> 0, ptys |-> 0, faults |-> 0]

\* The mutex is free: no connection holds it.
Free == lock = Maker

Fails == count.faults < MaxFailures /\ count' = [count EXCEPT !.faults = @ + 1]

-----------------------------------------------------------------------------
(* ProgressTracker                                                         *)

\* Under the lock, Publish appends the event and copies the list of channels.
Publishes(a, stage) ==
    /\ history' = history \cup {stage}
    /\ pub' = [pub EXCEPT ![a] = [stage |-> stage, to |-> listeners]]
    /\ UNCHANGED <<listeners, live, shut>>

Silent(a) == pub[a].to = {}

\* Without the lock, it sends to each of them.  What a connection no longer waits for
\* stays in its channel, unread.
Send(a) ==
    /\ \E c \in pub[a].to :
         /\ ~shut[c]
         /\ live' = IF conn[c].pc = "wait" THEN [live EXCEPT ![c] = Append(@, pub[a].stage)]
                                            ELSE live
         /\ pub' = [pub EXCEPT ![a].to = @ \ {c}]
    /\ UNCHANGED <<on, record, maker, history, listeners, shut, conn, left, lock, entry, outputVars,
                   count>>

\* A send on a closed channel panics.  net/http recovers a handler, whose deferred calls
\* run; nothing recovers the goroutine of a consumer, and the worker ends.
HandlerPanics(a) ==
    /\ a \in Conn /\ \E c \in pub[a].to : shut[c]
    /\ pub' = [pub EXCEPT ![a].to = {}]
    /\ conn' = [conn EXCEPT ![a].pc = "leave"]
    /\ UNCHANGED <<on, record, maker, history, listeners, live, shut, left, lock, entry, outputVars,
                   count>>

WorkerPanics ==
    /\ \E c \in pub[Maker].to : shut[c]
    /\ on' = FALSE
    /\ pub' = [a \in Actor |-> Idle] /\ listeners' = {} /\ history' = {}
    /\ conn' = [c \in Conn |-> Ended]
    /\ pty' = [p \in Pty |-> NoPty] /\ subs' = [p \in Pty |-> {}]
    /\ lock' = Maker /\ entry' = 0
    /\ maker' = [pc |-> "idle", todo |-> 1]
    /\ UNCHANGED <<record, live, shut, left, out, closed, passed, chunks, count>>

-----------------------------------------------------------------------------
(* Manager.Create                                                          *)

Create ==
    /\ on /\ maker.pc = "idle" /\ record # "running" /\ count.creates < MaxCreates
    /\ record' = "provisioning"
    /\ maker' = [pc |-> "start", todo |-> 1]
    /\ count' = [count EXCEPT !.creates = @ + 1]
    /\ UNCHANGED <<on, progressVars, conn, left, lock, entry, outputVars>>

Pull ==
    /\ maker.pc = "start"
    /\ Publishes(Maker, "pull")
    /\ maker' = [maker EXCEPT !.pc = "provision"]
    /\ UNCHANGED <<on, record, conn, left, lock, entry, outputVars, count>>

Provision ==
    /\ maker.pc = "provision" /\ Silent(Maker)
    /\ \/ maker' = [maker EXCEPT !.pc = "made"]
          /\ UNCHANGED <<progressVars, count>>
       \/ Fails /\ Publishes(Maker, "failed") /\ maker' = [maker EXCEPT !.pc = "failed"]
    /\ UNCHANGED <<on, record, conn, left, lock, entry, outputVars>>

\* The stages of a container that is there.
Tell ==
    /\ maker.pc = "made" /\ Silent(Maker) /\ maker.todo <= Len(Made)
    /\ Publishes(Maker, Made[maker.todo])
    /\ maker' = [maker EXCEPT !.todo = @ + 1]
    /\ UNCHANGED <<on, record, conn, left, lock, entry, outputVars, count>>

\* The session is saved; when that fails the container is removed and the record stays.
Register ==
    /\ maker.pc = "made" /\ Silent(Maker) /\ maker.todo > Len(Made)
    /\ maker' = [pc |-> "idle", todo |-> 1]
    /\ \/ record' = "running" /\ UNCHANGED count
       \/ Fails /\ UNCHANGED record
    /\ UNCHANGED <<on, progressVars, conn, left, lock, entry, outputVars>>

DeleteRecord ==
    /\ maker.pc = "failed" /\ Silent(Maker)
    /\ record' = "none"
    /\ maker' = [pc |-> "idle", todo |-> 1]
    /\ UNCHANGED <<on, progressVars, conn, left, lock, entry, outputVars, count>>

\* Destroy: the container is removed, then the record.
Destroyed ==
    /\ on /\ record = "running"
    /\ record' = "none"
    /\ UNCHANGED <<on, maker, progressVars, conn, left, lock, entry, outputVars, count>>

-----------------------------------------------------------------------------
(* handleTerminal                                                          *)

Goto(c, pc) == conn' = [conn EXCEPT ![c].pc = pc]

\* The stages are written to the WebSocket; since READY its user counts on the output.
Showing(c, stages) ==
    [conn[c] EXCEPT !.sent = @ \cup stages,
                    !.since = IF "ready" \in stages \ conn[c].sent THEN Len(chunks) ELSE @]

\* READY is held back from what other connections have published.
Told(stages) == stages \ {"ready"}

\* The token is valid; the session is looked up.
Ask(c) ==
    /\ on /\ conn[c].pc = "off"
    /\ \/ conn' = [conn EXCEPT ![c].pc = "asked", ![c].data = record] /\ UNCHANGED count
       \/ Fails /\ conn' = [conn EXCEPT ![c].pc = "asked", ![c].data = "error"]
    /\ UNCHANGED <<on, record, maker, progressVars, left, lock, entry, outputVars>>

Mine(c) == c \notin Foreign

\* 404 without a session and a history, 403 for another user's; otherwise the upgrade,
\* and the history is flushed.
Flush(c) ==
    /\ conn[c].pc = "asked"
    /\ LET data == conn[c].data
           next == CASE data = "none" /\ history = {} -> "done"
                     [] data \in {"provisioning", "running"} /\ ~Mine(c) -> "done"
                     [] data = "running" /\ Mine(c) -> "tmux"
                     [] OTHER -> "listen"
       IN  conn' = [conn EXCEPT ![c] =
                      IF next = "done" THEN Ended ELSE [Showing(c, Told(history)) EXCEPT !.pc = next,
                                                                            !.data = "none"]]
    /\ UNCHANGED <<on, record, maker, progressVars, left, lock, entry, outputVars, count>>

\* Mutant of Listen: the history that Subscribe returns is ignored.
ListenBlind(c) ==
    /\ conn[c].pc = "listen"
    /\ listeners' = listeners \cup {c}
    /\ Goto(c, "wait")
    /\ UNCHANGED <<on, record, maker, history, live, shut, pub, left, lock, entry, outputVars,
                   count>>

\* Progress.Subscribe, and the events between the flush and now.
Listen(c) ==
    /\ conn[c].pc = "listen"
    /\ listeners' = listeners \cup {c}
    /\ conn' = [conn EXCEPT ![c] = [Showing(c, Told(history)) EXCEPT !.pc = "wait"]]
    /\ UNCHANGED <<on, record, maker, history, live, shut, pub, left, lock, entry, outputVars,
                   count>>

\* WaitLoop: an event arrives,
Live(c) ==
    /\ conn[c].pc = "wait" /\ live[c] # <<>>
    /\ live' = [live EXCEPT ![c] = Tail(@)]
    /\ conn' = [conn EXCEPT ![c] = Showing(c, Told({Head(live[c])}))]
    /\ UNCHANGED <<on, record, maker, history, listeners, shut, pub, left, lock, entry, outputVars,
                   count>>

\* Mutant of Tick: the owner is compared before the wait only.
TickUnchecked(c) ==
    /\ conn[c].pc = "wait" /\ record = "running"
    /\ Goto(c, "tmux")
    /\ live' = [live EXCEPT ![c] = <<>>]
    /\ UNCHANGED <<on, record, maker, history, listeners, shut, pub, left, lock, entry, outputVars,
                   count>>

\* the ticker finds the session, whose owner is compared again,
Tick(c) ==
    /\ conn[c].pc = "wait" /\ record = "running"
    /\ Goto(c, IF Mine(c) THEN "tmux" ELSE "leave")
    /\ live' = [live EXCEPT ![c] = <<>>]
    /\ UNCHANGED <<on, record, maker, history, listeners, shut, pub, left, lock, entry,
                   outputVars, count>>

\* or thirty seconds have passed.
TimeOut(c) ==
    /\ conn[c].pc = "wait"
    /\ Goto(c, "leave")
    /\ live' = [live EXCEPT ![c] = <<>>]
    /\ UNCHANGED <<on, record, maker, history, listeners, shut, pub, left, lock, entry, outputVars,
                   count>>

\* TMUX_ATTACHED is published unless this connection was sent it.
Attach(c) ==
    /\ conn[c].pc = "tmux"
    /\ IF "tmux" \in conn[c].sent THEN UNCHANGED progressVars ELSE Publishes(c, "tmux")
    /\ conn' = [conn EXCEPT ![c] = [Showing(c, {"tmux"}) EXCEPT !.pc = "shared"]]
    /\ UNCHANGED <<on, record, maker, left, lock, entry, outputVars, count>>

-----------------------------------------------------------------------------
(* Multiplexer.GetOrStart                                                  *)

\* The subscribers' lock: a broadcast holds it for reading.
NotSending(p) == pty[p].pc # "send"

Subscribe(c, p) ==
    /\ subs' = [subs EXCEPT ![p] = @ \cup {c}]
    /\ conn' = [conn EXCEPT ![c].pc = "ready", ![c].pty = p]
    /\ UNCHANGED <<out, closed, passed, chunks>>

\* With the mutex: the session's PTY is joined.
Join(c) ==
    /\ conn[c].pc = "shared" /\ Silent(c) /\ Free
    /\ entry # 0 /\ NotSending(entry)
    /\ Subscribe(c, entry)
    /\ UNCHANGED <<on, record, maker, progressVars, left, lock, entry, pty, count>>

\* Mutant of Enter: the mutex is not taken.
EnterUnlocked(c) ==
    /\ conn[c].pc = "shared" /\ Silent(c)
    /\ entry = 0
    /\ lock' = c /\ Goto(c, "starting")
    /\ UNCHANGED <<on, record, maker, progressVars, left, entry, outputVars, count>>

\* There is none: the mutex is kept while tmux is started.
Enter(c) ==
    /\ conn[c].pc = "shared" /\ Silent(c) /\ Free
    /\ entry = 0
    /\ lock' = c /\ Goto(c, "starting")
    /\ UNCHANGED <<on, record, maker, progressVars, left, entry, outputVars, count>>

Start(c) ==
    /\ conn[c].pc = "starting" /\ count.ptys < MaxPtys
    /\ LET p == count.ptys + 1
       IN  /\ Subscribe(c, p)
           /\ pty' = [pty EXCEPT ![p].pc = "read"]
           /\ entry' = p
    /\ count' = [count EXCEPT !.ptys = @ + 1]
    /\ lock' = Maker
    /\ UNCHANGED <<on, record, maker, progressVars, left>>

StartFails(c) ==
    /\ conn[c].pc = "starting"
    /\ \/ count.ptys = MaxPtys /\ UNCHANGED count
       \/ record # "running" /\ UNCHANGED count
       \/ Fails
    /\ lock' = Maker /\ Goto(c, "leave")
    /\ UNCHANGED <<on, record, maker, progressVars, left, entry, outputVars>>

-----------------------------------------------------------------------------
(* The bridge between the WebSocket and the PTY                            *)

\* READY is published after the subscription, then written to this WebSocket.
Announce(c) ==
    /\ conn[c].pc = "ready"
    /\ Publishes(c, "ready") /\ Goto(c, "greet")
    /\ UNCHANGED <<on, record, maker, left, lock, entry, outputVars, count>>

Greet(c) ==
    /\ conn[c].pc = "greet" /\ Silent(c)
    /\ conn' = [conn EXCEPT ![c] = [Showing(c, {"ready"}) EXCEPT !.pc = "open", !.reader = TRUE,
                                                                 !.writer = TRUE]]
    /\ UNCHANGED <<on, record, maker, progressVars, left, lock, entry, outputVars, count>>

\* The write loop takes a chunk; when the client has left the write may fail.
Write(c) ==
    /\ conn[c].pc = "open" /\ conn[c].writer /\ out[c] # <<>>
    /\ out' = [out EXCEPT ![c] = Tail(@)]
    /\ passed' = [passed EXCEPT ![c] = @ \cup {Head(out[c])}]
    /\ \/ UNCHANGED conn
       \/ left[c] /\ conn' = [conn EXCEPT ![c].writer = FALSE]
    /\ UNCHANGED <<on, record, maker, progressVars, left, lock, entry, pty, subs, closed, chunks,
                   count>>

\* The range over the channel ends when it is closed and empty.
WriterEnds(c) ==
    /\ conn[c].pc = "open" /\ conn[c].writer /\ out[c] = <<>> /\ closed[c]
    /\ conn' = [conn EXCEPT ![c].writer = FALSE]
    /\ UNCHANGED <<on, record, maker, progressVars, left, lock, entry, outputVars, count>>

\* Nobody reads the WebSocket before the bridge: a client that left earlier is noticed there.
ClientLeaves(c) ==
    /\ conn[c].pc = "open" /\ ~left[c]
    /\ left' = [left EXCEPT ![c] = TRUE]
    /\ UNCHANGED <<on, record, maker, progressVars, conn, lock, entry, outputVars, count>>

\* Removes the subscriber and closes its channel, if it is still there.
Subscribed(c) == conn[c].pty # 0 /\ c \in subs[conn[c].pty]

Unsubscribe(c) ==
    /\ Subscribed(c) => NotSending(conn[c].pty)
    /\ IF Subscribed(c) THEN /\ subs' = [subs EXCEPT ![conn[c].pty] = @ \ {c}]
                             /\ closed' = [closed EXCEPT ![c] = TRUE]
                        ELSE UNCHANGED <<subs, closed>>
    /\ UNCHANGED <<pty, out, passed, chunks>>

\* Mutant of ReaderEnds: the read loop leaves the subscription to the deferred call.
ReaderEndsOnly(c) ==
    /\ conn[c].pc = "open" /\ conn[c].reader /\ left[c]
    /\ conn' = [conn EXCEPT ![c].reader = FALSE]
    /\ UNCHANGED <<on, record, maker, progressVars, left, lock, entry, outputVars, count>>

\* The read loop fails and unsubscribes, so that the write loop ends.
ReaderEnds(c) ==
    /\ conn[c].pc = "open" /\ conn[c].reader /\ left[c]
    /\ Unsubscribe(c)
    /\ conn' = [conn EXCEPT ![c].reader = FALSE]
    /\ UNCHANGED <<on, record, maker, progressVars, left, lock, entry, count>>

\* wg.Wait
Bridged(c) ==
    /\ conn[c].pc = "open" /\ ~conn[c].reader /\ ~conn[c].writer
    /\ Goto(c, "leave")
    /\ UNCHANGED <<on, record, maker, progressVars, left, lock, entry, outputVars, count>>

\* The deferred calls.
Return(c) ==
    /\ conn[c].pc = "leave"
    /\ Unsubscribe(c)
    /\ listeners' = listeners \ {c}
    /\ shut' = [shut EXCEPT ![c] = c \in listeners]
    /\ conn' = [conn EXCEPT ![c] = Ended]
    /\ UNCHANGED <<on, record, maker, history, live, pub, left, lock, entry, count>>

-----------------------------------------------------------------------------
(* SharedPTY                                                               *)

Output(p) ==
    /\ pty[p].pc = "read" /\ Len(chunks) < MaxChunks
    /\ chunks' = Append(chunks, p)
    /\ pty' = [pty EXCEPT ![p] = [pc |-> "send", to |-> subs[p], chunk |-> Len(chunks) + 1]]
    /\ UNCHANGED <<on, record, maker, progressVars, conn, left, lock, entry, subs, out, closed,
                   passed, count>>

\* A full channel loses the chunk.
Broadcast(p) ==
    /\ \E c \in pty[p].to :
         /\ pty' = [pty EXCEPT ![p].to = @ \ {c}]
         /\ IF Len(out[c]) < Buffer
            THEN /\ out' = [out EXCEPT ![c] = Append(@, pty[p].chunk)]
                 /\ UNCHANGED passed
            ELSE /\ passed' = [passed EXCEPT ![c] = @ \cup {pty[p].chunk}]
                 /\ UNCHANGED out
    /\ UNCHANGED <<on, record, maker, progressVars, conn, left, lock, entry, subs, closed,
                   chunks, count>>

BroadcastDone(p) ==
    /\ pty[p].pc = "send" /\ pty[p].to = {}
    /\ pty' = [pty EXCEPT ![p].pc = "read"]
    /\ UNCHANGED <<on, record, maker, progressVars, conn, left, lock, entry, subs, out, closed,
                   passed, chunks, count>>

\* The shell exits, or its container is removed.
PtyEnds(p) ==
    /\ pty[p].pc = "read"
    /\ pty' = [pty EXCEPT ![p].pc = "ended"]
    /\ UNCHANGED <<on, record, maker, progressVars, conn, left, lock, entry, subs, out, closed,
                   passed, chunks, count>>

CloseSubscribers(p) ==
    /\ pty[p].pc = "ended"
    /\ closed' = [c \in Conn |-> closed[c] \/ c \in subs[p]]
    /\ subs' = [subs EXCEPT ![p] = {}]
    /\ pty' = [pty EXCEPT ![p].pc = "closed"]
    /\ UNCHANGED <<on, record, maker, progressVars, conn, left, lock, entry, out, passed, chunks,
                   count>>

\* The cancelled context wakes the goroutine that clears the registry.
Forget(p) ==
    /\ pty[p].pc = "closed" /\ Free
    /\ pty' = [pty EXCEPT ![p].pc = "gone"]
    /\ entry' = IF entry = p THEN 0 ELSE entry
    /\ UNCHANGED <<on, record, maker, progressVars, conn, left, lock, subs, out, closed, passed,
                   chunks, count>>

-----------------------------------------------------------------------------
MakerStep == Pull \/ Provision \/ Tell \/ Register \/ DeleteRecord

Waiting(c) == Live(c) \/ Tick(c) \/ TimeOut(c)

HandlerStep(c) ==
    \/ Flush(c) \/ Listen(c) \/ Attach(c)
    \/ Join(c) \/ Enter(c) \/ Start(c) \/ StartFails(c)
    \/ Announce(c) \/ Greet(c) \/ Bridged(c) \/ Return(c)

PtyStep(p) == Broadcast(p) \/ BroadcastDone(p) \/ CloseSubscribers(p) \/ Forget(p)

TermNext ==
    \/ Create \/ MakerStep \/ Destroyed \/ WorkerPanics
    \/ \E a \in Actor : Send(a) \/ HandlerPanics(a)
    \/ \E c \in Conn : \/ Ask(c) \/ HandlerStep(c) \/ Waiting(c) \/ ClientLeaves(c)
                       \/ Write(c) \/ WriterEnds(c) \/ ReaderEnds(c)
    \/ \E p \in Pty : Output(p) \/ PtyEnds(p) \/ PtyStep(p)

TermSpec == TermInit /\ [][TermNext]_termVars

\* The Go scheduler runs every goroutine that can run; the calls to Docker and Redis
\* return.  Nobody is forced to connect, to leave, to type or to create.
TermFairness ==
    /\ WF_termVars(MakerStep) /\ WF_termVars(WorkerPanics)
    /\ \A a \in Actor : WF_termVars(Send(a) \/ HandlerPanics(a))
    /\ \A c \in Conn : /\ WF_termVars(HandlerStep(c)) /\ WF_termVars(Waiting(c))
                       /\ WF_termVars(Write(c) \/ WriterEnds(c)) /\ WF_termVars(ReaderEnds(c))
    /\ \A p \in Pty : WF_termVars(PtyStep(p))

TermFairSpec == TermSpec /\ TermFairness

-----------------------------------------------------------------------------
(* What the terminal promises                                              *)

\* A connection that waits for its sandbox misses no stage of its provisioning: what was
\* published before or since it listens it has been sent, or finds in its channel, or is
\* being sent (handler.go:230-265, progress.go:54-64).  TMUX_ATTACHED is another
\* connection's: it is lost on those who wait when its handler panics on the channel of a
\* third that leaves.
NoStageMissed ==
    \A c \in Conn : conn[c].pc = "wait" =>
        \A s \in Told(history) \ {"tmux"} :
            \/ s \in conn[c].sent
            \/ \E i \in DOMAIN live[c] : live[c][i] = s
            \/ \E a \in Actor : pub[a].stage = s /\ c \in pub[a].to

\* A connection that was told READY has subscribed, and every chunk read from its PTY
\* since is written, queued, on its way or met a full channel (handler.go:303-308).
ReadyMeansSubscribed ==
    \A c \in Conn : "ready" \in conn[c].sent /\ ~left[c] /\ conn[c].pc \notin {"leave", "done"} =>
        /\ conn[c].pty # 0
        /\ \A k \in conn[c].since + 1 .. Len(chunks) :
             chunks[k] = conn[c].pty =>
                \/ k \in passed[c]
                \/ \E i \in DOMAIN out[c] : out[c][i] = k
                \/ pty[chunks[k]].chunk = k /\ c \in pty[chunks[k]].to

\* One PTY for each session: the one that is read is the registered one, however many
\* connections ask at once while tmux is started (multiplexer.go:69-134).
PtyIsRegistered ==
    \A p \in Pty : pty[p].pc \in {"read", "send"} => entry = p

\* The read loop never sends on a channel that a leaving connection has closed
\* (multiplexer.go:160-174, 191-200).
OpenWhileSent ==
    \A p \in Pty : \A c \in pty[p].to : c \in subs[p] /\ ~closed[c]

\* A connection is subscribed to a PTY of a session of its own user only, also when it
\* came before the session's record (handler.go:279-284).
OwnerAttaches == \A p \in Pty : subs[p] \cap Foreign = {}

\* The watcher of a provisioning that becomes a terminal misses nothing: no stage of it
\* while it waits, no output once it was told READY.
WatcherMissesNothing == NoStageMissed /\ ReadyMeansSubscribed

\* The shared PTY: one for each session, the registered one, whose subscribers are not
\* closed while it is sent to.
PtySound == TermTypeOK /\ PtyIsRegistered /\ OpenWhileSent

-----------------------------------------------------------------------------
(* Liveness, under TermFairSpec                                            *)

\* Whoever waits for a sandbox is attached or answered (handler.go:254-275).
WaitEnds == \A c \in Conn : conn[c].pc = "wait" ~> conn[c].pc \in {"open", "done"}

\* The handler of a client that left returns and keeps no subscription: neither of its
\* loops waits forever for the other (handler.go:351-410).
LeaverReleased ==
    \A c \in Conn : left[c] ~> conn[c].pc = "done" /\ c \notin listeners
                               /\ \A p \in Pty : c \notin subs[p]

\* A PTY that ended leaves the registry, so that the next connection starts another
\* (multiplexer.go:123-131).
EndedIsForgotten == \A p \in Pty : pty[p].pc = "ended" ~> entry # p

\* Nobody is left behind: a client that waits is attached or answered, one that left is
\* given up, and a PTY that ended is forgotten.
ViewerServed == WaitEnds /\ LeaverReleased /\ EndedIsForgotten
=============================================================================
