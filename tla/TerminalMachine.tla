-------------------------- MODULE TerminalMachine --------------------------
(***************************************************************************)
(* useTerminalMachine, the hook of the challenge page: it starts a session *)
(* through the API, keeps one WebSocket to its terminal, reconnects with a *)
(* back-off, and ends the session.                                         *)
(*                                                                         *)
(* The page is one thread; everything it awaits or is called back for is a *)
(* step of its own: answers of the API, timers, and the events of sockets, *)
(* a socket that the page itself has closed included.  A 502 is never seen *)
(* as such: apiClient rejects with an ApiError, which has no response.     *)
(***************************************************************************)
EXTENDS Naturals

CONSTANTS
    Call,        \* calls of startSession or startTrial
    MaxSockets,  \* bound: WebSockets at a time
    MaxTimers,   \* bound: callbacks of reconnects at a time
    MaxAttempts  \* MAX_RECONNECT_ATTEMPTS

Socket == 1 .. MaxSockets
Timer  == 1 .. MaxTimers

ASSUME MachineAssumption ==
    /\ {MaxSockets, MaxTimers} \subseteq Nat /\ MaxAttempts \in Nat \ {0}
    /\ 0 \notin Call

VARIABLES
    ui,       \* the state of the machine
    session,  \* sessionRef: the call whose answer it is, 0 when null
    call,     \* startSession
    socket,   \* the page's WebSockets
    current,  \* wsRef, 0 when null
    attempt,  \* reconnectAttemptRef
    timer,    \* callbacks of scheduleReconnect
    pending,  \* reconnectTimerRef
    stopping  \* terminateSession awaits the API

machineVars == <<ui, session, call, socket, current, attempt, timer, pending, stopping>>


MachineTypeOK ==
    /\ ui \in {"IDLE", "REQUESTING_SANDBOX", "PROVISIONING", "CONNECTING", "CONNECTED",
               "RECONNECTING", "SANDBOX_LOST", "FAILED"}
    /\ session \in Call \cup {0}
    /\ call \in [Call -> {"idle", "restore", "request", "probe", "done"}]
    /\ socket \in [Socket -> {"connecting", "open", "closing", "closed"}]
    /\ current \in {0} \cup Socket
    /\ attempt \in 0 .. MaxAttempts
    /\ timer \in [Timer -> {"set", "health", "worker", "done"}]
    /\ pending \in {0} \cup Timer
    /\ stopping \in BOOLEAN

MachineInit ==
    /\ ui = "IDLE" /\ session = 0
    /\ call = [c \in Call |-> "idle"]
    /\ socket = [w \in Socket |-> "closed"] /\ current = 0
    /\ attempt = 0
    /\ timer = [t \in Timer |-> "done"] /\ pending = 0
    /\ stopping = FALSE

-----------------------------------------------------------------------------
(* connectWs and scheduleReconnect                                         *)

\* close() of a socket that is there; its close event comes later.
Closing(st) == IF st = "closed" THEN st ELSE "closing"

\* Whatever is over is forgotten, and its name is used again.
Fresh(w, over) == over[w] /\ \A v \in 1 .. w - 1 : ~over[v]

NewSocket(w) == Fresh(w, [v \in Socket |-> socket[v] = "closed"])
NewTimer(t)  == Fresh(t, [v \in Timer |-> timer[v] = "done"])

\* Mutant of ConnectWs: the previous socket is left open.
ConnectWsBeside ==
    /\ \E w \in Socket : NewSocket(w) /\ socket' = [socket EXCEPT ![w] = "connecting"] /\ current' = w
    /\ ui' = "CONNECTING"

\* The previous socket is closed and another one opened.
ConnectWs ==
    /\ \E w \in Socket :
         /\ NewSocket(w)
         /\ socket' = [i \in Socket |-> CASE i = w -> "connecting"
                                          [] i = current /\ i # w -> Closing(socket[i])
                                          [] OTHER -> socket[i]]
         /\ current' = w
    /\ ui' = "CONNECTING"

\* Mutant of ScheduleReconnect: the attempts are not counted.
ScheduleUncounted ==
    /\ \E t \in Timer : /\ NewTimer(t)
                        /\ timer' = [timer EXCEPT ![t] = "set"]
                        /\ pending' = t
    /\ ui' = "RECONNECTING"
    /\ UNCHANGED attempt

\* After six attempts the sandbox is lost; otherwise a callback is set.
ScheduleReconnect ==
    \/ /\ attempt >= MaxAttempts
       /\ ui' = "SANDBOX_LOST"
       /\ UNCHANGED <<attempt, timer, pending>>
    \/ /\ attempt < MaxAttempts
       /\ \E t \in Timer : /\ NewTimer(t)
                           /\ timer' = [timer EXCEPT ![t] = "set"]
                           /\ pending' = t
       /\ attempt' = attempt + 1
       /\ ui' = "RECONNECTING"

-----------------------------------------------------------------------------
(* startSession                                                            *)

\* The button of an idle page, and the one after a failure.
Launch(c) ==
    /\ call[c] = "idle" /\ ui \in {"IDLE", "FAILED"}
    /\ call' = [call EXCEPT ![c] = "request"]
    /\ ui' = "REQUESTING_SANDBOX"
    /\ UNCHANGED <<session, socket, current, attempt, timer, pending, stopping>>

\* An idle page finds a saved session and asks for its status; if it is ACTIVE the page
\* starts it, whatever it shows by then.
Resume(c) ==
    /\ call[c] = "idle" /\ ui = "IDLE"
    /\ call' = [call EXCEPT ![c] = "restore"]
    /\ UNCHANGED <<ui, session, socket, current, attempt, timer, pending, stopping>>

Resumed(c) ==
    /\ call[c] = "restore"
    /\ \/ call' = [call EXCEPT ![c] = "request"] /\ ui' = "REQUESTING_SANDBOX"
       \/ call' = [call EXCEPT ![c] = "done"] /\ UNCHANGED ui
    /\ UNCHANGED <<session, socket, current, attempt, timer, pending, stopping>>

Answered(c) ==
    /\ call[c] = "request"
    /\ \/ /\ session' = c /\ ui' = "PROVISIONING"
          /\ call' = [call EXCEPT ![c] = "probe"]
       \/ /\ ui' = "FAILED" /\ call' = [call EXCEPT ![c] = "done"]
          /\ UNCHANGED session
    /\ UNCHANGED <<socket, current, attempt, timer, pending, stopping>>

\* Whatever the worker's health check answers.
Probed(c) ==
    /\ call[c] = "probe"
    /\ ConnectWs
    /\ call' = [call EXCEPT ![c] = "done"]
    /\ UNCHANGED <<session, attempt, timer, pending, stopping>>

-----------------------------------------------------------------------------
(* The events of a socket                                                  *)

Opens(w) ==
    /\ socket[w] = "connecting"
    /\ socket' = [socket EXCEPT ![w] = "open"]
    /\ attempt' = 0
    /\ UNCHANGED <<ui, session, call, current, timer, pending, stopping>>

Ready(w) ==
    /\ socket[w] = "open"
    /\ ui' = "CONNECTED"
    /\ UNCHANGED <<session, call, socket, current, attempt, timer, pending, stopping>>

Alive(w) == socket[w] \in {"connecting", "open", "closing"}

Closed(w) == socket' = [socket EXCEPT ![w] = "closed"]

\* With code 1000 or 1001 the server has closed it on purpose.
ClosedByServer(w) ==
    /\ socket[w] = "open"
    /\ Closed(w)
    /\ ui' = "SANDBOX_LOST"
    /\ UNCHANGED <<session, call, current, attempt, timer, pending, stopping>>

\* Any other close: a lost connection, a refused one, and one the page closed itself: the
\* flag that says so is FALSE again when the event comes, so that it is never seen TRUE.
Dropped(w) ==
    /\ Alive(w)
    /\ Closed(w)
    /\ ScheduleReconnect
    /\ UNCHANGED <<session, call, current, stopping>>

-----------------------------------------------------------------------------
(* The callback of a reconnect                                             *)

Fires(t) ==
    /\ timer[t] = "set"
    /\ IF session = 0
       THEN ui' = "SANDBOX_LOST" /\ timer' = [timer EXCEPT ![t] = "done"]
       ELSE timer' = [timer EXCEPT ![t] = "health"] /\ UNCHANGED ui
    /\ UNCHANGED <<session, call, socket, current, attempt, pending, stopping>>

\* alive, not alive, or an error, which skips the second check.
HealthKnown(t) ==
    /\ timer[t] = "health"
    /\ \/ timer' = [timer EXCEPT ![t] = "worker"] /\ UNCHANGED ui
       \/ timer' = [timer EXCEPT ![t] = "done"] /\ ui' = "SANDBOX_LOST"
    /\ UNCHANGED <<session, call, socket, current, attempt, pending, stopping>>

\* The session is the one read when the timer fired, whatever became of it.
Reconnects(t) ==
    /\ timer[t] = "worker"
    /\ ConnectWs
    /\ timer' = [timer EXCEPT ![t] = "done"]
    /\ UNCHANGED <<session, call, attempt, pending, stopping>>

-----------------------------------------------------------------------------
(* terminateSession                                                        *)

\* The socket is closed, the last callback cancelled if it has not run, the API called.
Stop ==
    /\ session # 0 /\ ~stopping
    /\ socket' = IF current = 0 THEN socket ELSE [socket EXCEPT ![current] = Closing(@)]
    /\ current' = 0
    /\ timer' = IF pending = 0 THEN timer
                ELSE [timer EXCEPT ![pending] = IF @ = "set" THEN "done" ELSE @]
    /\ stopping' = TRUE
    /\ UNCHANGED <<ui, session, call, attempt, pending>>

Stopped ==
    /\ stopping
    /\ stopping' = FALSE
    /\ session' = 0 /\ attempt' = 0 /\ ui' = "IDLE"
    /\ UNCHANGED <<call, socket, current, timer, pending>>

-----------------------------------------------------------------------------
TimerStep(t) == Fires(t) \/ HealthKnown(t) \/ Reconnects(t)
CallStep(c)  == Resumed(c) \/ Answered(c) \/ Probed(c)
SocketStep(w) == Opens(w) \/ Ready(w) \/ ClosedByServer(w) \/ Dropped(w)

MachineNext ==
    \/ \E c \in Call : Launch(c) \/ Resume(c) \/ CallStep(c)
    \/ \E w \in Socket : SocketStep(w)
    \/ \E t \in Timer : TimerStep(t)
    \/ Stop \/ Stopped

MachineSpec == MachineInit /\ [][MachineNext]_machineVars

\* Timers fire, the API answers or times out, and a socket that connects or closes gets
\* its event.
MachineFairness ==
    /\ \A t \in Timer : WF_machineVars(TimerStep(t))
    /\ \A c \in Call : WF_machineVars(CallStep(c))
    /\ \A w \in Socket : WF_machineVars(socket[w] # "open" /\ SocketStep(w))
    /\ WF_machineVars(Stopped)

-----------------------------------------------------------------------------
(* What the hook promises                                                  *)

\* However many callbacks reconnect at once, one socket is in use, the one the page writes
\* to (useTerminalMachine.ts:131-145, 305-309).
OneSocket == \A w \in Socket : socket[w] \in {"connecting", "open"} => current = w

\* The page says CONNECTED while its socket is open, or while it stops the session.
ConnectedIsOpen ==
    ui = "CONNECTED" => stopping \/ (current # 0 /\ socket[current] = "open")

\* What the page shows and its sockets agree.
MachineSound == MachineTypeOK /\ OneSocket /\ ConnectedIsOpen

\* A reconnection gets somewhere or gives up: a socket opens, or the machine leaves the two
\* states between which it goes back and forth (MAX_RECONNECT_ATTEMPTS, lines 184-190).
ReconnectEnds ==
    ui = "RECONNECTING" ~> \/ ui \notin {"RECONNECTING", "CONNECTING"}
                           \/ \E w \in Socket : socket[w] = "open"
=============================================================================
