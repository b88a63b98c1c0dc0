-------------------------- MODULE SandboxRequests --------------------------
(***************************************************************************)
(* The HTTP requests about one sandbox: through the router                 *)
(* (cmd/router/main.go) to the worker's POST /validate (main.go, with      *)
(* validator.go and the Kafka producer) and GET /sessions/{id}/health      *)
(* (terminal/handler.go).                                                  *)
(*                                                                         *)
(* A request is a process of its own: its client may leave, the worker may *)
(* end, the sandbox may be created or destroyed between any two of its     *)
(* calls.  Left out: the feedback, the metrics and the provider that Exec  *)
(* is resolved to (module Runtimes).                                       *)
(***************************************************************************)
EXTENDS Naturals, FiniteSets

CONSTANTS
    Request,       \* HTTP requests
    MaxExchanges,  \* how often a sandbox is provisioned, or the worker ends
    MaxRefusals    \* failed calls of Redis, Docker and Kafka

ASSUME RequestAssumption == MaxExchanges \in Nat /\ MaxRefusals \in Nat

Path  == {"/validate/id", "/sessions/id/health", "/validate/"}
Token == {"none", "revoked", "other", "owner"}
Exit  == {0, 1, 2, 127}

\* The status of an answer, 0 before there is one.
Status == {0, 200, 400, 401, 403, 404, 422, 500, 502}

VARIABLES
    place,     \* the session's record, in Redis or in the worker's memory
    container,       \* its container is there
    serving,   \* the worker runs
    req,       \* the handlers of each request
    gone,      \* its client has left
    topics,    \* what Kafka holds: the request and the topic of each event
    tally      \* provisionings and ends of the worker, and failed calls, so far

requestVars == <<place, container, serving, req, gone, topics, tally>>

NoRequest == [pc |-> "idle", path |-> "/validate/", token |-> "none", exit |-> 2,
              status |-> 0, alive |-> FALSE, unsent |-> FALSE, met |-> FALSE]

RequestTypeOK ==
    /\ place \in {"none", "provisioning", "running"}
    /\ container \in BOOLEAN /\ serving \in BOOLEAN
    /\ req \in [Request -> [pc: {"idle", "route", "revoked?", "find", "exec", "inspect", "emit",
                                 "answer", "done"},
                            path: Path, token: Token, exit: Exit, status: Status,
                            alive: BOOLEAN, unsent: BOOLEAN, met: BOOLEAN]]
    /\ gone \in [Request -> BOOLEAN]
    /\ topics \subseteq Request \X {"challenge.solved", "challenge.failed"}
    /\ tally \in [exchanges: 0 .. MaxExchanges, refusals: 0 .. MaxRefusals]

RequestInit ==
    /\ place = "none" /\ container = FALSE /\ serving = TRUE
    /\ req = [r \in Request |-> NoRequest] /\ gone = [r \in Request |-> FALSE]
    /\ topics = {}
    /\ tally = [exchanges |-> 0, refusals |-> 0]

Refuse   == tally.refusals < MaxRefusals /\ tally' = [tally EXCEPT !.refusals = @ + 1]
Exchange == tally.exchanges < MaxExchanges /\ tally' = [tally EXCEPT !.exchanges = @ + 1]

Move(r, pc)  == req' = [req EXCEPT ![r].pc = pc]
Reply(r, code) == req' = [req EXCEPT ![r].pc = "done", ![r].status = code]
Report(r, yes) == req' = [req EXCEPT ![r].pc = "done", ![r].status = 200, ![r].alive = yes]

IsCheck(r) == req[r].path = "/validate/id"
AtWorker(r) == req[r].pc \notin {"idle", "route", "done"}

-----------------------------------------------------------------------------
(* The router                                                              *)

Requested(r) ==
    /\ req[r].pc = "idle"
    /\ \E p \in Path : \E t \in IF p = "/sessions/id/health" THEN Token ELSE {"none"} :
         req' = [req EXCEPT ![r] = [NoRequest EXCEPT !.pc = "route", !.path = p, !.token = t]]
    /\ UNCHANGED <<place, container, serving, gone, topics, tally>>

\* 400 without a session in the path, 500 without Redis, 404 without a record, 502
\* without the worker.
Proxy(r) ==
    /\ req[r].pc = "route"
    /\ \/ req[r].path = "/validate/" /\ Reply(r, 400) /\ UNCHANGED tally
       \/ req[r].path # "/validate/" /\ Refuse /\ Reply(r, 500)
       \/ /\ req[r].path # "/validate/"
          /\ IF place = "none" THEN Reply(r, 404)
             ELSE IF ~serving THEN Reply(r, 502)
             ELSE Move(r, IF IsCheck(r) THEN "find" ELSE "revoked?")
          /\ UNCHANGED tally
    /\ UNCHANGED <<place, container, serving, gone, topics>>

-----------------------------------------------------------------------------
(* The worker: whose token, and which container                            *)

\* Whoever has no valid token is refused; the denylist is asked next, and a failure of
\* Redis lets the token pass.
Authorize(r) ==
    /\ req[r].pc = "revoked?"
    /\ \/ req[r].token = "none" /\ Reply(r, 401) /\ UNCHANGED tally
       \/ req[r].token # "none" /\ Refuse /\ Move(r, "find")
       \/ /\ req[r].token # "none"
          /\ IF req[r].token = "revoked" THEN Reply(r, 401) ELSE Move(r, "find")
          /\ UNCHANGED tally
    /\ UNCHANGED <<place, container, serving, gone, topics>>

\* Manager.Get, and for a health probe the owner.  Nobody asks who validates.
Find(r) ==
    /\ req[r].pc = "find"
    /\ \/ Refuse /\ (IF IsCheck(r) THEN Reply(r, 404) ELSE Report(r, FALSE))
       \/ /\ IF place = "none"
             THEN IF IsCheck(r) THEN Reply(r, 404) ELSE Report(r, FALSE)
             ELSE IF ~IsCheck(r) /\ req[r].token = "other" THEN Reply(r, 403)
             ELSE Move(r, "exec")
          /\ UNCHANGED tally
    /\ UNCHANGED <<place, container, serving, gone, topics>>

\* What a failed Exec means to its caller.
Failed(r) == IF IsCheck(r) THEN Reply(r, 500) ELSE Report(r, FALSE)

\* A call made with the request's context fails when the client has left; the worker's
\* runtime may fail it, and a record whose container is not there always does.
Run(r) ==
    /\ req[r].pc = "exec"
    /\ \/ container /\ ~gone[r]
          /\ \E e \in IF IsCheck(r) THEN Exit ELSE {0} :
               req' = [req EXCEPT ![r].pc = "inspect", ![r].exit = e, ![r].met = TRUE]
          /\ UNCHANGED tally
       \/ (~container \/ gone[r]) /\ Failed(r) /\ UNCHANGED tally
       \/ Refuse /\ Failed(r)
    /\ UNCHANGED <<place, container, serving, gone, topics>>

\* Check: 0 is a pass, 1 and a missing script a failure, anything else an error of ours.
Verdict(exit) == CASE exit = 0 -> "challenge.solved"
                   [] exit \in {1, 127} -> "challenge.failed"
                   [] OTHER -> "error"

\* The output is read and the exit code asked for, with the same context.
Inspect(r) ==
    /\ req[r].pc = "inspect"
    /\ \/ /\ container /\ ~gone[r]
          /\ IF ~IsCheck(r) THEN Report(r, req[r].exit = 0)
             ELSE IF Verdict(req[r].exit) = "error" THEN Reply(r, 500)
             ELSE Move(r, "emit")
          /\ UNCHANGED tally
       \/ (~container \/ gone[r]) /\ Failed(r) /\ UNCHANGED tally
       \/ Refuse /\ Failed(r)
    /\ UNCHANGED <<place, container, serving, gone, topics>>

-----------------------------------------------------------------------------
(* The event and the answer                                                *)

Emitted(r) == topics' = topics \cup {<<r, Verdict(req[r].exit)>>}

\* Mutant of EmitResult: the event is written with the request's context.
EmitWithRequest(r) ==
    /\ req[r].pc = "emit"
    /\ \/ ~gone[r] /\ Move(r, "answer") /\ Emitted(r)
       \/ gone[r] /\ Move(r, "answer") /\ UNCHANGED topics
    /\ UNCHANGED <<place, container, serving, gone, tally>>

\* A context of its own, of five seconds: when it fails, the event may have been written
\* all the same; the failure is logged and the answer is not another.
EmitResult(r) ==
    /\ req[r].pc = "emit"
    /\ \/ Move(r, "answer") /\ Emitted(r) /\ UNCHANGED tally
       \/ /\ Refuse /\ req' = [req EXCEPT ![r].pc = "answer", ![r].unsent = TRUE]
          /\ Emitted(r) \/ UNCHANGED topics
    /\ UNCHANGED <<place, container, serving, gone>>

Respond(r) ==
    /\ req[r].pc = "answer"
    /\ Reply(r, IF Verdict(req[r].exit) = "challenge.solved" THEN 200 ELSE 422)
    /\ UNCHANGED <<place, container, serving, gone, topics, tally>>

-----------------------------------------------------------------------------
(* The client, the sandbox and the worker's process                        *)

LeavePage(r) ==
    /\ req[r].pc # "idle" /\ ~gone[r]
    /\ gone' = [gone EXCEPT ![r] = TRUE]
    /\ UNCHANGED <<place, container, serving, req, topics, tally>>

\* The record is saved before there is a container, and again when there is one.
Recorded ==
    /\ serving /\ place = "none" /\ Exchange /\ place' = "provisioning"
    /\ UNCHANGED <<container, serving, req, gone, topics>>

Provisioned ==
    /\ serving /\ place = "provisioning"
    /\ place' = "running" /\ container' = TRUE
    /\ UNCHANGED <<serving, req, gone, topics, tally>>

\* The container is removed before the record.
Removed ==
    /\ serving /\ place = "running"
    /\ \/ container /\ container' = FALSE /\ UNCHANGED place
       \/ ~container /\ place' = "none" /\ UNCHANGED container
    /\ UNCHANGED <<serving, req, gone, topics, tally>>

\* The requests at the worker end with it, and the router answers them.
WorkerStops ==
    /\ serving /\ Exchange
    /\ serving' = FALSE
    /\ req' = [r \in Request |-> IF AtWorker(r) THEN [req[r] EXCEPT !.pc = "done", !.status = 502]
                                                ELSE req[r]]
    /\ UNCHANGED <<place, container, gone, topics>>

WorkerStarts ==
    /\ ~serving /\ serving' = TRUE
    /\ UNCHANGED <<place, container, req, gone, topics, tally>>

RequestNext ==
    \/ \E r \in Request :
         \/ Requested(r) \/ Proxy(r) \/ Authorize(r) \/ Find(r) \/ Run(r) \/ Inspect(r)
         \/ EmitResult(r) \/ Respond(r) \/ LeavePage(r)
    \/ Recorded \/ Provisioned \/ Removed \/ WorkerStops \/ WorkerStarts

RequestSpec == RequestInit /\ [][RequestNext]_requestVars

-----------------------------------------------------------------------------
(* What the requests promise                                               *)

Done(r) == req[r].pc = "done"

\* main.go:158-160: once a check has come back, its event is in Kafka when the request
\* is over, the client there or not; only Kafka's refusal or the end of the worker
\* loses it.
CheckedIsReported ==
    \A r \in Request :
       req[r].status \in {200, 422} /\ IsCheck(r) /\ ~req[r].unsent
         => <<r, Verdict(req[r].exit)>> \in topics

\* An event is one of a script that ran in the sandbox for that very request: 0 solves,
\* 1 and 127 fail, and a script that broke counts for nobody.
EventForCause ==
    \A e \in topics : LET r == e[1] IN
       /\ IsCheck(r) /\ req[r].met
       /\ e[2] = "challenge.solved" <=> req[r].exit = 0
       /\ req[r].exit # 2 /\ req[r].status \in {0, 200, 422, 502}

\* A request is told alive only by its owner's token, or a revoked one while Redis
\* failed, and only when a container answered during the request.
AliveForCause ==
    \A r \in Request : Done(r) /\ req[r].alive =>
       /\ req[r].met
       /\ \/ req[r].token = "owner"
          \/ req[r].token = "revoked" /\ tally.refusals > 0

RequestsSound == RequestTypeOK /\ CheckedIsReported /\ EventForCause /\ AliveForCause
=============================================================================
