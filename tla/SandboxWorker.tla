--------------------------- MODULE SandboxWorker ---------------------------
(***************************************************************************)
(* The sandbox workers: the session manager (Create, Get, Destroy, the     *)
(* adoption of sessions at start-up), the serial RabbitMQ consumer that    *)
(* calls it, and the reaper goroutine that sweeps it every minute.  Each   *)
(* worker has a Docker daemon of its own (the dind sidecar of its pod);    *)
(* all workers share Redis and the queues.                                 *)
(*                                                                         *)
(* Every call that leaves the process (Redis, Docker, the broker) is a     *)
(* step, so that the consumer and the reaper of one worker, and the        *)
(* workers among themselves, interleave between any two calls.             *)
(***************************************************************************)
EXTENDS Naturals, FiniteSets

CONSTANTS
    Worker,         \* sandbox-worker replicas
    Session,        \* LabSession ids
    Container,      \* container ids the daemons can hand out
    None,           \* no session / no runtime
    Provisioning,   \* the RuntimeID "provisioning"
    TTL,            \* session -> age after which the reaper destroys it
    RedisTTL,       \* expiry of a Redis session key
    Grace,          \* age below which the orphan sweep leaves a container
    MaxAge,         \* ages stop growing here
    MaxStarts,      \* copies of session.started published per session
    MaxEnds,        \* copies of session.ended published per session
    Faults,         \* the kinds of fault that may happen
    MaxFaults       \* how many of them

ASSUME RuntimeAssumption ==
    /\ None \notin Session \cup Container
    /\ Provisioning \notin Container \cup {None}

ASSUME AgeAssumption ==
    /\ MaxAge \in Nat
    /\ TTL \in [Session -> 0 .. MaxAge]
    /\ RedisTTL \in Nat /\ Grace \in Nat

ASSUME BoundAssumption == MaxStarts \in Nat /\ MaxEnds \in Nat /\ MaxFaults \in Nat

VARIABLES
    mem,        \* Manager.sessions of each worker
    redis,      \* the session keys in Redis
    box,        \* the containers of the daemons
    queue,      \* RabbitMQ: copies of each message that wait for a consumer
    sent,       \* copies published so far (bounded by MaxStarts, MaxEnds)
    dlq,        \* messages dead-lettered
    reported,   \* sessions with a session.failed event on Kafka
    up,         \* workers running
    job,        \* what the consumer loop of each worker is doing
    destroy,    \* Manager.Destroy in progress, per worker and goroutine
    sweep,      \* Reaper.Sweep in progress, per worker
    faults      \* faults so far: how many, of what kinds

vars == <<mem, redis, box, queue, sent, dlq, reported, up, job, destroy, sweep, faults>>

Age      == 0 .. MaxAge
Runtime  == Container \cup {Provisioning}
Thread   == {"job", "reaper"}
Message  == [type: {"started", "ended"}, session: Session]

SessionData == [runtime: Runtime \cup {None}, age: Age]
NoData      == [runtime |-> None, age |-> 0]

\* label is the session-id label ReapOrphans looks for; owner is not in the
\* daemon: it remembers for which session the container was provisioned.
Box     == [state: {"free", "running", "dead", "gone"}, owner: Session \cup {None},
            host: Worker \cup {None}, label: Session \cup {None}, age: Age]
FreeBox == [state |-> "free", owner |-> None, host |-> None, label |-> None, age |-> 0]

\* pc: the call the handler makes next.  unacked: the broker still waits for
\* an ack of msg.  old: time has passed since the job began, and the five
\* minutes of its context (one unit of age) may be over; timedOut: they are.
JobPc   == {"idle", "provision", "withdraw", "save", "discard", "register", "report",
            "destroy", "ack", "nack"}
Job     == [pc: JobPc, msg: Message \cup {None}, unacked: BOOLEAN, old: BOOLEAN,
            timedOut: BOOLEAN, data: SessionData]
IdleJob == [pc |-> "idle", msg |-> None, unacked |-> FALSE, old |-> FALSE,
            timedOut |-> FALSE, data |-> NoData]

Destroying == [step: {"none", "remove", "unlink", "forget"}, session: Session \cup {None},
               runtime: Runtime \cup {None}]
NoDestroy  == [step |-> "none", session |-> None, runtime |-> None]

\* snap: AllActive() at the start of the sweep, with the ages of that moment.
Sweeping == [on: BOOLEAN, todo: SUBSET Session, snap: [Session -> SessionData]]
NoSweep  == [on |-> FALSE, todo |-> {}, snap |-> [s \in Session |-> NoData]]

Happened == [n : Nat, kinds : SUBSET Faults]

TypeOK ==
    /\ mem \in [Worker -> [Session -> SessionData]]
    /\ redis \in [Session -> SessionData]
    /\ box \in [Container -> Box]
    /\ queue \in [Message -> Nat]
    /\ sent \in [Message -> Nat]
    /\ dlq \subseteq Message
    /\ reported \subseteq Session
    /\ up \subseteq Worker
    /\ job \in [Worker -> Job]
    /\ destroy \in [Worker -> [Thread -> Destroying]]
    /\ sweep \in [Worker -> Sweeping]
    /\ faults \in Happened

Init ==
    /\ mem = [w \in Worker |-> [s \in Session |-> NoData]]
    /\ redis = [s \in Session |-> NoData]
    /\ box = [c \in Container |-> FreeBox]
    /\ queue = [m \in Message |-> 0]
    /\ sent = [m \in Message |-> 0]
    /\ dlq = {}
    /\ reported = {}
    /\ up = Worker
    /\ job = [w \in Worker |-> IdleJob]
    /\ destroy = [w \in Worker |-> [t \in Thread |-> NoDestroy]]
    /\ sweep = [w \in Worker |-> NoSweep]
    /\ faults = [n |-> 0, kinds |-> {}]

-----------------------------------------------------------------------------
(* Helpers                                                                 *)

Started(s) == [type |-> "started", session |-> s]
Ended(s)   == [type |-> "ended", session |-> s]

Present(d) == d.runtime # None

Active(w) == {s \in Session : Present(mem[w][s])}

\* provider.IsRunning on the daemon of w; a runtime it does not know is not running.
IsRunning(w, r) ==
    /\ r \in Container
    /\ box[r].state = "running"
    /\ box[r].host = w

\* provider.Remove on the daemon of w; the error for an unknown id is ignored by every caller.
Removed(w, r) ==
    [c \in Container |-> IF c = r /\ box[c].host = w /\ box[c].state \in {"running", "dead"}
                         THEN [box[c] EXCEPT !.state = "gone"] ELSE box[c]]

\* Manager.Get: memory first, then Redis.
Get(w, s) == IF Present(mem[w][s]) THEN mem[w][s] ELSE redis[s]

Fault(kind) ==
    /\ kind \in Faults
    /\ faults.n < MaxFaults
    /\ faults' = [n |-> faults.n + 1, kinds |-> faults.kinds \cup {kind}]

\* A call of the consumer with the job's context: it fails when the context is
\* done, and it may fail because the service does.
JobCallFails(w, kind) == IF job[w].timedOut THEN UNCHANGED faults ELSE Fault(kind)
JobCallWorks(w) == ~job[w].timedOut /\ UNCHANGED faults

-----------------------------------------------------------------------------
(* The core service publishes jobs; every queue may deliver before another. *)

Publish(m, bound) ==
    /\ sent[m] < bound
    /\ sent' = [sent EXCEPT ![m] = @ + 1]
    /\ queue' = [queue EXCEPT ![m] = @ + 1]
    /\ UNCHANGED <<mem, redis, box, dlq, reported, up, job, destroy, sweep, faults>>

PublishStarted(s) == Publish(Started(s), MaxStarts)

PublishEnded(s) ==
    /\ sent[Started(s)] > 0
    /\ Publish(Ended(s), MaxEnds)

-----------------------------------------------------------------------------
(* The consumer: Create                                                    *)

\* The next delivery of m goes to w, whose handler continues at pc.
Take(w, m, pc) ==
    /\ w \in up
    /\ job[w].pc = "idle"
    /\ queue[m] > 0
    /\ queue' = [queue EXCEPT ![m] = @ - 1]
    /\ job' = [job EXCEPT ![w] = [IdleJob EXCEPT !.pc = pc, !.msg = m, !.unacked = TRUE]]

\* Create finds the session in the memory of this worker and returns it.
CreateExisting(w, s) ==
    /\ Present(mem[w][s])
    /\ Take(w, Started(s), "ack")
    /\ UNCHANGED <<mem, redis, box, sent, dlq, reported, up, destroy, sweep, faults>>

\* Mutant of CreateBegin: no idempotency check.
CreateAlways(w, s) ==
    /\ Take(w, Started(s), "provision")
    /\ redis' = [redis EXCEPT ![s] = [runtime |-> Provisioning, age |-> 0]]
    /\ UNCHANGED <<mem, box, sent, dlq, reported, up, destroy, sweep, faults>>

\* Create saves the provisional record so that the router can already route;
\* the error of this save is ignored.
CreateBegin(w, s) ==
    /\ ~Present(mem[w][s])
    /\ Take(w, Started(s), "provision")
    /\ \/ /\ redis' = [redis EXCEPT ![s] = [runtime |-> Provisioning, age |-> 0]]
          /\ UNCHANGED faults
       \/ /\ Fault("redis")
          /\ UNCHANGED redis
    /\ UNCHANGED <<mem, box, sent, dlq, reported, up, destroy, sweep>>

\* The label map of Provision holds managed-by and nothing else.
ProvisionLabel(s) == None

NewBox(w, s) == [state |-> "running", owner |-> s, host |-> w, label |-> ProvisionLabel(s), age |-> 0]

\* The daemon creates and starts the container; CreatedAt of the final record
\* is taken when Provision returns.
Provision(w) ==
    /\ job[w].pc = "provision"
    /\ ~job[w].timedOut
    /\ \E c \in Container :
          /\ box[c].state = "free"
          /\ box' = [box EXCEPT ![c] = NewBox(w, job[w].msg.session)]
          /\ job' = [job EXCEPT ![w] = [@ EXCEPT !.pc = "save", !.data = [runtime |-> c, age |-> 0]]]
    /\ UNCHANGED <<mem, redis, queue, sent, dlq, reported, up, destroy, sweep, faults>>

\* Mutant of ProvisionFails: the error is swallowed and the job acked.
ProvisionFailsAcked(w) ==
    /\ job[w].pc = "provision"
    /\ ~job[w].timedOut
    /\ Fault("provision")
    /\ job' = [job EXCEPT ![w].pc = "ack"]
    /\ UNCHANGED <<mem, redis, box, queue, sent, dlq, reported, up, destroy, sweep>>

\* Provision fails (image, create, start) and has removed what it created.
ProvisionFails(w) ==
    /\ job[w].pc = "provision"
    /\ ~job[w].timedOut
    /\ Fault("provision")
    /\ job' = [job EXCEPT ![w].pc = "withdraw"]
    /\ UNCHANGED <<mem, redis, box, queue, sent, dlq, reported, up, destroy, sweep>>

\* The job's context ends during Provision.  Its clean-up uses the same context
\* and fails: a created container may stay behind, not started.
ProvisionTimesOut(w) ==
    /\ job[w].pc = "provision"
    /\ job[w].timedOut
    /\ \/ UNCHANGED box
       \/ \E c \in Container :
             /\ box[c].state = "free"
             /\ box' = [box EXCEPT ![c] = [NewBox(w, job[w].msg.session) EXCEPT !.state = "dead"]]
    /\ job' = [job EXCEPT ![w].pc = "withdraw"]
    /\ UNCHANGED <<mem, redis, queue, sent, dlq, reported, up, destroy, sweep, faults>>

\* Create deletes the provisional record, errors ignored, and returns the error of Provision.
Withdraw(w) ==
    /\ job[w].pc = "withdraw"
    /\ \/ JobCallWorks(w) /\ redis' = [redis EXCEPT ![job[w].msg.session] = NoData]
       \/ JobCallFails(w, "redis") /\ UNCHANGED redis
    /\ job' = [job EXCEPT ![w].pc = "report"]
    /\ UNCHANGED <<mem, box, queue, sent, dlq, reported, up, destroy, sweep>>

\* Mutant of SaveFinal: Redis keeps the provisional record.
SaveNothing(w) ==
    /\ job[w].pc = "save"
    /\ JobCallWorks(w)
    /\ job' = [job EXCEPT ![w].pc = "register"]
    /\ UNCHANGED <<mem, redis, box, queue, sent, dlq, reported, up, destroy, sweep>>

SaveFinal(w) ==
    /\ job[w].pc = "save"
    /\ JobCallWorks(w)
    /\ redis' = [redis EXCEPT ![job[w].msg.session] = job[w].data]
    /\ job' = [job EXCEPT ![w].pc = "register"]
    /\ UNCHANGED <<mem, box, queue, sent, dlq, reported, up, destroy, sweep>>

\* Mutant of SaveFails: the container is not removed.
SaveFailsKeeps(w) ==
    /\ job[w].pc = "save"
    /\ JobCallFails(w, "redis")
    /\ job' = [job EXCEPT ![w].pc = "report"]
    /\ UNCHANGED <<mem, redis, box, queue, sent, dlq, reported, up, destroy, sweep>>

\* The final save fails; the provisional record stays in Redis.
SaveFails(w) ==
    /\ job[w].pc = "save"
    /\ JobCallFails(w, "redis")
    /\ job' = [job EXCEPT ![w].pc = "discard"]
    /\ UNCHANGED <<mem, redis, box, queue, sent, dlq, reported, up, destroy, sweep>>

\* Create removes the container it could not save, errors ignored, and returns the error.
Discard(w) ==
    /\ job[w].pc = "discard"
    /\ \/ JobCallWorks(w) /\ box' = Removed(w, job[w].data.runtime)
       \/ JobCallFails(w, "docker") /\ UNCHANGED box
    /\ job' = [job EXCEPT ![w].pc = "report"]
    /\ UNCHANGED <<mem, redis, queue, sent, dlq, reported, up, destroy, sweep>>

Register(w) ==
    /\ job[w].pc = "register"
    /\ mem' = [mem EXCEPT ![w][job[w].msg.session] = job[w].data]
    /\ job' = [job EXCEPT ![w].pc = "ack"]
    /\ UNCHANGED <<redis, box, queue, sent, dlq, reported, up, destroy, sweep, faults>>

\* OnSessionStarted emits session.failed with a context of its own and drops
\* the error of the emit; then the handler returns the error of Create.
ReportFailure(w) ==
    /\ job[w].pc = "report"
    /\ \/ /\ reported' = reported \cup {job[w].msg.session}
          /\ UNCHANGED faults
       \/ /\ Fault("kafka")
          /\ UNCHANGED reported
    /\ job' = [job EXCEPT ![w].pc = "nack"]
    /\ UNCHANGED <<mem, redis, box, queue, sent, dlq, up, destroy, sweep>>

\* Ack or Nack(requeue = false); neither has an effect on a lost connection.
Settle(w) ==
    /\ job[w].pc \in {"ack", "nack"}
    /\ dlq' = IF job[w].pc = "nack" /\ job[w].unacked THEN dlq \cup {job[w].msg} ELSE dlq
    /\ job' = [job EXCEPT ![w] = IdleJob]
    /\ UNCHANGED <<mem, redis, box, queue, sent, reported, up, destroy, sweep, faults>>

-----------------------------------------------------------------------------
(* Destroy, called by the consumer and by the reaper                       *)

BeginDestroy(w, t, s) ==
    destroy' = [destroy EXCEPT ![w][t] =
                   [step |-> "remove", session |-> s, runtime |-> Get(w, s).runtime]]

\* session.ended for a session that neither memory nor Redis knows: no-op, ack.
EndUnknown(w, s) ==
    /\ ~Present(Get(w, s))
    /\ Take(w, Ended(s), "ack")
    /\ UNCHANGED <<mem, redis, box, sent, dlq, reported, up, destroy, sweep, faults>>

EndKnown(w, s) ==
    /\ Present(Get(w, s))
    /\ Take(w, Ended(s), "destroy")
    /\ BeginDestroy(w, "job", s)
    /\ UNCHANGED <<mem, redis, box, sent, dlq, reported, up, sweep, faults>>

\* The Redis lookup fails: Destroy returns the error and the job is dead-lettered.
EndLookupFails(w, s) ==
    /\ ~Present(mem[w][s])
    /\ Take(w, Ended(s), "nack")
    /\ Fault("redis")
    /\ UNCHANGED <<mem, redis, box, sent, dlq, reported, up, destroy, sweep>>

CallWorks(w, t) == IF t = "job" THEN JobCallWorks(w) ELSE UNCHANGED faults
CallFails(w, t, kind) == IF t = "job" THEN JobCallFails(w, kind) ELSE Fault(kind)

\* Mutant of DestroyRemove: the container is left running.
DestroyKeeps(w, t) ==
    /\ destroy[w][t].step = "remove"
    /\ destroy' = [destroy EXCEPT ![w][t].step = "unlink"]
    /\ UNCHANGED <<mem, redis, box, queue, sent, dlq, reported, up, job, sweep, faults>>

\* The container is removed on the daemon of this worker, errors ignored.
DestroyRemove(w, t) ==
    /\ destroy[w][t].step = "remove"
    /\ \/ CallWorks(w, t) /\ box' = Removed(w, destroy[w][t].runtime)
       \/ CallFails(w, t, "docker") /\ UNCHANGED box
    /\ destroy' = [destroy EXCEPT ![w][t].step = "unlink"]
    /\ UNCHANGED <<mem, redis, queue, sent, dlq, reported, up, job, sweep>>

\* The Redis key is deleted, errors ignored.
DestroyUnlink(w, t) ==
    /\ destroy[w][t].step = "unlink"
    /\ \/ CallWorks(w, t) /\ redis' = [redis EXCEPT ![destroy[w][t].session] = NoData]
       \/ CallFails(w, t, "redis") /\ UNCHANGED redis
    /\ destroy' = [destroy EXCEPT ![w][t].step = "forget"]
    /\ UNCHANGED <<mem, box, queue, sent, dlq, reported, up, job, sweep>>

DestroyForget(w, t) ==
    /\ destroy[w][t].step = "forget"
    /\ mem' = [mem EXCEPT ![w][destroy[w][t].session] = NoData]
    /\ destroy' = [destroy EXCEPT ![w][t] = NoDestroy]
    /\ job' = IF t = "job" THEN [job EXCEPT ![w].pc = "ack"] ELSE job
    /\ UNCHANGED <<redis, box, queue, sent, dlq, reported, up, sweep, faults>>

-----------------------------------------------------------------------------
(* The reaper                                                              *)

\* A sweep with no session in memory returns at once: it is not a step.
SweepBegin(w) ==
    /\ w \in up
    /\ ~sweep[w].on
    /\ Active(w) # {}
    /\ sweep' = [sweep EXCEPT ![w] = [on |-> TRUE, todo |-> Active(w), snap |-> mem[w]]]
    /\ UNCHANGED <<mem, redis, box, queue, sent, dlq, reported, up, job, destroy, faults>>

Sweeps(w, s) ==
    /\ sweep[w].on
    /\ s \in sweep[w].todo
    /\ destroy[w]["reaper"].step = "none"
    /\ sweep' = [sweep EXCEPT ![w].todo = @ \ {s}]

Expired(w, s) == sweep[w].snap[s].age > TTL[s]

\* Past its TTL, or with a container that this daemon does not run.
Condemned(w, s) == Expired(w, s) \/ ~IsRunning(w, sweep[w].snap[s].runtime)

\* The reaper destroys the session; Destroy does nothing if it is unknown by now.
SweepDestroy(w, s) ==
    /\ Sweeps(w, s)
    /\ Condemned(w, s)
    /\ IF Present(Get(w, s)) THEN BeginDestroy(w, "reaper", s) ELSE UNCHANGED destroy
    /\ UNCHANGED <<mem, redis, box, queue, sent, dlq, reported, up, job, faults>>

\* A session in order is kept; so is one whose container cannot be inspected, and
\* one that Destroy would have to look up in Redis when Redis fails.
SweepKeep(w, s) ==
    /\ Sweeps(w, s)
    /\ \/ ~Condemned(w, s) /\ UNCHANGED faults
       \/ ~Expired(w, s) /\ Fault("docker")
       \/ Condemned(w, s) /\ ~Present(mem[w][s]) /\ Fault("redis")
    /\ UNCHANGED <<mem, redis, box, queue, sent, dlq, reported, up, job, destroy>>

\* The containers ReapOrphans removes: managed, not labelled with a session of
\* the sweep's snapshot, and past the grace period.
Orphans(w) ==
    {c \in Container :
        /\ box[c].state \in {"running", "dead"}
        /\ box[c].host = w
        /\ box[c].label = None \/ ~Present(sweep[w].snap[box[c].label])
        /\ box[c].age >= Grace}

\* Every orphan is removed, unless the daemon fails to list or to remove some.
SweepOrphans(w) ==
    /\ sweep[w].on
    /\ sweep[w].todo = {}
    /\ destroy[w]["reaper"].step = "none"
    /\ \E reaped \in SUBSET Orphans(w) :
          /\ box' = [c \in Container |->
                        IF c \in reaped THEN [box[c] EXCEPT !.state = "gone"] ELSE box[c]]
          /\ IF reaped = Orphans(w) THEN UNCHANGED faults ELSE Fault("docker")
    /\ sweep' = [sweep EXCEPT ![w] = NoSweep]
    /\ UNCHANGED <<mem, redis, queue, sent, dlq, reported, up, job, destroy>>

-----------------------------------------------------------------------------
(* Time, and what goes wrong                                               *)

Older(a)  == IF a < MaxAge THEN a + 1 ELSE a
AgedData(d) == IF Present(d) THEN [d EXCEPT !.age = Older(@)] ELSE d

\* A unit of time passes; Redis drops the keys that reach their expiry.  No job
\* outlives its context by another unit.
Tick ==
    /\ \A w \in Worker : ~job[w].old
    /\ mem' = [w \in Worker |-> [s \in Session |-> AgedData(mem[w][s])]]
    /\ redis' = [s \in Session |-> IF AgedData(redis[s]).age >= RedisTTL THEN NoData
                                   ELSE AgedData(redis[s])]
    /\ box' = [c \in Container |-> IF box[c].state \in {"running", "dead"}
                                   THEN [box[c] EXCEPT !.age = Older(@)] ELSE box[c]]
    /\ job' = [w \in Worker |-> [job[w] EXCEPT !.data = AgedData(@),
                                              !.old = job[w].pc # "idle"]]
    /\ UNCHANGED <<queue, sent, dlq, reported, up, destroy, sweep, faults>>

\* The worker process dies; the broker requeues what it had not acked.
Crash(w) ==
    /\ w \in up
    /\ Fault("crash")
    /\ up' = up \ {w}
    /\ mem' = [mem EXCEPT ![w] = [s \in Session |-> NoData]]
    /\ queue' = IF job[w].unacked THEN [queue EXCEPT ![job[w].msg] = @ + 1] ELSE queue
    /\ job' = [job EXCEPT ![w] = IdleJob]
    /\ destroy' = [destroy EXCEPT ![w] = [t \in Thread |-> NoDestroy]]
    /\ sweep' = [sweep EXCEPT ![w] = NoSweep]
    /\ UNCHANGED <<redis, box, sent, dlq, reported>>

\* Mutant of Restart: the loop variable of the adoption is shared, every entry
\* gets the record of one session.
RestartSharedVariable(w) ==
    /\ w \notin up
    /\ up' = up \cup {w}
    /\ mem' = [mem EXCEPT ![w] =
                  [s \in Session |-> IF Present(redis[s])
                                     THEN redis[CHOOSE x \in Session : Present(redis[x])]
                                     ELSE NoData]]
    /\ UNCHANGED <<redis, box, queue, sent, dlq, reported, job, destroy, sweep, faults>>

\* NewManager adopts every session of Redis, whatever its RuntimeID and WorkerAddr.
Restart(w) ==
    /\ w \notin up
    /\ up' = up \cup {w}
    /\ mem' = [mem EXCEPT ![w] = redis]
    /\ UNCHANGED <<redis, box, queue, sent, dlq, reported, job, destroy, sweep, faults>>

\* The AMQP connection of w drops while a handler runs: the handler goes on,
\* its ack will have no effect, and the message is delivered again.
ConnectionLost(w) ==
    /\ job[w].unacked
    /\ Fault("conn")
    /\ queue' = [queue EXCEPT ![job[w].msg] = @ + 1]
    /\ job' = [job EXCEPT ![w].unacked = FALSE]
    /\ UNCHANGED <<mem, redis, box, sent, dlq, reported, up, destroy, sweep>>

\* The five minutes of the job's context run out.
JobTimeout(w) ==
    /\ job[w].pc \in {"provision", "withdraw", "save", "discard", "destroy"}
    /\ job[w].old /\ ~job[w].timedOut
    /\ Fault("timeout")
    /\ job' = [job EXCEPT ![w].timedOut = TRUE]
    /\ UNCHANGED <<mem, redis, box, queue, sent, dlq, reported, up, destroy, sweep>>

\* The container stops by itself (killed for memory, its process exits).
ContainerDies(c) ==
    /\ box[c].state = "running"
    /\ Fault("oom")
    /\ box' = [box EXCEPT ![c].state = "dead"]
    /\ UNCHANGED <<mem, redis, queue, sent, dlq, reported, up, job, destroy, sweep>>

\* The disk monitor of the host removes a running container over its quota.
DiskQuotaKill(w, c) ==
    /\ w \in up
    /\ IsRunning(w, c)
    /\ Fault("disk")
    /\ box' = Removed(w, c)
    /\ UNCHANGED <<mem, redis, queue, sent, dlq, reported, up, job, destroy, sweep>>

-----------------------------------------------------------------------------
CreateStep(w) ==
    \/ \E s \in Session : CreateExisting(w, s) \/ CreateBegin(w, s)
    \/ Provision(w) \/ ProvisionFails(w) \/ ProvisionTimesOut(w) \/ Withdraw(w)
    \/ SaveFinal(w) \/ SaveFails(w) \/ Discard(w)
    \/ Register(w) \/ ReportFailure(w) \/ Settle(w)

EndStep(w) == \E s \in Session : EndUnknown(w, s) \/ EndKnown(w, s) \/ EndLookupFails(w, s)

DestroyStep(w, t) == DestroyRemove(w, t) \/ DestroyUnlink(w, t) \/ DestroyForget(w, t)

SweepStep(w) ==
    \/ SweepBegin(w)
    \/ \E s \in Session : SweepDestroy(w, s) \/ SweepKeep(w, s)
    \/ SweepOrphans(w)

JobStep(w) == CreateStep(w) \/ EndStep(w) \/ DestroyStep(w, "job")

ReaperStep(w) == SweepStep(w) \/ DestroyStep(w, "reaper")

Mishap ==
    \/ \E w \in Worker : Crash(w) \/ ConnectionLost(w) \/ JobTimeout(w)
    \/ \E c \in Container : ContainerDies(c)
    \/ \E w \in Worker, c \in Container : DiskQuotaKill(w, c)

Next ==
    \/ \E s \in Session : PublishStarted(s) \/ PublishEnded(s)
    \/ \E w \in Worker : JobStep(w) \/ ReaperStep(w) \/ Restart(w)
    \/ Tick
    \/ Mishap

Spec == Init /\ [][Next]_vars

\* The consumer loop and the reaper goroutine are scheduled, a crashed worker
\* is restarted by its StatefulSet, and time passes.
Fairness ==
    /\ \A w \in Worker : WF_vars(JobStep(w)) /\ WF_vars(ReaperStep(w)) /\ WF_vars(Restart(w))
    /\ WF_vars(Tick)

FairSpec == Spec /\ Fairness

-----------------------------------------------------------------------------
(* Safety                                                                  *)

\* r names nothing, or a container provisioned for session s.
Owned(s, r) == r \in Container => box[r].state # "free" /\ box[r].owner = s

\* Whatever record of a session is around, in a worker's memory, in Redis, in
\* the reaper's snapshot or in a Destroy in progress, names a container that was
\* provisioned for that session: ending one session never removes the container
\* of another (manager.go Create, NewManager, Destroy; reaper.go Sweep).
RecordsNameOwnContainer ==
    /\ \A w \in Worker, s \in Session : Owned(s, mem[w][s].runtime)
    /\ \A s \in Session : Owned(s, redis[s].runtime)
    /\ \A w \in Worker, s \in Session : Owned(s, sweep[w].snap[s].runtime)
    /\ \A w \in Worker, t \in Thread :
          destroy[w][t].step # "none" => Owned(destroy[w][t].session, destroy[w][t].runtime)

Running(c) == box[c].state = "running"

\* A worker still knows the container: in memory, or in the Create in progress.
Tracked(c) ==
    \E w \in Worker :
        \/ mem[w][box[c].owner].runtime = c
        \/ job[w].pc \in {"save", "discard", "register"} /\ job[w].data.runtime = c

\* No fault of these kinds has happened.
Without(kinds) == faults.kinds \cap kinds = {}

\* The worker is given session.started once, and is not interrupted.
DeliveredOnce(s) == sent[Started(s)] <= 1 /\ Without({"conn", "crash"})

\* No container runs that no worker will ever destroy: the "clean up the container
\* to avoid an orphan" of Create, and the order of Destroy's calls, keep to that when
\* any call but those of the daemon fails.
NoRunningOrphan ==
    Without({"docker", "timeout"}) =>
        \A c \in Container : Running(c) /\ DeliveredOnce(box[c].owner) => Tracked(c)

\* While a worker serves a session, Redis holds the same record, so the router
\* finds it: only a Destroy in progress or the expiry of the key may part them.
\* For one delivery of session.started; and among several workers until session.ended,
\* which another worker may take and delete the record alone.
ServedSessionIsRouted ==
    \A w \in Worker, s \in Session :
        /\ Present(mem[w][s]) /\ mem[w][s].age < RedisTTL
        /\ DeliveredOnce(s)
        /\ Worker = {w} \/ sent[Ended(s)] = 0
        => redis[s] = mem[w][s] \/ \E t \in Thread : destroy[w][t].session = s

\* Until a session is ended, duplicates of session.started (the poller's copy,
\* a redelivery after a lost connection) leave a worker with one container of it at
\* most: the idempotency check of Create, which asks the memory of this worker only.
\* As long as no worker crashes or times out, and the daemons obey.
DuplicateStartsHarmless ==
    Without({"crash", "docker", "timeout"}) =>
        \A c, d \in Container :
            /\ Running(c) /\ Running(d)
            /\ box[c].owner = box[d].owner /\ box[c].host = box[d].host
            /\ sent[Ended(box[c].owner)] = 0
            => c = d

\* A session.started that ends in the dead-letter queue was reported to the core
\* service, as long as Kafka accepts the event.
DeadLetterReported ==
    Without({"kafka"}) => \A s \in Session : Started(s) \in dlq => s \in reported

\* What is reported as failed does not run: the core service frees the user's slot
\* on the report.  For one delivery of session.started, as long as the daemons obey
\* and no job times out: Discard ignores their errors.
ReportedIsNotRunning ==
    Without({"docker", "timeout"}) =>
        \A s \in reported, c \in Container :
            DeliveredOnce(s) /\ Running(c) => box[c].owner # s

\* A Create that fails half-way is settled: nothing it started runs on unknown, its job
\* is dead-lettered with a report, and what is reported does not run (manager.go:225-285).
FailureSettled == NoRunningOrphan /\ DeadLetterReported /\ ReportedIsNotRunning

-----------------------------------------------------------------------------
(* Liveness, under FairSpec                                                *)

\* Every session.started ends with the session served by a worker or reported as failed.
StartResolved ==
    \A s \in Session :
        queue[Started(s)] > 0 ~>
            s \in reported \/ \E w \in Worker : mem[w][s].runtime \in Container

\* No container outlives its session's TTL for ever, whether or not session.ended arrives.
EveryContainerStops == \A c \in Container : Running(c) ~> ~Running(c)
=============================================================================
