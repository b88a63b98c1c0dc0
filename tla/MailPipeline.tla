---------------------------- MODULE MailPipeline ----------------------------
(***************************************************************************)
(* From the account to the mailbox: AuthOutboxEvent rows, the poller of    *)
(* the auth service, Kafka, the consumers of the notification service, the *)
(* send.email queue of RabbitMQ and the job worker.                        *)
(*                                                                         *)
(* The dead-letter topic of consume() is left out: a handler that fails    *)
(* has claimed its key, its second try finds the key and succeeds, so that *)
(* no message is tried three times.  So is the key's life of 24 hours.     *)
(***************************************************************************)
EXTENDS Naturals, Sequences, FiniteSets

CONSTANTS
    Replica,    \* auth-service pods
    MaxEvents,  \* rows, in the order of createdAt
    KindOf,     \* event -> eventType
    BatchSize,  \* LIMIT of the batch
    MaxRetries, \* failed attempts after which a row is given up
    Threshold,  \* consecutive failures that open the circuit
    MaxTries,   \* attempts of reconnectWithBackoff
    Faults,     \* the kinds of fault that may happen
    MaxFaults   \* how many of them

Event  == 1 .. MaxEvents
Mails  == {"welcome", "verification"}      \* the kinds that the notification service consumes
Kind   == Mails \cup {"reset", "deleted"}
Place  == {"wire", "queue", "held", "answered", "stale", "late", "dead"}

ASSUME MailAssumption ==
    /\ MaxEvents \in Nat /\ MaxFaults \in Nat
    /\ KindOf \in [Event -> Kind]
    /\ {BatchSize, MaxRetries, Threshold, MaxTries} \subseteq Nat \ {0}

VARIABLES
    row,        \* AuthOutboxEvent
    poll,       \* processOutbox of each replica
    breaker,    \* its circuit
    ready,      \* its Kafka producer is connected
    attempts,   \* failed attempts at each row
    topic,      \* the Kafka topics
    stage,      \* start of the notification service
    reader,     \* its Kafka consumers
    claimed,    \* idempotency keys in Redis
    amqp,       \* its RabbitMQService
    up,         \* RabbitMQ accepts connections
    jobs,       \* send.email jobs by place
    published,  \* jobs published for each event
    mailed,     \* mails the provider accepted for each event
    faults      \* number and kinds of the faults so far

outboxVars == <<row, poll, breaker, ready, attempts>>
notifyVars == <<stage, reader, claimed, amqp, up, jobs, published, mailed>>
mailVars   == <<outboxVars, topic, notifyVars, faults>>

NoRow    == [written |-> FALSE, processed |-> FALSE, failed |-> FALSE, retryCount |-> 0]
IdlePoll == [pc |-> "idle", todo |-> {}, retry |-> [e \in Event |-> 0]]
Off      == [on |-> FALSE, pc |-> "idle", at |-> 0, committed |-> 0]

\* consumers: of send.email on the open channel.  tries: 0 while reconnectWithBackoff
\* does not run; restoring: it has a channel and restores the consumers.
NoClient == [conn |-> FALSE, chan |-> FALSE, consumers |-> 0, registered |-> FALSE,
             tries |-> 0, restoring |-> FALSE]

MailTypeOK ==
    /\ row \in [Event -> [written: BOOLEAN, processed: BOOLEAN, failed: BOOLEAN, retryCount: Nat]]
    /\ poll \in [Replica -> [pc: {"idle", "emit", "mark", "fail"}, todo: SUBSET Event,
                             retry: [Event -> Nat]]]
    /\ \A r \in Replica : poll[r].pc = "idle" <=> poll[r].todo = {}
    /\ breaker \in [Replica -> [failures: Nat, open: BOOLEAN]]
    /\ ready \in [Replica -> BOOLEAN]
    /\ attempts \in [Event -> Nat]
    /\ topic \in [Kind -> Seq(Event)]
    /\ stage \in {"init", "welcome", "verification", "jobs", "done", "failed"}
    /\ reader \in [Mails -> [on: BOOLEAN, pc: {"idle", "claim", "publish"}, at: Nat, committed: Nat]]
    /\ \A k \in Mails : reader[k].committed <= reader[k].at /\ reader[k].at <= Len(topic[k])
    /\ claimed \in SUBSET Event
    /\ amqp \in [conn: BOOLEAN, chan: BOOLEAN, consumers: Nat, registered: BOOLEAN,
                 tries: 0 .. MaxTries, restoring: BOOLEAN]
    /\ up \in BOOLEAN
    /\ jobs \in [Place -> [Event -> Nat]]
    /\ published \in [Event -> Nat] /\ mailed \in [Event -> Nat]
    /\ faults \in [n: Nat, kinds: SUBSET Faults]

None == [e \in Event |-> 0]

MailInit ==
    /\ row = [e \in Event |-> NoRow]
    /\ poll = [r \in Replica |-> IdlePoll]
    /\ breaker = [r \in Replica |-> [failures |-> 0, open |-> FALSE]]
    /\ ready = [r \in Replica |-> FALSE]
    /\ attempts = None
    /\ topic = [k \in Kind |-> <<>>]
    /\ stage = "init"
    /\ reader = [k \in Mails |-> Off]
    /\ claimed = {}
    /\ amqp = NoClient
    /\ up = TRUE
    /\ jobs = [p \in Place |-> None]
    /\ published = None /\ mailed = None
    /\ faults = [n |-> 0, kinds |-> {}]

Fault(kind) ==
    /\ kind \in Faults
    /\ faults.n < MaxFaults
    /\ faults' = [n |-> faults.n + 1, kinds |-> faults.kinds \cup {kind}]

Without(kinds) == faults.kinds \cap kinds = {}

-----------------------------------------------------------------------------
(* The outbox of the auth service                                          *)

\* The request's transaction commits the row.
Request(e) ==
    /\ ~row[e].written
    /\ \A f \in Event : f < e => row[f].written
    /\ row' = [row EXCEPT ![e].written = TRUE]
    /\ UNCHANGED <<poll, breaker, ready, attempts, topic, notifyVars, faults>>

Pending == {e \in Event : row[e].written /\ ~row[e].processed /\ ~row[e].failed}
Oldest  == {e \in Pending : Cardinality({f \in Pending : f < e}) < BatchSize}

\* One cycle at a time in a replica; those of other replicas may have the same
\* rows, since the locks of the SELECT end with it.
Select(r) ==
    /\ poll[r].pc = "idle"
    /\ ready[r] /\ ~breaker[r].open
    /\ Oldest # {}
    /\ poll' = [poll EXCEPT ![r] = [pc |-> "emit", todo |-> Oldest,
                                    retry |-> [e \in Event |-> row[e].retryCount]]]
    /\ UNCHANGED <<row, breaker, ready, attempts, topic, notifyVars, faults>>

Current(r, e) == e \in poll[r].todo /\ \A f \in poll[r].todo : e <= f

Caught(r, e) ==
    /\ poll' = [poll EXCEPT ![r].pc = "fail"]
    /\ breaker' = [breaker EXCEPT ![r].failures = IF @ < Threshold THEN @ + 1 ELSE @]
    /\ attempts' = [attempts EXCEPT ![e] = @ + 1]

Appended(e) == topic' = [topic EXCEPT ![KindOf[e]] = Append(@, e)]

\* Mutant of Emit: a failed emission is taken for a success.
EmitSwallows(r, e) ==
    /\ poll[r].pc = "emit" /\ Current(r, e)
    /\ \/ Appended(e) /\ UNCHANGED faults
       \/ Fault("kafka") /\ UNCHANGED topic
    /\ poll' = [poll EXCEPT ![r].pc = "mark"]
    /\ UNCHANGED <<row, breaker, ready, attempts, notifyVars>>

\* The emission, which may fail or outlive its five seconds; a message that is
\* given up may be in the topic all the same.
Emit(r, e) ==
    /\ poll[r].pc = "emit" /\ Current(r, e)
    /\ \/ /\ Appended(e)
          /\ poll' = [poll EXCEPT ![r].pc = "mark"]
          /\ UNCHANGED <<breaker, attempts, faults>>
       \/ /\ Fault("kafka")
          /\ Appended(e) \/ UNCHANGED topic
          /\ Caught(r, e)
    /\ UNCHANGED <<row, ready, notifyVars>>

\* The cycle goes on with its next row.
Advance(p, e) == IF p.todo = {e} THEN IdlePoll ELSE [p EXCEPT !.pc = "emit", !.todo = @ \ {e}]

\* The row is marked and the breaker reset.
Mark(r, e) ==
    /\ poll[r].pc = "mark" /\ Current(r, e)
    /\ \/ /\ row' = [row EXCEPT ![e].processed = TRUE]
          /\ poll' = [poll EXCEPT ![r] = Advance(@, e)]
          /\ breaker' = [breaker EXCEPT ![r].failures = 0]
          /\ UNCHANGED <<attempts, faults>>
       \/ Fault("db") /\ Caught(r, e) /\ UNCHANGED row
    /\ UNCHANGED <<ready, topic, notifyVars>>

\* The retry count read with the row goes up, the circuit may open, and the cycle
\* ends with its first failure.
FailedOnce(r, e) ==
    /\ row' = [row EXCEPT ![e].retryCount = poll[r].retry[e] + 1,
                          ![e].failed = poll[r].retry[e] + 1 >= MaxRetries]
    /\ breaker' = [breaker EXCEPT ![r].open = @ \/ breaker[r].failures >= Threshold]
    /\ poll' = [poll EXCEPT ![r] = IdlePoll]

\* The catch block; if its own update fails, the outer one ends the cycle.
Catch(r, e) ==
    /\ poll[r].pc = "fail" /\ Current(r, e)
    /\ \/ FailedOnce(r, e) /\ UNCHANGED faults
       \/ Fault("db") /\ poll' = [poll EXCEPT ![r] = IdlePoll] /\ UNCHANGED <<row, breaker>>
    /\ UNCHANGED <<ready, attempts, topic, notifyVars>>

Closes(r) ==
    /\ breaker[r].open
    /\ breaker' = [breaker EXCEPT ![r].open = FALSE]
    /\ UNCHANGED <<row, poll, ready, attempts, topic, notifyVars, faults>>

\* initProducer, or the retry that every failure of it schedules, connects.
Connects(r) ==
    /\ ~ready[r]
    /\ ready' = [ready EXCEPT ![r] = TRUE]
    /\ UNCHANGED <<row, poll, breaker, attempts, topic, notifyVars, faults>>

\* A pod of the auth service dies and is started again.
AuthCrash(r) ==
    /\ Fault("restart")
    /\ poll' = [poll EXCEPT ![r] = IdlePoll]
    /\ breaker' = [breaker EXCEPT ![r] = [failures |-> 0, open |-> FALSE]]
    /\ ready' = [ready EXCEPT ![r] = FALSE]
    /\ UNCHANGED <<row, attempts, topic, notifyVars>>

OutboxStep(r) ==
    \/ Select(r)
    \/ \E e \in Event : Emit(r, e) \/ Mark(r, e) \/ Catch(r, e)

-----------------------------------------------------------------------------
(* The RabbitMQ client of the notification service                         *)

\* reconnectWithBackoff does nothing while it is running.
Retrying(a) == IF a.tries = 0 THEN [a EXCEPT !.tries = 1] ELSE a

\* init does nothing while there is a connection, with or without a channel.
Initialised(a) ==
    IF a.conn THEN a
    ELSE IF up THEN [a EXCEPT !.conn = TRUE, !.chan = TRUE] ELSE Retrying(a)

\* Jobs that the service holds unacked go back to the queue when their channel closes;
\* the handlers go on with what they were given.
Requeued(js) ==
    [js EXCEPT !["queue"] = [e \in Event |-> @[e] + js["held"][e] + js["answered"][e]],
               !["stale"] = [e \in Event |-> @[e] + js["held"][e]],
               !["late"] = [e \in Event |-> @[e] + js["answered"][e]],
               !["held"] = None, !["answered"] = None]

ChannelGone(a) == Retrying([a EXCEPT !.chan = FALSE, !.consumers = 0])
ConnectionGone(a) == Retrying([a EXCEPT !.conn = FALSE, !.chan = FALSE, !.consumers = 0])

\* An attempt of reconnectWithBackoff.
Reconnect ==
    /\ amqp.tries > 0 /\ ~amqp.restoring
    /\ LET a == Initialised(amqp)
       IN  amqp' = IF a.chan THEN [a EXCEPT !.restoring = TRUE]
                   ELSE [a EXCEPT !.tries = IF @ = MaxTries THEN 0 ELSE @ + 1]
    /\ UNCHANGED <<outboxVars, topic, stage, reader, claimed, up, jobs, published, mailed, faults>>

\* It consumes again what was registered.  If the channel has gone meanwhile,
\* consume returns, or fails and swallows the error.
Restore ==
    /\ amqp.restoring
    /\ amqp' = [amqp EXCEPT !.restoring = FALSE, !.tries = 0,
                            !.consumers = IF amqp.chan /\ amqp.registered THEN @ + 1 ELSE @]
    /\ UNCHANGED <<outboxVars, topic, stage, reader, claimed, up, jobs, published, mailed, faults>>

\* The connection is lost, with or without the broker, and what it had not carried.
ConnectionLost ==
    /\ amqp.conn
    /\ Fault("conn")
    /\ amqp' = ConnectionGone(amqp)
    /\ up' \in {up, FALSE}
    /\ jobs' = [Requeued(jobs) EXCEPT !["wire"] = None]
    /\ UNCHANGED <<outboxVars, topic, stage, reader, claimed, published, mailed>>

BrokerReturns ==
    /\ ~up
    /\ up' = TRUE
    /\ UNCHANGED <<outboxVars, topic, stage, reader, claimed, amqp, jobs, published, mailed, faults>>

-----------------------------------------------------------------------------
(* The notification service                                                *)

NextStage(s) == CASE s = "init" -> "welcome" [] s = "welcome" -> "verification"
                  [] s = "verification" -> "jobs" [] s = "jobs" -> "done"

\* Mutant of FirstOffset: fromBeginning is forgotten.
FirstOffsetEnd(k) == IF reader[k].committed = 0 THEN Len(topic[k]) ELSE reader[k].committed

\* Where a consumer starts: at its committed offset, or at the beginning.
FirstOffset(k) == reader[k].committed

\* onReady: init, then the two consumers of Kafka, then that of send.email.  An error
\* of a consumer that cannot connect is logged, and the rest is never done.
Boot ==
    /\ stage \notin {"done", "failed"}
    /\ stage' = NextStage(stage)
    /\ reader' = IF stage \in Mails
                 THEN [reader EXCEPT ![stage].on = TRUE, ![stage].at = FirstOffset(stage)]
                 ELSE reader
    /\ amqp' = CASE stage = "init" -> Initialised(amqp)
                 [] stage = "jobs" ->
                        [amqp EXCEPT !.registered = TRUE, !.consumers = IF amqp.chan THEN @ + 1 ELSE @]
                 [] OTHER -> amqp
    /\ UNCHANGED <<outboxVars, topic, claimed, up, jobs, published, mailed, faults>>

BootFails ==
    /\ stage \in Mails
    /\ Fault("boot")
    /\ stage' = "failed"
    /\ UNCHANGED <<outboxVars, topic, reader, claimed, amqp, up, jobs, published, mailed>>

Take(k) ==
    /\ reader[k].on /\ reader[k].pc = "idle"
    /\ reader[k].at < Len(topic[k])
    /\ reader' = [reader EXCEPT ![k].pc = "claim"]
    /\ UNCHANGED <<outboxVars, topic, stage, claimed, amqp, up, jobs, published, mailed, faults>>

Message(k) == topic[k][reader[k].at + 1]
Done(k)    == [reader EXCEPT ![k].pc = "idle", ![k].at = @ + 1]

\* Mutant of Locked: the key is set without NX.
LockedAlways(e) == TRUE

\* SET NX answers that the key is new.
Locked(e) == e \notin claimed

\* The key is claimed, or found and the message dropped.  A command whose answer is
\* lost is sent again by the client, and then finds its own key.
Claim(k) ==
    /\ reader[k].pc = "claim"
    /\ LET e == Message(k)
       IN  /\ claimed' = claimed \cup {e}
           /\ \/ /\ reader' = IF Locked(e) THEN [reader EXCEPT ![k].pc = "publish"] ELSE Done(k)
                 /\ UNCHANGED faults
              \/ Locked(e) /\ Fault("redis") /\ reader' = Done(k)
    /\ UNCHANGED <<outboxVars, topic, stage, amqp, up, jobs, published, mailed>>

\* publish, which opens a connection if there is none.  When it throws, the handler
\* is tried again from the start.
Publish(k) ==
    /\ reader[k].pc = "publish"
    /\ LET e == Message(k)
           a == IF amqp.chan THEN amqp ELSE Initialised(amqp)
       IN  /\ amqp' = a
           /\ \/ /\ a.chan
                 /\ jobs' = [jobs EXCEPT !["wire"][e] = @ + 1]
                 /\ published' = [published EXCEPT ![e] = @ + 1]
                 /\ reader' = Done(k)
                 /\ UNCHANGED faults
              \/ /\ (~a.chan /\ UNCHANGED faults) \/ (a.chan /\ Fault("rabbit"))
                 /\ reader' = [reader EXCEPT ![k].pc = "claim"]
                 /\ UNCHANGED <<jobs, published>>
    /\ UNCHANGED <<outboxVars, topic, stage, claimed, up, mailed>>

\* The consumer commits what it has read.
Commit(k) ==
    /\ reader[k].on /\ reader[k].committed < reader[k].at
    /\ reader' = [reader EXCEPT ![k].committed = reader[k].at]
    /\ UNCHANGED <<outboxVars, topic, stage, claimed, amqp, up, jobs, published, mailed, faults>>

Move(e, from, to) == [jobs EXCEPT ![from][e] = @ - 1, ![to][e] = @ + 1]
Removed(e, from)  == [jobs EXCEPT ![from][e] = @ - 1]

Arrive(e) ==
    /\ jobs["wire"][e] > 0
    /\ jobs' = Move(e, "wire", "queue")
    /\ UNCHANGED <<outboxVars, topic, stage, reader, claimed, amqp, up, published, mailed, faults>>

InHand == {e \in Event : jobs["held"][e] + jobs["answered"][e] > 0}

\* prefetch(1): one unacked job for each consumer on the channel.
Deliver(e) ==
    /\ jobs["queue"][e] > 0
    /\ Cardinality(InHand) < amqp.consumers
    /\ e \notin InHand
    /\ jobs' = Move(e, "queue", "held")
    /\ UNCHANGED <<outboxVars, topic, stage, reader, claimed, amqp, up, published, mailed, faults>>

\* The mail provider takes the mail, or answers with an error that mailer.ts does not
\* read.
Mail(e) ==
    /\ \E hand \in {<<"held", "answered">>, <<"stale", "late">>} :
           /\ jobs[hand[1]][e] > 0
           /\ jobs' = Move(e, hand[1], hand[2])
    /\ \/ mailed' = [mailed EXCEPT ![e] = @ + 1] /\ UNCHANGED faults
       \/ Fault("smtp") /\ UNCHANGED mailed
    /\ UNCHANGED <<outboxVars, topic, stage, reader, claimed, amqp, up, published>>

\* The handler throws, as for an unset WEB_APP_URL: nack, to the dead-letter queue.
Nack(e) ==
    /\ jobs["held"][e] > 0
    /\ Fault("handler")
    /\ jobs' = Move(e, "held", "dead")
    /\ UNCHANGED <<outboxVars, topic, stage, reader, claimed, amqp, up, published, mailed>>

Ack(e) ==
    /\ jobs["answered"][e] > 0
    /\ jobs' = Removed(e, "answered")
    /\ UNCHANGED <<outboxVars, topic, stage, reader, claimed, amqp, up, published, mailed, faults>>

\* The process ends; what it held unacked is delivered again, what it had not
\* written to the wire is lost, and it reads on from the committed offsets.
Restarted(js) ==
    /\ stage' = "init"
    /\ reader' = [k \in Mails |-> [Off EXCEPT !.at = reader[k].committed,
                                              !.committed = reader[k].committed]]
    /\ amqp' = NoClient
    /\ jobs' = [Requeued(js) EXCEPT !["wire"] = None, !["stale"] = None, !["late"] = None]

NotifyCrash ==
    /\ Fault("crash")
    /\ Restarted(jobs)
    /\ UNCHANGED <<outboxVars, topic, claimed, up, published, mailed>>

\* The ack of a job whose channel has gone.  Without a channel, ack and then nack throw,
\* and the unhandled rejection ends the process.  On a new channel the old tag is
\* that of a job delivered since, which is taken off the queue, or unknown, and then RabbitMQ closes the channel.
LateAck(e) ==
    /\ jobs["late"][e] > 0
    /\ IF ~amqp.chan THEN Restarted(jobs)
       ELSE /\ \/ /\ amqp' = ChannelGone(amqp)
                  /\ jobs' = Requeued(Removed(e, "late"))
               \/ \E f \in Event, h \in {<<"held", "stale">>, <<"answered", "late">>} :
                      /\ jobs[h[1]][f] > 0
                      /\ jobs' = [Removed(e, "late") EXCEPT ![h[1]][f] = @ - 1, ![h[2]][f] = @ + 1]
                      /\ UNCHANGED amqp
            /\ UNCHANGED <<stage, reader>>
    /\ UNCHANGED <<outboxVars, topic, claimed, up, published, mailed, faults>>

ReaderStep(k) == Take(k) \/ Claim(k) \/ Publish(k)
JobStep(e)    == Arrive(e) \/ Deliver(e) \/ Mail(e) \/ Ack(e) \/ LateAck(e)
ClientStep    == Reconnect \/ Restore

MailNext ==
    \/ \E e \in Event : Request(e) \/ JobStep(e) \/ Nack(e)
    \/ \E r \in Replica : OutboxStep(r) \/ Closes(r) \/ Connects(r) \/ AuthCrash(r)
    \/ \E k \in Mails : ReaderStep(k) \/ Commit(k)
    \/ ClientStep \/ ConnectionLost \/ BrokerReturns
    \/ Boot \/ BootFails \/ NotifyCrash

MailSpec == MailInit /\ [][MailNext]_mailVars

\* Handlers, timers and poll cycles are scheduled; the broker comes back and an intact
\* connection carries what was written.
MailFairness ==
    /\ \A r \in Replica : /\ WF_mailVars(OutboxStep(r))
                          /\ WF_mailVars(Closes(r)) /\ WF_mailVars(Connects(r))
    /\ \A k \in Mails : WF_mailVars(ReaderStep(k))
    /\ \A e \in Event : WF_mailVars(JobStep(e))
    /\ WF_mailVars(ClientStep) /\ WF_mailVars(BrokerReturns) /\ WF_mailVars(Boot)

MailFairSpec == MailSpec /\ MailFairness

-----------------------------------------------------------------------------
(* Safety                                                                  *)

\* Rows emitted twice, by two replicas or after a time-out, and messages read twice, after
\* a crash before the commit of their offset, still make one job.
JobOnce == \A e \in Event : published[e] <= 1

\* Nobody gets a mail twice, as long as no unacked job is delivered again.
MailedOnce == Without({"conn", "crash"}) => \A e \in Event : mailed[e] <= 1

\* The places where the mail of an event can still be on its way.
OnItsWay(e) ==
    \/ \E i \in 1 .. Len(topic[KindOf[e]]) : topic[KindOf[e]][i] = e /\ i > reader[KindOf[e]].at
    \/ \E p \in Place : jobs[p][e] > 0

\* A row marked as processed is a mail sent or on its way, whatever goes wrong in the
\* auth service, in its database and in Kafka.
NoMailLost ==
    Without({"conn", "crash", "rabbit", "redis", "smtp"}) =>
        \A e \in Event : row[e].processed /\ KindOf[e] \in Mails => mailed[e] > 0 \/ OnItsWay(e)

\* A row given up as a poison pill has failed MaxRetries times, although replicas
\* write retry counts computed from old snapshots.
PoisonAfterRetries == \A e \in Event : row[e].failed => attempts[e] >= MaxRetries

\* The bookkeeping of the pipeline: an event is one job and one mail, whatever is emitted,
\* read or retried twice, a row marked as processed is not lost, and no row is a poison
\* pill before its time.
MailSound == MailTypeOK /\ JobOnce /\ MailedOnce /\ NoMailLost /\ PoisonAfterRetries

\* The auth service's poller does what an outbox promises.
MailDelivery == INSTANCE EventDelivery WITH
    Broker <- {"kafka"}, MessageOf <- [e \in Event |-> e],
    written <- {e \in Event : row[e].written},
    sent <- {"kafka"} \X {e \in Event : \E i \in 1 .. Len(topic[KindOf[e]]) : topic[KindOf[e]][i] = e},
    settled <- {e \in Event : row[e].processed}

ImplementsMailDelivery == MailDelivery!Spec

-----------------------------------------------------------------------------
(* Liveness, under MailFairSpec                                            *)

\* The mail of a row that is not given up arrives, if nothing goes wrong after Kafka; the
\* rows may be older than the consumers.
MailArrives ==
    \A e \in Event : row[e].written /\ KindOf[e] \in Mails ~>
        \/ mailed[e] > 0 \/ row[e].failed
        \/ ~Without({"conn", "crash", "rabbit", "redis", "smtp", "handler", "boot"})
=============================================================================
