---------------------------- MODULE OutboxPoller ----------------------------
(***************************************************************************)
(* The outbox of the core service: a request (or the session reaper)       *)
(* commits a CoreOutboxEvent row, emits it inline to Kafka and RabbitMQ    *)
(* and marks it as processed; the poller of every replica does the same    *)
(* for the rows that are still unprocessed.  setInterval does not wait for *)
(* the previous poll, so that cycles of one replica overlap, and the locks *)
(* of FOR UPDATE SKIP LOCKED end with the SELECT, so that batches do.      *)
(***************************************************************************)
EXTENDS Naturals, FiniteSets

CONSTANTS
    Replica,    \* core-service pods
    Cycle,      \* poll cycles of a replica that may overlap
    MaxEvents,  \* rows written, in the order of their createdAt
    Message,    \* the payloads
    MessageOf,  \* event -> payload
    BatchSize,  \* BATCH_SIZE
    MaxRetries, \* failed attempts after which a row is given up
    Threshold,  \* consecutive failures that trip the circuit
    Faults,     \* the kinds of fault that may happen
    MaxFaults   \* how many of them

Event  == 1 .. MaxEvents
Broker == {"kafka", "rabbit"}

ASSUME OutboxAssumption ==
    /\ MaxEvents \in Nat
    /\ MessageOf \in [Event -> Message]
    /\ BatchSize \in Nat \ {0}
    /\ MaxRetries \in Nat \ {0}
    /\ Threshold \in Nat \ {0}
    /\ MaxFaults \in Nat

VARIABLES
    row,        \* CoreOutboxEvent
    request,    \* the inline emission that follows the commit of a row
    cycle,      \* the poll cycles in progress
    breaker,    \* circuit breaker of the poller, per replica
    ready,      \* isProducerReady of each replica
    channel,    \* FALSE: RabbitMQ's channel of a replica is closed, its connection open
    sent,       \* <<broker, message>>: handed to the broker's client
    wire,       \* <<replica, message>>: written by sendToQueue, not yet at RabbitMQ
    queued,     \* messages that reached RabbitMQ
    attempts,   \* failed attempts of the pollers at each row
    faults      \* faults so far

vars == <<row, request, cycle, breaker, ready, channel, sent, wire, queued, attempts, faults>>

Row      == [written: BOOLEAN, processed: BOOLEAN, failed: BOOLEAN, retryCount: Nat]
NoRow    == [written |-> FALSE, processed |-> FALSE, failed |-> FALSE, retryCount |-> 0]

\* byId: the row is marked by its id (session reaper), not by its payload.
Request   == [pc: {"idle", "kafka", "rabbit", "mark"}, replica: Replica, byId: BOOLEAN]

\* retry: the retryCount of each row when it was selected.
Polling   == [pc: {"idle", "kafka", "rabbit", "mark", "fail"}, todo: SUBSET Event,
              retry: [Event -> Nat]]
IdleCycle == [pc |-> "idle", todo |-> {}, retry |-> [e \in Event |-> 0]]

Breaker       == [failures: 0 .. Threshold, open: BOOLEAN]
ClosedBreaker == [failures |-> 0, open |-> FALSE]

TypeOK ==
    /\ row \in [Event -> Row]
    /\ request \in [Event -> Request]
    /\ cycle \in [Replica -> [Cycle -> Polling]]
    /\ \A r \in Replica, c \in Cycle : cycle[r][c].pc = "idle" <=> cycle[r][c].todo = {}
    /\ breaker \in [Replica -> Breaker]
    /\ ready \in [Replica -> BOOLEAN]
    /\ channel \in [Replica -> BOOLEAN]
    /\ sent \subseteq Broker \X Message
    /\ wire \subseteq Replica \X Message
    /\ queued \subseteq Message
    /\ attempts \in [Event -> Nat]
    /\ faults \in Nat

Init ==
    /\ row = [e \in Event |-> NoRow]
    /\ \E r \in Replica : request = [e \in Event |-> [pc |-> "idle", replica |-> r, byId |-> FALSE]]
    /\ cycle = [r \in Replica |-> [c \in Cycle |-> IdleCycle]]
    /\ breaker = [r \in Replica |-> ClosedBreaker]
    /\ ready = [r \in Replica |-> FALSE]
    /\ channel = [r \in Replica |-> TRUE]
    /\ sent = {} /\ wire = {} /\ queued = {}
    /\ attempts = [e \in Event |-> 0]
    /\ faults = 0

-----------------------------------------------------------------------------
Fault(kind) ==
    /\ kind \in Faults
    /\ faults < MaxFaults
    /\ faults' = faults + 1

\* The client of broker b takes the message of e from replica r.  RabbitMQ's
\* client has written it to its socket; no confirm is awaited.
Hand(b, e, r) ==
    /\ sent' = sent \cup {<<b, MessageOf[e]>>}
    /\ wire' = IF b = "rabbit" THEN wire \cup {<<r, MessageOf[e]>>} ELSE wire

\* Kafka needs its producer.  RabbitMQ connects on demand, but init does nothing
\* for a closed channel as long as the connection is there.
Works(b, r) == IF b = "kafka" THEN ready[r] ELSE channel[r]

\* The call fails, or the five seconds of the poller run out first; the message
\* may reach the broker all the same.
Refused(b, e, r) ==
    \/ Fault(b) /\ (Hand(b, e, r) \/ UNCHANGED <<sent, wire>>)
    \/ ~Works(b, r) /\ UNCHANGED <<sent, wire, faults>>

Accepted(b, e, r) ==
    /\ Works(b, r)
    /\ Hand(b, e, r)
    /\ UNCHANGED faults

After(b) == IF b = "kafka" THEN "rabbit" ELSE "mark"

-----------------------------------------------------------------------------
(* The request                                                             *)

\* The transaction that changes the LabSession commits the row.
Write(e, r, byId) ==
    /\ ~row[e].written
    /\ \A f \in Event : f < e => row[f].written
    /\ row' = [row EXCEPT ![e].written = TRUE]
    /\ request' = [request EXCEPT ![e] = [pc |-> "kafka", replica |-> r, byId |-> byId]]
    /\ UNCHANGED <<cycle, breaker, ready, channel, sent, wire, queued, attempts, faults>>

\* The inline emission to broker b; an error ends it and the poller will retry.
RequestEmit(e, b) ==
    /\ request[e].pc = b
    /\ \/ /\ Accepted(b, e, request[e].replica)
          /\ request' = [request EXCEPT ![e].pc = After(b)]
       \/ /\ Refused(b, e, request[e].replica)
          /\ request' = [request EXCEPT ![e].pc = "idle"]
    /\ UNCHANGED <<row, cycle, breaker, ready, channel, queued, attempts>>

\* The rows that the update after an inline emission of e marks.
Marked(e) ==
    IF request[e].byId THEN {e}
    ELSE {f \in Event : row[f].written /\ ~row[f].processed /\ MessageOf[f] = MessageOf[e]}

RequestMark(e) ==
    /\ request[e].pc = "mark"
    /\ \/ /\ row' = [f \in Event |->
                        IF f \in Marked(e) THEN [row[f] EXCEPT !.processed = TRUE] ELSE row[f]]
          /\ UNCHANGED faults
       \/ Fault("db") /\ UNCHANGED row
    /\ request' = [request EXCEPT ![e].pc = "idle"]
    /\ UNCHANGED <<cycle, breaker, ready, channel, sent, wire, queued, attempts>>

-----------------------------------------------------------------------------
(* The poller                                                              *)

Pending == {e \in Event : row[e].written /\ ~row[e].processed /\ ~row[e].failed}

\* ORDER BY createdAt ASC LIMIT BATCH_SIZE
Oldest == {e \in Pending : Cardinality({f \in Pending : f < e}) < BatchSize}

\* The SELECT; a cycle without rows is not a step.
PollBegin(r, c) ==
    /\ cycle[r][c].pc = "idle"
    /\ ready[r] /\ ~breaker[r].open
    /\ Oldest # {}
    /\ cycle' = [cycle EXCEPT ![r][c] = [pc |-> "kafka", todo |-> Oldest,
                                         retry |-> [e \in Event |-> row[e].retryCount]]]
    /\ UNCHANGED <<row, request, breaker, ready, channel, sent, wire, queued, attempts, faults>>

\* The row a cycle works on: its todo in the order of createdAt.
Current(r, c, e) == e \in cycle[r][c].todo /\ \A f \in cycle[r][c].todo : e <= f

\* The cycle goes on with the next row, if there is one.
Advance(p, e) ==
    IF p.todo = {e} THEN IdleCycle ELSE [p EXCEPT !.pc = "kafka", !.todo = @ \ {e}]

\* The catch block begins: one more consecutive failure of this replica.
Caught(r, c, e) ==
    /\ cycle' = [cycle EXCEPT ![r][c].pc = "fail"]
    /\ breaker' = [breaker EXCEPT ![r].failures = IF @ < Threshold THEN @ + 1 ELSE @]
    /\ attempts' = [attempts EXCEPT ![e] = @ + 1]

\* Mutant of PollEmit: a failed publish is taken for a success.
PollEmitSwallows(r, c, e, b) ==
    /\ cycle[r][c].pc = b
    /\ Current(r, c, e)
    /\ \/ Accepted(b, e, r)
       \/ Refused(b, e, r)
    /\ cycle' = [cycle EXCEPT ![r][c].pc = After(b)]
    /\ UNCHANGED <<row, request, breaker, ready, channel, queued, attempts>>

PollEmit(r, c, e, b) ==
    /\ cycle[r][c].pc = b
    /\ Current(r, c, e)
    /\ \/ /\ Accepted(b, e, r)
          /\ cycle' = [cycle EXCEPT ![r][c].pc = After(b)]
          /\ UNCHANGED <<breaker, attempts>>
       \/ /\ Refused(b, e, r)
          /\ Caught(r, c, e)
    /\ UNCHANGED <<row, request, ready, channel, queued>>

\* The row is marked; this success resets the breaker.  A failed update is
\* caught like a failed emission.
PollMark(r, c, e) ==
    /\ cycle[r][c].pc = "mark"
    /\ Current(r, c, e)
    /\ \/ /\ row' = [row EXCEPT ![e].processed = TRUE]
          /\ cycle' = [cycle EXCEPT ![r][c] = Advance(@, e)]
          /\ breaker' = [breaker EXCEPT ![r].failures = 0]
          /\ UNCHANGED <<attempts, faults>>
       \/ /\ Fault("db")
          /\ Caught(r, c, e)
          /\ UNCHANGED row
    /\ UNCHANGED <<request, ready, channel, sent, wire, queued>>

\* Mutants of PollFail: the retries of the row are the replica's consecutive
\* failures; a failed update leaves the cycle in its catch block.
PollFailShared(r, c, e) ==
    /\ cycle[r][c].pc = "fail"
    /\ Current(r, c, e)
    /\ row' = [row EXCEPT ![e].retryCount = MaxRetries, ![e].failed = breaker[r].failures >= Threshold]
    /\ cycle' = [cycle EXCEPT ![r][c] = Advance(@, e)]
    /\ UNCHANGED <<request, breaker, ready, channel, sent, wire, queued, attempts, faults>>

PollFailHangs(r, c, e) ==
    /\ cycle[r][c].pc = "fail"
    /\ Current(r, c, e)
    /\ breaker[r].failures < Threshold
    /\ row' = [row EXCEPT ![e].retryCount = cycle[r][c].retry[e] + 1,
                          ![e].failed = cycle[r][c].retry[e] + 1 >= MaxRetries]
    /\ cycle' = [cycle EXCEPT ![r][c] = Advance(@, e)]
    /\ UNCHANGED <<request, breaker, ready, channel, sent, wire, queued, attempts, faults>>

\* The rest of the catch block: the retry count read with the row goes up, the
\* row is given up at MaxRetries, and the breaker may trip and end the cycle.  If
\* the update itself fails, the cycle ends there.
PollFail(r, c, e) ==
    /\ cycle[r][c].pc = "fail"
    /\ Current(r, c, e)
    /\ \/ /\ row' = [row EXCEPT ![e].retryCount = cycle[r][c].retry[e] + 1,
                                ![e].failed = cycle[r][c].retry[e] + 1 >= MaxRetries]
          /\ IF breaker[r].failures >= Threshold
             THEN /\ breaker' = [breaker EXCEPT ![r].open = TRUE]
                  /\ cycle' = [cycle EXCEPT ![r][c] = IdleCycle]
             ELSE /\ cycle' = [cycle EXCEPT ![r][c] = Advance(@, e)]
                  /\ UNCHANGED breaker
          /\ UNCHANGED faults
       \/ /\ Fault("db")
          /\ cycle' = [cycle EXCEPT ![r][c] = IdleCycle]
          /\ UNCHANGED <<row, breaker>>
    /\ UNCHANGED <<request, ready, channel, sent, wire, queued, attempts>>

\* The back-off is over.
CircuitCloses(r) ==
    /\ breaker[r].open
    /\ breaker' = [breaker EXCEPT ![r].open = FALSE]
    /\ UNCHANGED <<row, request, cycle, ready, channel, sent, wire, queued, attempts, faults>>

-----------------------------------------------------------------------------
(* Connections and crashes                                                 *)

\* initProducer, or its retry, connects.
ProducerConnects(r) ==
    /\ ~ready[r]
    /\ ready' = [ready EXCEPT ![r] = TRUE]
    /\ UNCHANGED <<row, request, cycle, breaker, channel, sent, wire, queued, attempts, faults>>

Arrives(r, m) ==
    /\ <<r, m>> \in wire
    /\ wire' = wire \ {<<r, m>>}
    /\ queued' = queued \cup {m}
    /\ UNCHANGED <<row, request, cycle, breaker, ready, channel, sent, attempts, faults>>

Unsent(r) == wire \cap ({r} \X Message)

\* The AMQP connection of r breaks; what it had not carried yet is lost.
ConnectionDrops(r) ==
    /\ Fault("conn")
    /\ wire' = wire \ Unsent(r)
    /\ channel' = [channel EXCEPT ![r] = TRUE]
    /\ UNCHANGED <<row, request, cycle, breaker, ready, sent, queued, attempts>>

\* RabbitMQ closes the channel only, as for a queue declared with other arguments.
\* reconnectWithBackoff calls init, which finds the connection and does nothing.
ChannelCloses(r) ==
    /\ channel[r]
    /\ Fault("channel")
    /\ channel' = [channel EXCEPT ![r] = FALSE]
    /\ wire' \in {wire, wire \ Unsent(r)}
    /\ UNCHANGED <<row, request, cycle, breaker, ready, sent, queued, attempts>>

\* The process of r dies and is started again.
Crash(r) ==
    /\ Fault("crash")
    /\ request' = [e \in Event |-> IF request[e].replica = r
                                   THEN [request[e] EXCEPT !.pc = "idle"] ELSE request[e]]
    /\ cycle' = [cycle EXCEPT ![r] = [c \in Cycle |-> IdleCycle]]
    /\ breaker' = [breaker EXCEPT ![r] = ClosedBreaker]
    /\ ready' = [ready EXCEPT ![r] = FALSE]
    /\ channel' = [channel EXCEPT ![r] = TRUE]
    /\ wire' = wire \ Unsent(r)
    /\ UNCHANGED <<row, sent, queued, attempts>>

-----------------------------------------------------------------------------
RequestStep(e) == (\E b \in Broker : RequestEmit(e, b)) \/ RequestMark(e)

PollStep(r, c) ==
    \/ PollBegin(r, c)
    \/ \E e \in Event : (\E b \in Broker : PollEmit(r, c, e, b)) \/ PollMark(r, c, e) \/ PollFail(r, c, e)

Recover(r) == CircuitCloses(r) \/ ProducerConnects(r)

Next ==
    \/ \E e \in Event, r \in Replica, byId \in BOOLEAN : Write(e, r, byId)
    \/ \E e \in Event : RequestStep(e)
    \/ \E r \in Replica, c \in Cycle : PollStep(r, c)
    \/ \E r \in Replica : Recover(r) \/ ConnectionDrops(r) \/ ChannelCloses(r) \/ Crash(r)
    \/ \E r \in Replica, m \in Message : Arrives(r, m)

Spec == Init /\ [][Next]_vars

\* Handlers and poll cycles are scheduled, the back-off ends, the producer's
\* retry finds the broker, and an intact connection carries what was written.
Fairness ==
    /\ \A e \in Event : WF_vars(RequestStep(e))
    /\ \A r \in Replica, c \in Cycle : WF_vars(PollStep(r, c))
    /\ \A r \in Replica : WF_vars(CircuitCloses(r)) /\ WF_vars(ProducerConnects(r))
    /\ \A r \in Replica, m \in Message : WF_vars(Arrives(r, m))

FairSpec == Spec /\ Fairness

-----------------------------------------------------------------------------
(* Safety                                                                  *)

\* A row marked as processed has had its message handed to both brokers, whoever
\* marked it: its own request, one with the same payload, or any poll cycle.
ProcessedWasSent ==
    \A e \in Event, b \in Broker : row[e].processed => <<b, MessageOf[e]>> \in sent

\* A row given up as a poison pill has failed MaxRetries times, although overlapping
\* cycles write retry counts computed from old snapshots.
GivenUpAfterRetries == \A e \in Event : row[e].failed => attempts[e] >= MaxRetries

\* A row leaves the outbox for a cause only: it was sent to both brokers, or failed as
\* often as it may, whatever overlapping cycles and requests write.
SettledForCause == ProcessedWasSent /\ GivenUpAfterRetries

\* The poller, with its overlapping cycles, replicas, time-outs and crashes, does
\* what an outbox promises.
Delivery == INSTANCE EventDelivery WITH
    written <- {e \in Event : row[e].written},
    settled <- {e \in Event : row[e].processed}

ImplementsDelivery == Delivery!Spec

-----------------------------------------------------------------------------
(* Liveness, under FairSpec                                                *)

\* Every committed row ends up processed or given up, and stays so.
EventSettles ==
    \A e \in Event : row[e].written ~> [](row[e].processed \/ row[e].failed)
=============================================================================
