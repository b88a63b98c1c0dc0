----------------------------- MODULE MailProofs -----------------------------
(***************************************************************************)
(* Theorems about MailPipeline, for any number of replicas, events, kinds  *)
(* of fault and faults.                                                    *)
(***************************************************************************)
EXTENDS MailPipeline, Integers, TLAPS

-----------------------------------------------------------------------------
(* The outbox                                                               *)

Polling == [pc: {"idle", "emit", "mark", "fail"}, todo: SUBSET Event, retry: [Event -> Nat]]

\* A message of the row is in its topic.
Emitted(e) == \E i \in 1 .. Len(topic[KindOf[e]]) : topic[KindOf[e]][i] = e

\* A cycle works on committed rows, one of which it has emitted when it marks it; and a
\* retry count, stale or not, is of attempts that were made.
CycleOf(r) ==
    /\ \A e \in poll[r].todo : row[e].written
    /\ \A e \in Event : /\ poll[r].retry[e] <= attempts[e]
                        /\ Current(r, e) =>
                              /\ poll[r].pc = "mark" => Emitted(e)
                              /\ poll[r].pc = "fail" => poll[r].retry[e] + 1 <= attempts[e]

RowOf(e) ==
    /\ row[e].processed => row[e].written /\ Emitted(e)
    /\ row[e].retryCount <= attempts[e]
    /\ row[e].failed => attempts[e] >= MaxRetries

OutboxPart == (\A r \in Replica : CycleOf(r)) /\ (\A e \in Event : RowOf(e))

-----------------------------------------------------------------------------
(* The readers                                                              *)

TopicPart == \A k \in Kind : \A i \in 1 .. Len(topic[k]) : KindOf[topic[k][i]] = k

\* What a reader has passed is claimed; what it publishes it has claimed itself, and it
\* was not published before.
ReaderOf(k) ==
    /\ reader[k].pc # "idle" => reader[k].on /\ reader[k].at < Len(topic[k])
    /\ \A i \in 1 .. reader[k].at : topic[k][i] \in claimed
    /\ reader[k].pc = "publish" => Message(k) \in claimed /\ published[Message(k)] = 0

\* No consumer runs that is yet to be started.
StageOK ==
    /\ stage \in {"init", "welcome"} => ~reader["welcome"].on
    /\ stage \in {"init", "welcome", "verification"} => ~reader["verification"].on

\* A claimed event is published, or about to be.
Publishing(e) == reader[KindOf[e]].pc = "publish" /\ Message(KindOf[e]) = e
ClaimPart ==
    /\ \A e \in Event : published[e] <= 1 /\ (published[e] > 0 => e \in claimed)
    /\ Without({"conn", "crash", "rabbit", "redis"}) =>
          \A e \in claimed : KindOf[e] \in Mails /\ (published[e] > 0 \/ Publishing(e))

ReaderPart == TopicPart /\ (\A k \in Mails : ReaderOf(k)) /\ StageOK /\ ClaimPart

-----------------------------------------------------------------------------
(* The jobs                                                                 *)

\* Only a fault takes the channel of a connection.
ClientPart == Without({"conn", "crash"}) => up /\ (amqp.conn => amqp.chan)

\* A published job is in one place, until its mail is sent.
JobOf(e) ==
    /\ Without({"conn", "crash"}) =>
          /\ jobs["stale"][e] = 0 /\ jobs["late"][e] = 0
          /\ mailed[e] + jobs["wire"][e] + jobs["queue"][e] + jobs["held"][e] <= published[e]
    /\ Without({"conn", "crash", "smtp"}) =>
          /\ jobs["answered"][e] > 0 => mailed[e] > 0
          /\ published[e] > 0 => mailed[e] > 0 \/ \E p \in Place : jobs[p][e] > 0

JobPart == \A e \in Event : JobOf(e)

MailInv == MailTypeOK /\ OutboxPart /\ ReaderPart /\ ClientPart /\ JobPart

-----------------------------------------------------------------------------
(* Types, and what a step of either service leaves to the other             *)

Reading == [on: BOOLEAN, pc: {"idle", "claim", "publish"}, at: Nat, committed: Nat]
Client  == [conn: BOOLEAN, chan: BOOLEAN, consumers: Nat, registered: BOOLEAN,
            tries: 0 .. MaxTries, restoring: BOOLEAN]

OutboxTypes ==
    /\ row \in [Event -> [written: BOOLEAN, processed: BOOLEAN, failed: BOOLEAN, retryCount: Nat]]
    /\ poll \in [Replica -> Polling]
    /\ \A r \in Replica : poll[r].pc = "idle" <=> poll[r].todo = {}
    /\ breaker \in [Replica -> [failures: Nat, open: BOOLEAN]]
    /\ ready \in [Replica -> BOOLEAN]
    /\ attempts \in [Event -> Nat]
TopicTypes ==
    /\ topic \in [Kind -> Seq(Event)]
    /\ \A k \in Mails : reader[k].committed <= reader[k].at /\ reader[k].at <= Len(topic[k])
ReaderTypes ==
    /\ stage \in {"init", "welcome", "verification", "jobs", "done", "failed"}
    /\ reader \in [Mails -> Reading]
    /\ claimed \in SUBSET Event
ClientTypes == amqp \in Client /\ up \in BOOLEAN
CountTypes ==
    /\ jobs \in [Place -> [Event -> Nat]]
    /\ published \in [Event -> Nat] /\ mailed \in [Event -> Nat]
FaultTypes == faults \in [n: Nat, kinds: SUBSET Faults]

\* The types, taken apart.
LEMMA TypeParts ==
    /\ MailTypeOK <=> /\ OutboxTypes /\ TopicTypes /\ ReaderTypes /\ ClientTypes
                      /\ CountTypes /\ FaultTypes
    /\ MailTypeOK' <=> /\ OutboxTypes' /\ TopicTypes' /\ ReaderTypes' /\ ClientTypes'
                       /\ CountTypes' /\ FaultTypes'
BY Zenon DEF MailTypeOK, OutboxTypes, TopicTypes, ReaderTypes, ClientTypes, CountTypes,
             FaultTypes, Polling, Reading, Client

OutboxMoves ==
    \/ \E e \in Event : Request(e)
    \/ \E r \in Replica : OutboxStep(r) \/ Closes(r) \/ Connects(r) \/ AuthCrash(r)

NotifyMoves ==
    \/ \E e \in Event : JobStep(e) \/ Nack(e)
    \/ \E k \in Mails : ReaderStep(k) \/ Commit(k)
    \/ ClientStep \/ ConnectionLost \/ BrokerReturns
    \/ Boot \/ BootFails \/ NotifyCrash
    \/ UNCHANGED mailVars

\* Topics are only added to, with messages of their kind.
TopicGrows ==
    \A k \in Kind : /\ Len(topic[k]) <= Len(topic'[k])
                    /\ \A i \in 1 .. Len(topic[k]) : topic'[k][i] = topic[k][i]

\* Every step is of one service, and leaves the rest to the other.
LEMMA MailMoves ==
    [MailNext]_mailVars =>
        \/ OutboxMoves /\ UNCHANGED notifyVars
        \/ NotifyMoves /\ UNCHANGED <<outboxVars, topic>>
<1>. SUFFICES ASSUME [MailNext]_mailVars
              PROVE  \/ OutboxMoves /\ UNCHANGED notifyVars
                     \/ NotifyMoves /\ UNCHANGED <<outboxVars, topic>>
  OBVIOUS
<1>1. ASSUME OutboxMoves PROVE UNCHANGED notifyVars
  BY <1>1 DEF OutboxMoves, Request, OutboxStep, Select, Emit, Mark, Catch, Closes, Connects, AuthCrash
<1>2. ASSUME NotifyMoves PROVE UNCHANGED <<outboxVars, topic>>
  <2>1. CASE \E e \in Event : JobStep(e) \/ Nack(e)
    BY <2>1, Zenon DEF JobStep, Nack, Arrive, Deliver, Mail, Ack, LateAck
  <2>2. CASE \E k \in Mails : ReaderStep(k) \/ Commit(k)
    BY <2>2, Zenon DEF ReaderStep, Commit, Take, Claim, Publish
  <2>3. CASE ClientStep \/ ConnectionLost \/ BrokerReturns
    BY <2>3, Zenon DEF ClientStep, Reconnect, Restore, ConnectionLost, BrokerReturns
  <2>4. CASE Boot \/ BootFails \/ NotifyCrash
    BY <2>4, Zenon DEF Boot, BootFails, NotifyCrash
  <2>5. CASE UNCHANGED mailVars
    BY <2>5, Zenon DEF mailVars
  <2>. QED BY <1>2, <2>1, <2>2, <2>3, <2>4, <2>5 DEF NotifyMoves
<1>. QED BY <1>1, <1>2 DEF MailNext, OutboxMoves, NotifyMoves

\* A fault is counted.
LEMMA FaultIs ==
    ASSUME FaultTypes, NEW kind, Fault(kind)
    PROVE  FaultTypes' /\ kind \in faults'.kinds /\ faults.kinds \subseteq faults'.kinds
BY DEF FaultTypes, Fault

\* Faults are never forgotten.
LEMMA FaultsStay ==
    ASSUME FaultTypes, [MailNext]_mailVars
    PROVE  FaultTypes' /\ faults.kinds \subseteq faults'.kinds
<1>1. CASE faults' = faults
  BY <1>1 DEF FaultTypes
<1>2. CASE \E kind \in {"kafka", "db", "restart", "conn", "boot", "redis", "rabbit", "smtp",
                        "handler", "crash"} : Fault(kind)
  BY <1>2, FaultIs
<1>3. CASE OutboxMoves
  BY <1>1, <1>2, <1>3 DEF OutboxMoves, Request, OutboxStep, Select, Emit, Mark, Catch, Closes,
                          Connects, AuthCrash
<1>4. CASE NotifyMoves
  <2>1. CASE \E e \in Event : JobStep(e) \/ Nack(e)
    BY <1>1, <1>2, <2>1 DEF JobStep, Nack, Arrive, Deliver, Mail, Ack, LateAck
  <2>2. CASE \E k \in Mails : ReaderStep(k) \/ Commit(k)
    BY <1>1, <1>2, <2>2 DEF ReaderStep, Commit, Take, Claim, Publish
  <2>3. CASE ClientStep \/ ConnectionLost \/ BrokerReturns
    BY <1>1, <1>2, <2>3 DEF ClientStep, Reconnect, Restore, ConnectionLost, BrokerReturns
  <2>4. CASE Boot \/ BootFails \/ NotifyCrash
    BY <1>1, <1>2, <2>4 DEF Boot, BootFails, NotifyCrash
  <2>5. CASE UNCHANGED mailVars
    BY <1>1, <2>5 DEF mailVars
  <2>. QED BY <1>4, <2>1, <2>2, <2>3, <2>4, <2>5 DEF NotifyMoves
<1>. QED BY <1>3, <1>4, MailMoves

\* What is appended to a topic is of its kind.
LEMMA AppendedIs ==
    ASSUME topic \in [Kind -> Seq(Event)], TopicPart, NEW e \in Event, Appended(e)
    PROVE  topic' \in [Kind -> Seq(Event)] /\ TopicGrows /\ TopicPart' /\ Emitted(e)'
<1>. DEFINE j == KindOf[e]
            s == topic[j]
<1>1. j \in Kind /\ s \in Seq(Event)
  BY MailAssumption
<1>2. topic' = [topic EXCEPT ![j] = Append(s, e)]
  BY DEF Appended
<1>. HIDE DEF j
<1>3. /\ Append(s, e) \in Seq(Event) /\ Len(Append(s, e)) = Len(s) + 1
      /\ \A i \in 1 .. Len(s) : Append(s, e)[i] = s[i]
      /\ Append(s, e)[Len(s) + 1] = e
      /\ Len(s) \in Nat
  BY <1>1
<1>4. topic' \in [Kind -> Seq(Event)] /\ topic'[j] = Append(s, e)
      /\ \A k \in Kind \ {j} : topic'[k] = topic[k]
  BY <1>1, <1>2, <1>3
<1>. HIDE DEF s
<1>5. \A k \in Kind : Len(topic[k]) \in Nat
  OBVIOUS
<1>6. TopicGrows
  <2>1. ASSUME NEW k \in Kind
        PROVE  /\ Len(topic[k]) <= Len(topic'[k])
               /\ \A i \in 1 .. Len(topic[k]) : topic'[k][i] = topic[k][i]
    <3>1. CASE k = j
      <4>1. topic[k] = s /\ topic'[k] = Append(s, e)
        BY <1>4, <3>1 DEF s
      <4>. QED BY <1>3, <4>1
    <3>2. CASE k # j
      BY <1>4, <1>5, <3>2
    <3>. QED BY <3>1, <3>2
  <2>. QED BY <2>1 DEF TopicGrows
<1>7. TopicPart'
  <2>1. ASSUME NEW k \in Kind \ {j}, NEW i \in 1 .. Len(topic'[k]) PROVE KindOf[topic'[k][i]] = k
    BY <1>4, <2>1 DEF TopicPart
  <2>2. ASSUME NEW i \in 1 .. Len(topic'[j]) PROVE KindOf[topic'[j][i]] = j
    <3>1. i \in 1 .. Len(s) \/ i = Len(s) + 1
      BY <1>3, <1>4
    <3>2. CASE i \in 1 .. Len(s)
      BY <1>1, <1>3, <1>4, <3>2 DEF TopicPart, s
    <3>3. CASE i = Len(s) + 1
      BY <1>3, <1>4, <3>3 DEF j
    <3>. QED BY <3>1, <3>2, <3>3
  <2>. QED BY <1>1, <2>1, <2>2 DEF TopicPart
<1>8. Emitted(e)'
  <2>1. Len(s) + 1 \in 1 .. Len(topic'[j]) /\ topic'[j][Len(s) + 1] = e
    BY <1>3, <1>4
  <2>. QED BY <2>1 DEF Emitted, j
<1>. QED BY <1>4, <1>6, <1>7, <1>8

\* What was emitted stays so.
LEMMA EmittedStays ==
    ASSUME topic \in [Kind -> Seq(Event)], topic' \in [Kind -> Seq(Event)], TopicGrows,
           NEW e \in Event, Emitted(e)
    PROVE  Emitted(e)'
<1>1. KindOf[e] \in Kind
  BY MailAssumption
<1>2. PICK i \in 1 .. Len(topic[KindOf[e]]) : topic[KindOf[e]][i] = e
  BY DEF Emitted
<1>3. i \in 1 .. Len(topic'[KindOf[e]]) /\ topic'[KindOf[e]][i] = e
  <2>1. Len(topic[KindOf[e]]) \in Nat /\ Len(topic[KindOf[e]]) <= Len(topic'[KindOf[e]])
    BY <1>1 DEF TopicGrows
  <2>2. topic'[KindOf[e]][i] = e
    BY <1>1, <1>2 DEF TopicGrows
  <2>3. Len(topic'[KindOf[e]]) \in Nat
    BY <1>1
  <2>. QED BY <2>1, <2>2, <2>3
<1>. QED BY <1>3 DEF Emitted

-----------------------------------------------------------------------------
(* The outbox                                                               *)

\* An idle cycle has no row and no count.
LEMMA IdlePollIs ==
    /\ IdlePoll \in Polling /\ IdlePoll.pc = "idle" /\ IdlePoll.todo = {}
    /\ \A e \in Event : IdlePoll.retry[e] = 0
BY DEF IdlePoll, Polling

\* A cycle goes on to p, and nothing is taken back that cycles rely on.
Stays ==
    /\ \A e \in Event : /\ row[e].written => row'[e].written
                        /\ Emitted(e) => Emitted(e)'
                        /\ attempts[e] <= attempts'[e]

\* A cycle that does not move keeps what it relies on.
LEMMA CycleStays ==
    ASSUME OutboxTypes, attempts' \in [Event -> Nat], NEW r \in Replica, CycleOf(r), Stays,
           poll'[r] = poll[r]
    PROVE  CycleOf(r)'
<1>1. poll[r] \in Polling
  BY DEF OutboxTypes
<1>2. \A e \in Event : Current(r, e)' <=> Current(r, e)
  BY DEF Current
<1>3. \A e \in poll[r].todo : e \in Event /\ row'[e].written
  BY <1>1 DEF CycleOf, Stays, Polling
<1>4. ASSUME NEW e \in Event
      PROVE  /\ poll[r].retry[e] <= attempts'[e]
             /\ Current(r, e) => /\ poll[r].pc = "mark" => Emitted(e)'
                                 /\ poll[r].pc = "fail" => poll[r].retry[e] + 1 <= attempts'[e]
  <2>1. poll[r].retry[e] \in Nat /\ attempts[e] \in Nat /\ attempts'[e] \in Nat
    BY <1>1 DEF OutboxTypes, Polling
  <2>. QED BY <2>1 DEF CycleOf, Stays
<1>. QED BY <1>2, <1>3, <1>4 DEF CycleOf

\* One cycle moves to p, and the others stay.
LEMMA CyclesStay ==
    ASSUME OutboxTypes, attempts' \in [Event -> Nat], NEW r \in Replica, NEW p \in Polling,
           poll' = [poll EXCEPT ![r] = p], p.pc = "idle" <=> p.todo = {},
           \A v \in Replica : CycleOf(v), Stays,
           \A e \in p.todo : row'[e].written,
           \A e \in Event : p.retry[e] <= attempts'[e],
           \A e \in p.todo : (\A f \in p.todo : e <= f) =>
               /\ p.pc = "mark" => Emitted(e)'
               /\ p.pc = "fail" => p.retry[e] + 1 <= attempts'[e]
    PROVE  /\ \A v \in Replica : CycleOf(v)'
           /\ poll' \in [Replica -> Polling]
           /\ \A v \in Replica : poll'[v].pc = "idle" <=> poll'[v].todo = {}
<1>1. poll' \in [Replica -> Polling] /\ poll'[r] = p /\ \A v \in Replica \ {r} : poll'[v] = poll[v]
  BY DEF OutboxTypes
<1>2. ASSUME NEW v \in Replica \ {r} PROVE CycleOf(v)'
  BY <1>1, <1>2, CycleStays
<1>3. CycleOf(r)'
  BY <1>1 DEF CycleOf, Current
<1>. QED BY <1>1, <1>2, <1>3 DEF OutboxTypes

\* The row that is next is one of the cycle's, and the only such.
LEMMA CurrentIs ==
    ASSUME OutboxTypes, NEW r \in Replica, NEW e \in Event, Current(r, e)
    PROVE  /\ poll[r] \in Polling /\ e \in poll[r].todo /\ poll[r].todo \subseteq Event
           /\ \A x \in poll[r].todo : (\A f \in poll[r].todo : x <= f) => x = e
<1>1. poll[r] \in Polling /\ poll[r].todo \subseteq Event
  BY DEF OutboxTypes, Polling
<1>2. \A x, y \in Event : x <= y /\ y <= x => x = y
  BY DEF Event
<1>. QED BY <1>1, <1>2 DEF Current

\* Rows stay as they are.
LEMMA RowsStay ==
    ASSUME OutboxTypes, attempts' \in [Event -> Nat], \A e \in Event : RowOf(e), Stays, row' = row
    PROVE  \A e \in Event : RowOf(e)'
<1>. SUFFICES ASSUME NEW e \in Event PROVE RowOf(e)'
  OBVIOUS
<1>1. row[e].retryCount \in Nat /\ attempts[e] \in Nat /\ attempts'[e] \in Nat /\ MaxRetries \in Nat
  BY MailAssumption DEF OutboxTypes
<1>. QED BY <1>1 DEF RowOf, Stays

OutboxHolds == OutboxTypes /\ OutboxPart /\ topic \in [Kind -> Seq(Event)] /\ TopicPart

\* What a step does that fails on row e.
LEMMA CaughtKeeps ==
    ASSUME OutboxHolds, NEW r \in Replica, NEW e \in Event, Current(r, e), poll[r].pc # "idle",
           Caught(r, e), topic' \in [Kind -> Seq(Event)], TopicPart', TopicGrows, UNCHANGED <<row, ready>>
    PROVE  OutboxHolds' /\ TopicGrows
<1>. DEFINE p == [poll[r] EXCEPT !.pc = "fail"]
<1>1. poll[r] \in Polling /\ e \in poll[r].todo /\ attempts \in [Event -> Nat]
      /\ \A x \in poll[r].todo : (\A f \in poll[r].todo : x <= f) => x = e
  BY CurrentIs DEF OutboxHolds, OutboxTypes
<1>2. p \in Polling /\ p.pc = "fail" /\ p.todo = poll[r].todo /\ p.retry = poll[r].retry
  BY <1>1 DEF Polling
<1>3. poll' = [poll EXCEPT ![r] = p]
  BY DEF Caught
<1>. HIDE DEF p
<1>4. attempts' \in [Event -> Nat] /\ attempts'[e] = attempts[e] + 1
      /\ \A x \in Event : attempts[x] <= attempts'[x]
  BY <1>1 DEF Caught
<1>5. Stays
  BY <1>4, EmittedStays DEF Stays, OutboxHolds
<1>6. CycleOf(r)
  BY DEF OutboxHolds, OutboxPart
<1>7. \A x \in Event : p.retry[x] <= attempts'[x]
  <2>1. ASSUME NEW x \in Event PROVE p.retry[x] <= attempts'[x]
    <3>1. poll[r].retry[x] \in Nat /\ attempts[x] \in Nat /\ attempts'[x] \in Nat
      BY <1>1, <1>4 DEF Polling
    <3>. QED BY <1>2, <1>4, <1>6, <3>1 DEF CycleOf
  <2>. QED BY <2>1
<1>8. p.retry[e] + 1 <= attempts'[e]
  <2>1. poll[r].retry[e] \in Nat /\ attempts[e] \in Nat
    BY <1>1 DEF Polling
  <2>. QED BY <1>2, <1>4, <1>6, <2>1 DEF CycleOf
<1>9. \A x \in p.todo : row'[x].written
  BY <1>2, <1>6 DEF CycleOf
<1>10. /\ \A v \in Replica : CycleOf(v)'
       /\ poll' \in [Replica -> Polling]
       /\ \A v \in Replica : poll'[v].pc = "idle" <=> poll'[v].todo = {}
  BY <1>1, <1>2, <1>3, <1>4, <1>5, <1>7, <1>8, <1>9, CyclesStay DEF OutboxHolds, OutboxPart
<1>11. \A x \in Event : RowOf(x)'
  BY <1>4, <1>5, RowsStay DEF OutboxHolds, OutboxPart
<1>12. breaker' \in [Replica -> [failures: Nat, open: BOOLEAN]]
  <2>1. breaker[r] \in [failures: Nat, open: BOOLEAN]
    BY DEF OutboxHolds, OutboxTypes
  <2>2. [breaker[r] EXCEPT !.failures = IF @ < Threshold THEN @ + 1 ELSE @]
           \in [failures: Nat, open: BOOLEAN]
    BY <2>1
  <2>. QED BY <2>2 DEF Caught, OutboxHolds, OutboxTypes
<1>. QED BY <1>4, <1>10, <1>11, <1>12 DEF OutboxHolds, OutboxPart, OutboxTypes

\* The topics stay as they are.
LEMMA TopicsStay ==
    ASSUME topic \in [Kind -> Seq(Event)], TopicPart, topic' = topic
    PROVE  topic' \in [Kind -> Seq(Event)] /\ TopicGrows /\ TopicPart'
<1>1. \A k \in Kind : Len(topic[k]) \in Nat
  OBVIOUS
<1>. QED BY <1>1 DEF TopicGrows, TopicPart

\* A committed row disturbs no cycle.
LEMMA RequestKeeps ==
    ASSUME OutboxHolds, NEW e \in Event, Request(e)
    PROVE  OutboxHolds' /\ TopicGrows
<1>1. row' = [row EXCEPT ![e].written = TRUE] /\ UNCHANGED <<poll, breaker, ready, attempts, topic>>
  BY DEF Request
<1>2. /\ topic' \in [Kind -> Seq(Event)] /\ TopicGrows /\ TopicPart'
      /\ attempts' \in [Event -> Nat] /\ attempts \in [Event -> Nat]
  BY <1>1, TopicsStay DEF OutboxHolds, OutboxTypes
<1>3. /\ row' \in [Event -> [written: BOOLEAN, processed: BOOLEAN, failed: BOOLEAN, retryCount: Nat]]
      /\ \A x \in Event : /\ row[x].written => row'[x].written
                          /\ row'[x].processed = row[x].processed /\ row'[x].failed = row[x].failed
                          /\ row'[x].retryCount = row[x].retryCount
  BY <1>1 DEF OutboxHolds, OutboxTypes
<1>4. Stays
  BY <1>1, <1>2, <1>3, EmittedStays DEF Stays, OutboxHolds
<1>5. \A r \in Replica : CycleOf(r)'
  BY <1>1, <1>2, <1>4, CycleStays DEF OutboxHolds, OutboxPart
<1>6. \A x \in Event : RowOf(x)'
  BY <1>1, <1>3, <1>4 DEF OutboxHolds, OutboxPart, RowOf, Stays
<1>. QED BY <1>1, <1>2, <1>3, <1>5, <1>6 DEF OutboxHolds, OutboxPart, OutboxTypes

\* The rows of a new cycle are committed, and it reads their counts.
LEMMA SelectKeeps ==
    ASSUME OutboxHolds, NEW r \in Replica, Select(r)
    PROVE  OutboxHolds' /\ TopicGrows
<1>. DEFINE p == [pc |-> "emit", todo |-> Oldest, retry |-> [e \in Event |-> row[e].retryCount]]
<1>1. poll' = [poll EXCEPT ![r] = p] /\ Oldest # {} /\ UNCHANGED <<row, breaker, ready, attempts, topic>>
  BY DEF Select
<1>2. Oldest \subseteq Event /\ \A e \in Oldest : row[e].written
  BY DEF Oldest, Pending
<1>3. /\ p \in Polling /\ p.pc = "emit" /\ p.todo = Oldest
      /\ \A e \in Event : p.retry[e] = row[e].retryCount
  BY <1>2 DEF OutboxHolds, OutboxTypes, Polling
<1>. HIDE DEF p
<1>4. /\ topic' \in [Kind -> Seq(Event)] /\ TopicGrows /\ TopicPart'
      /\ attempts' \in [Event -> Nat] /\ attempts \in [Event -> Nat]
  BY <1>1, TopicsStay DEF OutboxHolds, OutboxTypes
<1>5. Stays
  BY <1>1, <1>4, EmittedStays DEF Stays, OutboxHolds
<1>6. \A e \in Event : p.retry[e] <= attempts'[e]
  BY <1>1, <1>3 DEF OutboxHolds, OutboxPart, RowOf
<1>7. /\ \A v \in Replica : CycleOf(v)'
      /\ poll' \in [Replica -> Polling]
      /\ \A v \in Replica : poll'[v].pc = "idle" <=> poll'[v].todo = {}
  BY <1>1, <1>2, <1>3, <1>4, <1>5, <1>6, CyclesStay DEF OutboxHolds, OutboxPart
<1>8. \A x \in Event : RowOf(x)'
  BY <1>1, <1>4, <1>5, RowsStay DEF OutboxHolds, OutboxPart
<1>. QED BY <1>1, <1>4, <1>7, <1>8 DEF OutboxHolds, OutboxPart, OutboxTypes

\* An emission puts the message in its topic or counts an attempt.
LEMMA EmitKeeps ==
    ASSUME OutboxHolds, NEW r \in Replica, NEW e \in Event, Emit(r, e)
    PROVE  OutboxHolds' /\ TopicGrows
<1>1. poll[r].pc = "emit" /\ Current(r, e) /\ UNCHANGED <<row, ready>>
  BY DEF Emit
<1>2. ASSUME Appended(e) \/ UNCHANGED topic
      PROVE  topic' \in [Kind -> Seq(Event)] /\ TopicGrows /\ TopicPart'
  BY <1>2, AppendedIs, TopicsStay DEF OutboxHolds
<1>3. CASE (Appended(e) \/ UNCHANGED topic) /\ Caught(r, e)
  BY <1>1, <1>2, <1>3, CaughtKeeps
<1>4. CASE Appended(e) /\ poll' = [poll EXCEPT ![r].pc = "mark"] /\ UNCHANGED <<breaker, attempts>>
  <2>. DEFINE p == [poll[r] EXCEPT !.pc = "mark"]
  <2>1. poll[r] \in Polling /\ e \in poll[r].todo /\ attempts \in [Event -> Nat]
        /\ \A x \in poll[r].todo : (\A f \in poll[r].todo : x <= f) => x = e
    BY <1>1, CurrentIs DEF OutboxHolds, OutboxTypes
  <2>2. p \in Polling /\ p.pc = "mark" /\ p.todo = poll[r].todo /\ p.retry = poll[r].retry
    BY <2>1 DEF Polling
  <2>3. poll' = [poll EXCEPT ![r] = p]
    BY <1>4
  <2>. HIDE DEF p
  <2>4. topic' \in [Kind -> Seq(Event)] /\ TopicGrows /\ TopicPart' /\ Emitted(e)'
    BY <1>2, <1>4, AppendedIs DEF OutboxHolds
  <2>5. attempts' \in [Event -> Nat]
    BY <1>4, <2>1
  <2>6. Stays
    BY <1>1, <1>4, <2>1, <2>4, EmittedStays DEF Stays, OutboxHolds
  <2>7. (\A x \in p.todo : row'[x].written) /\ (\A x \in Event : p.retry[x] <= attempts'[x])
    BY <1>1, <1>4, <2>2 DEF OutboxHolds, OutboxPart, CycleOf
  <2>8. /\ \A v \in Replica : CycleOf(v)'
        /\ poll' \in [Replica -> Polling]
        /\ \A v \in Replica : poll'[v].pc = "idle" <=> poll'[v].todo = {}
    BY <2>1, <2>2, <2>3, <2>4, <2>5, <2>6, <2>7, CyclesStay DEF OutboxHolds, OutboxPart
  <2>9. \A x \in Event : RowOf(x)'
    BY <1>1, <2>5, <2>6, RowsStay DEF OutboxHolds, OutboxPart
  <2>. QED BY <1>1, <1>4, <2>4, <2>5, <2>8, <2>9 DEF OutboxHolds, OutboxPart, OutboxTypes
<1>. QED BY <1>3, <1>4 DEF Emit

\* The rest of a cycle is a cycle that emits, or none.
LEMMA AdvanceIs ==
    ASSUME NEW p \in Polling, NEW e \in p.todo
    PROVE  /\ Advance(p, e) \in Polling
           /\ Advance(p, e).pc = "idle" <=> Advance(p, e).todo = {}
           /\ Advance(p, e).pc \in {"idle", "emit"} /\ Advance(p, e).todo \subseteq p.todo
           /\ \A x \in Event : Advance(p, e).retry[x] = p.retry[x] \/ Advance(p, e).retry[x] = 0
<1>1. CASE p.todo = {e}
  BY <1>1, IdlePollIs DEF Advance
<1>2. CASE p.todo # {e}
  BY <1>2 DEF Advance, Polling
<1>. QED BY <1>1, <1>2

\* A row is marked after its emission.
LEMMA MarkKeeps ==
    ASSUME OutboxHolds, NEW r \in Replica, NEW e \in Event, Mark(r, e)
    PROVE  OutboxHolds' /\ TopicGrows
<1>1. poll[r].pc = "mark" /\ Current(r, e) /\ UNCHANGED <<ready, topic>>
  BY DEF Mark
<1>2. topic' \in [Kind -> Seq(Event)] /\ TopicGrows /\ TopicPart'
  BY <1>1, TopicsStay DEF OutboxHolds
<1>3. CASE Caught(r, e) /\ row' = row
  BY <1>1, <1>2, <1>3, CaughtKeeps
<1>4. CASE /\ row' = [row EXCEPT ![e].processed = TRUE]
           /\ poll' = [poll EXCEPT ![r] = Advance(@, e)]
           /\ breaker' = [breaker EXCEPT ![r].failures = 0]
           /\ attempts' = attempts
  <2>. DEFINE p == Advance(poll[r], e)
  <2>1. poll[r] \in Polling /\ e \in poll[r].todo /\ attempts \in [Event -> Nat]
    BY <1>1, CurrentIs DEF OutboxHolds, OutboxTypes
  <2>2. poll' = [poll EXCEPT ![r] = p]
    BY <1>4
  <2>4. p \in Polling /\ (p.pc = "idle" <=> p.todo = {}) /\ p.pc \in {"idle", "emit"}
        /\ p.todo \subseteq poll[r].todo
        /\ \A x \in Event : p.retry[x] = poll[r].retry[x] \/ p.retry[x] = 0
    BY <2>1, AdvanceIs
  <2>. HIDE DEF p
  <2>5. CycleOf(r) /\ RowOf(e) /\ Emitted(e)
    BY <1>1 DEF OutboxHolds, OutboxPart, CycleOf
  <2>6. /\ row' \in [Event -> [written: BOOLEAN, processed: BOOLEAN, failed: BOOLEAN, retryCount: Nat]]
        /\ \A x \in Event : /\ row'[x].written = row[x].written
                            /\ row'[x].processed => row[x].processed \/ x = e
                            /\ row'[x].failed = row[x].failed
                            /\ row'[x].retryCount = row[x].retryCount
    BY <1>4 DEF OutboxHolds, OutboxTypes
  <2>7. attempts' \in [Event -> Nat] /\ Stays
    BY <1>1, <1>2, <1>4, <2>1, <2>6, EmittedStays DEF Stays, OutboxHolds
  <2>8. \A x \in Event : p.retry[x] <= attempts'[x]
    BY <1>4, <2>1, <2>4, <2>5 DEF CycleOf
  <2>9. \A x \in p.todo : row'[x].written
    BY <2>1, <2>4, <2>5, <2>6 DEF CycleOf, Polling
  <2>10. /\ \A v \in Replica : CycleOf(v)'
         /\ poll' \in [Replica -> Polling]
         /\ \A v \in Replica : poll'[v].pc = "idle" <=> poll'[v].todo = {}
    BY <2>2, <2>4, <2>7, <2>8, <2>9, CyclesStay DEF OutboxHolds, OutboxPart
  <2>11. \A x \in Event : RowOf(x)'
    BY <1>4, <2>1, <2>5, <2>6, <2>7 DEF OutboxHolds, OutboxPart, RowOf, Stays, CycleOf
  <2>12. breaker' \in [Replica -> [failures: Nat, open: BOOLEAN]]
    BY <1>4 DEF OutboxHolds, OutboxTypes
  <2>. QED BY <1>1, <1>2, <2>6, <2>7, <2>10, <2>11, <2>12 DEF OutboxHolds, OutboxPart, OutboxTypes
<1>. QED BY <1>3, <1>4 DEF Mark

\* A cycle may end at any time.
LEMMA IdleKeeps ==
    ASSUME OutboxTypes, attempts' \in [Event -> Nat], NEW r \in Replica,
           poll' = [poll EXCEPT ![r] = IdlePoll], \A v \in Replica : CycleOf(v), Stays
    PROVE  /\ \A v \in Replica : CycleOf(v)'
           /\ poll' \in [Replica -> Polling]
           /\ \A v \in Replica : poll'[v].pc = "idle" <=> poll'[v].todo = {}
<1>1. \A e \in Event : IdlePoll.retry[e] <= attempts'[e]
  BY IdlePollIs
<1>. QED BY <1>1, IdlePollIs, CyclesStay

\* A row given up has been attempted as often as its count says.
LEMMA CatchKeeps ==
    ASSUME OutboxHolds, NEW r \in Replica, NEW e \in Event, Catch(r, e)
    PROVE  OutboxHolds' /\ TopicGrows
<1>1. /\ poll[r].pc = "fail" /\ Current(r, e) /\ UNCHANGED <<ready, attempts, topic>>
      /\ poll' = [poll EXCEPT ![r] = IdlePoll]
  BY DEF Catch, FailedOnce
<1>2. /\ topic' \in [Kind -> Seq(Event)] /\ TopicGrows /\ TopicPart'
      /\ attempts' \in [Event -> Nat] /\ attempts \in [Event -> Nat]
  BY <1>1, TopicsStay DEF OutboxHolds, OutboxTypes
<1>. DEFINE n == poll[r].retry[e] + 1
<1>3. poll[r] \in Polling /\ n \in Nat /\ n <= attempts[e]
  <2>1. poll[r] \in Polling /\ CycleOf(r)
    BY <1>1, CurrentIs DEF OutboxHolds, OutboxPart
  <2>2. poll[r].retry[e] \in Nat
    BY <2>1 DEF Polling
  <2>. QED BY <1>1, <2>1, <2>2 DEF CycleOf
<1>4. /\ row' \in [Event -> [written: BOOLEAN, processed: BOOLEAN, failed: BOOLEAN, retryCount: Nat]]
      /\ breaker' \in [Replica -> [failures: Nat, open: BOOLEAN]]
      /\ \A x \in Event :
            /\ row'[x].written = row[x].written /\ row'[x].processed = row[x].processed
            /\ \/ row'[x].failed = row[x].failed /\ row'[x].retryCount = row[x].retryCount
               \/ x = e /\ row'[x].retryCount = n /\ (row'[x].failed => n >= MaxRetries)
  <2>1. CASE FailedOnce(r, e)
    <3>. DEFINE b == n >= MaxRetries
    <3>1. row' = [row EXCEPT ![e].retryCount = n, ![e].failed = b]
          /\ breaker' = [breaker EXCEPT ![r].open = @ \/ breaker[r].failures >= Threshold]
      BY <2>1 DEF FailedOnce
    <3>2. b \in BOOLEAN /\ (b => n >= MaxRetries)
      OBVIOUS
    <3>. HIDE DEF n, b
    <3>3. breaker' \in [Replica -> [failures: Nat, open: BOOLEAN]]
      BY <3>1 DEF OutboxHolds, OutboxTypes
    <3>4. /\ row' \in [Event -> [written: BOOLEAN, processed: BOOLEAN, failed: BOOLEAN, retryCount: Nat]]
          /\ \A x \in Event : /\ row'[x].written = row[x].written /\ row'[x].processed = row[x].processed
                              /\ x # e => row'[x] = row[x]
          /\ row'[e].retryCount = n /\ row'[e].failed = b
      BY <1>3, <3>1, <3>2 DEF OutboxHolds, OutboxTypes
    <3>. QED BY <3>2, <3>3, <3>4
  <2>2. CASE UNCHANGED <<row, breaker>>
    BY <2>2 DEF OutboxHolds, OutboxTypes
  <2>. QED BY <2>1, <2>2 DEF Catch
<1>5. Stays
  BY <1>1, <1>2, <1>4, EmittedStays DEF Stays, OutboxHolds
<1>6. /\ \A v \in Replica : CycleOf(v)'
      /\ poll' \in [Replica -> Polling]
      /\ \A v \in Replica : poll'[v].pc = "idle" <=> poll'[v].todo = {}
  BY <1>1, <1>2, <1>5, IdleKeeps DEF OutboxHolds, OutboxPart
<1>7. \A x \in Event : RowOf(x)'
  <2>. HIDE DEF n
  <2>1. MaxRetries \in Nat
    BY MailAssumption
  <2>. SUFFICES ASSUME NEW x \in Event PROVE RowOf(x)'
    OBVIOUS
  <2>2. RowOf(x) /\ attempts'[x] = attempts[x] /\ attempts[x] \in Nat /\ (Emitted(x) => Emitted(x)')
    BY <1>1, <1>2, <1>5 DEF OutboxHolds, OutboxPart, Stays
  <2>3. \/ row'[x].failed = row[x].failed /\ row'[x].retryCount = row[x].retryCount
        \/ /\ row'[x].retryCount = n /\ (row'[x].failed => n >= MaxRetries)
           /\ n <= attempts[x]
    BY <1>3, <1>4
  <2>. QED BY <1>3, <1>4, <2>1, <2>2, <2>3 DEF RowOf
<1>. QED BY <1>1, <1>2, <1>4, <1>6, <1>7 DEF OutboxHolds, OutboxPart, OutboxTypes

\* No step of the auth service breaks what is known of the outbox.
LEMMA OutboxKeeps ==
    ASSUME OutboxHolds, OutboxMoves
    PROVE  OutboxHolds' /\ TopicGrows
<1>1. ASSUME NEW r \in Replica, Closes(r) \/ Connects(r) \/ AuthCrash(r)
      PROVE  OutboxHolds' /\ TopicGrows
  <2>1. /\ UNCHANGED <<row, attempts, topic>>
        /\ poll' = [poll EXCEPT ![r] = IdlePoll] \/ poll' = poll
        /\ breaker' \in [Replica -> [failures: Nat, open: BOOLEAN]]
        /\ ready' \in [Replica -> BOOLEAN]
    <3>1. breaker \in [Replica -> [failures: Nat, open: BOOLEAN]] /\ ready \in [Replica -> BOOLEAN]
          /\ breaker[r] \in [failures: Nat, open: BOOLEAN]
          /\ [failures |-> 0, open |-> FALSE] \in [failures: Nat, open: BOOLEAN]
      BY DEF OutboxHolds, OutboxTypes
    <3>2. [breaker[r] EXCEPT !.open = FALSE] \in [failures: Nat, open: BOOLEAN]
      BY <3>1
    <3>3. CASE Closes(r)
      BY <3>1, <3>2, <3>3 DEF Closes
    <3>4. CASE Connects(r)
      BY <3>1, <3>4 DEF Connects
    <3>5. CASE AuthCrash(r)
      BY <3>1, <3>5 DEF AuthCrash
    <3>. QED BY <1>1, <3>3, <3>4, <3>5
  <2>2. /\ topic' \in [Kind -> Seq(Event)] /\ TopicGrows /\ TopicPart'
        /\ attempts' \in [Event -> Nat] /\ attempts \in [Event -> Nat]
    BY <2>1, TopicsStay DEF OutboxHolds, OutboxTypes
  <2>3. Stays
    BY <2>1, <2>2, EmittedStays DEF Stays, OutboxHolds
  <2>4. /\ \A v \in Replica : CycleOf(v)'
        /\ poll' \in [Replica -> Polling]
        /\ \A v \in Replica : poll'[v].pc = "idle" <=> poll'[v].todo = {}
    <3>1. CASE poll' = [poll EXCEPT ![r] = IdlePoll]
      BY <2>1, <2>2, <2>3, <3>1, IdleKeeps DEF OutboxHolds, OutboxPart
    <3>2. CASE poll' = poll
      BY <2>2, <2>3, <3>2, CycleStays DEF OutboxHolds, OutboxPart, OutboxTypes
    <3>. QED BY <2>1, <3>1, <3>2
  <2>5. \A x \in Event : RowOf(x)'
    BY <2>1, <2>2, <2>3, RowsStay DEF OutboxHolds, OutboxPart
  <2>. QED BY <2>1, <2>2, <2>4, <2>5 DEF OutboxHolds, OutboxPart, OutboxTypes
<1>. QED BY <1>1, RequestKeeps, SelectKeeps, EmitKeeps, MarkKeeps, CatchKeeps DEF OutboxMoves, OutboxStep

-----------------------------------------------------------------------------
(* The readers                                                              *)

ReaderHolds == TopicTypes /\ ReaderTypes /\ ReaderPart /\ published \in [Event -> Nat]

\* What a reader is at.
LEMMA MessageIs ==
    ASSUME ReaderHolds, NEW k \in Mails
    PROVE  /\ k \in Kind /\ topic[k] \in Seq(Event) /\ Len(topic[k]) \in Nat
           /\ reader[k] \in Reading /\ reader[k].at \in Nat /\ reader[k].at <= Len(topic[k])
           /\ reader[k].pc # "idle" =>
                 /\ reader[k].on /\ reader[k].at + 1 \in 1 .. Len(topic[k])
                 /\ Message(k) \in Event /\ KindOf[Message(k)] = k
<1>1. k \in Kind /\ topic[k] \in Seq(Event) /\ reader[k] \in Reading /\ reader[k].at <= Len(topic[k])
      /\ ReaderOf(k)
  BY DEF ReaderHolds, TopicTypes, ReaderTypes, Kind, ReaderPart
<1>2. Len(topic[k]) \in Nat /\ reader[k].at \in Nat
  BY <1>1 DEF Reading
<1>3. ASSUME reader[k].pc # "idle"
      PROVE  /\ reader[k].on /\ reader[k].at + 1 \in 1 .. Len(topic[k])
             /\ Message(k) \in Event /\ KindOf[Message(k)] = k
  <2>1. reader[k].on /\ reader[k].at + 1 \in 1 .. Len(topic[k])
    BY <1>1, <1>2, <1>3 DEF ReaderOf
  <2>. QED BY <1>1, <2>1 DEF Message, ReaderHolds, ReaderPart, TopicPart
<1>. QED BY <1>1, <1>2, <1>3

\* Nothing of a reader but its topic changes, which grows.
LEMMA TopicKeepsReaders ==
    ASSUME ReaderHolds, UNCHANGED notifyVars, topic' \in [Kind -> Seq(Event)], TopicGrows, TopicPart',
           faults.kinds \subseteq faults'.kinds
    PROVE  ReaderHolds'
<1>1. UNCHANGED <<stage, reader, claimed, published>>
  BY DEF notifyVars
<1>2. ASSUME NEW k \in Mails
      PROVE  /\ reader[k].committed <= reader[k].at /\ reader[k].at <= Len(topic'[k])
             /\ reader[k].pc # "idle" => Message(k)' = Message(k)
             /\ ReaderOf(k)'
  <2>1. /\ k \in Kind /\ Len(topic[k]) \in Nat /\ reader[k].at \in Nat /\ reader[k].at <= Len(topic[k])
        /\ reader[k].committed <= reader[k].at
        /\ reader[k].pc # "idle" => reader[k].at + 1 \in 1 .. Len(topic[k])
    BY MessageIs DEF ReaderHolds, TopicTypes
  <2>2. Len(topic[k]) <= Len(topic'[k]) /\ Len(topic'[k]) \in Nat
        /\ \A i \in 1 .. Len(topic[k]) : topic'[k][i] = topic[k][i]
    BY <2>1 DEF TopicGrows
  <2>3. reader[k].pc # "idle" => Message(k)' = Message(k)
    BY <1>1, <2>1, <2>2 DEF Message
  <2>4. \A i \in 1 .. reader[k].at : i \in 1 .. Len(topic[k])
    BY <2>1
  <2>5. ReaderOf(k)
    BY DEF ReaderHolds, ReaderPart
  <2>6. ReaderOf(k)'
    BY <1>1, <2>1, <2>2, <2>3, <2>4, <2>5 DEF ReaderOf
  <2>. QED BY <2>1, <2>2, <2>3, <2>6
<1>3. TopicTypes' /\ ReaderTypes' /\ StageOK' /\ published' \in [Event -> Nat]
  BY <1>1, <1>2 DEF TopicTypes, ReaderTypes, StageOK, ReaderHolds, ReaderPart
<1>4. ClaimPart'
  <2>1. \A e \in claimed : KindOf[e] \in Mails /\ Publishing(e) => Publishing(e)'
    BY <1>1, <1>2 DEF Publishing
  <2>. QED BY <1>1, <2>1 DEF ClaimPart, ReaderHolds, ReaderPart, Without
<1>. QED BY <1>2, <1>3, <1>4 DEF ReaderHolds, ReaderPart

\* Neither readers nor topics change.
LEMMA ReadersStay ==
    ASSUME ReaderHolds, UNCHANGED <<topic, reader, claimed, published>>, stage' = stage \/ stage' = "failed",
           faults.kinds \subseteq faults'.kinds
    PROVE  ReaderHolds'
<1>1. TopicTypes' /\ ReaderTypes' /\ TopicPart' /\ StageOK' /\ published' \in [Event -> Nat]
  BY DEF TopicTypes, ReaderTypes, StageOK, TopicPart, ReaderHolds, ReaderPart
<1>2. (\A k \in Mails : ReaderOf(k)') /\ ClaimPart'
  BY DEF ReaderHolds, ReaderPart, ReaderOf, ClaimPart, Publishing, Message, Without
<1>. QED BY <1>1, <1>2 DEF ReaderHolds, ReaderPart

\* One reader goes on: what holds of the other one and of the events of its kind.
LEMMA OtherReader ==
    ASSUME ReaderHolds, topic' = topic, NEW k \in Mails, NEW x \in Reading,
           reader' = [reader EXCEPT ![k] = x], x.committed <= x.at, x.at <= Len(topic[k]),
           claimed \subseteq claimed',
           \A e \in Event : KindOf[e] # k => published'[e] = published[e]
    PROVE  /\ TopicTypes' /\ TopicPart' /\ reader' \in [Mails -> Reading] /\ reader'[k] = x
           /\ \A j \in Mails \ {k} : ReaderOf(j)'
           /\ \A e \in Event : KindOf[e] \in Mails \ {k} => (Publishing(e)' <=> Publishing(e))
<1>1. reader' \in [Mails -> Reading] /\ reader'[k] = x /\ \A j \in Mails \ {k} : reader'[j] = reader[j]
  BY DEF ReaderHolds, ReaderTypes
<1>2. TopicTypes' /\ TopicPart'
  BY <1>1 DEF TopicTypes, TopicPart, ReaderHolds, ReaderPart
<1>3. ASSUME NEW j \in Mails \ {k} PROVE ReaderOf(j)' /\ Message(j)' = Message(j)
  <2>1. Message(j)' = Message(j)
    BY <1>1 DEF Message
  <2>2. reader[j].pc = "publish" => published'[Message(j)] = published[Message(j)]
    BY MessageIs
  <2>. QED BY <1>1, <2>1, <2>2 DEF ReaderOf, ReaderHolds, ReaderPart
<1>4. \A e \in Event : KindOf[e] \in Mails \ {k} => (Publishing(e)' <=> Publishing(e))
  BY <1>1, <1>3 DEF Publishing
<1>. QED BY <1>1, <1>2, <1>3, <1>4

\* A reader takes the next message.
LEMMA TakeKeeps ==
    ASSUME ReaderHolds, NEW k \in Mails, Take(k)
    PROVE  ReaderHolds'
<1>. DEFINE x == [reader[k] EXCEPT !.pc = "claim"]
<1>1. /\ reader' = [reader EXCEPT ![k] = x] /\ reader[k].on /\ reader[k].pc = "idle"
      /\ reader[k].at < Len(topic[k]) /\ UNCHANGED <<topic, stage, claimed, published, faults>>
  BY DEF Take
<1>2. reader[k] \in Reading /\ reader[k].committed <= reader[k].at
  BY MessageIs DEF ReaderHolds, TopicTypes
<1>3. x \in Reading /\ x.on = reader[k].on /\ x.at = reader[k].at
      /\ x.committed = reader[k].committed /\ x.pc = "claim"
  BY <1>2 DEF Reading
<1>. HIDE DEF x
<1>4. reader[k].at <= Len(topic[k])
  BY MessageIs
<1>5. /\ TopicTypes' /\ TopicPart' /\ reader' \in [Mails -> Reading] /\ reader'[k] = x
      /\ \A j \in Mails \ {k} : ReaderOf(j)'
      /\ \A e \in Event : KindOf[e] \in Mails \ {k} => (Publishing(e)' <=> Publishing(e))
  BY <1>1, <1>2, <1>3, <1>4, OtherReader
<1>6. ReaderOf(k)'
  BY <1>1, <1>3, <1>5 DEF ReaderOf, ReaderHolds, ReaderPart
<1>7. ReaderTypes' /\ StageOK' /\ published' \in [Event -> Nat]
  BY <1>1, <1>3, <1>5 DEF ReaderTypes, ReaderHolds, ReaderPart, StageOK
<1>8. ClaimPart'
  <2>1. \A e \in Event : KindOf[e] = k => ~Publishing(e)
    BY <1>1 DEF Publishing
  <2>. QED BY <1>1, <1>5, <2>1 DEF ClaimPart, ReaderHolds, ReaderPart, ReaderTypes, Without
<1>. QED BY <1>5, <1>6, <1>7, <1>8 DEF ReaderHolds, ReaderPart

\* A reader claims its message, or passes one that is claimed.
LEMMA ClaimKeeps ==
    ASSUME ReaderHolds, FaultTypes, NEW k \in Mails, Claim(k)
    PROVE  ReaderHolds'
<1>. DEFINE n == reader[k].at + 1
            p == [reader[k] EXCEPT !.pc = "publish"]
            d == [reader[k] EXCEPT !.pc = "idle", !.at = n]
<1>0. PICK e \in Event : e = Message(k)
  BY MessageIs DEF Claim
<1>1. /\ UNCHANGED <<topic, stage, published>> /\ reader[k].pc = "claim"
      /\ claimed' = claimed \cup {e}
      /\ \/ e \notin claimed /\ reader' = [reader EXCEPT ![k] = p] /\ faults' = faults
         \/ e \in claimed /\ reader' = [reader EXCEPT ![k] = d] /\ faults' = faults
         \/ e \notin claimed /\ reader' = [reader EXCEPT ![k] = d] /\ Fault("redis")
  BY <1>0 DEF Claim, Locked, Done
<1>2. /\ reader[k] \in Reading /\ reader[k].committed <= reader[k].at /\ reader[k].on
      /\ reader[k].at \in Nat /\ Len(topic[k]) \in Nat /\ reader[k].at + 1 <= Len(topic[k])
      /\ e \in Event /\ KindOf[e] = k /\ reader[k].committed \in Nat
      /\ topic[k][reader[k].at + 1] = e /\ n \in Nat /\ n = reader[k].at + 1
  BY <1>0, <1>1, MessageIs DEF ReaderHolds, TopicTypes, Reading, Message
<1>. HIDE DEF n
<1>3. /\ p \in Reading /\ p.on /\ p.at = reader[k].at /\ p.committed = reader[k].committed /\ p.pc = "publish"
      /\ d \in Reading /\ d.on /\ d.at = reader[k].at + 1 /\ d.committed = reader[k].committed /\ d.pc = "idle"
  <2>1. /\ p \in Reading /\ p.on /\ p.at = reader[k].at /\ p.committed = reader[k].committed
        /\ p.pc = "publish"
    BY <1>2 DEF Reading
  <2>2. /\ d \in Reading /\ d.on /\ d.at = reader[k].at + 1 /\ d.committed = reader[k].committed
        /\ d.pc = "idle"
    BY <1>2 DEF Reading
  <2>. QED BY <2>1, <2>2
<1>. HIDE DEF p, d
<1>4. ASSUME NEW x \in Reading, x.committed <= x.at, x.at <= Len(topic[k]),
             reader' = [reader EXCEPT ![k] = x]
      PROVE  /\ TopicTypes' /\ TopicPart' /\ reader'[k] = x /\ ReaderTypes'
             /\ \A j \in Mails \ {k} : ReaderOf(j)'
             /\ \A f \in Event : KindOf[f] \in Mails \ {k} => (Publishing(f)' <=> Publishing(f))
             /\ x.on => StageOK'
             /\ published' \in [Event -> Nat]
  <2>1. /\ TopicTypes' /\ TopicPart' /\ reader' \in [Mails -> Reading] /\ reader'[k] = x
        /\ \A j \in Mails \ {k} : ReaderOf(j)'
        /\ \A f \in Event : KindOf[f] \in Mails \ {k} => (Publishing(f)' <=> Publishing(f))
    BY <1>1, <1>4, OtherReader
  <2>2. x.on => StageOK'
    BY <1>1, <1>2, <1>4 DEF StageOK, ReaderHolds, ReaderPart, ReaderTypes
  <2>. QED BY <1>1, <1>2, <2>1, <2>2 DEF ReaderTypes, ReaderHolds
<1>5. /\ \A i \in 1 .. reader[k].at : topic[k][i] \in claimed
      /\ \A f \in Event : published[f] <= 1 /\ (published[f] > 0 => f \in claimed)
      /\ published[e] = 0 \/ e \in claimed
      /\ published[e] \in Nat
      /\ \A f \in Event : KindOf[f] = k => ~Publishing(f)
  BY <1>1, <1>2 DEF ReaderHolds, ReaderPart, ReaderOf, ClaimPart, Publishing
<1>6. CASE e \notin claimed /\ reader' = [reader EXCEPT ![k] = p] /\ faults' = faults
  <2>1. /\ TopicTypes' /\ TopicPart' /\ reader'[k] = p /\ ReaderTypes'
        /\ \A j \in Mails \ {k} : ReaderOf(j)'
        /\ \A f \in Event : KindOf[f] \in Mails \ {k} => (Publishing(f)' <=> Publishing(f))
        /\ StageOK' /\ published' \in [Event -> Nat]
    <3>1. p.committed <= p.at /\ p.at <= Len(topic[k])
      BY <1>2, <1>3
    <3>. QED BY <1>3, <1>4, <1>6, <3>1
  <2>2. Message(k)' = e
    BY <1>1, <1>2, <1>3, <2>1 DEF Message
  <2>3. ReaderOf(k)'
    BY <1>1, <1>2, <1>3, <1>5, <1>6, <2>1, <2>2 DEF ReaderOf
  <2>4. ClaimPart'
    <3>1. Publishing(e)'
      BY <1>2, <1>3, <2>1, <2>2 DEF Publishing, Message
    <3>2. claimed \subseteq Event
      BY DEF ReaderHolds, ReaderTypes
    <3>. QED BY <1>1, <1>2, <1>5, <1>6, <2>1, <3>1, <3>2 DEF ClaimPart, ReaderHolds, ReaderPart, Without
  <2>. QED BY <2>1, <2>3, <2>4 DEF ReaderHolds, ReaderPart
<1>7. CASE reader' = [reader EXCEPT ![k] = d]
  <2>1. /\ TopicTypes' /\ TopicPart' /\ reader'[k] = d /\ ReaderTypes'
        /\ \A j \in Mails \ {k} : ReaderOf(j)'
        /\ \A f \in Event : KindOf[f] \in Mails \ {k} => (Publishing(f)' <=> Publishing(f))
        /\ StageOK' /\ published' \in [Event -> Nat]
    <3>1. d.committed <= d.at /\ d.at <= Len(topic[k])
      BY <1>2, <1>3
    <3>. QED BY <1>3, <1>4, <1>7, <3>1
  <2>2. ReaderOf(k)'
    <3>1. \A i \in 1 .. reader[k].at + 1 : i \in 1 .. reader[k].at \/ i = reader[k].at + 1
      BY <1>2
    <3>2. \A i \in 1 .. reader[k].at + 1 : topic[k][i] \in claimed \cup {e}
      BY <1>2, <1>5, <3>1
    <3>. QED BY <1>1, <1>3, <2>1, <3>2 DEF ReaderOf
  <2>3. ClaimPart'
    <3>1. CASE e \in claimed /\ faults' = faults
      <4>1. claimed' = claimed /\ claimed \subseteq Event
        BY <1>1, <3>1 DEF ReaderHolds, ReaderTypes
      <4>. QED BY <1>1, <1>5, <2>1, <3>1, <4>1 DEF ClaimPart, ReaderHolds, ReaderPart, Without
    <3>2. CASE Fault("redis")
      <4>1. ~Without({"conn", "crash", "rabbit", "redis"})'
        BY <3>2, FaultIs DEF Without
      <4>. QED BY <1>1, <1>5, <4>1 DEF ClaimPart
    <3>3. CASE e \notin claimed /\ reader' = [reader EXCEPT ![k] = p]
      BY <1>2, <1>3, <1>7, <3>3 DEF ReaderHolds, ReaderTypes
    <3>. QED BY <1>1, <3>1, <3>2, <3>3
  <2>. QED BY <2>1, <2>2, <2>3 DEF ReaderHolds, ReaderPart
<1>. QED BY <1>1, <1>6, <1>7

\* publish finds or opens a channel, as long as only faults take channels.
LEMMA PublishKeeps ==
    ASSUME ReaderHolds, FaultTypes, ClientTypes, ClientPart, NEW k \in Mails, Publish(k)
    PROVE  ReaderHolds'
<1>. DEFINE e == Message(k)
            a == IF amqp.chan THEN amqp ELSE Initialised(amqp)
            c == [reader[k] EXCEPT !.pc = "claim"]
            n == reader[k].at + 1
            d == [reader[k] EXCEPT !.pc = "idle", !.at = n]
<1>1. /\ UNCHANGED <<topic, stage, claimed>> /\ reader[k].pc = "publish"
      /\ \/ /\ published' = [published EXCEPT ![e] = @ + 1]
            /\ reader' = [reader EXCEPT ![k] = d]
            /\ faults' = faults
         \/ /\ (~a.chan /\ faults' = faults) \/ Fault("rabbit")
            /\ published' = published
            /\ reader' = [reader EXCEPT ![k] = c]
  BY DEF Publish, Done
<1>2. ~a.chan => ~Without({"conn", "crash"})
  <2>1. CASE amqp.chan
    BY <2>1
  <2>2. CASE ~amqp.chan
    <3>1. Without({"conn", "crash"}) => up /\ ~amqp.conn
      BY <2>2 DEF ClientPart
    <3>2. up /\ ~amqp.conn => Initialised(amqp).chan
      BY DEF Initialised, ClientTypes, Client
    <3>. QED BY <2>2, <3>1, <3>2
  <2>. QED BY <2>1, <2>2
<1>. HIDE DEF a
<1>3. /\ reader[k] \in Reading /\ reader[k].committed <= reader[k].at /\ reader[k].on
      /\ reader[k].at \in Nat /\ Len(topic[k]) \in Nat /\ reader[k].at + 1 <= Len(topic[k])
      /\ e \in Event /\ KindOf[e] = k /\ reader[k].committed \in Nat
      /\ topic[k][reader[k].at + 1] = e /\ n \in Nat /\ n = reader[k].at + 1
  BY <1>1, MessageIs DEF ReaderHolds, TopicTypes, Reading, Message
<1>. HIDE DEF n
<1>4. e \in claimed /\ published[e] = 0 /\ \A f \in Event : KindOf[f] = k /\ Publishing(f) => f = e
  BY <1>1 DEF ReaderHolds, ReaderPart, ReaderOf, Publishing
<1>. HIDE DEF e
<1>5. /\ c \in Reading /\ c.on /\ c.at = reader[k].at /\ c.committed = reader[k].committed /\ c.pc = "claim"
      /\ d \in Reading /\ d.on /\ d.at = reader[k].at + 1 /\ d.committed = reader[k].committed /\ d.pc = "idle"
  <2>1. /\ c \in Reading /\ c.on /\ c.at = reader[k].at /\ c.committed = reader[k].committed
        /\ c.pc = "claim"
    BY <1>3 DEF Reading
  <2>2. /\ d \in Reading /\ d.on /\ d.at = reader[k].at + 1 /\ d.committed = reader[k].committed
        /\ d.pc = "idle"
    BY <1>3 DEF Reading
  <2>. QED BY <2>1, <2>2
<1>. HIDE DEF c, d
<1>6. /\ published' \in [Event -> Nat] /\ \A f \in Event : KindOf[f] # k => published'[f] = published[f]
      /\ \A f \in Event : published'[f] = published[f] \/ (f = e /\ published'[f] = 1)
  BY <1>1, <1>3, <1>4 DEF ReaderHolds
<1>7. ASSUME NEW x \in Reading, x.committed <= x.at, x.at <= Len(topic[k]), x.on,
             reader' = [reader EXCEPT ![k] = x]
      PROVE  /\ TopicTypes' /\ TopicPart' /\ reader'[k] = x /\ ReaderTypes' /\ StageOK'
             /\ \A j \in Mails \ {k} : ReaderOf(j)'
             /\ \A f \in Event : KindOf[f] \in Mails \ {k} => (Publishing(f)' <=> Publishing(f))
  <2>1. /\ TopicTypes' /\ TopicPart' /\ reader' \in [Mails -> Reading] /\ reader'[k] = x
        /\ \A j \in Mails \ {k} : ReaderOf(j)'
        /\ \A f \in Event : KindOf[f] \in Mails \ {k} => (Publishing(f)' <=> Publishing(f))
    BY <1>1, <1>6, <1>7, OtherReader
  <2>2. StageOK'
    BY <1>1, <1>3, <1>7 DEF StageOK, ReaderHolds, ReaderPart, ReaderTypes
  <2>. QED BY <1>1, <2>1, <2>2 DEF ReaderTypes, ReaderHolds
<1>8. /\ \A i \in 1 .. reader[k].at : topic[k][i] \in claimed
      /\ \A f \in Event : published'[f] <= 1 /\ (published'[f] > 0 => f \in claimed)
  BY <1>4, <1>6 DEF ReaderHolds, ReaderPart, ReaderOf, ClaimPart
<1>9. CASE published' = [published EXCEPT ![e] = @ + 1] /\ reader' = [reader EXCEPT ![k] = d] /\ faults' = faults
  <2>1. /\ TopicTypes' /\ TopicPart' /\ reader'[k] = d /\ ReaderTypes' /\ StageOK'
        /\ \A j \in Mails \ {k} : ReaderOf(j)'
        /\ \A f \in Event : KindOf[f] \in Mails \ {k} => (Publishing(f)' <=> Publishing(f))
    <3>1. d.committed <= d.at /\ d.at <= Len(topic[k])
      BY <1>3, <1>5
    <3>. QED BY <1>5, <1>7, <1>9, <3>1
  <2>2. ReaderOf(k)'
    <3>1. \A i \in 1 .. reader[k].at + 1 : i \in 1 .. reader[k].at \/ i = reader[k].at + 1
      BY <1>3
    <3>2. \A i \in 1 .. reader[k].at + 1 : topic[k][i] \in claimed
      BY <1>3, <1>4, <1>8, <3>1
    <3>. QED BY <1>1, <1>5, <2>1, <3>2 DEF ReaderOf
  <2>3. ClaimPart'
    <3>1. published'[e] = 1 /\ claimed \subseteq Event
      BY <1>3, <1>4, <1>9 DEF ReaderHolds, ReaderTypes
    <3>2. \A f \in Event : published[f] > 0 => published'[f] > 0
      BY <1>6
    <3>. QED BY <1>1, <1>4, <1>8, <1>9, <2>1, <3>1, <3>2 DEF ClaimPart, ReaderHolds, ReaderPart, Without
  <2>. QED BY <1>6, <2>1, <2>2, <2>3 DEF ReaderHolds, ReaderPart
<1>10. CASE ((~a.chan /\ faults' = faults) \/ Fault("rabbit")) /\ reader' = [reader EXCEPT ![k] = c]
  <2>1. /\ TopicTypes' /\ TopicPart' /\ reader'[k] = c /\ ReaderTypes' /\ StageOK'
        /\ \A j \in Mails \ {k} : ReaderOf(j)'
        /\ \A f \in Event : KindOf[f] \in Mails \ {k} => (Publishing(f)' <=> Publishing(f))
    <3>1. c.committed <= c.at /\ c.at <= Len(topic[k])
      BY <1>3, <1>5
    <3>. QED BY <1>5, <1>7, <1>10, <3>1
  <2>2. ReaderOf(k)'
    <3>1. reader[k].at < Len(topic[k])
      BY <1>3
    <3>. QED BY <1>1, <1>5, <1>8, <2>1, <3>1 DEF ReaderOf
  <2>3. ~Without({"conn", "crash", "rabbit", "redis"})'
    BY <1>2, <1>10, FaultIs DEF Without
  <2>. QED BY <1>1, <1>6, <1>8, <2>1, <2>2, <2>3 DEF ReaderHolds, ReaderPart, ClaimPart
<1>. QED BY <1>1, <1>9, <1>10

\* A reader commits what it has passed.
LEMMA CommitKeeps ==
    ASSUME ReaderHolds, NEW k \in Mails, Commit(k)
    PROVE  ReaderHolds'
<1>. DEFINE n == reader[k].at
            x == [reader[k] EXCEPT !.committed = n]
<1>1. reader' = [reader EXCEPT ![k] = x] /\ UNCHANGED <<topic, stage, claimed, published, faults>>
  BY DEF Commit
<1>2. reader[k] \in Reading /\ n \in Nat /\ n <= Len(topic[k]) /\ n = reader[k].at
  BY MessageIs
<1>. HIDE DEF n
<1>3. x \in Reading /\ x.on = reader[k].on /\ x.pc = reader[k].pc /\ x.at = reader[k].at /\ x.committed = n
  BY <1>2 DEF Reading
<1>. HIDE DEF x
<1>4. /\ TopicTypes' /\ TopicPart' /\ reader' \in [Mails -> Reading] /\ reader'[k] = x
      /\ \A j \in Mails \ {k} : ReaderOf(j)'
      /\ \A f \in Event : KindOf[f] \in Mails \ {k} => (Publishing(f)' <=> Publishing(f))
  <2>1. x.committed <= x.at /\ x.at <= Len(topic[k])
    BY <1>2, <1>3
  <2>. QED BY <1>1, <1>3, <2>1, OtherReader
<1>5. Message(k)' = Message(k) /\ \A f \in Event : KindOf[f] = k => (Publishing(f)' <=> Publishing(f))
  BY <1>1, <1>3, <1>4 DEF Message, Publishing
<1>6. ReaderOf(k)'
  BY <1>1, <1>3, <1>4, <1>5 DEF ReaderOf, ReaderHolds, ReaderPart
<1>7. ReaderTypes' /\ StageOK' /\ published' \in [Event -> Nat]
  BY <1>1, <1>3, <1>4 DEF ReaderTypes, ReaderHolds, ReaderPart, StageOK
<1>8. ClaimPart'
  BY <1>1, <1>4, <1>5 DEF ClaimPart, ReaderHolds, ReaderPart, ReaderTypes, Without
<1>. QED BY <1>4, <1>6, <1>7, <1>8 DEF ReaderHolds, ReaderPart

\* A consumer that starts reads on from its committed offset.
LEMMA BootKeeps ==
    ASSUME ReaderHolds, Boot
    PROVE  ReaderHolds'
<1>1. /\ UNCHANGED <<topic, claimed, published, faults>>
      /\ stage \in {"init", "welcome", "verification", "jobs"}
      /\ stage' = CASE stage = "init" -> "welcome" [] stage = "welcome" -> "verification"
                    [] stage = "verification" -> "jobs" [] stage = "jobs" -> "done"
  BY DEF Boot, NextStage, ReaderHolds, ReaderTypes
<1>2. stage' \in {"welcome", "verification", "jobs", "done"}
      /\ (stage' = "welcome" => stage = "init") /\ (stage' = "verification" => stage = "welcome")
  BY <1>1
<1>3. CASE stage \notin Mails
  <2>1. reader' = reader /\ stage' # "verification"
    BY <1>2, <1>3 DEF Boot, Mails
  <2>2. TopicTypes' /\ ReaderTypes' /\ TopicPart' /\ StageOK' /\ published' \in [Event -> Nat]
    BY <1>1, <1>2, <1>3, <2>1 DEF TopicTypes, ReaderTypes, StageOK, TopicPart, ReaderHolds, ReaderPart, Mails
  <2>3. (\A k \in Mails : ReaderOf(k)') /\ ClaimPart'
    BY <1>1, <2>1 DEF ReaderHolds, ReaderPart, ReaderOf, ClaimPart, Publishing, Message, Without
  <2>. QED BY <2>2, <2>3 DEF ReaderHolds, ReaderPart
<1>4. ASSUME NEW k \in Mails, stage = k
      PROVE  ReaderHolds'
  <2>. DEFINE n == reader[k].committed
              x == [reader[k] EXCEPT !.on = TRUE, !.at = n]
  <2>1. reader' = [reader EXCEPT ![k] = x]
    BY <1>4 DEF Boot, FirstOffset
  <2>2. /\ reader[k] \in Reading /\ n \in Nat /\ reader[k].at \in Nat /\ Len(topic[k]) \in Nat
        /\ n <= reader[k].at /\ reader[k].at <= Len(topic[k]) /\ n = reader[k].committed
        /\ reader[k].pc = "idle"
    BY <1>4, MessageIs DEF ReaderHolds, TopicTypes, Reading, ReaderPart, StageOK, ReaderOf, Mails
  <2>. HIDE DEF n
  <2>3. x \in Reading /\ x.on /\ x.pc = "idle" /\ x.at = n /\ x.committed = n
    BY <2>2 DEF Reading
  <2>. HIDE DEF x
  <2>4. x.committed <= x.at /\ x.at <= Len(topic[k])
    <3>1. n <= n /\ n <= Len(topic[k])
      BY <2>2
    <3>. QED BY <2>3, <3>1
  <2>5. /\ TopicTypes' /\ TopicPart' /\ reader' \in [Mails -> Reading] /\ reader'[k] = x
        /\ \A j \in Mails \ {k} : ReaderOf(j)'
        /\ \A f \in Event : KindOf[f] \in Mails \ {k} => (Publishing(f)' <=> Publishing(f))
    BY <1>1, <2>1, <2>3, <2>4, OtherReader
  <2>6. \A i \in 1 .. n : i \in 1 .. reader[k].at
    BY <2>2
  <2>7. ReaderOf(k)'
    BY <1>1, <2>3, <2>5, <2>6 DEF ReaderOf, ReaderHolds, ReaderPart
  <2>8. ReaderTypes' /\ StageOK' /\ published' \in [Event -> Nat]
    <3>1. \A j \in Mails \ {k} : reader'[j] = reader[j]
      BY <2>1 DEF ReaderHolds, ReaderTypes
    <3>. QED BY <1>1, <1>2, <1>4, <2>5, <3>1 DEF ReaderTypes, ReaderHolds, ReaderPart, StageOK, Mails
  <2>9. ClaimPart'
    <3>1. \A f \in Event : KindOf[f] = k => ~Publishing(f)
      BY <2>2 DEF Publishing
    <3>. QED BY <1>1, <2>5, <3>1 DEF ClaimPart, ReaderHolds, ReaderPart, ReaderTypes, Without
  <2>. QED BY <2>5, <2>7, <2>8, <2>9 DEF ReaderHolds, ReaderPart
<1>. QED BY <1>3, <1>4

\* The service starts again, and reads on from what it has committed.
LEMMA RestartedKeeps ==
    ASSUME ReaderHolds, NEW js, Restarted(js), UNCHANGED <<topic, claimed, published>>,
           ~Without({"conn", "crash"})'
    PROVE  ReaderHolds'
<1>1. stage' = "init"
      /\ reader' = [k \in Mails |-> [Off EXCEPT !.at = reader[k].committed, !.committed = reader[k].committed]]
  BY DEF Restarted
<1>2. ASSUME NEW k \in Mails
      PROVE  /\ reader'[k] \in Reading /\ ~reader'[k].on /\ reader'[k].pc = "idle"
             /\ reader'[k].at = reader[k].committed /\ reader'[k].committed = reader[k].committed
             /\ reader'[k].at <= Len(topic[k])
             /\ \A i \in 1 .. reader[k].committed : i \in 1 .. reader[k].at
  <2>. DEFINE n == reader[k].committed
  <2>1. n \in Nat /\ n <= reader[k].at /\ reader[k].at <= Len(topic[k]) /\ Len(topic[k]) \in Nat
        /\ reader[k].at \in Nat
    BY MessageIs DEF ReaderHolds, TopicTypes, Reading
  <2>2. reader'[k] = [Off EXCEPT !.at = n, !.committed = n]
    BY <1>1
  <2>. HIDE DEF n
  <2>3. reader'[k] \in Reading /\ ~reader'[k].on /\ reader'[k].pc = "idle" /\ reader'[k].at = n
        /\ reader'[k].committed = n
    BY <2>1, <2>2 DEF Off, Reading
  <2>4. n <= Len(topic[k]) /\ \A i \in 1 .. n : i \in 1 .. reader[k].at
    BY <2>1
  <2>. QED BY <2>3, <2>4 DEF n
<1>3. reader' \in [Mails -> Reading]
  BY <1>1, <1>2
<1>4. TopicTypes' /\ ReaderTypes' /\ TopicPart' /\ StageOK' /\ published' \in [Event -> Nat]
  <2>1. \A k \in Mails : reader'[k].committed <= reader'[k].at
    BY <1>2 DEF Reading
  <2>. QED BY <1>1, <1>2, <1>3, <2>1 DEF TopicTypes, ReaderTypes, StageOK, TopicPart, ReaderHolds, ReaderPart, Mails
<1>5. \A k \in Mails : ReaderOf(k)'
  BY <1>2 DEF ReaderOf, ReaderHolds, ReaderPart
<1>6. ClaimPart'
  BY DEF ClaimPart, ReaderHolds, ReaderPart, Without
<1>. QED BY <1>4, <1>5, <1>6 DEF ReaderHolds, ReaderPart

\* Jobs whose channel has gone are there only after a fault.
LEMMA LateIs ==
    ASSUME JobPart, CountTypes, NEW e \in Event,
           jobs["late"][e] > 0 \/ jobs["stale"][e] > 0
    PROVE  ~Without({"conn", "crash"})
BY DEF JobPart, JobOf, CountTypes, Place

\* No step of the notification service breaks what is known of the readers.
LEMMA ReadersKeep ==
    ASSUME ReaderHolds, FaultTypes, ClientTypes, CountTypes, ClientPart, JobPart,
           NotifyMoves, UNCHANGED topic, faults.kinds \subseteq faults'.kinds
    PROVE  ReaderHolds'
<1>1. CASE \E e \in Event : JobStep(e) \/ Nack(e)
  <2>1. PICK e \in Event : JobStep(e) \/ Nack(e)
    BY <1>1
  <2>2. CASE LateAck(e) /\ ~amqp.chan
    <3>1. Restarted(jobs) /\ UNCHANGED <<topic, claimed, published, faults>> /\ jobs["late"][e] > 0
      BY <2>2 DEF LateAck
    <3>2. ~Without({"conn", "crash"})'
      BY <3>1, LateIs DEF Without
    <3>. QED BY <3>1, <3>2, RestartedKeeps
  <2>3. CASE LateAck(e) /\ amqp.chan
    BY <2>3, ReadersStay DEF LateAck
  <2>4. CASE ~LateAck(e)
    <3>1. UNCHANGED <<topic, stage, reader, claimed, published>>
      BY <2>1, <2>4 DEF JobStep, Nack, Arrive, Deliver, Mail, Ack
    <3>. QED BY <3>1, ReadersStay
  <2>. QED BY <2>2, <2>3, <2>4
<1>2. CASE \E k \in Mails : ReaderStep(k) \/ Commit(k)
  BY <1>2, TakeKeeps, ClaimKeeps, PublishKeeps, CommitKeeps DEF ReaderStep
<1>3. CASE ClientStep \/ ConnectionLost \/ BrokerReturns \/ BootFails \/ UNCHANGED mailVars
  <2>1. UNCHANGED <<topic, reader, claimed, published>> /\ (stage' = stage \/ stage' = "failed")
    BY <1>3 DEF ClientStep, Reconnect, Restore, ConnectionLost, BrokerReturns, BootFails, mailVars, notifyVars
  <2>. QED BY <2>1, ReadersStay
<1>4. CASE Boot
  BY <1>4, BootKeeps
<1>5. CASE NotifyCrash
  <2>1. Restarted(jobs) /\ UNCHANGED <<topic, claimed, published>> /\ Fault("crash")
    BY <1>5 DEF NotifyCrash
  <2>2. ~Without({"conn", "crash"})'
    BY <2>1, FaultIs DEF Without
  <2>. QED BY <2>1, <2>2, RestartedKeeps
<1>. QED BY <1>1, <1>2, <1>3, <1>4, <1>5 DEF NotifyMoves

-----------------------------------------------------------------------------
(* The client and the jobs                                                  *)

\* init opens a connection with its channel, or starts the retries.
LEMMA InitialisedIs ==
    ASSUME NEW a \in Client, up \in BOOLEAN
    PROVE  /\ Retrying(a) \in Client /\ Retrying(a).conn = a.conn /\ Retrying(a).chan = a.chan
           /\ Initialised(a) \in Client
           /\ up /\ (a.conn => a.chan) => Initialised(a).chan
           /\ (a.conn => a.chan) => (Initialised(a).conn => Initialised(a).chan)
<1>1. 1 \in 0 .. MaxTries
  BY MailAssumption
<1>2. Retrying(a) \in Client /\ Retrying(a).conn = a.conn /\ Retrying(a).chan = a.chan
  BY <1>1 DEF Retrying, Client
<1>3. CASE a.conn
  BY <1>2, <1>3 DEF Initialised
<1>4. CASE ~a.conn
  BY <1>2, <1>4 DEF Initialised, Client
<1>. QED BY <1>2, <1>3, <1>4

\* The channel of a connection goes only with a fault.
LEMMA ClientKeeps ==
    ASSUME ClientTypes, FaultTypes, ClientPart, JobPart, CountTypes,
           (OutboxMoves /\ UNCHANGED notifyVars) \/ NotifyMoves, faults.kinds \subseteq faults'.kinds
    PROVE  ClientTypes' /\ ClientPart'
<1>1. amqp \in Client /\ up \in BOOLEAN /\ (Without({"conn", "crash"})' => Without({"conn", "crash"}))
  BY DEF ClientTypes, Without
<1>2. ASSUME UNCHANGED <<amqp, up>> PROVE ClientTypes' /\ ClientPart'
  BY <1>1, <1>2 DEF ClientTypes, ClientPart
<1>3. CASE OutboxMoves /\ UNCHANGED notifyVars
  BY <1>2, <1>3 DEF notifyVars
<1>4. CASE \E e \in Event : JobStep(e) \/ Nack(e)
  <2>1. PICK e \in Event : JobStep(e) \/ Nack(e)
    BY <1>4
  <2>2. CASE LateAck(e)
    <3>1. jobs["late"][e] > 0 /\ UNCHANGED <<up, faults>>
      BY <2>2 DEF LateAck
    <3>2. ~Without({"conn", "crash"})'
      BY <3>1, LateIs DEF Without
    <3>3. amqp' \in {amqp, NoClient, Retrying([amqp EXCEPT !.chan = FALSE, !.consumers = 0])}
      BY <2>2 DEF LateAck, Restarted, ChannelGone
    <3>4. NoClient \in Client /\ [amqp EXCEPT !.chan = FALSE, !.consumers = 0] \in Client
      <4>1. 0 \in 0 .. MaxTries
        BY MailAssumption
      <4>2. NoClient \in Client
        BY <4>1 DEF NoClient, Client
      <4>3. [amqp EXCEPT !.chan = FALSE, !.consumers = 0] \in Client
        BY <1>1 DEF Client
      <4>. QED BY <4>2, <4>3
    <3>5. amqp' \in Client
      BY <1>1, <3>3, <3>4, InitialisedIs
    <3>. QED BY <1>1, <3>1, <3>2, <3>5 DEF ClientTypes, ClientPart
  <2>3. CASE ~LateAck(e)
    BY <1>2, <2>1, <2>3 DEF JobStep, Nack, Arrive, Deliver, Mail, Ack
  <2>. QED BY <2>2, <2>3
<1>5. CASE \E k \in Mails : ReaderStep(k) \/ Commit(k)
  <2>1. PICK k \in Mails : ReaderStep(k) \/ Commit(k)
    BY <1>5
  <2>2. CASE Publish(k)
    <3>1. up' = up /\ amqp' \in {amqp, Initialised(amqp)}
      BY <2>2 DEF Publish
    <3>. QED BY <1>1, <3>1, InitialisedIs DEF ClientTypes, ClientPart
  <2>3. CASE ~Publish(k)
    BY <1>2, <2>1, <2>3 DEF ReaderStep, Commit, Take, Claim
  <2>. QED BY <2>2, <2>3
<1>6. CASE Reconnect
  <2>. DEFINE a == Initialised(amqp)
              b == [a EXCEPT !.tries = IF @ = MaxTries THEN 0 ELSE @ + 1]
              c == [a EXCEPT !.restoring = TRUE]
  <2>1. up' = up /\ (amqp' = b \/ amqp' = c)
    BY <1>6 DEF Reconnect
  <2>2. a \in Client /\ ((amqp.conn => amqp.chan) => (a.conn => a.chan))
    BY <1>1, InitialisedIs
  <2>. HIDE DEF a
  <2>3. (IF a.tries = MaxTries THEN 0 ELSE a.tries + 1) \in 0 .. MaxTries
    BY <2>2, MailAssumption DEF Client
  <2>4. b \in Client /\ b.conn = a.conn /\ b.chan = a.chan
    BY <2>2, <2>3 DEF Client
  <2>5. c \in Client /\ c.conn = a.conn /\ c.chan = a.chan
    BY <2>2 DEF Client
  <2>. HIDE DEF b, c
  <2>. QED BY <1>1, <2>1, <2>2, <2>4, <2>5 DEF ClientTypes, ClientPart
<1>7. CASE Restore
  <2>. DEFINE n == IF amqp.chan /\ amqp.registered THEN amqp.consumers + 1 ELSE amqp.consumers
              b == [amqp EXCEPT !.restoring = FALSE, !.tries = 0, !.consumers = n]
  <2>1. up' = up /\ amqp' = b
    BY <1>7 DEF Restore
  <2>2. n \in Nat /\ 0 \in 0 .. MaxTries
    BY <1>1, MailAssumption DEF Client
  <2>. HIDE DEF n
  <2>3. b \in Client /\ b.conn = amqp.conn /\ b.chan = amqp.chan
    BY <1>1, <2>2 DEF Client
  <2>. HIDE DEF b
  <2>. QED BY <1>1, <2>1, <2>3 DEF ClientTypes, ClientPart
<1>8. CASE ConnectionLost
  <2>1. amqp' = Retrying([amqp EXCEPT !.conn = FALSE, !.chan = FALSE, !.consumers = 0])
        /\ up' \in BOOLEAN /\ Fault("conn")
    BY <1>1, <1>8 DEF ConnectionLost, ConnectionGone
  <2>2. [amqp EXCEPT !.conn = FALSE, !.chan = FALSE, !.consumers = 0] \in Client
    BY <1>1 DEF Client
  <2>. QED BY <1>1, <2>1, <2>2, InitialisedIs, FaultIs DEF ClientTypes, ClientPart, Without
<1>9. CASE BrokerReturns
  BY <1>1, <1>9 DEF BrokerReturns, ClientTypes, ClientPart
<1>10. CASE Boot
  <2>. DEFINE n == IF amqp.chan THEN amqp.consumers + 1 ELSE amqp.consumers
              b == [amqp EXCEPT !.registered = TRUE, !.consumers = n]
  <2>1. up' = up /\ (amqp' = amqp \/ amqp' = b \/ amqp' = Initialised(amqp))
    <3>1. stage = "init" \/ stage = "jobs" \/ (stage # "init" /\ stage # "jobs")
      OBVIOUS
    <3>. QED BY <1>10, <3>1 DEF Boot
  <2>2. n \in Nat
    BY <1>1 DEF Client
  <2>. HIDE DEF n
  <2>3. b \in Client /\ b.conn = amqp.conn /\ b.chan = amqp.chan
    BY <1>1, <2>2 DEF Client
  <2>. HIDE DEF b
  <2>. QED BY <1>1, <2>1, <2>3, InitialisedIs DEF ClientTypes, ClientPart
<1>11. CASE BootFails \/ UNCHANGED mailVars
  BY <1>2, <1>11 DEF BootFails, mailVars, notifyVars
<1>12. CASE NotifyCrash
  <2>1. amqp' = NoClient /\ up' = up /\ Fault("crash")
    BY <1>12 DEF NotifyCrash, Restarted
  <2>2. NoClient \in Client
    BY MailAssumption DEF NoClient, Client
  <2>. QED BY <1>1, <2>1, <2>2, FaultIs DEF ClientTypes, ClientPart, Without
<1>. QED BY <1>3, <1>4, <1>5, <1>6, <1>7, <1>8, <1>9, <1>10, <1>11, <1>12 DEF NotifyMoves, ClientStep

JobTable == [Place -> [Event -> Nat]]

\* A job that goes from one place to another, or away.
MovedTo(js, e, from, to) == [js EXCEPT ![from][e] = @ - 1, ![to][e] = @ + 1]
TakenFrom(js, e, from)   == [js EXCEPT ![from][e] = @ - 1]

\* What a move does to the table of jobs.
LEMMA MovedIs ==
    ASSUME NEW js \in JobTable, NEW e \in Event, NEW from \in Place, NEW to \in Place, from # to,
           js[from][e] > 0
    PROVE  /\ MovedTo(js, e, from, to) \in JobTable
           /\ MovedTo(js, e, from, to)[from][e] = js[from][e] - 1
           /\ MovedTo(js, e, from, to)[to][e] = js[to][e] + 1
           /\ \A p \in Place \ {from, to} : MovedTo(js, e, from, to)[p] = js[p]
           /\ \A p \in Place, x \in Event \ {e} : MovedTo(js, e, from, to)[p][x] = js[p][x]
<1>. DEFINE less == [js[from] EXCEPT ![e] = @ - 1]
            more == [js[to] EXCEPT ![e] = @ + 1]
            new == [js EXCEPT ![from] = less, ![to] = more]
<1>1. js[from] \in [Event -> Nat] /\ js[to] \in [Event -> Nat]
  BY DEF JobTable
<1>2. /\ less \in [Event -> Nat] /\ less[e] = js[from][e] - 1
      /\ \A x \in Event \ {e} : less[x] = js[from][x]
  BY <1>1
<1>3. /\ more \in [Event -> Nat] /\ more[e] = js[to][e] + 1
      /\ \A x \in Event \ {e} : more[x] = js[to][x]
  BY <1>1
<1>4. MovedTo(js, e, from, to) = new
  BY DEF MovedTo
<1>. HIDE DEF less, more
<1>5. new \in JobTable /\ new[from] = less /\ new[to] = more
      /\ \A p \in Place \ {from, to} : new[p] = js[p]
  BY <1>2, <1>3 DEF JobTable
<1>. HIDE DEF new
<1>. QED BY <1>2, <1>3, <1>4, <1>5

\* What taking a job away does to it.
LEMMA TakenIs ==
    ASSUME NEW js \in JobTable, NEW e \in Event, NEW from \in Place, js[from][e] > 0
    PROVE  /\ TakenFrom(js, e, from) \in JobTable
           /\ TakenFrom(js, e, from)[from][e] = js[from][e] - 1
           /\ \A p \in Place \ {from} : TakenFrom(js, e, from)[p] = js[p]
           /\ \A p \in Place, x \in Event \ {e} : TakenFrom(js, e, from)[p][x] = js[p][x]
<1>. DEFINE less == [js[from] EXCEPT ![e] = @ - 1]
            new == [js EXCEPT ![from] = less]
<1>1. js[from] \in [Event -> Nat]
  BY DEF JobTable
<1>2. /\ less \in [Event -> Nat] /\ less[e] = js[from][e] - 1
      /\ \A x \in Event \ {e} : less[x] = js[from][x]
  BY <1>1
<1>3. TakenFrom(js, e, from) = new
  BY DEF TakenFrom
<1>. HIDE DEF less
<1>4. new \in JobTable /\ new[from] = less /\ \A p \in Place \ {from} : new[p] = js[p]
  BY <1>2 DEF JobTable
<1>. HIDE DEF new
<1>. QED BY <1>2, <1>3, <1>4

\* What is put back in the queue is counted.
LEMMA RequeuedIs ==
    ASSUME NEW js \in JobTable
    PROVE  /\ Requeued(js) \in JobTable
           /\ [Requeued(js) EXCEPT !["wire"] = None] \in JobTable
           /\ [Requeued(js) EXCEPT !["wire"] = None, !["stale"] = None, !["late"] = None] \in JobTable
<1>. DEFINE a == [e \in Event |-> js["queue"][e] + js["held"][e] + js["answered"][e]]
            b == [e \in Event |-> js["stale"][e] + js["held"][e]]
            c == [e \in Event |-> js["late"][e] + js["answered"][e]]
            q == [js EXCEPT !["queue"] = a, !["stale"] = b, !["late"] = c,
                            !["held"] = None, !["answered"] = None]
<1>1. None \in [Event -> Nat]
  BY DEF None
<1>2. a \in [Event -> Nat] /\ b \in [Event -> Nat] /\ c \in [Event -> Nat]
  BY DEF JobTable, Place
<1>3. Requeued(js) = q
  BY DEF Requeued
<1>. HIDE DEF a, b, c
<1>4. q \in JobTable
  BY <1>1, <1>2 DEF JobTable
<1>. HIDE DEF q
<1>. QED BY <1>1, <1>3, <1>4 DEF JobTable

JobsHold == CountTypes /\ JobPart

\* After a fault that takes channels or jobs, no job is promised anything.
LEMMA JobsAfterFault ==
    ASSUME CountTypes', ~Without({"conn", "crash"})'
    PROVE  JobsHold'
BY DEF JobsHold, JobPart, JobOf, Without

\* What nobody touches stays.
LEMMA JobStays ==
    ASSUME JobsHold, NEW e \in Event, faults.kinds \subseteq faults'.kinds,
           mailed'[e] = mailed[e], published'[e] = published[e],
           \A p \in Place : jobs'[p][e] = jobs[p][e]
    PROVE  JobOf(e)'
BY DEF JobsHold, JobPart, JobOf, Without, Place

\* A job goes from one place to another.
LEMMA JobMoves ==
    ASSUME JobsHold, FaultTypes, NEW e \in Event,
           Arrive(e) \/ Deliver(e) \/ Mail(e) \/ Nack(e) \/ Ack(e)
    PROVE  JobsHold'
<1>1. /\ jobs \in JobTable /\ mailed \in [Event -> Nat] /\ published \in [Event -> Nat]
      /\ \A p \in Place : jobs[p][e] \in Nat
      /\ mailed[e] \in Nat /\ published[e] \in Nat /\ JobOf(e)
  BY DEF JobsHold, CountTypes, JobTable, JobPart
<1>2. faults.kinds \subseteq faults'.kinds /\ published' = published
  <2>1. Fault("smtp") => faults.kinds \subseteq faults'.kinds
    BY FaultIs
  <2>2. Fault("handler") => faults.kinds \subseteq faults'.kinds
    BY FaultIs
  <2>. QED BY <2>1, <2>2 DEF Arrive, Deliver, Mail, Nack, Ack
<1>3. ASSUME jobs' \in JobTable, mailed' \in [Event -> Nat], JobOf(e)',
             \A p \in Place, x \in Event \ {e} : jobs'[p][x] = jobs[p][x],
             \A x \in Event \ {e} : mailed'[x] = mailed[x]
      PROVE  JobsHold'
  <2>1. \A x \in Event \ {e} : JobOf(x)'
    BY <1>2, <1>3, JobStays
  <2>. QED BY <1>1, <1>2, <1>3, <2>1 DEF JobsHold, JobPart, CountTypes, JobTable
<1>4. ASSUME NEW from \in Place, NEW to \in Place, from # to, jobs[from][e] > 0,
             jobs' = Move(e, from, to)
      PROVE  /\ jobs' \in JobTable
             /\ jobs'[from][e] = jobs[from][e] - 1 /\ jobs'[to][e] = jobs[to][e] + 1
             /\ \A p \in Place \ {from, to} : jobs'[p] = jobs[p]
             /\ \A p \in Place, x \in Event \ {e} : jobs'[p][x] = jobs[p][x]
  <2>1. jobs' = MovedTo(jobs, e, from, to)
    BY <1>4 DEF Move, MovedTo
  <2>. QED BY <1>1, <1>4, <2>1, MovedIs
<1>5. Without({"conn", "crash"})' => Without({"conn", "crash"})
  BY <1>2 DEF Without
<1>6. Without({"conn", "crash", "smtp"})' => Without({"conn", "crash", "smtp"}) /\ Without({"conn", "crash"})
  BY <1>2 DEF Without
<1>7. CASE Arrive(e)
  <2>1. jobs["wire"][e] > 0 /\ jobs' = Move(e, "wire", "queue") /\ mailed' = mailed
    BY <1>7 DEF Arrive
  <2>2. /\ jobs' \in JobTable
        /\ jobs'["wire"][e] = jobs["wire"][e] - 1 /\ jobs'["queue"][e] = jobs["queue"][e] + 1
        /\ \A p \in Place \ {"wire", "queue"} : jobs'[p] = jobs[p]
        /\ \A p \in Place, x \in Event \ {e} : jobs'[p][x] = jobs[p][x]
    BY <1>4, <2>1 DEF Place
  <2>3. jobs'["queue"][e] > 0
    BY <1>1, <2>2 DEF Place
  <2>4. JobOf(e)'
    BY <1>1, <1>2, <1>5, <1>6, <2>1, <2>2, <2>3 DEF JobOf, Place
  <2>. QED BY <1>1, <1>3, <2>1, <2>2, <2>4
<1>8. CASE Deliver(e)
  <2>1. jobs["queue"][e] > 0 /\ jobs' = Move(e, "queue", "held") /\ mailed' = mailed
    BY <1>8 DEF Deliver
  <2>2. /\ jobs' \in JobTable
        /\ jobs'["queue"][e] = jobs["queue"][e] - 1 /\ jobs'["held"][e] = jobs["held"][e] + 1
        /\ \A p \in Place \ {"queue", "held"} : jobs'[p] = jobs[p]
        /\ \A p \in Place, x \in Event \ {e} : jobs'[p][x] = jobs[p][x]
    BY <1>4, <2>1 DEF Place
  <2>3. jobs'["held"][e] > 0
    BY <1>1, <2>2 DEF Place
  <2>4. JobOf(e)'
    BY <1>1, <1>2, <1>5, <1>6, <2>1, <2>2, <2>3 DEF JobOf, Place
  <2>. QED BY <1>1, <1>3, <2>1, <2>2, <2>4
<1>9. CASE Nack(e)
  <2>1. jobs["held"][e] > 0 /\ jobs' = Move(e, "held", "dead") /\ mailed' = mailed
    BY <1>9 DEF Nack
  <2>2. /\ jobs' \in JobTable
        /\ jobs'["held"][e] = jobs["held"][e] - 1 /\ jobs'["dead"][e] = jobs["dead"][e] + 1
        /\ \A p \in Place \ {"held", "dead"} : jobs'[p] = jobs[p]
        /\ \A p \in Place, x \in Event \ {e} : jobs'[p][x] = jobs[p][x]
    BY <1>4, <2>1 DEF Place
  <2>3. jobs'["dead"][e] > 0
    BY <1>1, <2>2 DEF Place
  <2>4. JobOf(e)'
    BY <1>1, <1>2, <1>5, <1>6, <2>1, <2>2, <2>3 DEF JobOf, Place
  <2>. QED BY <1>1, <1>3, <2>1, <2>2, <2>4
<1>10. CASE Ack(e)
  <2>1. jobs["answered"][e] > 0 /\ jobs' = Removed(e, "answered") /\ mailed' = mailed
    BY <1>10 DEF Ack
  <2>2. /\ jobs' \in JobTable /\ jobs'["answered"][e] = jobs["answered"][e] - 1
        /\ \A p \in Place \ {"answered"} : jobs'[p] = jobs[p]
        /\ \A p \in Place, x \in Event \ {e} : jobs'[p][x] = jobs[p][x]
    <3>1. jobs' = TakenFrom(jobs, e, "answered") /\ "answered" \in Place
      BY <2>1 DEF Removed, TakenFrom, Place
    <3>. QED BY <1>1, <2>1, <3>1, TakenIs
  <2>3. JobOf(e)'
    BY <1>1, <1>2, <1>5, <1>6, <2>1, <2>2 DEF JobOf, Place
  <2>. QED BY <1>1, <1>3, <2>1, <2>2, <2>3
<1>11. CASE Mail(e)
  <2>1. PICK hand \in {<<"held", "answered">>, <<"stale", "late">>} :
           jobs[hand[1]][e] > 0 /\ jobs' = Move(e, hand[1], hand[2])
    BY <1>11 DEF Mail
  <2>2. /\ mailed' \in [Event -> Nat] /\ \A x \in Event \ {e} : mailed'[x] = mailed[x]
        /\ \/ mailed'[e] = mailed[e] + 1
           \/ mailed'[e] = mailed[e] /\ ~Without({"conn", "crash", "smtp"})'
    <3>1. CASE mailed' = [mailed EXCEPT ![e] = @ + 1]
      BY <1>1, <3>1
    <3>2. CASE Fault("smtp") /\ mailed' = mailed
      BY <1>1, <3>2, FaultIs DEF Without
    <3>. QED BY <1>11, <3>1, <3>2 DEF Mail
  <2>3. CASE hand = <<"held", "answered">>
    <3>1. /\ jobs' \in JobTable /\ jobs["held"][e] > 0
          /\ jobs'["held"][e] = jobs["held"][e] - 1 /\ jobs'["answered"][e] = jobs["answered"][e] + 1
          /\ \A p \in Place \ {"held", "answered"} : jobs'[p] = jobs[p]
          /\ \A p \in Place, x \in Event \ {e} : jobs'[p][x] = jobs[p][x]
      BY <1>4, <2>1, <2>3 DEF Place
    <3>2. JobOf(e)'
      BY <1>1, <1>2, <1>5, <1>6, <2>2, <3>1 DEF JobOf, Place
    <3>. QED BY <1>3, <2>2, <3>1, <3>2
  <2>4. CASE hand = <<"stale", "late">>
    <3>1. /\ jobs' \in JobTable /\ jobs["stale"][e] > 0
      BY <1>4, <2>1, <2>4 DEF Place
    <3>2. ~Without({"conn", "crash"})'
      BY <1>5, <3>1, LateIs DEF JobsHold
    <3>. QED BY <1>1, <1>2, <2>2, <3>1, <3>2, JobsAfterFault DEF CountTypes, JobTable
  <2>. QED BY <2>1, <2>3, <2>4
<1>. QED BY <1>7, <1>8, <1>9, <1>10, <1>11

\* A job is published.
LEMMA JobPublished ==
    ASSUME JobsHold, ReaderHolds, NEW k \in Mails, Publish(k), faults.kinds \subseteq faults'.kinds
    PROVE  JobsHold'
<1>1. jobs \in JobTable /\ mailed \in [Event -> Nat] /\ published \in [Event -> Nat] /\ mailed' = mailed
  BY DEF JobsHold, CountTypes, JobTable, Publish
<1>2. CASE UNCHANGED <<jobs, published>>
  BY <1>1, <1>2, JobStays DEF JobsHold, CountTypes, JobPart
<1>3. CASE ~UNCHANGED <<jobs, published>>
  <2>1. PICK e \in Event : e = Message(k)
    BY MessageIs DEF Publish
  <2>2. /\ jobs' = [jobs EXCEPT !["wire"][e] = @ + 1]
        /\ published' = [published EXCEPT ![e] = @ + 1]
    BY <1>3, <2>1 DEF Publish
  <2>3. "wire" \in Place /\ jobs["wire"] \in [Event -> Nat] /\ jobs["wire"][e] \in Nat
    BY <1>1 DEF JobTable, Place
  <2>. DEFINE more == [jobs["wire"] EXCEPT ![e] = @ + 1]
  <2>4. jobs' = [jobs EXCEPT !["wire"] = more]
    BY <2>2
  <2>5. more \in [Event -> Nat] /\ more[e] = jobs["wire"][e] + 1 /\ \A x \in Event \ {e} : more[x] = jobs["wire"][x]
    BY <2>3
  <2>. HIDE DEF more
  <2>6. jobs' \in JobTable /\ jobs'["wire"] = more /\ \A p \in Place \ {"wire"} : jobs'[p] = jobs[p]
    BY <1>1, <2>3, <2>4, <2>5 DEF JobTable
  <2>7. /\ published' \in [Event -> Nat] /\ published'[e] = published[e] + 1
        /\ \A x \in Event \ {e} : published'[x] = published[x]
    BY <1>1, <2>2
  <2>8. \A x \in Event \ {e} : JobOf(x)'
    <3>1. \A p \in Place, x \in Event \ {e} : jobs'[p][x] = jobs[p][x]
      BY <2>5, <2>6
    <3>. QED BY <1>1, <2>7, <3>1, JobStays
  <2>9. JobOf(e)'
    <3>1. JobOf(e) /\ mailed[e] \in Nat /\ published[e] \in Nat /\ \A p \in Place : jobs[p][e] \in Nat
      BY <1>1 DEF JobsHold, JobPart, JobTable
    <3>2. jobs'["wire"][e] = jobs["wire"][e] + 1 /\ \A p \in Place \ {"wire"} : jobs'[p][e] = jobs[p][e]
      BY <2>5, <2>6
    <3>3. jobs'["wire"][e] > 0
      BY <2>3, <3>2
    <3>. QED BY <1>1, <2>7, <3>1, <3>2, <3>3 DEF JobOf, Place, Without
  <2>. QED BY <1>1, <2>6, <2>7, <2>8, <2>9 DEF JobsHold, JobPart, CountTypes, JobTable
<1>. QED BY <1>2, <1>3

\* The ack that comes too late, a lost connection and the end of the process: after each of
\* them no job is promised anything.
LEMMA JobsRequeued ==
    ASSUME JobsHold, FaultTypes, (\E e \in Event : LateAck(e)) \/ ConnectionLost \/ NotifyCrash
    PROVE  JobsHold'
<1>1. /\ jobs \in JobTable /\ mailed \in [Event -> Nat] /\ published \in [Event -> Nat]
      /\ UNCHANGED <<mailed, published>>
  BY DEF JobsHold, CountTypes, JobTable, LateAck, ConnectionLost, NotifyCrash
<1>2. ASSUME jobs' \in JobTable, ~Without({"conn", "crash"})' PROVE JobsHold'
  BY <1>1, <1>2, JobsAfterFault DEF CountTypes, JobTable
<1>3. CASE ConnectionLost
  <2>1. jobs' \in JobTable
    BY <1>1, <1>3, RequeuedIs DEF ConnectionLost
  <2>2. Fault("conn")
    BY <1>3 DEF ConnectionLost
  <2>. QED BY <1>2, <2>1, <2>2, FaultIs DEF Without
<1>4. CASE NotifyCrash
  <2>1. jobs' \in JobTable
    BY <1>1, <1>4, RequeuedIs DEF NotifyCrash, Restarted
  <2>2. Fault("crash")
    BY <1>4 DEF NotifyCrash
  <2>. QED BY <1>2, <2>1, <2>2, FaultIs DEF Without
<1>5. ASSUME NEW e \in Event, LateAck(e) PROVE JobsHold'
  <2>1. jobs["late"][e] > 0 /\ faults' = faults /\ "late" \in Place
    BY <1>5 DEF LateAck, Place
  <2>2. ~Without({"conn", "crash"})'
    BY <2>1, LateIs DEF Without, JobsHold
  <2>. DEFINE left == TakenFrom(jobs, e, "late")
  <2>3. left \in JobTable /\ \A p \in Place \ {"late"} : left[p] = jobs[p]
    BY <1>1, <2>1, TakenIs
  <2>4. Removed(e, "late") = left
    BY DEF Removed, TakenFrom
  <2>. HIDE DEF left
  <2>5. CASE Restarted(jobs)
    BY <1>1, <1>2, <2>2, <2>5, RequeuedIs DEF Restarted
  <2>6. CASE jobs' = Requeued(Removed(e, "late"))
    BY <1>2, <2>2, <2>3, <2>4, <2>6, RequeuedIs
  <2>7. ASSUME NEW f \in Event, NEW h \in {<<"held", "stale">>, <<"answered", "late">>}, jobs[h[1]][f] > 0,
               jobs' = [Removed(e, "late") EXCEPT ![h[1]][f] = @ - 1, ![h[2]][f] = @ + 1]
        PROVE  JobsHold'
    <3>1. h[1] \in Place \ {"late"} /\ h[2] \in Place /\ h[1] # h[2]
      BY DEF Place
    <3>2. left[h[1]][f] > 0
      BY <2>3, <2>7, <3>1
    <3>3. jobs' = MovedTo(left, f, h[1], h[2])
      BY <2>4, <2>7 DEF MovedTo
    <3>4. jobs' \in JobTable
      BY <2>3, <3>1, <3>2, <3>3, MovedIs
    <3>. QED BY <1>2, <2>2, <3>4
  <2>. QED BY <1>5, <2>5, <2>6, <2>7 DEF LateAck
<1>. QED BY <1>3, <1>4, <1>5

\* No step of either service breaks what is known of the jobs.
LEMMA JobsKeep ==
    ASSUME JobsHold, ReaderHolds, FaultTypes, faults.kinds \subseteq faults'.kinds,
           (OutboxMoves /\ UNCHANGED notifyVars) \/ NotifyMoves
    PROVE  JobsHold'
<1>1. ASSUME UNCHANGED <<jobs, published, mailed>> PROVE JobsHold'
  BY <1>1, JobStays DEF JobsHold, CountTypes, JobPart
<1>2. CASE OutboxMoves /\ UNCHANGED notifyVars
  BY <1>1, <1>2 DEF notifyVars
<1>3. CASE \E e \in Event : JobStep(e) \/ Nack(e)
  BY <1>3, JobMoves, JobsRequeued DEF JobStep
<1>4. CASE \E k \in Mails : ReaderStep(k) \/ Commit(k)
  <2>1. PICK k \in Mails : ReaderStep(k) \/ Commit(k)
    BY <1>4
  <2>2. CASE Publish(k)
    BY <2>2, JobPublished
  <2>3. CASE ~Publish(k)
    BY <1>1, <2>1, <2>3 DEF ReaderStep, Commit, Take, Claim
  <2>. QED BY <2>2, <2>3
<1>5. CASE ClientStep \/ BrokerReturns \/ Boot \/ BootFails \/ UNCHANGED mailVars
  BY <1>1, <1>5 DEF ClientStep, Reconnect, Restore, BrokerReturns, Boot, BootFails, mailVars, notifyVars
<1>6. CASE ConnectionLost \/ NotifyCrash
  BY <1>6, JobsRequeued
<1>. QED BY <1>2, <1>3, <1>4, <1>5, <1>6 DEF NotifyMoves

-----------------------------------------------------------------------------
(* The invariant                                                            *)

\* The outbox is not touched by the notification service.
LEMMA OutboxStays ==
    ASSUME OutboxHolds, UNCHANGED <<outboxVars, topic>>
    PROVE  OutboxHolds' /\ TopicGrows
<1>1. UNCHANGED <<row, poll, breaker, ready, attempts, topic>>
  BY DEF outboxVars
<1>2. topic' \in [Kind -> Seq(Event)] /\ TopicGrows /\ TopicPart'
  BY <1>1, TopicsStay DEF OutboxHolds
<1>3. OutboxTypes /\ OutboxTypes' /\ attempts' \in [Event -> Nat]
  BY <1>1 DEF OutboxHolds, OutboxTypes
<1>4. Stays
  BY <1>1, <1>3 DEF Stays, Emitted, OutboxTypes
<1>5. OutboxPart'
  BY <1>1, <1>3, <1>4, CycleStays, RowsStay DEF OutboxHolds, OutboxPart
<1>. QED BY <1>2, <1>3, <1>5 DEF OutboxHolds

\* The invariant holds at the start.
LEMMA MailStart == MailInit => MailInv
<1>. SUFFICES ASSUME MailInit PROVE MailInv
  OBVIOUS
<1>1. None \in [Event -> Nat] /\ \A e \in Event : None[e] = 0
  BY DEF None
<1>2. OutboxTypes
  BY <1>1, IdlePollIs DEF MailInit, OutboxTypes, NoRow
<1>3. /\ topic = [k \in Kind |-> <<>>] /\ reader = [k \in Mails |-> Off]
      /\ Off \in Reading /\ ~Off.on /\ Off.pc = "idle" /\ Off.at = 0 /\ Off.committed = 0
  BY DEF MailInit, Off, Reading
<1>4. \A k \in Mails : k \in Kind
  BY DEF Kind
<1>5. TopicTypes /\ ReaderTypes
  BY <1>3, <1>4 DEF MailInit, TopicTypes, ReaderTypes
<1>6. NoClient \in Client
  BY MailAssumption DEF NoClient, Client
<1>7. ClientTypes /\ CountTypes /\ FaultTypes
  BY <1>1, <1>6 DEF MailInit, ClientTypes, CountTypes, FaultTypes
<1>8. OutboxPart
  <2>1. \A r \in Replica : CycleOf(r)
    BY <1>1, IdlePollIs DEF MailInit, CycleOf, Current
  <2>2. \A e \in Event : RowOf(e)
    BY <1>1 DEF MailInit, RowOf, NoRow
  <2>. QED BY <2>1, <2>2 DEF OutboxPart
<1>9. ReaderPart
  <2>1. TopicPart
    BY <1>3 DEF TopicPart
  <2>2. \A k \in Mails : ReaderOf(k)
    BY <1>3 DEF ReaderOf
  <2>3. StageOK
    BY <1>3 DEF StageOK, Mails
  <2>4. ClaimPart
    BY <1>1 DEF MailInit, ClaimPart
  <2>. QED BY <2>1, <2>2, <2>3, <2>4 DEF ReaderPart
<1>10. ClientPart
  BY DEF MailInit, ClientPart, NoClient
<1>11. JobPart
  <2>1. \A p \in Place, e \in Event : jobs[p][e] = 0
    BY <1>1 DEF MailInit
  <2>2. \A e \in Event : mailed[e] = 0 /\ published[e] = 0
    BY <1>1 DEF MailInit
  <2>. QED BY <2>1, <2>2 DEF JobPart, JobOf, Place
<1>. QED BY <1>2, <1>5, <1>7, <1>8, <1>9, <1>10, <1>11, TypeParts DEF MailInv

\* Every step keeps it, part by part.
LEMMA MailStep == MailInv /\ [MailNext]_mailVars => MailInv'
<1>. SUFFICES ASSUME MailInv, [MailNext]_mailVars PROVE MailInv'
  OBVIOUS
<1>1. OutboxHolds /\ ReaderHolds /\ JobsHold /\ FaultTypes /\ ClientTypes /\ ClientPart
  BY TypeParts DEF MailInv, OutboxHolds, ReaderHolds, JobsHold, TopicTypes, CountTypes, ReaderPart
<1>2. FaultTypes' /\ faults.kinds \subseteq faults'.kinds
  BY <1>1, FaultsStay
<1>3. \/ OutboxMoves /\ UNCHANGED notifyVars
      \/ NotifyMoves /\ UNCHANGED <<outboxVars, topic>>
  BY MailMoves
<1>4. OutboxHolds' /\ TopicGrows
  BY <1>1, <1>3, OutboxKeeps, OutboxStays
<1>5. ReaderHolds'
  <2>1. CASE OutboxMoves /\ UNCHANGED notifyVars
    BY <1>1, <1>2, <1>4, <2>1, TopicKeepsReaders DEF OutboxHolds
  <2>2. CASE NotifyMoves /\ UNCHANGED <<outboxVars, topic>>
    BY <1>1, <1>2, <2>2, ReadersKeep DEF JobsHold
  <2>. QED BY <1>3, <2>1, <2>2
<1>6. ClientTypes' /\ ClientPart'
  BY <1>1, <1>2, <1>3, ClientKeeps DEF JobsHold
<1>7. JobsHold'
  BY <1>1, <1>2, <1>3, JobsKeep
<1>. QED BY <1>2, <1>4, <1>5, <1>6, <1>7, TypeParts DEF MailInv, OutboxHolds, ReaderHolds, JobsHold

-----------------------------------------------------------------------------
(* What follows                                                             *)

\* A mail marked as processed is sent or on its way: its message is unread, about to be
\* published, or a job.
LEMMA MailKept == MailInv => NoMailLost
<1>. SUFFICES ASSUME MailInv, Without({"conn", "crash", "rabbit", "redis", "smtp"}), NEW e \in Event,
                     row[e].processed, KindOf[e] \in Mails
              PROVE  mailed[e] > 0 \/ OnItsWay(e)
  BY DEF NoMailLost
<1>. DEFINE k == KindOf[e]
<1>1. Emitted(e)
  BY DEF MailInv, OutboxPart, RowOf
<1>2. PICK i \in 1 .. Len(topic[k]) : topic[k][i] = e
  BY <1>1 DEF Emitted
<1>3. k \in Kind /\ k \in Mails /\ topic[k] \in Seq(Event) /\ Len(topic[k]) \in Nat /\ reader[k] \in Reading
      /\ reader[k].at \in Nat
  BY MailAssumption, TypeParts DEF MailInv, TopicTypes, ReaderTypes, Reading
<1>4. ReaderOf(k) /\ ClaimPart /\ JobOf(e)
  BY <1>3 DEF MailInv, ReaderPart, JobPart
<1>5. CASE i > reader[k].at
  BY <1>2, <1>5 DEF OnItsWay
<1>6. CASE ~(i > reader[k].at)
  <2>1. i \in 1 .. reader[k].at
    BY <1>3, <1>6
  <2>2. e \in claimed
    BY <1>2, <1>4, <2>1 DEF ReaderOf
  <2>3. published[e] > 0 \/ Publishing(e)
    BY <1>4, <2>2 DEF ClaimPart, Without
  <2>4. CASE published[e] > 0
    BY <1>4, <2>4 DEF JobOf, Without, OnItsWay
  <2>5. CASE Publishing(e)
    <3>1. reader[k].at < Len(topic[k]) /\ topic[k][reader[k].at + 1] = e
      BY <1>4, <2>5 DEF ReaderOf, Publishing, Message
    <3>2. reader[k].at + 1 \in 1 .. Len(topic[k]) /\ reader[k].at + 1 > reader[k].at
      BY <1>3, <3>1
    <3>. QED BY <3>1, <3>2 DEF OnItsWay
  <2>. QED BY <2>3, <2>4, <2>5
<1>. QED BY <1>5, <1>6

\* The invariant implies what the runs check.
LEMMA MailImplied == MailInv => MailSound
<1>. SUFFICES ASSUME MailInv PROVE MailSound
  OBVIOUS
<1>1. JobOnce
  BY DEF MailInv, ReaderPart, ClaimPart, JobOnce
<1>2. MailedOnce
  <2>. SUFFICES ASSUME Without({"conn", "crash"}), NEW e \in Event PROVE mailed[e] <= 1
    BY DEF MailedOnce
  <2>1. /\ mailed[e] \in Nat /\ published[e] \in Nat
        /\ jobs["wire"][e] \in Nat /\ jobs["queue"][e] \in Nat /\ jobs["held"][e] \in Nat
    BY TypeParts DEF MailInv, CountTypes, Place
  <2>2. published[e] <= 1
    BY <1>1 DEF JobOnce
  <2>3. mailed[e] + jobs["wire"][e] + jobs["queue"][e] + jobs["held"][e] <= published[e]
    BY DEF MailInv, JobPart, JobOf
  <2>. QED BY <2>1, <2>2, <2>3
<1>3. PoisonAfterRetries
  BY DEF MailInv, OutboxPart, RowOf, PoisonAfterRetries
<1>. QED BY <1>1, <1>2, <1>3, MailKept DEF MailSound, MailInv

\* From the account to the mailbox: in every reachable state an event is at most one job,
\* and at most one mail unless a channel or the process was lost; a row marked as processed
\* is a mail sent or on its way; and no row is given up before it has failed MaxRetries times.
THEOREM MailCorrect == MailSpec => []MailSound
BY MailStart, MailStep, MailImplied, PTL DEF MailSpec

-----------------------------------------------------------------------------
(* The outbox implements EventDelivery                                      *)

\* What EventDelivery sees of the rows and of the topics.
Written == {e \in Event : row[e].written}
Sent    == {"kafka"} \X {e \in Event : \E i \in 1 .. Len(topic[KindOf[e]]) : topic[KindOf[e]][i] = e}
Settled == {e \in Event : row[e].processed}

Seen == [MailDelivery!Next]_<<{e \in Event : row[e].written},
                              {"kafka"} \X {e \in Event : \E i \in 1 .. Len(topic[KindOf[e]]) :
                                                              topic[KindOf[e]][i] = e},
                              {e \in Event : row[e].processed}>>

\* A step that writes a row, emits one or marks one, or nothing of it, is one of EventDelivery.
LEMMA SeenIs ==
    /\ (Written' = Written /\ Sent' = Sent /\ Settled' = Settled) => Seen
    /\ \A e \in Event : e \notin Written /\ Written' = Written \cup {e} /\ Sent' = Sent /\ Settled' = Settled
          => Seen
    /\ \A e \in Event : e \in Written /\ Written' = Written /\ Sent' = Sent \cup {<<"kafka", e>>}
                        /\ Settled' = Settled => Seen
    /\ \A e \in Event : e \in Written /\ <<"kafka", e>> \in Sent /\ Written' = Written /\ Sent' = Sent
                        /\ Settled' = Settled \cup {e} => Seen
<1>1. (Written' = Written /\ Sent' = Sent /\ Settled' = Settled) => Seen
  BY DEF Written, Sent, Settled, Seen
<1>2. ASSUME NEW e \in Event, e \notin Written, Written' = Written \cup {e}, Sent' = Sent, Settled' = Settled
      PROVE  Seen
  <2>1. MailDelivery!Write(e)
    BY <1>2 DEF MailDelivery!Write, Written, Sent, Settled
  <2>. QED BY <2>1 DEF MailDelivery!Next, Seen
<1>3. ASSUME NEW e \in Event, e \in Written, Written' = Written, Sent' = Sent \cup {<<"kafka", e>>},
             Settled' = Settled
      PROVE  Seen
  <2>1. [f \in Event |-> f][e] = e
    OBVIOUS
  <2>2. MailDelivery!Send("kafka", e)
    BY <1>3, <2>1 DEF MailDelivery!Send, Written, Sent, Settled
  <2>. QED BY <2>2 DEF MailDelivery!Next, Seen
<1>4. ASSUME NEW e \in Event, e \in Written, <<"kafka", e>> \in Sent, Written' = Written, Sent' = Sent,
             Settled' = Settled \cup {e}
      PROVE  Seen
  <2>1. {e} \in SUBSET Event /\ \A f \in {e} : [x \in Event |-> x][f] = e
    OBVIOUS
  <2>2. MailDelivery!Settle({e})
    BY <1>4, <2>1 DEF MailDelivery!Settle, Written, Sent, Settled
  <2>. QED BY <2>1, <2>2 DEF MailDelivery!Next, Seen
<1>. QED BY <1>1, <1>2, <1>3, <1>4

\* An appended message, and no other, is new in its topic.
LEMMA AppendedEmits ==
    ASSUME topic \in [Kind -> Seq(Event)], TopicPart, NEW e \in Event, Appended(e)
    PROVE  Sent' = Sent \cup {<<"kafka", e>>}
<1>1. topic' \in [Kind -> Seq(Event)] /\ TopicGrows /\ Emitted(e)'
  BY AppendedIs
<1>2. ASSUME NEW f \in Event, Emitted(f)', f # e PROVE Emitted(f)
  <2>1. KindOf[f] \in Kind /\ KindOf[e] \in Kind /\ topic[KindOf[e]] \in Seq(Event)
    BY MailAssumption
  <2>2. PICK i \in 1 .. Len(topic'[KindOf[f]]) : topic'[KindOf[f]][i] = f
    BY <1>2 DEF Emitted
  <2>3. CASE KindOf[f] # KindOf[e]
    BY <2>1, <2>2, <2>3 DEF Appended, Emitted
  <2>4. CASE KindOf[f] = KindOf[e]
    <3>. DEFINE s == topic[KindOf[e]]
    <3>1. topic'[KindOf[e]] = Append(s, e)
      BY <2>1 DEF Appended
    <3>2. Len(Append(s, e)) = Len(s) + 1 /\ Append(s, e)[Len(s) + 1] = e /\ Len(s) \in Nat
          /\ \A j \in 1 .. Len(s) : Append(s, e)[j] = s[j]
      BY <2>1
    <3>. HIDE DEF s
    <3>3. i \in 1 .. Len(s) /\ s[i] = f
      BY <1>2, <2>2, <2>4, <3>1, <3>2
    <3>. QED BY <2>4, <3>3 DEF s, Emitted
  <2>. QED BY <2>3, <2>4
<1>3. \A f \in Event : Emitted(f)' <=> Emitted(f) \/ f = e
  BY <1>1, <1>2, EmittedStays
<1>. QED BY <1>3 DEF Sent, Emitted

\* Every step is one of EventDelivery, or one it does not see.
LEMMA SeenStep == MailInv /\ [MailNext]_mailVars => Seen
<1>. SUFFICES ASSUME MailInv, [MailNext]_mailVars PROVE Seen
  OBVIOUS
<1>1. OutboxHolds
  BY TypeParts DEF MailInv, OutboxHolds, TopicTypes, ReaderPart
<1>2. row \in [Event -> [written: BOOLEAN, processed: BOOLEAN, failed: BOOLEAN, retryCount: Nat]]
  BY <1>1 DEF OutboxHolds, OutboxTypes
<1>3. /\ topic' = topic => Sent' = Sent
      /\ (\A e \in Event : row'[e].written = row[e].written) => Written' = Written
      /\ (\A e \in Event : row'[e].processed = row[e].processed) => Settled' = Settled
  BY DEF Sent, Written, Settled
<1>4. ASSUME UNCHANGED <<row, topic>> PROVE Seen
  BY <1>3, <1>4, SeenIs
<1>5. ASSUME NEW e \in Event, Request(e) PROVE Seen
  <2>1. /\ row' = [row EXCEPT ![e].written = TRUE] /\ e \notin Written /\ topic' = topic
    BY <1>5 DEF Request, Written
  <2>2. Written' = Written \cup {e} /\ Settled' = Settled
    BY <1>2, <2>1 DEF Written, Settled
  <2>. QED BY <1>3, <2>1, <2>2, SeenIs
<1>6. ASSUME NEW r \in Replica, NEW e \in Event, Emit(r, e) PROVE Seen
  <2>1. row' = row /\ e \in poll[r].todo /\ (Appended(e) \/ topic' = topic)
    BY <1>6 DEF Emit, Current
  <2>2. e \in Written
    BY <1>1, <2>1 DEF OutboxHolds, OutboxPart, CycleOf, Written
  <2>3. CASE Appended(e)
    BY <1>1, <1>3, <2>1, <2>2, <2>3, AppendedEmits, SeenIs DEF OutboxHolds
  <2>. QED BY <1>4, <2>1, <2>3
<1>7. ASSUME NEW r \in Replica, NEW e \in Event, Mark(r, e) PROVE Seen
  <2>1. /\ poll[r].pc = "mark" /\ Current(r, e) /\ topic' = topic
        /\ row' = row \/ row' = [row EXCEPT ![e].processed = TRUE]
    BY <1>7 DEF Mark
  <2>2. e \in poll[r].todo /\ Emitted(e)
    BY <1>1, <2>1 DEF OutboxHolds, OutboxPart, CycleOf, Current
  <2>3. e \in Written /\ <<"kafka", e>> \in Sent
    BY <1>1, <2>2 DEF OutboxHolds, OutboxPart, CycleOf, Written, Sent, Emitted
  <2>4. CASE row' = [row EXCEPT ![e].processed = TRUE]
    <3>1. Settled' = Settled \cup {e} /\ Written' = Written
      BY <1>2, <2>4 DEF Settled, Written
    <3>. QED BY <1>3, <2>1, <2>3, <3>1, SeenIs
  <2>. QED BY <1>4, <2>1, <2>4
<1>8. ASSUME NEW r \in Replica, NEW e \in Event, Catch(r, e) PROVE Seen
  <2>1. /\ topic' = topic
        /\ \/ row' = row
           \/ row' = [row EXCEPT ![e].retryCount = poll[r].retry[e] + 1,
                                 ![e].failed = poll[r].retry[e] + 1 >= MaxRetries]
    BY <1>8 DEF Catch, FailedOnce
  <2>2. \A x \in Event : row'[x].written = row[x].written /\ row'[x].processed = row[x].processed
    BY <1>2, <2>1
  <2>. QED BY <1>3, <2>1, <2>2, SeenIs
<1>9. ASSUME NEW r \in Replica, Select(r) \/ Closes(r) \/ Connects(r) \/ AuthCrash(r) PROVE Seen
  BY <1>4, <1>9 DEF Select, Closes, Connects, AuthCrash
<1>10. CASE OutboxMoves
  BY <1>5, <1>6, <1>7, <1>8, <1>9, <1>10 DEF OutboxMoves, OutboxStep
<1>11. CASE UNCHANGED <<outboxVars, topic>>
  BY <1>4, <1>11 DEF outboxVars
<1>. QED BY <1>10, <1>11, MailMoves

\* The auth service's poller implements EventDelivery, for any number of replicas and faults:
\* a message goes to Kafka only once its row is committed, and the row is marked as processed
\* only once Kafka has had it.
THEOREM MailDeliveryImplemented == MailSpec => ImplementsMailDelivery
<1>1. MailInit => MailDelivery!Init
  <2>. SUFFICES ASSUME MailInit PROVE MailDelivery!Init
    OBVIOUS
  <2>1. \A k \in Kind : topic[k] = <<>>
    BY DEF MailInit
  <2>2. \A e \in Event : KindOf[e] \in Kind
    BY MailAssumption
  <2>. QED BY <2>1, <2>2 DEF MailInit, NoRow, MailDelivery!Init
<1>2. MailInv /\ [MailNext]_mailVars =>
        [MailDelivery!Next]_<<{e \in Event : row[e].written},
                              {"kafka"} \X {e \in Event : \E i \in 1 .. Len(topic[KindOf[e]]) :
                                                              topic[KindOf[e]][i] = e},
                              {e \in Event : row[e].processed}>>
  BY SeenStep DEF Seen
<1>. QED BY <1>1, <1>2, MailStart, MailStep, PTL DEF MailSpec, ImplementsMailDelivery, MailDelivery!Spec
=============================================================================
