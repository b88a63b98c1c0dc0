------------------------ MODULE OutboxPollerProofs ------------------------
(***************************************************************************)
(* Theorems about OutboxPoller, for any number of replicas, overlapping    *)
(* cycles, rows, payloads and faults.                                      *)
(***************************************************************************)
EXTENDS OutboxPoller, TLAPS

\* Besides the types, what the steps need to know of a poll cycle: it works on
\* committed rows, and the brokers it has passed have had the current message.
CycleOf(r, c) ==
    \A e \in Event :
        /\ e \in cycle[r][c].todo => row[e].written
        /\ Current(r, c, e) =>
            /\ cycle[r][c].pc \in {"rabbit", "mark"} => <<"kafka", MessageOf[e]>> \in sent
            /\ cycle[r][c].pc = "mark" => <<"rabbit", MessageOf[e]>> \in sent

CycleOK == \A r \in Replica, c \in Cycle : CycleOf(r, c)

\* The same of an inline emission.
RequestOK ==
    \A e \in Event :
        /\ request[e].pc # "idle" => row[e].written
        /\ request[e].pc \in {"rabbit", "mark"} => <<"kafka", MessageOf[e]>> \in sent
        /\ request[e].pc = "mark" => <<"rabbit", MessageOf[e]>> \in sent

\* Only committed rows are processed.
ProcessedWasWritten == \A e \in Event : row[e].processed => row[e].written

IInv ==
    /\ TypeOK
    /\ CycleOK
    /\ RequestOK
    /\ ProcessedWasWritten
    /\ ProcessedWasSent

-----------------------------------------------------------------------------
(* Types                                                                   *)

LEMMA AdvanceType ==
    ASSUME NEW p \in Polling, NEW e \in Event, e \in p.todo
    PROVE  /\ Advance(p, e) \in Polling
           /\ Advance(p, e).pc = "idle" <=> Advance(p, e).todo = {}
           /\ Advance(p, e).pc \in {"idle", "kafka"}
           /\ Advance(p, e).todo \subseteq p.todo
           /\ \A f \in Event : Advance(p, e).retry[f] = p.retry[f] \/ Advance(p, e).retry[f] = 0
<1>1. CASE p.todo = {e}
  BY <1>1 DEF Advance, IdleCycle, Polling, Event
<1>2. CASE p.todo # {e}
  BY <1>2 DEF Advance, Polling
<1>. QED BY <1>1, <1>2

LEMMA AfterType ==
    ASSUME NEW b \in Broker
    PROVE  After(b) \in {"rabbit", "mark"}
BY DEF After, Broker

LEMMA RequestPc ==
    ASSUME NEW q \in Request, NEW x \in {"idle", "rabbit", "mark"}
    PROVE  [q EXCEPT !.pc = x] \in Request
BY DEF Request

LEMMA PollingPc ==
    ASSUME NEW p \in Polling, NEW x \in {"rabbit", "mark", "fail"}
    PROVE  [p EXCEPT !.pc = x] \in Polling
BY DEF Polling

LEMMA HandType ==
    ASSUME TypeOK, NEW b \in Broker, NEW e \in Event, NEW r \in Replica,
           Hand(b, e, r) \/ UNCHANGED <<sent, wire>>
    PROVE  sent' \subseteq Broker \X Message /\ wire' \subseteq Replica \X Message
<1>1. MessageOf[e] \in Message
  BY OutboxAssumption
<1>. QED BY <1>1 DEF TypeOK, Hand

LEMMA FaultType ==
    ASSUME TypeOK, NEW k, Fault(k)
    PROVE  faults' \in Nat
BY DEF TypeOK, Fault

LEMMA CaughtType ==
    ASSUME TypeOK, NEW r \in Replica, NEW c \in Cycle, NEW e \in Event, Current(r, c, e),
           Caught(r, c, e)
    PROVE  /\ cycle' \in [Replica -> [Cycle -> Polling]]
           /\ \A q \in Replica, d \in Cycle : cycle'[q][d].pc = "idle" <=> cycle'[q][d].todo = {}
           /\ breaker' \in [Replica -> Breaker]
           /\ attempts' \in [Event -> Nat]
<1>1. cycle[r][c] \in Polling /\ breaker[r] \in Breaker
  BY DEF TypeOK
<1>2. [cycle[r][c] EXCEPT !.pc = "fail"] \in Polling
  BY <1>1 DEF Polling
<1>3. cycle' \in [Replica -> [Cycle -> Polling]]
  BY <1>1, <1>2 DEF TypeOK, Caught, Polling
<1>4. \A q \in Replica, d \in Cycle : cycle'[q][d].pc = "idle" <=> cycle'[q][d].todo = {}
  BY <1>1 DEF TypeOK, Caught, Current, Polling
<1>5. breaker' \in [Replica -> Breaker]
  <2>. DEFINE n == IF breaker[r].failures < Threshold THEN breaker[r].failures + 1
                                                       ELSE breaker[r].failures
  <2>1. n \in 0 .. Threshold
    BY <1>1, OutboxAssumption DEF Breaker
  <2>2. breaker' = [breaker EXCEPT ![r] = [breaker[r] EXCEPT !.failures = n]]
    BY DEF Caught
  <2>3. [breaker[r] EXCEPT !.failures = n] \in Breaker
    BY <1>1, <2>1 DEF Breaker
  <2>. QED BY <2>2, <2>3 DEF TypeOK
<1>6. attempts' \in [Event -> Nat]
  BY DEF TypeOK, Caught
<1>. QED BY <1>3, <1>4, <1>5, <1>6
-----------------------------------------------------------------------------
LEMMA TypeStep ==
    ASSUME TypeOK, [Next]_vars
    PROVE  TypeOK'
<1>. USE DEF TypeOK
<1>1. ASSUME NEW e \in Event, NEW r \in Replica, NEW byId \in BOOLEAN, Write(e, r, byId)
      PROVE  TypeOK'
  <2>1. row' \in [Event -> Row]
    BY <1>1 DEF Write, Row
  <2>2. request' \in [Event -> Request]
    BY <1>1 DEF Write, Request
  <2>. QED BY <1>1, <2>1, <2>2 DEF Write
<1>2. ASSUME NEW e \in Event, NEW b \in Broker, RequestEmit(e, b)
      PROVE  TypeOK'
  <2>1. request[e].replica \in Replica
    BY DEF Request
  <2>2. \/ Accepted(b, e, request[e].replica)
        \/ Refused(b, e, request[e].replica)
    BY <1>2 DEF RequestEmit
  <2>3. sent' \subseteq Broker \X Message /\ wire' \subseteq Replica \X Message
    BY <2>1, <2>2, HandType DEF Accepted, Refused
  <2>4. faults' \in Nat
    BY <2>2, FaultType DEF Accepted, Refused
  <2>5. request' \in [Event -> Request]
    <3>1. request' = [request EXCEPT ![e].pc = After(b)] \/ request' = [request EXCEPT ![e].pc = "idle"]
      BY <1>2 DEF RequestEmit
    <3>2. [request[e] EXCEPT !.pc = After(b)] \in Request /\ [request[e] EXCEPT !.pc = "idle"] \in Request
      BY RequestPc, AfterType
    <3>. QED BY <3>1, <3>2
  <2>. QED BY <1>2, <2>3, <2>4, <2>5 DEF RequestEmit
<1>3. ASSUME NEW e \in Event, RequestMark(e)
      PROVE  TypeOK'
  <2>1. row' \in [Event -> Row]
    <3>1. CASE UNCHANGED row
      BY <3>1
    <3>2. CASE row' = [f \in Event |->
                  IF f \in Marked(e) THEN [row[f] EXCEPT !.processed = TRUE] ELSE row[f]]
      BY <3>2 DEF Row
    <3>. QED BY <1>3, <3>1, <3>2 DEF RequestMark
  <2>2. request' \in [Event -> Request]
    BY <1>3, RequestPc DEF RequestMark
  <2>3. faults' \in Nat
    BY <1>3, FaultType DEF RequestMark
  <2>. QED BY <1>3, <2>1, <2>2, <2>3 DEF RequestMark
<1>4. ASSUME NEW r \in Replica, NEW c \in Cycle, PollBegin(r, c)
      PROVE  TypeOK'
  <2>. DEFINE p == [pc |-> "kafka", todo |-> Oldest,
                    retry |-> [e \in Event |-> row[e].retryCount]]
  <2>1. p \in Polling
    BY DEF Polling, Oldest, Pending, Row
  <2>2. cycle' = [cycle EXCEPT ![r][c] = p] /\ Oldest # {}
    BY <1>4 DEF PollBegin
  <2>3. cycle' \in [Replica -> [Cycle -> Polling]]
    BY <2>1, <2>2
  <2>4. \A q \in Replica, d \in Cycle : cycle'[q][d].pc = "idle" <=> cycle'[q][d].todo = {}
    BY <2>2
  <2>. QED BY <1>4, <2>3, <2>4 DEF PollBegin
<1>5. ASSUME NEW r \in Replica, NEW c \in Cycle, NEW e \in Event, NEW b \in Broker,
             PollEmit(r, c, e, b)
      PROVE  TypeOK'
  <2>1. Current(r, c, e) /\ (Accepted(b, e, r) \/ Refused(b, e, r))
    BY <1>5 DEF PollEmit
  <2>2. sent' \subseteq Broker \X Message /\ wire' \subseteq Replica \X Message
    BY <2>1, HandType DEF Accepted, Refused
  <2>3. faults' \in Nat
    BY <2>1, FaultType DEF Accepted, Refused
  <2>4. CASE cycle' = [cycle EXCEPT ![r][c].pc = After(b)] /\ UNCHANGED <<breaker, attempts>>
    <3>1. [cycle[r][c] EXCEPT !.pc = After(b)] \in Polling
      BY PollingPc, AfterType
    <3>2. cycle' \in [Replica -> [Cycle -> Polling]]
      BY <2>4, <3>1
    <3>3. \A q \in Replica, d \in Cycle : cycle'[q][d].pc = "idle" <=> cycle'[q][d].todo = {}
      BY <2>1, <2>4 DEF Current, After, Polling
    <3>. QED BY <1>5, <2>2, <2>3, <2>4, <3>2, <3>3 DEF PollEmit
  <2>5. CASE Caught(r, c, e)
    BY <1>5, <2>1, <2>2, <2>3, <2>5, CaughtType DEF PollEmit
  <2>. QED BY <1>5, <2>4, <2>5 DEF PollEmit
<1>6. ASSUME NEW r \in Replica, NEW c \in Cycle, NEW e \in Event, PollMark(r, c, e)
      PROVE  TypeOK'
  <2>1. Current(r, c, e)
    BY <1>6 DEF PollMark
  <2>2. CASE /\ row' = [row EXCEPT ![e].processed = TRUE]
             /\ cycle' = [cycle EXCEPT ![r][c] = Advance(@, e)]
             /\ breaker' = [breaker EXCEPT ![r].failures = 0]
             /\ UNCHANGED <<attempts, faults>>
    <3>1. row' \in [Event -> Row]
      BY <2>2 DEF Row
    <3>2. breaker' \in [Replica -> Breaker]
      <4>1. breaker[r] \in Breaker /\ 0 \in 0 .. Threshold
        BY OutboxAssumption
      <4>2. [breaker[r] EXCEPT !.failures = 0] \in Breaker
        BY <4>1 DEF Breaker
      <4>. QED BY <2>2, <4>2
    <3>3. cycle' = [cycle EXCEPT ![r][c] = Advance(cycle[r][c], e)]
      BY <2>2
    <3>4. /\ Advance(cycle[r][c], e) \in Polling
          /\ Advance(cycle[r][c], e).pc = "idle" <=> Advance(cycle[r][c], e).todo = {}
      BY <2>1, AdvanceType DEF Current
    <3>5. /\ cycle' \in [Replica -> [Cycle -> Polling]]
          /\ \A q \in Replica, d \in Cycle : cycle'[q][d].pc = "idle" <=> cycle'[q][d].todo = {}
      BY <3>3, <3>4
    <3>. QED BY <1>6, <2>2, <3>1, <3>2, <3>5 DEF PollMark
  <2>3. CASE Fault("db") /\ Caught(r, c, e) /\ UNCHANGED row
    BY <1>6, <2>1, <2>3, CaughtType, FaultType DEF PollMark
  <2>. QED BY <1>6, <2>2, <2>3 DEF PollMark
<1>7. ASSUME NEW r \in Replica, NEW c \in Cycle, NEW e \in Event, PollFail(r, c, e)
      PROVE  TypeOK'
  <2>1. /\ cycle' \in [Replica -> [Cycle -> Polling]]
        /\ \A q \in Replica, d \in Cycle : cycle'[q][d].pc = "idle" <=> cycle'[q][d].todo = {}
    <3>1. /\ Advance(cycle[r][c], e) \in Polling
          /\ Advance(cycle[r][c], e).pc = "idle" <=> Advance(cycle[r][c], e).todo = {}
      BY <1>7, AdvanceType DEF PollFail, Current
    <3>2. IdleCycle \in Polling /\ IdleCycle.pc = "idle" /\ IdleCycle.todo = {}
      BY DEF IdleCycle, Polling
    <3>3. CASE cycle' = [cycle EXCEPT ![r][c] = Advance(cycle[r][c], e)]
      BY <3>1, <3>3
    <3>4. CASE cycle' = [cycle EXCEPT ![r][c] = IdleCycle]
      BY <3>2, <3>4
    <3>. QED BY <1>7, <3>3, <3>4 DEF PollFail
  <2>2. breaker' \in [Replica -> Breaker]
    <3>1. [breaker[r] EXCEPT !.open = TRUE] \in Breaker
      BY DEF Breaker
    <3>2. UNCHANGED breaker \/ breaker' = [breaker EXCEPT ![r].open = TRUE]
      BY <1>7 DEF PollFail
    <3>. QED BY <3>1, <3>2
  <2>3. row' \in [Event -> Row]
    <3>1. CASE UNCHANGED row
      BY <3>1
    <3>2. CASE row' = [row EXCEPT ![e].retryCount = cycle[r][c].retry[e] + 1,
                                  ![e].failed = cycle[r][c].retry[e] + 1 >= MaxRetries]
      <4>1. cycle[r][c].retry[e] + 1 \in Nat
        BY DEF Polling
      <4>2. (cycle[r][c].retry[e] + 1 >= MaxRetries) \in BOOLEAN
        OBVIOUS
      <4>. QED BY <3>2, <4>1, <4>2 DEF Row
    <3>. QED BY <1>7, <3>1, <3>2 DEF PollFail
  <2>4. faults' \in Nat
    BY <1>7, FaultType DEF PollFail
  <2>. QED BY <1>7, <2>1, <2>2, <2>3, <2>4 DEF PollFail
<1>8. ASSUME NEW r \in Replica, CircuitCloses(r)
      PROVE  TypeOK'
  BY <1>8 DEF CircuitCloses, Breaker
<1>9. ASSUME NEW r \in Replica, ProducerConnects(r)
      PROVE  TypeOK'
  BY <1>9 DEF ProducerConnects
<1>10. ASSUME NEW r \in Replica, NEW m \in Message, Arrives(r, m)
       PROVE  TypeOK'
  BY <1>10 DEF Arrives
<1>11. ASSUME NEW r \in Replica, ConnectionDrops(r)
       PROVE  TypeOK'
  BY <1>11, FaultType DEF ConnectionDrops
<1>12. ASSUME NEW r \in Replica, ChannelCloses(r)
       PROVE  TypeOK'
  BY <1>12, FaultType DEF ChannelCloses
<1>13. ASSUME NEW r \in Replica, Crash(r)
       PROVE  TypeOK'
  <2>1. request' \in [Event -> Request]
    <3>1. \A e \in Event : [request[e] EXCEPT !.pc = "idle"] \in Request
      BY RequestPc
    <3>. QED BY <1>13, <3>1 DEF Crash
  <2>2. IdleCycle \in Polling /\ IdleCycle.pc = "idle" /\ IdleCycle.todo = {}
    BY DEF IdleCycle, Polling
  <2>3. /\ cycle' \in [Replica -> [Cycle -> Polling]]
        /\ \A q \in Replica, d \in Cycle : cycle'[q][d].pc = "idle" <=> cycle'[q][d].todo = {}
    BY <1>13, <2>2 DEF Crash
  <2>4. breaker' \in [Replica -> Breaker]
    BY <1>13, OutboxAssumption DEF Crash, ClosedBreaker, Breaker
  <2>. QED BY <1>13, <2>1, <2>3, <2>4, FaultType DEF Crash
<1>14. CASE UNCHANGED vars
  BY <1>14 DEF vars
<1>. QED
  BY <1>1, <1>2, <1>3, <1>4, <1>5, <1>6, <1>7, <1>8, <1>9, <1>10, <1>11, <1>12, <1>13, <1>14
     DEF Next, RequestStep, PollStep, Recover

LEMMA TypeInit == Init => TypeOK
<1>. SUFFICES ASSUME Init PROVE TypeOK
  OBVIOUS
<1>1. IdleCycle \in Polling /\ IdleCycle.pc = "idle" /\ IdleCycle.todo = {}
  BY DEF IdleCycle, Polling
<1>2. ClosedBreaker \in Breaker
  BY OutboxAssumption DEF ClosedBreaker, Breaker
<1>3. request \in [Event -> Request]
  BY DEF Init, Request
<1>4. row \in [Event -> Row]
  BY DEF Init, NoRow, Row
<1>. QED BY <1>1, <1>2, <1>3, <1>4 DEF Init, TypeOK

-----------------------------------------------------------------------------
(* Nothing is unwritten or unsent                                          *)

LEMMA EmitGrows ==
    ASSUME NEW b, NEW e, NEW r, Accepted(b, e, r) \/ Refused(b, e, r)
    PROVE  sent \subseteq sent'
BY DEF Accepted, Refused, Hand

LEMMA Grows ==
    ASSUME TypeOK, [Next]_vars
    PROVE  sent \subseteq sent' /\ \A e \in Event : row[e].written => row'[e].written
<1>. USE DEF TypeOK, Row
<1>1. ASSUME NEW e \in Event, NEW r \in Replica, NEW byId \in BOOLEAN, Write(e, r, byId)
      PROVE  sent \subseteq sent' /\ \A f \in Event : row[f].written => row'[f].written
  BY <1>1 DEF Write
<1>2. ASSUME NEW e \in Event, NEW b \in Broker, RequestEmit(e, b)
      PROVE  sent \subseteq sent' /\ UNCHANGED row
  BY <1>2, EmitGrows DEF RequestEmit
<1>3. ASSUME NEW e \in Event, RequestMark(e)
      PROVE  sent \subseteq sent' /\ \A f \in Event : row[f].written => row'[f].written
  BY <1>3 DEF RequestMark
<1>4. ASSUME NEW r \in Replica, NEW c \in Cycle, NEW e \in Event, NEW b \in Broker,
             PollEmit(r, c, e, b)
      PROVE  sent \subseteq sent' /\ UNCHANGED row
  BY <1>4, EmitGrows DEF PollEmit
<1>5. ASSUME NEW r \in Replica, NEW c \in Cycle, NEW e \in Event, PollMark(r, c, e)
      PROVE  sent \subseteq sent' /\ \A f \in Event : row[f].written => row'[f].written
  <2>1. UNCHANGED row \/ row' = [row EXCEPT ![e] = [row[e] EXCEPT !.processed = TRUE]]
    BY <1>5 DEF PollMark
  <2>2. UNCHANGED sent
    BY <1>5 DEF PollMark
  <2>. QED BY <2>1, <2>2
<1>6. ASSUME NEW r \in Replica, NEW c \in Cycle, NEW e \in Event, PollFail(r, c, e)
      PROVE  sent \subseteq sent' /\ \A f \in Event : row[f].written => row'[f].written
  <2>1. UNCHANGED row \/ row' = [row EXCEPT ![e].retryCount = cycle[r][c].retry[e] + 1,
                                            ![e].failed = cycle[r][c].retry[e] + 1 >= MaxRetries]
    BY <1>6 DEF PollFail
  <2>2. UNCHANGED sent
    BY <1>6 DEF PollFail
  <2>3. \A f \in Event : row'[f].written = row[f].written
    BY <2>1
  <2>. QED BY <2>2, <2>3
<1>7. ASSUME NEW r \in Replica, NEW c \in Cycle, PollBegin(r, c)
      PROVE  UNCHANGED <<row, sent>>
  BY <1>7 DEF PollBegin
<1>8. ASSUME NEW r \in Replica,
             Recover(r) \/ ConnectionDrops(r) \/ ChannelCloses(r) \/ Crash(r)
      PROVE  UNCHANGED <<row, sent>>
  BY <1>8 DEF Recover, CircuitCloses, ProducerConnects, ConnectionDrops, ChannelCloses, Crash
<1>9. ASSUME NEW r \in Replica, NEW m \in Message, Arrives(r, m)
      PROVE  UNCHANGED <<row, sent>>
  BY <1>9 DEF Arrives
<1>10. CASE UNCHANGED vars
  BY <1>10 DEF vars
<1>. QED
  BY <1>1, <1>2, <1>3, <1>4, <1>5, <1>6, <1>7, <1>8, <1>9, <1>10 DEF Next, RequestStep, PollStep

-----------------------------------------------------------------------------
(* Poll cycles and requests keep what they know                            *)

LEMMA CycleFrame ==
    ASSUME TypeOK, CycleOK, [Next]_vars, NEW r \in Replica, NEW c \in Cycle,
           cycle'[r][c] = cycle[r][c]
    PROVE  CycleOf(r, c)'
<1>1. CycleOf(r, c)
  BY DEF CycleOK
<1>. QED BY <1>1, Grows DEF CycleOf, Current

\* A cycle that begins, moves to its next row, fails or ends claims nothing but its rows.
LEMMA CycleFresh ==
    ASSUME TypeOK, CycleOK, [Next]_vars, NEW r \in Replica, NEW c \in Cycle,
           cycle'[r][c].pc \in {"idle", "kafka", "fail"},
           cycle'[r][c].todo \subseteq cycle[r][c].todo
    PROVE  CycleOf(r, c)'
<1>1. CycleOf(r, c)
  BY DEF CycleOK
<1>. QED BY <1>1, Grows DEF CycleOf, Current

LEMMA CycleStep ==
    ASSUME TypeOK, CycleOK, [Next]_vars
    PROVE  CycleOK'
<1>. USE DEF TypeOK
<1>1. ASSUME NEW r \in Replica, NEW c \in Cycle, PollBegin(r, c)
      PROVE  CycleOK'
  <2>1. ASSUME NEW q \in Replica, NEW d \in Cycle, q # r \/ d # c
        PROVE  CycleOf(q, d)'
    BY <1>1, <2>1, CycleFrame DEF PollBegin
  <2>2. CycleOf(r, c)'
    <3>1. cycle'[r][c].pc = "kafka" /\ cycle'[r][c].todo = Oldest /\ UNCHANGED row
      BY <1>1 DEF PollBegin
    <3>2. \A e \in Oldest : row[e].written
      BY DEF Oldest, Pending
    <3>. QED BY <3>1, <3>2 DEF CycleOf
  <2>. QED BY <2>1, <2>2 DEF CycleOK
<1>2. ASSUME NEW r \in Replica, NEW c \in Cycle, NEW e \in Event, NEW b \in Broker,
             PollEmit(r, c, e, b)
      PROVE  CycleOK'
  <2>1. ASSUME NEW q \in Replica, NEW d \in Cycle, q # r \/ d # c
        PROVE  CycleOf(q, d)'
    BY <1>2, <2>1, CycleFrame DEF PollEmit, Caught
  <2>2. CASE Accepted(b, e, r) /\ cycle' = [cycle EXCEPT ![r][c].pc = After(b)]
    <3>1. /\ cycle'[r][c].todo = cycle[r][c].todo
          /\ cycle'[r][c].pc = After(b)
      BY <2>2 DEF Polling
    <3>2. /\ cycle[r][c].pc = b
          /\ Current(r, c, e)
          /\ CycleOf(r, c)
          /\ row' = row
      BY <1>2 DEF PollEmit, CycleOK
    <3>3. sent' = sent \cup {<<b, MessageOf[e]>>}
      BY <2>2 DEF Accepted, Hand
    <3>4. ASSUME NEW f \in Event, Current(r, c, f)'
          PROVE  f = e
      BY <3>1, <3>2, <3>4 DEF Current, Event
    <3>5. After(b) \in {"rabbit", "mark"} => <<"kafka", MessageOf[e]>> \in sent'
      BY <3>2, <3>3 DEF CycleOf, After, Broker
    <3>6. After(b) = "mark" => <<"rabbit", MessageOf[e]>> \in sent'
      BY <3>3 DEF After, Broker
    <3>7. \A f \in Event : f \in cycle'[r][c].todo => row'[f].written
      BY <3>1, <3>2 DEF CycleOf
    <3>8. CycleOf(r, c)'
      BY <3>1, <3>4, <3>5, <3>6, <3>7 DEF CycleOf
    <3>. QED BY <2>1, <3>8 DEF CycleOK
  <2>3. CASE Caught(r, c, e)
    <3>1. CycleOf(r, c)'
      BY <2>3, CycleFresh DEF Caught, Polling
    <3>. QED BY <2>1, <3>1 DEF CycleOK
  <2>. QED BY <1>2, <2>2, <2>3 DEF PollEmit
<1>3. ASSUME NEW r \in Replica, NEW c \in Cycle, NEW e \in Event,
             PollMark(r, c, e) \/ PollFail(r, c, e)
      PROVE  CycleOK'
  <2>1. ASSUME NEW q \in Replica, NEW d \in Cycle, q # r \/ d # c
        PROVE  CycleOf(q, d)'
    BY <1>3, <2>1, CycleFrame DEF PollMark, PollFail, Caught
  <2>2. Current(r, c, e) /\ cycle[r][c] \in Polling
    BY <1>3 DEF PollMark, PollFail
  <2>3. \/ cycle' = [cycle EXCEPT ![r][c] = Advance(cycle[r][c], e)]
        \/ cycle' = [cycle EXCEPT ![r][c] = IdleCycle]
        \/ cycle' = [cycle EXCEPT ![r][c].pc = "fail"]
    BY <1>3 DEF PollMark, PollFail, Caught
  <2>4. /\ cycle'[r][c].pc \in {"idle", "kafka", "fail"}
        /\ cycle'[r][c].todo \subseteq cycle[r][c].todo
    <3>1. CASE cycle' = [cycle EXCEPT ![r][c] = Advance(cycle[r][c], e)]
      BY <2>2, <3>1, AdvanceType DEF Current
    <3>2. CASE cycle' = [cycle EXCEPT ![r][c] = IdleCycle]
      BY <3>2 DEF IdleCycle
    <3>3. CASE cycle' = [cycle EXCEPT ![r][c].pc = "fail"]
      BY <2>2, <3>3 DEF Polling
    <3>. QED BY <2>3, <3>1, <3>2, <3>3
  <2>5. CycleOf(r, c)'
    BY <2>4, CycleFresh
  <2>. QED BY <2>1, <2>5 DEF CycleOK
<1>4. ASSUME NEW r \in Replica, Crash(r)
      PROVE  CycleOK'
  <2>1. ASSUME NEW q \in Replica, NEW d \in Cycle, q # r
        PROVE  CycleOf(q, d)'
    BY <1>4, <2>1, CycleFrame DEF Crash
  <2>2. ASSUME NEW d \in Cycle
        PROVE  CycleOf(r, d)'
    BY <1>4, CycleFresh DEF Crash, IdleCycle
  <2>. QED BY <2>1, <2>2 DEF CycleOK
<1>5. CASE UNCHANGED cycle
  BY <1>5, CycleFrame DEF CycleOK
<1>6. ASSUME NEW e \in Event, NEW b \in Broker, RequestEmit(e, b)
      PROVE  UNCHANGED cycle
  BY <1>6 DEF RequestEmit
<1>7. ASSUME NEW e \in Event, RequestMark(e)
      PROVE  UNCHANGED cycle
  BY <1>7 DEF RequestMark
<1>. QED
  BY <1>1, <1>2, <1>3, <1>4, <1>5, <1>6, <1>7
     DEF Next, vars, RequestStep, PollStep, Recover, Write, CircuitCloses, ProducerConnects,
         ConnectionDrops, ChannelCloses, Arrives

LEMMA RequestStepOK ==
    ASSUME TypeOK, RequestOK, [Next]_vars
    PROVE  RequestOK'
<1>. USE DEF TypeOK, Request
<1>1. ASSUME NEW e \in Event, NEW r \in Replica, NEW byId \in BOOLEAN, Write(e, r, byId)
      PROVE  RequestOK'
  <2>1. /\ request'[e].pc = "kafka"
        /\ row'[e].written
        /\ \A f \in Event : f # e => request'[f] = request[f]
    BY <1>1 DEF Write, Row
  <2>. QED BY <2>1, Grows DEF RequestOK
<1>2. ASSUME NEW e \in Event, NEW b \in Broker, RequestEmit(e, b)
      PROVE  RequestOK'
  <2>1. /\ request[e].pc = b /\ row[e].written
        /\ \A f \in Event : f # e => request'[f] = request[f]
    BY <1>2 DEF RequestEmit, RequestOK, Broker
  <2>2. CASE Accepted(b, e, request[e].replica) /\ request' = [request EXCEPT ![e].pc = After(b)]
    <3>1. request'[e].pc = After(b) /\ <<b, MessageOf[e]>> \in sent'
      BY <2>2 DEF Accepted, Hand
    <3>. QED BY <2>1, <3>1, Grows DEF RequestOK, After, Broker
  <2>3. CASE request' = [request EXCEPT ![e].pc = "idle"]
    <3>1. request'[e].pc = "idle"
      BY <2>3
    <3>. QED BY <2>1, <3>1, Grows DEF RequestOK
  <2>. QED BY <1>2, <2>2, <2>3 DEF RequestEmit
<1>3. ASSUME NEW e \in Event, RequestMark(e)
      PROVE  RequestOK'
  BY <1>3, Grows DEF RequestMark, RequestOK
<1>4. ASSUME NEW r \in Replica, Crash(r)
      PROVE  RequestOK'
  BY <1>4, Grows DEF Crash, RequestOK
<1>5. CASE UNCHANGED request
  BY <1>5, Grows DEF RequestOK
<1>6. ASSUME NEW r \in Replica, NEW c \in Cycle, PollStep(r, c)
      PROVE  UNCHANGED request
  BY <1>6 DEF PollStep, PollBegin, PollEmit, PollMark, PollFail
<1>7. ASSUME NEW r \in Replica, Recover(r) \/ ConnectionDrops(r) \/ ChannelCloses(r)
      PROVE  UNCHANGED request
  BY <1>7 DEF Recover, CircuitCloses, ProducerConnects, ConnectionDrops, ChannelCloses
<1>8. ASSUME NEW r \in Replica, NEW m \in Message, Arrives(r, m)
      PROVE  UNCHANGED request
  BY <1>8 DEF Arrives
<1>9. UNCHANGED vars => UNCHANGED request
  BY DEF vars
<1>. QED
  BY <1>1, <1>2, <1>3, <1>4, <1>5, <1>6, <1>7, <1>8, <1>9 DEF Next, RequestStep

-----------------------------------------------------------------------------
(* Processed rows                                                          *)

\* The rows a step marks as processed are committed, and both brokers have had them.
LEMMA NewlyProcessed ==
    ASSUME IInv, [Next]_vars
    PROVE  \A e \in Event : row'[e].processed /\ ~row[e].processed =>
               row[e].written /\ \A b \in Broker : <<b, MessageOf[e]>> \in sent
<1>. USE DEF IInv, TypeOK, Row
<1>1. ASSUME NEW e \in Event, RequestMark(e), NEW f \in Event,
             row'[f].processed, ~row[f].processed
      PROVE  row[f].written /\ \A b \in Broker : <<b, MessageOf[f]>> \in sent
  <2>1. f \in Marked(e)
    BY <1>1 DEF RequestMark
  <2>2. row[f].written /\ MessageOf[f] = MessageOf[e]
    BY <1>1, <2>1 DEF Marked, RequestMark, RequestOK
  <2>3. \A b \in Broker : <<b, MessageOf[e]>> \in sent
    BY <1>1 DEF RequestMark, RequestOK, Broker
  <2>. QED BY <2>2, <2>3
<1>2. ASSUME NEW r \in Replica, NEW c \in Cycle, NEW e \in Event, PollMark(r, c, e),
             NEW f \in Event, row'[f].processed, ~row[f].processed
      PROVE  row[f].written /\ \A b \in Broker : <<b, MessageOf[f]>> \in sent
  <2>1. f = e
    <3>1. UNCHANGED row \/ row' = [row EXCEPT ![e].processed = TRUE]
      BY <1>2 DEF PollMark
    <3>. QED BY <1>2, <3>1
  <2>2. CycleOf(r, c) /\ Current(r, c, e) /\ cycle[r][c].pc = "mark"
    BY <1>2 DEF PollMark, CycleOK
  <2>. QED BY <2>1, <2>2 DEF CycleOf, Current, Broker
<1>3. ASSUME NEW r \in Replica, NEW c \in Cycle, NEW e \in Event, PollFail(r, c, e),
             NEW f \in Event
      PROVE  row'[f].processed = row[f].processed
  <2>1. UNCHANGED row \/ row' = [row EXCEPT ![e].retryCount = cycle[r][c].retry[e] + 1,
                                            ![e].failed = cycle[r][c].retry[e] + 1 >= MaxRetries]
    BY <1>3 DEF PollFail
  <2>. QED BY <2>1
<1>4. ASSUME NEW e \in Event, NEW r \in Replica, NEW byId \in BOOLEAN, Write(e, r, byId),
             NEW f \in Event
      PROVE  row'[f].processed = row[f].processed
  BY <1>4 DEF Write
<1>5. CASE UNCHANGED row
  BY <1>5
<1>. QED
  BY <1>1, <1>2, <1>3, <1>4, <1>5
     DEF Next, vars, RequestStep, PollStep, RequestEmit, PollBegin, PollEmit, Recover,
         CircuitCloses, ProducerConnects, ConnectionDrops, ChannelCloses, Crash, Arrives

LEMMA IInvInit == Init => IInv
<1>. SUFFICES ASSUME Init PROVE IInv
  OBVIOUS
<1>1. TypeOK
  BY TypeInit
<1>2. CycleOK
  BY DEF Init, CycleOK, CycleOf, IdleCycle, Current
<1>3. RequestOK
  BY DEF Init, RequestOK
<1>4. ProcessedWasWritten /\ ProcessedWasSent
  BY DEF Init, NoRow, ProcessedWasWritten, ProcessedWasSent
<1>. QED BY <1>1, <1>2, <1>3, <1>4 DEF IInv

LEMMA IInvStep == IInv /\ [Next]_vars => IInv'
<1>. SUFFICES ASSUME IInv, [Next]_vars PROVE IInv'
  OBVIOUS
<1>1. TypeOK' /\ CycleOK' /\ RequestOK'
  BY TypeStep, CycleStep, RequestStepOK DEF IInv
<1>2. ProcessedWasWritten'
  BY NewlyProcessed, Grows DEF IInv, ProcessedWasWritten
<1>3. ProcessedWasSent'
  BY NewlyProcessed, Grows DEF IInv, ProcessedWasSent
<1>. QED BY <1>1, <1>2, <1>3 DEF IInv

-----------------------------------------------------------------------------
\* Every state has the types of TypeOK, and an idle poll cycle has no rows left
\* (startOutboxPoller, CoreOutboxEvent).
THEOREM TypeCorrect == Spec => []TypeOK
<1>1. TypeOK /\ [Next]_vars => TypeOK'
  BY TypeStep
<1>. QED BY <1>1, TypeInit, PTL DEF Spec

\* A row is marked as processed, by its request or by any poll cycle of any replica,
\* only after both brokers were handed its message.
THEOREM ProcessedCorrect == Spec => []ProcessedWasSent
<1>1. IInv => ProcessedWasSent
  BY DEF IInv
<1>. QED BY <1>1, IInvInit, IInvStep, PTL DEF Spec

-----------------------------------------------------------------------------
(* Retries                                                                 *)

\* The counts a cycle read with its rows, however stale, never exceed the failed
\* attempts; the one being written back is below them.
RetryOf(r, c) ==
    \A e \in Event :
        /\ cycle[r][c].retry[e] <= attempts[e]
        /\ Current(r, c, e) /\ cycle[r][c].pc = "fail" => cycle[r][c].retry[e] < attempts[e]

RetriesOK ==
    /\ \A e \in Event : row[e].retryCount <= attempts[e]
    /\ \A r \in Replica, c \in Cycle : RetryOf(r, c)

RInv == TypeOK /\ RetriesOK /\ GivenUpAfterRetries

\* What the steps do to the attempts, and to the counts of the rows.
LEMMA AttemptsGrow ==
    ASSUME TypeOK, TypeOK', [Next]_vars
    PROVE  \A e \in Event : attempts[e] <= attempts'[e]
<1>. USE DEF TypeOK
<1>1. ASSUME NEW r \in Replica, NEW c \in Cycle, NEW e \in Event, Caught(r, c, e)
      PROVE  \A f \in Event : attempts[f] <= attempts'[f]
  BY <1>1 DEF Caught
<1>2. CASE UNCHANGED attempts
  BY <1>2
<1>3. ASSUME NEW r \in Replica, NEW c \in Cycle, PollStep(r, c)
      PROVE  UNCHANGED attempts \/ \E e \in Event : Caught(r, c, e)
  BY <1>3 DEF PollStep, PollBegin, PollEmit, PollMark, PollFail
<1>4. ASSUME NEW e \in Event, RequestStep(e)
      PROVE  UNCHANGED attempts
  BY <1>4 DEF RequestStep, RequestEmit, RequestMark
<1>5. ASSUME NEW r \in Replica,
             Recover(r) \/ ConnectionDrops(r) \/ ChannelCloses(r) \/ Crash(r)
      PROVE  UNCHANGED attempts
  BY <1>5 DEF Recover, CircuitCloses, ProducerConnects, ConnectionDrops, ChannelCloses, Crash
<1>6. UNCHANGED vars => UNCHANGED attempts
  BY DEF vars
<1>. QED BY <1>1, <1>2, <1>3, <1>4, <1>5, <1>6 DEF Next, Write, Arrives

LEMMA RetryFrame ==
    ASSUME TypeOK, TypeOK', RetriesOK, [Next]_vars, NEW r \in Replica, NEW c \in Cycle,
           cycle'[r][c] = cycle[r][c]
    PROVE  RetryOf(r, c)'
<1>1. RetryOf(r, c)
  BY DEF RetriesOK
<1>2. \A e \in Event : cycle[r][c].retry[e] \in Nat /\ attempts[e] \in Nat /\ attempts'[e] \in Nat
  BY DEF TypeOK, Polling
<1>. QED BY <1>1, <1>2, AttemptsGrow DEF RetryOf, Current

LEMMA RetryFresh ==
    ASSUME TypeOK, TypeOK', RetriesOK, [Next]_vars, NEW r \in Replica, NEW c \in Cycle,
           cycle'[r][c].pc \in {"idle", "kafka", "rabbit", "mark"},
           \A e \in Event : \/ cycle'[r][c].retry[e] = cycle[r][c].retry[e]
                            \/ cycle'[r][c].retry[e] = row[e].retryCount
                            \/ cycle'[r][c].retry[e] = 0
    PROVE  RetryOf(r, c)'
<1>1. RetryOf(r, c) /\ \A e \in Event : row[e].retryCount <= attempts[e]
  BY DEF RetriesOK
<1>2. \A e \in Event : /\ cycle[r][c].retry[e] \in Nat /\ row[e].retryCount \in Nat
                       /\ attempts[e] \in Nat /\ attempts'[e] \in Nat
  BY DEF TypeOK, Polling, Row
<1>3. \A e \in Event : cycle'[r][c].retry[e] <= attempts'[e]
  BY <1>1, <1>2, AttemptsGrow DEF RetryOf
<1>. QED BY <1>3 DEF RetryOf

LEMMA RetryCaught ==
    ASSUME TypeOK, TypeOK', RetriesOK, [Next]_vars,
           NEW r \in Replica, NEW c \in Cycle, NEW e \in Event,
           Current(r, c, e), Caught(r, c, e)
    PROVE  RetryOf(r, c)'
<1>1. RetryOf(r, c)
  BY DEF RetriesOK
<1>2. /\ cycle'[r][c].retry = cycle[r][c].retry
      /\ cycle'[r][c].todo = cycle[r][c].todo
  BY DEF TypeOK, Caught, Polling
<1>3. \A f \in Event : cycle[r][c].retry[f] \in Nat /\ attempts[f] \in Nat /\ attempts'[f] \in Nat
  BY DEF TypeOK, Polling
<1>4. attempts'[e] = attempts[e] + 1
  BY DEF TypeOK, Caught
<1>5. ASSUME NEW f \in Event, Current(r, c, f)'
      PROVE  f = e
  BY <1>2, <1>5 DEF Current, Event
<1>. QED BY <1>1, <1>2, <1>3, <1>4, <1>5, AttemptsGrow DEF RetryOf

\* What a step does to one cycle.
LEMMA CycleMoves ==
    ASSUME TypeOK, [Next]_vars, NEW r \in Replica, NEW c \in Cycle
    PROVE  \/ cycle'[r][c] = cycle[r][c]
           \/ \E e \in Event : Current(r, c, e) /\ Caught(r, c, e)
           \/ /\ cycle'[r][c].pc \in {"idle", "kafka", "rabbit", "mark"}
              /\ \A e \in Event : \/ cycle'[r][c].retry[e] = cycle[r][c].retry[e]
                                  \/ cycle'[r][c].retry[e] = row[e].retryCount
                                  \/ cycle'[r][c].retry[e] = 0
<1>. USE DEF TypeOK
<1>. DEFINE Moved(p) == /\ p.pc \in {"idle", "kafka", "rabbit", "mark"}
                        /\ \A e \in Event : \/ p.retry[e] = cycle[r][c].retry[e]
                                            \/ p.retry[e] = row[e].retryCount
                                            \/ p.retry[e] = 0
<1>. DEFINE Goal == \/ cycle'[r][c] = cycle[r][c]
                    \/ \E e \in Event : Current(r, c, e) /\ Caught(r, c, e)
                    \/ Moved(cycle'[r][c])
<1>. SUFFICES Goal
  OBVIOUS
<1>1. Moved(IdleCycle)
  BY DEF IdleCycle
<1>2. ASSUME NEW q \in Replica, NEW d \in Cycle, PollStep(q, d)
      PROVE  Goal
  <2>1. CASE q # r \/ d # c
    <3>1. PollBegin(q, d) => cycle'[r][c] = cycle[r][c]
      BY <2>1 DEF PollBegin
    <3>2. ASSUME NEW e \in Event, NEW b \in Broker, PollEmit(q, d, e, b)
          PROVE  cycle'[r][c] = cycle[r][c]
      <4>1. \/ cycle' = [cycle EXCEPT ![q][d].pc = After(b)]
            \/ cycle' = [cycle EXCEPT ![q][d].pc = "fail"]
        BY <3>2 DEF PollEmit, Caught
      <4>. QED BY <2>1, <4>1
    <3>3. ASSUME NEW e \in Event, PollMark(q, d, e) \/ PollFail(q, d, e)
          PROVE  cycle'[r][c] = cycle[r][c]
      BY <2>1, <3>3 DEF PollMark, PollFail, Caught
    <3>. QED BY <1>2, <3>1, <3>2, <3>3 DEF PollStep
  <2>2. CASE q = r /\ d = c
    <3>1. CASE PollBegin(r, c)
      BY <3>1 DEF PollBegin
    <3>2. ASSUME NEW e \in Event, NEW b \in Broker, PollEmit(r, c, e, b)
          PROVE  Goal
      <4>1. CASE cycle' = [cycle EXCEPT ![r][c].pc = After(b)]
        <5>1. cycle'[r][c].pc = After(b) /\ cycle'[r][c].retry = cycle[r][c].retry
          BY <4>1 DEF Polling
        <5>. QED BY <5>1, AfterType
      <4>. QED BY <3>2, <4>1 DEF PollEmit
    <3>3. ASSUME NEW e \in Event, PollMark(r, c, e) \/ PollFail(r, c, e)
          PROVE  Goal
      <4>1. Current(r, c, e) /\ cycle[r][c] \in Polling
        BY <3>3 DEF PollMark, PollFail
      <4>2. CASE cycle' = [cycle EXCEPT ![r][c] = Advance(cycle[r][c], e)]
        BY <4>1, <4>2, AdvanceType DEF Current
      <4>3. CASE cycle' = [cycle EXCEPT ![r][c] = IdleCycle]
        BY <4>3, <1>1
      <4>. QED BY <3>3, <4>1, <4>2, <4>3 DEF PollMark, PollFail
    <3>. QED BY <1>2, <2>2, <3>1, <3>2, <3>3 DEF PollStep
  <2>. QED BY <2>1, <2>2
<1>3. ASSUME NEW q \in Replica, Crash(q)
      PROVE  Goal
  <2>1. cycle'[r][c] = cycle[r][c] \/ cycle'[r][c] = IdleCycle
    BY <1>3 DEF Crash
  <2>. QED BY <1>1, <2>1
<1>4. CASE UNCHANGED cycle
  BY <1>4
<1>5. ASSUME NEW e \in Event, RequestStep(e)
      PROVE  UNCHANGED cycle
  BY <1>5 DEF RequestStep, RequestEmit, RequestMark
<1>6. ASSUME NEW q \in Replica, Recover(q) \/ ConnectionDrops(q) \/ ChannelCloses(q)
      PROVE  UNCHANGED cycle
  BY <1>6 DEF Recover, CircuitCloses, ProducerConnects, ConnectionDrops, ChannelCloses
<1>7. UNCHANGED vars => UNCHANGED cycle
  BY DEF vars
<1>. QED BY <1>2, <1>3, <1>4, <1>5, <1>6, <1>7 DEF Next, Write, Arrives

\* The counts and flags of a row change only when a cycle writes its count back.
LEMMA RowRetries ==
    ASSUME TypeOK, [Next]_vars, NEW e \in Event
    PROVE  \/ row'[e].retryCount = row[e].retryCount /\ row'[e].failed = row[e].failed
           \/ \E r \in Replica, c \in Cycle :
                /\ Current(r, c, e) /\ cycle[r][c].pc = "fail"
                /\ row'[e].retryCount = cycle[r][c].retry[e] + 1
                /\ row'[e].failed <=> cycle[r][c].retry[e] + 1 >= MaxRetries
<1>. USE DEF TypeOK, Row
<1>. DEFINE Kept == row'[e].retryCount = row[e].retryCount /\ row'[e].failed = row[e].failed
<1>1. ASSUME NEW f \in Event, NEW r \in Replica, NEW byId \in BOOLEAN, Write(f, r, byId)
      PROVE  Kept
  BY <1>1 DEF Write
<1>2. ASSUME NEW f \in Event, RequestMark(f)
      PROVE  Kept
  <2>1. \/ UNCHANGED row
        \/ row' = [g \in Event |->
                     IF g \in Marked(f) THEN [row[g] EXCEPT !.processed = TRUE] ELSE row[g]]
    BY <1>2, Zenon DEF RequestMark
  <2>2. row'[e] = row[e] \/ row'[e] = [row[e] EXCEPT !.processed = TRUE]
    BY <2>1
  <2> QED
    BY <2>2
<1>3. ASSUME NEW r \in Replica, NEW c \in Cycle, NEW f \in Event, PollMark(r, c, f)
      PROVE  Kept
  <2>1. UNCHANGED row \/ row' = [row EXCEPT ![f] = [row[f] EXCEPT !.processed = TRUE]]
    BY <1>3 DEF PollMark
  <2>. QED BY <2>1
<1>4. ASSUME NEW r \in Replica, NEW c \in Cycle, NEW f \in Event, PollFail(r, c, f)
      PROVE  \/ Kept
             \/ /\ Current(r, c, e) /\ cycle[r][c].pc = "fail"
                /\ row'[e].retryCount = cycle[r][c].retry[e] + 1
                /\ row'[e].failed <=> cycle[r][c].retry[e] + 1 >= MaxRetries
  <2>1. /\ Current(r, c, f) /\ cycle[r][c].pc = "fail"
        /\ \/ UNCHANGED row
           \/ row' = [row EXCEPT ![f].retryCount = cycle[r][c].retry[f] + 1,
                                 ![f].failed = cycle[r][c].retry[f] + 1 >= MaxRetries]
    BY <1>4 DEF PollFail
  <2>2. CASE e = f
    BY <2>1, <2>2
  <2>3. CASE e # f
    BY <2>1, <2>3
  <2>. QED BY <2>2, <2>3
<1>5. UNCHANGED row => Kept
  OBVIOUS
<1>6. ASSUME NEW f \in Event, NEW b \in Broker, RequestEmit(f, b)
      PROVE  UNCHANGED row
  BY <1>6 DEF RequestEmit
<1>7. ASSUME NEW r \in Replica, NEW c \in Cycle,
             PollBegin(r, c) \/ \E f \in Event, b \in Broker : PollEmit(r, c, f, b)
      PROVE  UNCHANGED row
  BY <1>7 DEF PollBegin, PollEmit
<1>8. ASSUME NEW r \in Replica,
             Recover(r) \/ ConnectionDrops(r) \/ ChannelCloses(r) \/ Crash(r)
      PROVE  UNCHANGED row
  BY <1>8 DEF Recover, CircuitCloses, ProducerConnects, ConnectionDrops, ChannelCloses, Crash
<1>9. ASSUME NEW r \in Replica, NEW m \in Message, Arrives(r, m)
      PROVE  UNCHANGED row
  BY <1>9 DEF Arrives
<1>10. UNCHANGED vars => UNCHANGED row
  BY DEF vars
<1>11. ASSUME NEW r \in Replica, NEW c \in Cycle, PollStep(r, c)
       PROVE  \/ Kept
              \/ /\ Current(r, c, e) /\ cycle[r][c].pc = "fail"
                 /\ row'[e].retryCount = cycle[r][c].retry[e] + 1
                 /\ row'[e].failed <=> cycle[r][c].retry[e] + 1 >= MaxRetries
  BY <1>3, <1>4, <1>5, <1>7, <1>11 DEF PollStep
<1>12. ASSUME NEW f \in Event, RequestStep(f)
       PROVE  Kept
  BY <1>2, <1>5, <1>6, <1>12 DEF RequestStep
<1>. QED BY <1>1, <1>5, <1>8, <1>9, <1>10, <1>11, <1>12 DEF Next

LEMMA RInvStep == RInv /\ [Next]_vars => RInv'
<1>. SUFFICES ASSUME RInv, [Next]_vars PROVE RInv'
  OBVIOUS
<1>1. TypeOK /\ TypeOK' /\ RetriesOK
  BY TypeStep DEF RInv
<1>2. ASSUME NEW r \in Replica, NEW c \in Cycle
      PROVE  RetryOf(r, c)'
  BY <1>1, CycleMoves, RetryFrame, RetryCaught, RetryFresh
<1>3. ASSUME NEW e \in Event
      PROVE  /\ row'[e].retryCount <= attempts'[e]
             /\ row'[e].failed => attempts'[e] >= MaxRetries
  <2>1. /\ attempts[e] \in Nat /\ attempts'[e] \in Nat /\ attempts[e] <= attempts'[e]
        /\ row[e].retryCount \in Nat
        /\ MaxRetries \in Nat
    BY <1>1, AttemptsGrow, OutboxAssumption DEF TypeOK, Row
  <2>2. CASE row'[e].retryCount = row[e].retryCount /\ row'[e].failed = row[e].failed
    BY <2>1, <2>2 DEF RInv, RetriesOK, GivenUpAfterRetries
  <2>3. ASSUME NEW r \in Replica, NEW c \in Cycle,
               Current(r, c, e), cycle[r][c].pc = "fail",
               row'[e].retryCount = cycle[r][c].retry[e] + 1,
               row'[e].failed <=> cycle[r][c].retry[e] + 1 >= MaxRetries
        PROVE  /\ row'[e].retryCount <= attempts'[e]
               /\ row'[e].failed => attempts'[e] >= MaxRetries
    <3>1. cycle[r][c].retry[e] < attempts[e] /\ cycle[r][c].retry[e] \in Nat
      BY <1>1, <2>3 DEF RetriesOK, RetryOf, TypeOK, Polling
    <3>. QED BY <2>1, <2>3, <3>1
  <2>. QED BY <1>1, <2>2, <2>3, RowRetries
<1>. QED BY <1>1, <1>2, <1>3 DEF RInv, RetriesOK, GivenUpAfterRetries

LEMMA RInvInit == Init => RInv
<1>. SUFFICES ASSUME Init PROVE RInv
  OBVIOUS
<1>1. RetriesOK
  BY DEF Init, RetriesOK, RetryOf, NoRow, IdleCycle
<1>2. GivenUpAfterRetries
  BY DEF Init, NoRow, GivenUpAfterRetries
<1>. QED BY <1>1, <1>2, TypeInit DEF RInv

\* The poller gives a row up only after MaxRetries failed attempts, whatever stale
\* counts the overlapping cycles of its replicas write back.
THEOREM GivenUpCorrect == Spec => []GivenUpAfterRetries
<1>1. RInv => GivenUpAfterRetries
  BY DEF RInv
<1>. QED BY <1>1, RInvInit, RInvStep, PTL DEF Spec

-----------------------------------------------------------------------------
(* Refinement                                                              *)

LEMMA HandSends ==
    ASSUME IInv, [Next]_vars, NEW b \in Broker, NEW e \in Event, NEW r, row[e].written,
           UNCHANGED row, Accepted(b, e, r) \/ Refused(b, e, r)
    PROVE  [Delivery!Next]_<<{f \in Event : row[f].written}, sent, {f \in Event : row[f].processed}>>
<1>1. CASE Hand(b, e, r)
  <2>1. Delivery!Send(b, e)
    BY <1>1 DEF Hand, Delivery!Send
  <2>. QED BY <2>1 DEF Delivery!Next
<1>2. CASE UNCHANGED sent
  BY <1>2
<1>. QED BY <1>1, <1>2 DEF Accepted, Refused

LEMMA SettleIsNext ==
    ASSUME NEW settling \in SUBSET Event, Delivery!Settle(settling)
    PROVE  Delivery!Next
BY DEF Delivery!Next

LEMMA SettleStep ==
    ASSUME IInv, IInv', [Next]_vars, UNCHANGED sent,
           \A e \in Event : /\ row'[e].written = row[e].written
                            /\ row[e].processed => row'[e].processed
    PROVE  [Delivery!Next]_<<{f \in Event : row[f].written}, sent, {f \in Event : row[f].processed}>>
<1>1. PICK fresh \in SUBSET Event : \A e \in Event : e \in fresh <=> row'[e].processed /\ ~row[e].processed
  <2>1. {e \in Event : row'[e].processed /\ ~row[e].processed} \in SUBSET Event
    OBVIOUS
  <2>. QED BY <2>1
<1>2. /\ fresh \subseteq {f \in Event : row[f].written}
      /\ \A e \in fresh, b \in Broker : <<b, MessageOf[e]>> \in sent
  BY <1>1, NewlyProcessed
<1>3. {f \in Event : row'[f].processed} = {f \in Event : row[f].processed} \cup fresh
  BY <1>1 DEF IInv, TypeOK, Row
<1>4. {f \in Event : row'[f].written} = {f \in Event : row[f].written}
  OBVIOUS
<1>5. Delivery!Settle(fresh)
  BY <1>2, <1>3, <1>4 DEF Delivery!Settle
<1>. QED BY <1>5, SettleIsNext

\* Every step of the outbox is a step of EventDelivery, or one it does not see.
LEMMA DeliveryStep ==
    IInv /\ [Next]_vars =>
        [Delivery!Next]_<<{e \in Event : row[e].written}, sent, {e \in Event : row[e].processed}>>
<1>. SUFFICES ASSUME IInv, [Next]_vars
              PROVE  [Delivery!Next]_<<{e \in Event : row[e].written}, sent,
                                       {e \in Event : row[e].processed}>>
  OBVIOUS
<1>. DEFINE Step == [Delivery!Next]_<<{e \in Event : row[e].written}, sent,
                                      {e \in Event : row[e].processed}>>
<1>. IInv'
  BY IInvStep
<1>1. ASSUME NEW e \in Event, NEW r \in Replica, NEW byId \in BOOLEAN, Write(e, r, byId)
      PROVE  Step
  <2>1. /\ {f \in Event : row'[f].written} = {f \in Event : row[f].written} \cup {e}
        /\ {f \in Event : row'[f].processed} = {f \in Event : row[f].processed}
    BY <1>1 DEF Write, IInv, TypeOK, Row
  <2>2. Delivery!Write(e)
    BY <1>1, <2>1 DEF Write, Delivery!Write
  <2>. QED BY <2>2 DEF Delivery!Next
<1>2. ASSUME NEW e \in Event, NEW b \in Broker, RequestEmit(e, b)
      PROVE  Step
  BY <1>2, HandSends DEF RequestEmit, IInv, RequestOK, Broker
<1>3. ASSUME NEW r \in Replica, NEW c \in Cycle, NEW e \in Event, NEW b \in Broker,
             PollEmit(r, c, e, b)
      PROVE  Step
  <2>1. row[e].written
    BY <1>3 DEF PollEmit, Current, IInv, CycleOK, CycleOf
  <2>. QED BY <1>3, <2>1, HandSends DEF PollEmit
<1>4. ASSUME NEW e \in Event, RequestMark(e)
      PROVE  Step
  <2>1. /\ UNCHANGED sent
        /\ \A f \in Event : /\ row'[f].written = row[f].written
                            /\ row[f].processed => row'[f].processed
    BY <1>4 DEF RequestMark, IInv, TypeOK, Row
  <2>. QED BY <2>1, SettleStep
<1>5. ASSUME NEW r \in Replica, NEW c \in Cycle, NEW e \in Event, PollMark(r, c, e)
      PROVE  Step
  <2>1. UNCHANGED row \/ row' = [row EXCEPT ![e] = [row[e] EXCEPT !.processed = TRUE]]
    BY <1>5 DEF PollMark
  <2>2. \A f \in Event : /\ row'[f].written = row[f].written
                         /\ row[f].processed => row'[f].processed
    BY <2>1 DEF IInv, TypeOK, Row
  <2>. QED BY <1>5, <2>2, SettleStep DEF PollMark
<1>6. ASSUME NEW r \in Replica, NEW c \in Cycle, NEW e \in Event, PollFail(r, c, e)
      PROVE  Step
  <2>1. UNCHANGED row \/ row' = [row EXCEPT ![e].retryCount = cycle[r][c].retry[e] + 1,
                                            ![e].failed = cycle[r][c].retry[e] + 1 >= MaxRetries]
    BY <1>6 DEF PollFail
  <2>2. \A f \in Event : /\ row'[f].written = row[f].written
                         /\ row'[f].processed = row[f].processed
    BY <2>1 DEF IInv, TypeOK, Row
  <2>. QED BY <1>6, <2>2, SettleStep DEF PollFail
<1>7. UNCHANGED <<row, sent>> => Step
  OBVIOUS
<1>8. ASSUME NEW r \in Replica, NEW c \in Cycle, PollBegin(r, c)
      PROVE  UNCHANGED <<row, sent>>
  BY <1>8 DEF PollBegin
<1>9. ASSUME NEW r \in Replica,
             Recover(r) \/ ConnectionDrops(r) \/ ChannelCloses(r) \/ Crash(r)
      PROVE  UNCHANGED <<row, sent>>
  BY <1>9 DEF Recover, CircuitCloses, ProducerConnects, ConnectionDrops, ChannelCloses, Crash
<1>10. ASSUME NEW r \in Replica, NEW m \in Message, Arrives(r, m)
       PROVE  UNCHANGED <<row, sent>>
  BY <1>10 DEF Arrives
<1>11. UNCHANGED vars => UNCHANGED <<row, sent>>
  BY DEF vars
<1>. HIDE DEF Step
<1>12. Step
  BY <1>1, <1>2, <1>3, <1>4, <1>5, <1>6, <1>7, <1>8, <1>9, <1>10, <1>11
     DEF Next, RequestStep, PollStep
<1>. QED BY <1>12 DEF Step

\* The outbox implements EventDelivery: rows are sent only once committed, and
\* settled only once both brokers have had them.
THEOREM DeliveryImplemented == Spec => ImplementsDelivery
<1>1. Init => Delivery!Init
  BY DEF Init, NoRow, Delivery!Init
<1>. QED BY <1>1, IInvInit, IInvStep, DeliveryStep, PTL DEF Spec, ImplementsDelivery, Delivery!Spec

\* A row leaves the outbox for a cause only.
THEOREM SettledCorrect == Spec => []SettledForCause
<1>1. ProcessedWasSent /\ GivenUpAfterRetries => SettledForCause
  BY DEF SettledForCause
<1>. QED BY <1>1, ProcessedCorrect, GivenUpCorrect, PTL
=============================================================================
