-------------------------- MODULE LabSessionProofs --------------------------
(***************************************************************************)
(* Theorems about LabSession, for any number of users, challenges,         *)
(* requests, replicas, sessions and faults.                                *)
(***************************************************************************)
EXTENDS LabSession, FiniteSetTheorems, TLAPS

\* What holds of rows and requests under every fault: a
\* request creates its own session and no other's, and never one that is there.
Sound ==
    /\ \A p \in Start : start[p].found # 0 => lab[start[p].found] # "none"
    /\ \A p \in Start : start[p].pc = "tx" => key[start[p].session] = start[p].key
    /\ \A p \in Start : "row" \in start[p].writes => lab[start[p].session] = "none"
    /\ \A p, q \in Start :
        start[p].pc = "tx" /\ start[q].pc = "tx" /\ start[p].session = start[q].session => p = q
    /\ \A r \in Replica : \A s \in reaper[r].todo : lab[s] # "none"

\* What the lock adds for a request, as long as no write fails and no lock expires
\* within a request: who creates a session holds its lock, and there is no ACTIVE
\* one; and whose lookup missed an ACTIVE session will meet its lock.
LockOf(p) ==
    /\ start[p].pc # "undo"
    /\ start[p].pc = "tx" => lock[start[p].key] = start[p].session
    /\ "row" \in start[p].writes => \A s \in Session : lab[s] = "ACTIVE" => key[s] # start[p].key
    /\ start[p].pc = "get" => lock[start[p].key] # 0
    /\ start[p].pc \in {"probe", "recycle", "count", "lock"} =>
        \A s \in Session : lab[s] = "ACTIVE" /\ key[s] = start[p].key /\ s # start[p].found
                            => lock[start[p].key] = s
    /\ start[p].pc \in {"count", "lock"} /\ start[p].found # 0 => lab[start[p].found] # "ACTIVE"

OneActive == \A s, t \in Session :
                lab[s] = "ACTIVE" /\ lab[t] = "ACTIVE" /\ key[s] = key[t] => s = t

LockOK == OneActive /\ \A p \in Start : LockOf(p)

LockSafe == Without({"db", "expiry"}) => LockOK

\* A step that leaves the requests alone: rows only end, and locks only expire.
Aside ==
    /\ \A s \in Session :
        lab'[s] = lab[s] \/ (lab[s] # "none" /\ lab'[s] \in {"COMPLETED", "TERMINATED"})
    /\ UNCHANGED <<key, minted, start>>
    /\ (UNCHANGED lock) \/ \E k \in Key : LockExpires(k)

-----------------------------------------------------------------------------
(* Types                                                                   *)

LEMMA FaultType ==
    ASSUME TypeOK, NEW k, Fault(k)
    PROVE  faults' \in Happened
BY DEF TypeOK, Fault, Happened

\* A step that gives request p a new state q.
LEMMA StartType ==
    ASSUME TypeOK, NEW p \in Start, NEW q \in Request, start' = [start EXCEPT ![p] = q],
           minted' \in 0 .. MaxSessions, minted <= minted', Sane(q, minted')
    PROVE  start' \in [Start -> Request] /\ \A o \in Start : Sane(start'[o], minted')
<1>1. start' \in [Start -> Request]
  BY DEF TypeOK
<1>2. ASSUME NEW o \in Start
      PROVE  Sane(start'[o], minted')
  <2>1. CASE o = p
    BY <2>1 DEF TypeOK
  <2>2. CASE o # p
    <3>1. start'[o] = start[o] /\ start[o] \in Request /\ Sane(start[o], minted)
      BY <2>2 DEF TypeOK
    <3>2. minted \in Nat /\ minted' \in Nat
      BY LabAssumption DEF TypeOK
    <3>. QED BY <3>1, <3>2 DEF Sane, Request
  <2>. QED BY <2>1, <2>2
<1>. QED BY <1>1, <1>2

LEMMA GotoType ==
    ASSUME TypeOK, NEW p \in Start, start[p].pc # "tx",
           NEW c \in {"recycle", "count", "lock", "get"}, c = "recycle" => start[p].found # 0,
           Goto(p, c), UNCHANGED minted
    PROVE  start' \in [Start -> Request] /\ \A o \in Start : Sane(start'[o], minted')
<1>. DEFINE q == [start[p] EXCEPT !.pc = c]
<1>1. start[p] \in Request /\ Sane(start[p], minted)
  BY DEF TypeOK
<1>2. q \in Request
  BY <1>1 DEF Request
<1>3. Sane(q, minted')
  BY <1>1 DEF Sane, Request
<1>4. start' = [start EXCEPT ![p] = q]
  BY DEF Goto
<1>5. minted' \in 0 .. MaxSessions /\ minted <= minted'
  BY LabAssumption DEF TypeOK
<1>. HIDE DEF q
<1>. QED BY <1>2, <1>3, <1>4, <1>5, StartType

LEMMA AnswerType ==
    ASSUME TypeOK, NEW p \in Start, NEW s \in 0 .. minted, Answer(p, s), UNCHANGED minted
    PROVE  start' \in [Start -> Request] /\ \A o \in Start : Sane(start'[o], minted')
<1>. DEFINE q == [pc |-> "idle", key |-> start[p].key, found |-> 0, session |-> 0,
                  writes |-> {}, reply |-> s]
<1>1. start[p] \in Request
  BY DEF TypeOK
<1>2. minted \in Nat /\ minted <= MaxSessions /\ MaxSessions \in Nat
  BY LabAssumption DEF TypeOK
<1>3. q \in Request
  BY <1>1, <1>2 DEF Request
<1>4. Sane(q, minted')
  BY <1>2 DEF Sane
<1>5. start' = [start EXCEPT ![p] = q]
  BY DEF Answer, TypeOK
<1>6. minted' \in 0 .. MaxSessions /\ minted <= minted'
  BY <1>2
<1>. HIDE DEF q
<1>. QED BY <1>3, <1>4, <1>5, <1>6, StartType

LEMMA MintType ==
    ASSUME TypeOK, NEW p \in Start, Mint(p)
    PROVE  /\ start' \in [Start -> Request] /\ \A o \in Start : Sane(start'[o], minted')
           /\ key' \in [Session -> Key]
           /\ minted' \in 1 .. MaxSessions /\ minted' = minted + 1
<1>. DEFINE q == [start[p] EXCEPT !.pc = "tx", !.session = minted + 1, !.writes = Write]
<1>1. start[p] \in Request /\ Sane(start[p], minted)
  BY DEF TypeOK
<1>2. minted \in Nat /\ minted + 1 <= MaxSessions /\ MaxSessions \in Nat /\ minted' = minted + 1
  BY LabAssumption DEF TypeOK, Mint
<1>3. q \in Request
  <2>1. minted + 1 \in 0 .. MaxSessions /\ Write \in SUBSET Write
    BY <1>2
  <2>. QED BY <1>1, <2>1 DEF Request
<1>4. Sane(q, minted')
  BY <1>1, <1>2 DEF Sane, Request
<1>5. start' = [start EXCEPT ![p] = q]
  BY DEF Mint
<1>6. minted' \in 0 .. MaxSessions /\ minted <= minted'
  BY <1>2
<1>7. start' \in [Start -> Request] /\ \A o \in Start : Sane(start'[o], minted')
  <2>. HIDE DEF q
  <2>. QED BY <1>3, <1>4, <1>5, <1>6, StartType
<1>8. key' \in [Session -> Key]
  BY <1>1, <1>2 DEF Mint, TypeOK, Session, Request
<1>. QED BY <1>2, <1>7, <1>8

LEMMA WrittenType ==
    ASSUME TypeOK, NEW p \in Start, NEW ws \in SUBSET Write, Written(p, ws)
    PROVE  lab' \in [Session -> Status] /\ events' \in [Session -> SUBSET Notice]
BY DEF Written, TypeOK, Status, Notice

-----------------------------------------------------------------------------
LEMMA TypeInit == Init => TypeOK
<1>. SUFFICES ASSUME Init PROVE TypeOK
  OBVIOUS
<1>1. PICK k \in Key : /\ key = [s \in Session |-> k]
                       /\ start = [p \in Start |-> [pc |-> "idle", key |-> k, found |-> 0,
                                    session |-> 0, writes |-> {}, reply |-> 0]]
  BY DEF Init
<1>2. MaxSessions \in Nat /\ 0 \in 0 .. MaxSessions
  BY LabAssumption
<1>3. start \in [Start -> Request] /\ \A p \in Start : Sane(start[p], 0)
  BY <1>1, <1>2 DEF Request, Sane
<1>4. key \in [Session -> Key] /\ lab \in [Session -> Status] /\ events \in [Session -> SUBSET Notice]
  BY <1>1 DEF Init, Status, Notice
<1>5. reaper \in [Replica -> Reaping] /\ \A r \in Replica : reaper[r].todo = {}
  BY DEF Init, Reaping, IdleReaper
<1>6. minted = 0 /\ lock \in [Key -> 0 .. minted]
  BY DEF Init
<1>7. \A s \in Session : lab[s] = "none"
  BY DEF Init
<1>8. faults \in Happened
  BY DEF Init, Happened
<1>. QED BY <1>2, <1>3, <1>4, <1>5, <1>6, <1>7, <1>8 DEF Init, TypeOK

\* The rows a step may give a new status are those that are there.
LEMMA LabType ==
    ASSUME TypeOK, NEW s \in Session, NEW x \in Status, s <= minted \/ x = "none",
           lab' = [lab EXCEPT ![s] = x], UNCHANGED minted
    PROVE  lab' \in [Session -> Status] /\ \A t \in Session : lab'[t] # "none" => t <= minted'
BY DEF TypeOK

LEMMA CloseType ==
    ASSUME TypeOK, NEW s \in Session, NEW x \in {"TERMINATED", "COMPLETED"}, Close(s, x),
           UNCHANGED minted
    PROVE  lab' \in [Session -> Status] /\ \A t \in Session : lab'[t] # "none" => t <= minted'
BY DEF TypeOK, Close, Status

LEMMA TellType ==
    ASSUME TypeOK, NEW s \in Session, Tell(s, "over") \/ UNCHANGED events
    PROVE  events' \in [Session -> SUBSET Notice]
BY DEF TypeOK, Tell, Notice

LEMMA TypeStep ==
    ASSUME TypeOK, [Next]_vars
    PROVE  TypeOK'
<1>. USE DEF TypeOK
<1>0. minted \in Nat /\ minted <= MaxSessions /\ MaxSessions \in Nat
  BY LabAssumption
<1>1. ASSUME NEW p \in Start, NEW k \in Key, Find(p, k)
      PROVE  TypeOK'
  <2>. DEFINE q(c, s) == [pc |-> c, key |-> k, found |-> s, session |-> 0, writes |-> {}, reply |-> 0]
  <2>1. ASSUME NEW c \in {"count", "probe"}, NEW s \in 0 .. MaxSessions, s <= minted,
               c = "probe" => s # 0, start' = [start EXCEPT ![p] = q(c, s)]
        PROVE  TypeOK'
    <3>1. q(c, s) \in Request
      BY <1>0 DEF Request
    <3>2. minted' = minted /\ Sane(q(c, s), minted')
      BY <1>0, <1>1, <2>1 DEF Sane, Find
    <3>3. start' \in [Start -> Request] /\ \A o \in Start : Sane(start'[o], minted')
      <4>. HIDE DEF q, TypeOK
      <4>1. minted' \in 0 .. MaxSessions /\ minted <= minted'
        BY <1>0, <3>2
      <4>. QED BY <2>1, <3>1, <3>2, <4>1, StartType
    <3>. QED BY <1>1, <3>3 DEF Find
  <2>2. CASE start' = [start EXCEPT ![p] = q("count", 0)]
    <3>1. 0 \in 0 .. MaxSessions /\ 0 <= minted
      BY <1>0
    <3>. HIDE DEF q, TypeOK
    <3>. QED BY <2>1, <2>2, <3>1
  <2>3. CASE \E s \in Active(k) : start' = [start EXCEPT ![p] = q("probe", s)]
    <3>1. PICK s \in Active(k) : start' = [start EXCEPT ![p] = q("probe", s)]
      BY <2>3
    <3>2. s \in 0 .. MaxSessions /\ s # 0 /\ s <= minted
      BY <1>0 DEF Active, Session
    <3>. QED BY <2>1, <3>1, <3>2
  <2>. QED BY <1>1, <2>2, <2>3 DEF Find
<1>2. ASSUME NEW p \in Start, Probe(p)
      PROVE  TypeOK'
  <2>1. start' \in [Start -> Request] /\ \A o \in Start : Sane(start'[o], minted')
    <3>1. start[p].found \in 0 .. minted /\ start[p].found # 0 /\ start[p].pc = "probe"
      BY <1>0, <1>2 DEF Probe, Sane, Request
    <3>. HIDE DEF TypeOK
    <3>. QED BY <1>2, <3>1, AnswerType, GotoType DEF Probe
  <2>. QED BY <1>2, <2>1 DEF Probe
<1>3. ASSUME NEW p \in Start, Recycle(p)
      PROVE  TypeOK'
  <2>1. start[p].found \in Session /\ start[p].found <= minted
    BY <1>0, <1>3 DEF Recycle, Sane, Request, Session
  <2>2. start' \in [Start -> Request] /\ \A o \in Start : Sane(start'[o], minted')
    <3>. HIDE DEF TypeOK
    <3>. QED BY <1>3, GotoType DEF Recycle
  <2>3. lab' \in [Session -> Status] /\ \A t \in Session : lab'[t] # "none" => t <= minted'
    <3>. HIDE DEF TypeOK
    <3>. QED BY <1>3, <2>1, LabType DEF Recycle, Status
  <2>. QED BY <1>3, <2>2, <2>3 DEF Recycle
<1>4. ASSUME NEW p \in Start, Count(p)
      PROVE  TypeOK'
  <2>1. start' \in [Start -> Request] /\ \A o \in Start : Sane(start'[o], minted')
    <3>1. 0 \in 0 .. minted
      BY <1>0
    <3>. HIDE DEF TypeOK
    <3>. QED BY <1>4, <3>1, AnswerType, GotoType DEF Count
  <2>. QED BY <1>4, <2>1 DEF Count
<1>5. ASSUME NEW p \in Start, TryLock(p)
      PROVE  TypeOK'
  <2>1. CASE Mint(p) /\ lock' = [lock EXCEPT ![start[p].key] = minted + 1]
    <3>1. /\ start' \in [Start -> Request] /\ \A o \in Start : Sane(start'[o], minted')
          /\ key' \in [Session -> Key]
          /\ minted' \in 1 .. MaxSessions /\ minted' = minted + 1
      <4>. HIDE DEF TypeOK
      <4>. QED BY <2>1, MintType
    <3>2. lock' \in [Key -> 0 .. minted']
      BY <1>0, <2>1, <3>1 DEF Request
    <3>3. (\A s \in Session : lab[s] # "none" => s <= minted')
          /\ \A r \in Replica : \A s \in reaper[r].todo : s <= minted'
      BY <1>0, <3>1 DEF Session, Reaping
    <3>. QED BY <1>0, <1>5, <3>1, <3>2, <3>3 DEF TryLock
  <2>2. CASE Goto(p, "get") /\ UNCHANGED <<minted, key, lock>>
    <3>1. start' \in [Start -> Request] /\ \A o \in Start : Sane(start'[o], minted')
      <4>. HIDE DEF TypeOK
      <4>. QED BY <1>5, <2>2, GotoType DEF TryLock
    <3>. QED BY <1>5, <2>2, <3>1 DEF TryLock
  <2>. QED BY <1>5, <2>1, <2>2 DEF TryLock
<1>6. ASSUME NEW p \in Start, GetLocked(p)
      PROVE  TypeOK'
  <2>1. CASE Mint(p)
    <3>1. /\ start' \in [Start -> Request] /\ \A o \in Start : Sane(start'[o], minted')
          /\ key' \in [Session -> Key]
          /\ minted' \in 1 .. MaxSessions /\ minted' = minted + 1
      <4>. HIDE DEF TypeOK
      <4>. QED BY <2>1, MintType
    <3>2. lock' \in [Key -> 0 .. minted']
      BY <1>0, <1>6, <3>1 DEF GetLocked
    <3>3. (\A s \in Session : lab[s] # "none" => s <= minted')
          /\ \A r \in Replica : \A s \in reaper[r].todo : s <= minted'
      BY <1>0, <3>1 DEF Session, Reaping
    <3>. QED BY <1>0, <1>6, <3>1, <3>2, <3>3 DEF GetLocked
  <2>2. CASE Answer(p, lock[start[p].key]) /\ UNCHANGED <<minted, key>>
    <3>1. lock[start[p].key] \in 0 .. minted
      BY DEF Request
    <3>2. start' \in [Start -> Request] /\ \A o \in Start : Sane(start'[o], minted')
      <4>. HIDE DEF TypeOK
      <4>. QED BY <2>2, <3>1, AnswerType
    <3>. QED BY <1>6, <2>2, <3>2 DEF GetLocked
  <2>. QED BY <1>6, <2>1, <2>2 DEF GetLocked
<1>7. ASSUME NEW p \in Start, NEW w \in Write, Commit(p, w)
      PROVE  TypeOK'
  <2>1. start[p].session \in Session /\ start[p].session <= minted /\ start[p].session \in 0 .. minted
    BY <1>0, <1>7 DEF Commit, Sane, Request, Session
  <2>2. start' \in [Start -> Request] /\ \A o \in Start : Sane(start'[o], minted')
    <3>1. CASE Answer(p, start[p].session)
      <4>. HIDE DEF TypeOK
      <4>. QED BY <1>7, <2>1, <3>1, AnswerType DEF Commit
    <3>2. CASE start' = [start EXCEPT ![p].writes = @ \ {w}]
      <4>. DEFINE q == [start[p] EXCEPT !.writes = @ \ {w}]
      <4>1. q \in Request
        BY DEF Request
      <4>2. Sane(q, minted') /\ start' = [start EXCEPT ![p] = q]
        BY <1>7, <3>2 DEF Commit, Sane, Request
      <4>3. minted' \in 0 .. MaxSessions /\ minted <= minted'
        BY <1>0, <1>7 DEF Commit
      <4>. HIDE DEF q, TypeOK
      <4>. QED BY <4>1, <4>2, <4>3, StartType
    <3>. QED BY <1>7, <3>1, <3>2 DEF Commit
  <2>3. lab' \in [Session -> Status] /\ events' \in [Session -> SUBSET Notice]
    <3>. HIDE DEF TypeOK
    <3>. QED BY <1>7, WrittenType DEF Commit
  <2>4. \A t \in Session : lab'[t] # "none" => t <= minted'
    BY <1>7, <2>1 DEF Commit, Written
  <2>. QED BY <1>7, <2>2, <2>3, <2>4 DEF Commit
<1>8. ASSUME NEW p \in Start, CommitFails(p)
      PROVE  TypeOK'
  <2>1. start[p].session \in Session /\ start[p].session <= minted
    BY <1>0, <1>8 DEF CommitFails, Sane, Request, Session
  <2>2. start' \in [Start -> Request] /\ \A o \in Start : Sane(start'[o], minted')
    <3>. DEFINE q == [start[p] EXCEPT !.pc = "undo", !.writes = {}]
    <3>1. q \in Request
      BY DEF Request
    <3>2. Sane(q, minted') /\ start' = [start EXCEPT ![p] = q]
      BY <1>8 DEF CommitFails, Sane, Request
    <3>3. minted' \in 0 .. MaxSessions /\ minted <= minted'
      BY <1>0, <1>8 DEF CommitFails
    <3>. HIDE DEF q, TypeOK
    <3>. QED BY <3>1, <3>2, <3>3, StartType
  <2>3. PICK ws \in SUBSET start[p].writes : Written(p, ws)
    BY <1>8 DEF CommitFails
  <2>4. lab' \in [Session -> Status] /\ events' \in [Session -> SUBSET Notice]
    <3>1. ws \in SUBSET Write
      BY <2>3 DEF Request
    <3>. HIDE DEF TypeOK
    <3>. QED BY <2>3, <3>1, WrittenType
  <2>5. \A t \in Session : lab'[t] # "none" => t <= minted'
    BY <1>8, <2>1, <2>3 DEF CommitFails, Written
  <2>6. faults' \in Happened
    BY <1>8, FaultType DEF CommitFails
  <2>. QED BY <1>8, <2>2, <2>4, <2>5, <2>6 DEF CommitFails
<1>9. ASSUME NEW p \in Start, Undo(p) \/ Abort(p)
      PROVE  TypeOK'
  <2>1. start' \in [Start -> Request] /\ \A o \in Start : Sane(start'[o], minted')
    <3>1. 0 \in 0 .. minted
      BY <1>0
    <3>. HIDE DEF TypeOK
    <3>. QED BY <1>9, <3>1, AnswerType DEF Undo, Abort
  <2>2. faults' \in Happened
    BY <1>9, FaultType DEF Undo, Abort
  <2>3. lock' \in [Key -> 0 .. minted']
    BY <1>0, <1>9 DEF Undo, Abort
  <2>. QED BY <1>9, <2>1, <2>2, <2>3 DEF Undo, Abort
<1>10. ASSUME NEW k \in Key, LockExpires(k)
       PROVE  TypeOK'
  <2>1. faults' \in Happened
    BY <1>10, FaultType DEF LockExpires
  <2>2. lock' \in [Key -> 0 .. minted']
    BY <1>0, <1>10 DEF LockExpires
  <2>. QED BY <1>10, <2>1, <2>2 DEF LockExpires
<1>11. ASSUME NEW s \in Session, SessionEnds(s)
       PROVE  TypeOK'
  <2>1. UNCHANGED <<key, expired, minted, lock, start, leader, reaper>>
    BY <1>11 DEF SessionEnds, EndSession, AdminTerminates, Solved, ProvisionFailed
  <2>2. lab' \in [Session -> Status] /\ \A t \in Session : lab'[t] # "none" => t <= minted'
    <3>1. CASE AdminTerminates(s)
      BY <2>1, <3>1 DEF AdminTerminates, Status
    <3>2. CASE EndSession(s) \/ Solved(s) \/ ProvisionFailed(s)
      <4>1. UNCHANGED lab \/ \E x \in {"TERMINATED", "COMPLETED"} : Close(s, x)
        BY <3>2 DEF EndSession, Solved, ProvisionFailed
      <4>2. CASE UNCHANGED lab
        BY <2>1, <4>2
      <4>3. CASE \E x \in {"TERMINATED", "COMPLETED"} : Close(s, x)
        <5>. HIDE DEF TypeOK
        <5>. QED BY <2>1, <4>3, CloseType
      <4>. QED BY <4>1, <4>2, <4>3
    <3>. QED BY <1>11, <3>1, <3>2 DEF SessionEnds
  <2>3. events' \in [Session -> SUBSET Notice]
    BY <1>11, TellType DEF SessionEnds, EndSession, AdminTerminates, Solved, ProvisionFailed
  <2>4. faults' \in Happened
    BY <1>11, FaultType DEF SessionEnds, EndSession, AdminTerminates, Solved, ProvisionFailed
  <2>. QED BY <2>1, <2>2, <2>3, <2>4
<1>12. ASSUME NEW s \in Session, Expire(s)
       PROVE  TypeOK'
  BY <1>12 DEF Expire
<1>13. ASSUME NEW r \in Replica, Elect(r)
       PROVE  TypeOK'
  <2>1. reaper' \in [Replica -> Reaping] /\ \A q \in Replica : reaper'[q].todo = reaper[q].todo
    BY <1>13 DEF Elect, Reaping
  <2>. QED BY <1>13, <2>1 DEF Elect
<1>14. ASSUME NEW r \in Replica, ReapFind(r)
       PROVE  TypeOK'
  <2>1. PICK batch \in SUBSET Overdue :
          reaper' = [reaper EXCEPT ![r] = IF batch = {} THEN IdleReaper
                                          ELSE [pc |-> "reap", todo |-> batch]]
    BY <1>14 DEF ReapFind
  <2>2. batch \in SUBSET Session /\ \A s \in batch : lab[s] # "none"
    BY DEF Overdue
  <2>3. reaper' \in [Replica -> Reaping] /\ \A q \in Replica : \A s \in reaper'[q].todo : s <= minted
    BY <2>1, <2>2 DEF Reaping, IdleReaper
  <2>. QED BY <1>14, <2>3 DEF ReapFind
<1>15. ASSUME NEW r \in Replica, NEW s \in Session, Reap(r, s)
       PROVE  TypeOK'
  <2>1. /\ reaper' \in [Replica -> Reaping]
        /\ \A q \in Replica : \A t \in reaper'[q].todo : t <= minted
    <3>. DEFINE n == IF reaper[r].todo = {s} THEN IdleReaper
                     ELSE [pc |-> "reap", todo |-> reaper[r].todo \ {s}]
    <3>1. n \in Reaping /\ n.todo \subseteq reaper[r].todo
      BY DEF Reaping, IdleReaper
    <3>2. reaper' = [reaper EXCEPT ![r] = n]
      BY <1>15 DEF Reap
    <3>. HIDE DEF n
    <3>. QED BY <3>1, <3>2
  <2>2. lab' \in [Session -> Status] /\ \A t \in Session : lab'[t] # "none" => t <= minted'
    BY <1>15 DEF Reap, Status
  <2>3. events' \in [Session -> SUBSET Notice]
    BY <1>15, TellType DEF Reap
  <2>4. faults' \in Happened
    BY <1>15, FaultType DEF Reap
  <2>. QED BY <1>15, <2>1, <2>2, <2>3, <2>4 DEF Reap
<1>16. CASE LeaderExpires
  BY <1>16, FaultType DEF LeaderExpires
<1>17. ASSUME NEW r \in Replica, ReaperCrash(r)
       PROVE  TypeOK'
  <2>1. reaper' \in [Replica -> Reaping] /\ \A q \in Replica : \A s \in reaper'[q].todo : s <= minted
    BY <1>17 DEF ReaperCrash, Reaping, IdleReaper
  <2>2. faults' \in Happened
    BY <1>17, FaultType DEF ReaperCrash
  <2>. QED BY <1>17, <2>1, <2>2 DEF ReaperCrash
<1>18. CASE UNCHANGED vars
  BY <1>18 DEF vars
<1>. HIDE DEF TypeOK
<1>. QED
  BY <1>1, <1>2, <1>3, <1>4, <1>5, <1>6, <1>7, <1>8, <1>9, <1>10, <1>11, <1>12, <1>13, <1>14,
     <1>15, <1>16, <1>17, <1>18 DEF Next, StartStep, ReaperStep

\* The types, and the bounds of the ids that rows, requests and locks refer to.
THEOREM TypeCorrect == Spec => []TypeOK
BY TypeInit, TypeStep, PTL DEF Spec

-----------------------------------------------------------------------------
(* Requests and rows under every fault                                     *)

LEMMA FoundType ==
    ASSUME TypeOK, NEW p \in Start
    PROVE  /\ start[p].found # 0 => start[p].found \in Session
           /\ start[p].session # 0 => start[p].session \in Session
           /\ start[p].pc = "tx" => start[p].session \in Session
           /\ start[p].writes # {} => start[p].pc = "tx"
           /\ start[p].key \in Key /\ start[p].writes \subseteq Write
BY LabAssumption DEF TypeOK, Sane, Request, Session

LEMMA AsideStep ==
    ASSUME TypeOK, Sound,
           \/ \E k \in Key : LockExpires(k)
           \/ \E s \in Session : SessionEnds(s) \/ Expire(s)
           \/ \E r \in Replica : ReaperStep(r) \/ ReaperCrash(r)
           \/ LeaderExpires
           \/ UNCHANGED vars
    PROVE  /\ Aside
           /\ \A r \in Replica : \A s \in reaper'[r].todo : s \in reaper[r].todo \/ lab[s] # "none"
<1>. USE DEF Aside
<1>1. ASSUME NEW k \in Key, LockExpires(k)
      PROVE  Aside /\ UNCHANGED reaper
  BY <1>1 DEF LockExpires
<1>2. ASSUME NEW s \in Session, SessionEnds(s)
      PROVE  Aside /\ UNCHANGED reaper
  BY <1>2 DEF SessionEnds, EndSession, AdminTerminates, Solved, ProvisionFailed, Close, TypeOK
<1>3. ASSUME NEW s \in Session, Expire(s)
      PROVE  Aside /\ UNCHANGED reaper
  BY <1>3 DEF Expire
<1>4. ASSUME NEW r \in Replica, Elect(r) \/ ReaperCrash(r)
      PROVE  Aside /\ \A q \in Replica : reaper'[q].todo \subseteq reaper[q].todo
  BY <1>4 DEF Elect, ReaperCrash, IdleReaper, TypeOK, Reaping
<1>5. ASSUME NEW r \in Replica, ReapFind(r)
      PROVE  Aside /\ \A q \in Replica : \A s \in reaper'[q].todo :
                         s \in reaper[q].todo \/ lab[s] # "none"
  <2>1. PICK batch \in SUBSET Overdue :
          reaper' = [reaper EXCEPT ![r] = IF batch = {} THEN IdleReaper
                                          ELSE [pc |-> "reap", todo |-> batch]]
    BY <1>5 DEF ReapFind
  <2>2. \A s \in batch : lab[s] # "none"
    BY DEF Overdue
  <2>. QED BY <1>5, <2>1, <2>2 DEF ReapFind, TypeOK, IdleReaper
<1>6. ASSUME NEW r \in Replica, NEW s \in Session, Reap(r, s)
      PROVE  Aside /\ \A q \in Replica : reaper'[q].todo \subseteq reaper[q].todo
  <2>1. lab[s] # "none"
    BY <1>6 DEF Reap, Sound
  <2>2. Aside
    BY <1>6, <2>1 DEF Reap, TypeOK
  <2>3. \A q \in Replica : reaper'[q].todo \subseteq reaper[q].todo
    <3>1. reaper' = [reaper EXCEPT ![r] = IF reaper[r].todo = {s} THEN IdleReaper
                                          ELSE [pc |-> "reap", todo |-> reaper[r].todo \ {s}]]
      BY <1>6 DEF Reap
    <3>. QED BY <3>1 DEF TypeOK, Reaping, IdleReaper
  <2>. QED BY <2>2, <2>3
<1>7. CASE LeaderExpires \/ UNCHANGED vars
  BY <1>7 DEF LeaderExpires, vars
<1>. HIDE DEF Aside
<1>. QED BY <1>1, <1>2, <1>3, <1>4, <1>5, <1>6, <1>7 DEF ReaperStep

LEMMA SoundAside ==
    ASSUME TypeOK, Sound, Aside,
           \A r \in Replica : \A s \in reaper'[r].todo : s \in reaper[r].todo \/ lab[s] # "none",
           TypeOK'
    PROVE  Sound'
<1>1. \A s \in Session : lab'[s] = "none" <=> lab[s] = "none"
  BY DEF Aside
<1>2. \A p \in Start : start'[p].found # 0 => lab'[start'[p].found] # "none"
  BY <1>1, FoundType DEF Aside, Sound
<1>3. \A p \in Start : "row" \in start'[p].writes => lab'[start'[p].session] = "none"
  BY <1>1, FoundType DEF Aside, Sound
<1>4. \A r \in Replica : \A s \in reaper'[r].todo : lab'[s] # "none"
  BY <1>1 DEF Sound, TypeOK, Reaping
<1>. QED BY <1>2, <1>3, <1>4 DEF Sound, Aside

\* Request p takes a step that neither creates nor writes a session.
LEMMA SoundRequest ==
    ASSUME TypeOK, Sound, NEW p \in Start,
           \A s \in Session : lab'[s] = "none" <=> lab[s] = "none",
           UNCHANGED <<key, reaper>>,
           \A o \in Start : o # p => start'[o] = start[o],
           start'[p].pc # "tx", start'[p].writes = {},
           start'[p].found = 0 \/ (start'[p].found \in Session /\ lab[start'[p].found] # "none")
    PROVE  Sound'
<1>1. ASSUME NEW o \in Start, start'[o].found # 0
      PROVE  lab'[start'[o].found] # "none"
  <2>1. CASE o = p
    BY <1>1, <2>1
  <2>2. CASE o # p
    BY <1>1, <2>2, FoundType DEF Sound
  <2>. QED BY <2>1, <2>2
<1>2. ASSUME NEW o \in Start, "row" \in start'[o].writes
      PROVE  lab'[start'[o].session] = "none"
  <2>1. o # p
    BY <1>2
  <2>. QED BY <1>2, <2>1, FoundType DEF Sound
<1>3. \A r \in Replica : \A s \in reaper'[r].todo : lab'[s] # "none"
  BY DEF Sound, TypeOK, Reaping
<1>4. ASSUME NEW o \in Start, start'[o].pc = "tx"
      PROVE  key'[start'[o].session] = start'[o].key
  BY <1>4 DEF Sound
<1>5. ASSUME NEW o \in Start, NEW q \in Start, start'[o].pc = "tx", start'[q].pc = "tx",
             start'[o].session = start'[q].session
      PROVE  o = q
  BY <1>5 DEF Sound
<1>. QED BY <1>1, <1>2, <1>3, <1>4, <1>5 DEF Sound

LEMMA SoundMint ==
    ASSUME TypeOK, Sound, NEW p \in Start, Mint(p), UNCHANGED <<lab, reaper>>
    PROVE  Sound'
<1>0. minted \in Nat /\ minted + 1 \in Session /\ \A s \in Session : lab[s] # "none" => s <= minted
  BY LabAssumption DEF TypeOK, Mint, Session
<1>1. /\ start'[p].pc = "tx" /\ start'[p].session = minted + 1
      /\ start'[p].key = start[p].key /\ start'[p].found = start[p].found
      /\ key'[minted + 1] = start[p].key
  BY <1>0 DEF Mint, TypeOK, Request
<1>2. \A o \in Start : o # p => start'[o] = start[o]
  BY DEF Mint, TypeOK
<1>3. \A o \in Start : start[o].session # minted + 1 /\ start[o].session \in Nat
  BY <1>0 DEF TypeOK, Sane, Request
<1>4. \A s \in Session : s # minted + 1 => key'[s] = key[s]
  BY DEF Mint, TypeOK
<1>5. lab[minted + 1] = "none"
  BY <1>0
<1>6. ASSUME NEW o \in Start, start'[o].found # 0
      PROVE  lab'[start'[o].found] # "none"
  BY <1>6, <1>1, <1>2 DEF Sound
<1>7. ASSUME NEW o \in Start, "row" \in start'[o].writes
      PROVE  lab'[start'[o].session] = "none"
  BY <1>7, <1>1, <1>2, <1>5 DEF Sound
<1>8. \A r \in Replica : \A s \in reaper'[r].todo : lab'[s] # "none"
  BY DEF Sound
<1>9. ASSUME NEW o \in Start, start'[o].pc = "tx"
      PROVE  key'[start'[o].session] = start'[o].key
  <2>1. CASE o = p
    BY <1>1, <2>1
  <2>2. CASE o # p
    BY <1>2, <1>3, <1>4, <1>9, <2>2, FoundType DEF Sound
  <2>. QED BY <2>1, <2>2
<1>10. ASSUME NEW o \in Start, NEW q \in Start, start'[o].pc = "tx", start'[q].pc = "tx",
              start'[o].session = start'[q].session
       PROVE  o = q
  BY <1>10, <1>1, <1>2, <1>3 DEF Sound
<1>. QED BY <1>6, <1>7, <1>8, <1>9, <1>10 DEF Sound

\* Request p writes its row, its event, or both, and goes on.
LEMMA SoundWritten ==
    ASSUME TypeOK, Sound, NEW p \in Start, start[p].pc = "tx", UNCHANGED <<key, reaper>>,
           NEW ws \in SUBSET start[p].writes, Written(p, ws),
           \A o \in Start : o # p => start'[o] = start[o],
           \/ start'[p].pc # "tx" /\ start'[p].writes = {}
           \/ /\ start'[p].pc = "tx" /\ start'[p].session = start[p].session
              /\ start'[p].key = start[p].key
              /\ start'[p].writes = start[p].writes \ ws,
           start'[p].found = 0 \/ start'[p].found = start[p].found
    PROVE  Sound'
<1>0. start[p].session \in Session
  BY FoundType
<1>1. /\ lab' \in [Session -> Status]
      /\ \A s \in Session : s # start[p].session => lab'[s] = lab[s]
      /\ "row" \notin ws => lab' = lab
      /\ \A s \in Session : lab[s] # "none" => lab'[s] # "none"
  BY <1>0 DEF Written, TypeOK, Status
<1>2. ASSUME NEW o \in Start, start'[o].found # 0
      PROVE  lab'[start'[o].found] # "none"
  BY <1>1, <1>2, FoundType DEF Sound
<1>3. ASSUME NEW o \in Start, "row" \in start'[o].writes
      PROVE  lab'[start'[o].session] = "none"
  <2>1. CASE o = p
    BY <1>1, <1>3, <2>1, FoundType DEF Sound
  <2>2. CASE o # p
    <3>1. start[o].pc = "tx" /\ start[o].session \in Session /\ start[o].session # start[p].session
      BY <1>3, <2>2, FoundType DEF Sound
    <3>. QED BY <1>1, <1>3, <2>2, <3>1 DEF Sound
  <2>. QED BY <2>1, <2>2
<1>4. \A r \in Replica : \A s \in reaper'[r].todo : lab'[s] # "none"
  BY <1>1 DEF Sound, TypeOK, Reaping
<1>5. ASSUME NEW o \in Start, start'[o].pc = "tx"
      PROVE  key'[start'[o].session] = start'[o].key
  BY <1>5 DEF Sound
<1>6. ASSUME NEW o \in Start, NEW q \in Start, start'[o].pc = "tx", start'[q].pc = "tx",
             start'[o].session = start'[q].session
      PROVE  o = q
  BY <1>6 DEF Sound
<1>. QED BY <1>2, <1>3, <1>4, <1>5, <1>6 DEF Sound

-----------------------------------------------------------------------------
LEMMA SoundInit == Init => Sound
<1>. SUFFICES ASSUME Init PROVE Sound
  OBVIOUS
<1>1. \A p \in Start : start[p].pc = "idle" /\ start[p].found = 0 /\ start[p].writes = {}
  BY DEF Init
<1>2. \A r \in Replica : reaper[r].todo = {}
  BY DEF Init, IdleReaper
<1>. QED BY <1>1, <1>2 DEF Sound

\* What Goto and Answer do to the request, and to the others.
LEMMA GotoFields ==
    ASSUME TypeOK, NEW p \in Start, NEW c, Goto(p, c)
    PROVE  /\ start'[p].pc = c /\ start'[p].found = start[p].found /\ start'[p].key = start[p].key
           /\ start'[p].session = start[p].session /\ start'[p].writes = start[p].writes
           /\ \A o \in Start : o # p => start'[o] = start[o]
BY DEF Goto, TypeOK, Request

LEMMA AnswerFields ==
    ASSUME TypeOK, NEW p \in Start, NEW s, Answer(p, s)
    PROVE  /\ start'[p].pc = "idle" /\ start'[p].found = 0 /\ start'[p].key = start[p].key
           /\ start'[p].session = 0 /\ start'[p].writes = {}
           /\ \A o \in Start : o # p => start'[o] = start[o]
BY DEF Answer, TypeOK

LEMMA FindFields ==
    ASSUME TypeOK, NEW p \in Start, NEW k \in Key, Find(p, k)
    PROVE  /\ start'[p].key = k /\ start'[p].writes = {} /\ start'[p].session = 0
           /\ \A o \in Start : o # p => start'[o] = start[o]
           /\ \/ start'[p].pc = "count" /\ start'[p].found = 0 /\ Active(k) = {}
              \/ start'[p].pc = "probe" /\ start'[p].found \in Active(k)
BY DEF Find, TypeOK

LEMMA SoundStep ==
    ASSUME TypeOK, Sound, [Next]_vars
    PROVE  Sound'
<1>0. TypeOK'
  BY TypeStep
<1>1. ASSUME NEW p \in Start, NEW k \in Key, Find(p, k)
      PROVE  Sound'
  <2>1. start'[p].found = 0 \/ (start'[p].found \in Session /\ lab[start'[p].found] # "none")
    BY <1>1, FindFields DEF Active
  <2>2. lab' = lab /\ UNCHANGED <<key, reaper>>
    BY <1>1 DEF Find
  <2>3. start'[p].pc # "tx" /\ start'[p].writes = {} /\ \A o \in Start : o # p => start'[o] = start[o]
    BY <1>1, FindFields
  <2>. QED BY <2>1, <2>2, <2>3, SoundRequest
<1>2. ASSUME NEW p \in Start, Probe(p) \/ Count(p) \/ Undo(p) \/ Abort(p)
      PROVE  Sound'
  <2>1. lab' = lab /\ UNCHANGED <<key, reaper>>
    BY <1>2 DEF Probe, Count, Undo, Abort
  <2>2. start[p].pc # "tx" => start[p].writes = {}
    BY FoundType
  <2>3. CASE \E s : Answer(p, s)
    BY <2>1, <2>3, AnswerFields, SoundRequest
  <2>4. CASE start[p].pc # "tx" /\ \E c \in {"recycle", "lock"} : Goto(p, c)
    <3>1. start'[p].pc # "tx" /\ start'[p].writes = {} /\ start'[p].found = start[p].found
          /\ \A o \in Start : o # p => start'[o] = start[o]
      BY <2>2, <2>4, GotoFields
    <3>2. start'[p].found = 0 \/ (start'[p].found \in Session /\ lab[start'[p].found] # "none")
      BY <3>1, FoundType DEF Sound
    <3>. QED BY <2>1, <3>1, <3>2, SoundRequest
  <2>. QED BY <1>2, <2>3, <2>4 DEF Probe, Count, Undo, Abort
<1>3. ASSUME NEW p \in Start, Recycle(p)
      PROVE  Sound'
  <2>1. start[p].found \in Session /\ lab[start[p].found] # "none" /\ start[p].writes = {}
    <3>1. start[p].found # 0
      BY <1>3 DEF Recycle, TypeOK, Sane
    <3>. QED BY <1>3, <3>1, FoundType DEF Recycle, Sound
  <2>2. \A s \in Session : lab'[s] = "none" <=> lab[s] = "none"
    BY <1>3, <2>1 DEF Recycle, TypeOK
  <2>3. start'[p].pc # "tx" /\ start'[p].writes = {} /\ start'[p].found = start[p].found
        /\ \A o \in Start : o # p => start'[o] = start[o]
    BY <1>3, <2>1, GotoFields DEF Recycle
  <2>4. UNCHANGED <<key, reaper>>
    BY <1>3 DEF Recycle
  <2>. QED BY <2>1, <2>2, <2>3, <2>4, SoundRequest
<1>4. ASSUME NEW p \in Start, TryLock(p) \/ GetLocked(p)
      PROVE  Sound'
  <2>1. lab' = lab /\ UNCHANGED reaper
    BY <1>4 DEF TryLock, GetLocked
  <2>2. CASE Mint(p)
    BY <2>1, <2>2, SoundMint
  <2>3. CASE Goto(p, "get") /\ start[p].pc = "lock" /\ UNCHANGED key
    <3>1. start'[p].pc # "tx" /\ start'[p].writes = {} /\ start'[p].found = start[p].found
          /\ \A o \in Start : o # p => start'[o] = start[o]
      BY <2>3, GotoFields, FoundType
    <3>2. start'[p].found = 0 \/ (start'[p].found \in Session /\ lab[start'[p].found] # "none")
      BY <3>1, FoundType DEF Sound
    <3>. QED BY <2>1, <2>3, <3>1, <3>2, SoundRequest
  <2>4. CASE Answer(p, lock[start[p].key]) /\ UNCHANGED key
    <3>1. start'[p].pc # "tx" /\ start'[p].writes = {} /\ start'[p].found = 0
          /\ \A o \in Start : o # p => start'[o] = start[o]
      BY <2>4, AnswerFields
    <3>. QED BY <2>1, <2>4, <3>1, SoundRequest
  <2>. QED BY <1>4, <2>2, <2>3, <2>4 DEF TryLock, GetLocked
<1>5. ASSUME NEW p \in Start, NEW w \in Write, Commit(p, w)
      PROVE  Sound'
  <2>1. start[p].pc = "tx" /\ {w} \in SUBSET start[p].writes /\ Written(p, {w}) /\ UNCHANGED <<key, reaper>>
    BY <1>5 DEF Commit
  <2>2. CASE Answer(p, start[p].session)
    <3>1. start'[p].pc # "tx" /\ start'[p].writes = {} /\ start'[p].found = 0
          /\ \A o \in Start : o # p => start'[o] = start[o]
      BY <2>2, AnswerFields
    <3>. QED BY <2>1, <3>1, SoundWritten
  <2>3. CASE start' = [start EXCEPT ![p].writes = @ \ {w}]
    <3>1. /\ start'[p].pc = "tx" /\ start'[p].session = start[p].session
          /\ start'[p].key = start[p].key /\ start'[p].found = start[p].found
          /\ start'[p].writes = start[p].writes \ {w}
          /\ \A o \in Start : o # p => start'[o] = start[o]
      BY <2>1, <2>3 DEF TypeOK, Request
    <3>. QED BY <2>1, <3>1, SoundWritten
  <2>. QED BY <1>5, <2>2, <2>3 DEF Commit
<1>6. ASSUME NEW p \in Start, CommitFails(p)
      PROVE  Sound'
  <2>1. PICK ws \in SUBSET start[p].writes : Written(p, ws)
    BY <1>6 DEF CommitFails
  <2>2. start[p].pc = "tx" /\ UNCHANGED <<key, reaper>>
    BY <1>6 DEF CommitFails
  <2>3. /\ start'[p].pc # "tx" /\ start'[p].writes = {} /\ start'[p].found = start[p].found
        /\ \A o \in Start : o # p => start'[o] = start[o]
    BY <1>6 DEF CommitFails, TypeOK, Request
  <2>. QED BY <2>1, <2>2, <2>3, SoundWritten
<1>7. CASE \/ \E k \in Key : LockExpires(k)
           \/ \E s \in Session : SessionEnds(s) \/ Expire(s)
           \/ \E r \in Replica : ReaperStep(r) \/ ReaperCrash(r)
           \/ LeaderExpires
           \/ UNCHANGED vars
  BY <1>0, <1>7, AsideStep, SoundAside
<1>. QED BY <1>1, <1>2, <1>3, <1>4, <1>5, <1>6, <1>7 DEF Next, StartStep

-----------------------------------------------------------------------------
(* The history of faults                                                   *)

\* No kind of fault is forgotten, and a fault that has not happened after a step was
\* not the step.
LEMMA FaultsGrow ==
    ASSUME [Next]_vars, NEW kinds, Without(kinds)'
    PROVE  Without(kinds) /\ \A k \in kinds : ~Fault(k)
<1>1. faults' = faults \/ \E k : Fault(k)
  <2>1. ASSUME NEW p \in Start, (\E k \in Key : Find(p, k)) \/ StartStep(p) \/ Abort(p)
        PROVE  faults' = faults \/ \E k : Fault(k)
    BY <2>1 DEF Find, StartStep, Probe, Recycle, Count, TryLock, GetLocked, Commit, CommitFails,
                Undo, Abort
  <2>2. ASSUME NEW s \in Session, SessionEnds(s) \/ Expire(s)
        PROVE  faults' = faults \/ \E k : Fault(k)
    BY <2>2 DEF SessionEnds, EndSession, AdminTerminates, Solved, ProvisionFailed, Expire
  <2>3. ASSUME NEW r \in Replica, ReaperStep(r) \/ ReaperCrash(r)
        PROVE  faults' = faults \/ \E k : Fault(k)
    BY <2>3 DEF ReaperStep, Elect, ReapFind, Reap, ReaperCrash
  <2>4. CASE (\E k \in Key : LockExpires(k)) \/ LeaderExpires \/ UNCHANGED vars
    BY <2>4 DEF LockExpires, LeaderExpires, vars
  <2>. QED BY <2>1, <2>2, <2>3, <2>4 DEF Next
<1>2. ASSUME NEW k, Fault(k)
      PROVE  faults'.kinds = faults.kinds \cup {k}
  BY <1>2 DEF Fault
<1>3. faults.kinds \subseteq faults'.kinds
  BY <1>1, <1>2
<1>. QED BY <1>2, <1>3 DEF Without

-----------------------------------------------------------------------------
(* The reapers                                                             *)

\* A replica at work is the leader.
WorksAsLeader == Without({"slow"}) => \A r \in Replica : reaper[r].pc # "idle" => leader = r

LEMMA LeaderStep ==
    ASSUME TypeOK, WorksAsLeader, [Next]_vars
    PROVE  WorksAsLeader'
<1>. SUFFICES ASSUME Without({"slow"})'
              PROVE  WorksAsLeader'
  BY DEF WorksAsLeader
<1>0. /\ Without({"slow"})
      /\ \A r \in Replica : reaper[r].pc # "idle" => leader = r
      /\ ~Fault("slow")
  BY FaultsGrow DEF WorksAsLeader
<1>1. ASSUME NEW r \in Replica, Elect(r)
      PROVE  WorksAsLeader'
  BY <1>0, <1>1, LabAssumption DEF Elect, WorksAsLeader, TypeOK
<1>2. ASSUME NEW r \in Replica, ReapFind(r) \/ ReaperCrash(r) \/ \E s \in Session : Reap(r, s)
      PROVE  WorksAsLeader'
  <2>1. leader' = leader /\ reaper[r].pc # "idle" /\ \A q \in Replica : q # r => reaper'[q] = reaper[q]
    BY <1>2 DEF ReapFind, ReaperCrash, Reap, TypeOK
  <2>. QED BY <1>0, <2>1 DEF WorksAsLeader
<1>3. CASE LeaderExpires
  BY <1>0, <1>3 DEF LeaderExpires, WorksAsLeader
<1>4. ASSUME UNCHANGED <<leader, reaper>>
      PROVE  WorksAsLeader'
  BY <1>0, <1>4 DEF WorksAsLeader
<1>5. ASSUME NEW p \in Start, (\E k \in Key : Find(p, k)) \/ StartStep(p) \/ Abort(p)
      PROVE  UNCHANGED <<leader, reaper>>
  BY <1>5 DEF Find, StartStep, Probe, Recycle, Count, TryLock, GetLocked, Commit, CommitFails, Undo, Abort
<1>6. ASSUME NEW s \in Session, SessionEnds(s) \/ Expire(s)
      PROVE  UNCHANGED <<leader, reaper>>
  BY <1>6 DEF SessionEnds, EndSession, AdminTerminates, Solved, ProvisionFailed, Expire
<1>7. ASSUME NEW k \in Key, LockExpires(k)
      PROVE  UNCHANGED <<leader, reaper>>
  BY <1>7 DEF LockExpires
<1>8. CASE UNCHANGED vars
  BY <1>8, <1>4 DEF vars
<1>. QED BY <1>1, <1>2, <1>3, <1>4, <1>5, <1>6, <1>7, <1>8 DEF Next, ReaperStep

\* One replica at a time has sessions to reap, as long as no cycle outlives the lock
\* of its leader; crashes and failed transactions do not matter.
THEOREM ReapersCorrect == Spec => []ReapersDisjoint
<1>1. Init => WorksAsLeader
  BY DEF Init, WorksAsLeader, IdleReaper, Without
<1>2. TypeOK /\ WorksAsLeader /\ [Next]_vars => WorksAsLeader'
  BY LeaderStep
<1>3. WorksAsLeader => ReapersDisjoint
  BY DEF WorksAsLeader, ReapersDisjoint
<1>. QED BY <1>1, <1>2, <1>3, TypeCorrect, PTL DEF Spec

-----------------------------------------------------------------------------
(* One ACTIVE session                                                      *)

\* A request is not disturbed by steps that leave it and its lock alone and make no
\* row ACTIVE.
LEMMA LockFrame ==
    ASSUME TypeOK, NEW p \in Start, LockOf(p), start'[p] = start[p],
           lock'[start[p].key] = lock[start[p].key],
           \A s \in Session : lab'[s] = "ACTIVE" => lab[s] = "ACTIVE" /\ key'[s] = key[s]
    PROVE  LockOf(p)'
<1>1. start[p].found # 0 => start[p].found \in Session
  BY FoundType
<1>. QED BY <1>1 DEF LockOf

LEMMA OneFrame ==
    ASSUME OneActive,
           \A s \in Session : lab'[s] = "ACTIVE" => lab[s] = "ACTIVE" /\ key'[s] = key[s]
    PROVE  OneActive'
BY DEF OneActive

LEMMA LockAside ==
    ASSUME TypeOK, LockOK, Aside, ~Fault("expiry")
    PROVE  LockOK'
<1>1. \A s \in Session : lab'[s] = "ACTIVE" => lab[s] = "ACTIVE" /\ key'[s] = key[s]
  BY DEF Aside
<1>2. ASSUME NEW p \in Start
      PROVE  LockOf(p)'
  <2>1. LockOf(p) /\ start'[p] = start[p]
    BY DEF LockOK, Aside
  <2>2. CASE lock'[start[p].key] = lock[start[p].key]
    BY <1>1, <2>1, <2>2, LockFrame
  <2>3. CASE LockExpires(start[p].key)
    <3>1. ~Straddles(p, start[p].key) /\ lab' = lab /\ key' = key
      BY <2>3 DEF LockExpires
    <3>2. /\ start[p].pc \notin {"get", "tx", "undo"}
          /\ start[p].pc \in {"probe", "recycle", "count", "lock"} => start[p].found = lock[start[p].key]
      BY <3>1 DEF Straddles
    <3>3. start[p].writes = {}
      BY <3>2, FoundType
    <3>. QED BY <2>1, <3>1, <3>2, <3>3 DEF LockOf
  <2>4. (UNCHANGED lock) \/ \E k \in Key : LockExpires(k)
    BY DEF Aside
  <2>5. ASSUME NEW k \in Key, LockExpires(k), k # start[p].key
        PROVE  lock'[start[p].key] = lock[start[p].key]
    BY <2>5, FoundType DEF LockExpires, TypeOK
  <2>. QED BY <2>2, <2>3, <2>4, <2>5
<1>3. OneActive'
  BY <1>1, OneFrame DEF LockOK
<1>. QED BY <1>2, <1>3 DEF LockOK

\* A step of request p that leaves rows and locks alone.
LEMMA LockRequest ==
    ASSUME TypeOK, LockOK, NEW p \in Start, UNCHANGED <<lab, key, lock>>,
           \A o \in Start : o # p => start'[o] = start[o], LockOf(p)'
    PROVE  LockOK'
<1>1. ASSUME NEW o \in Start, o # p
      PROVE  LockOf(o)'
  BY <1>1, LockFrame DEF LockOK
<1>2. OneActive'
  BY OneFrame DEF LockOK
<1>. QED BY <1>1, <1>2 DEF LockOK

LEMMA LockMint ==
    ASSUME TypeOK, Sound, LockOK, NEW p \in Start, start[p].pc = "lock", Mint(p),
           lock[start[p].key] = 0, lock' = [lock EXCEPT ![start[p].key] = minted + 1],
           UNCHANGED lab
    PROVE  LockOK'
<1>0. minted \in Nat /\ minted + 1 \in Session /\ \A s \in Session : lab[s] # "none" => s <= minted
  BY LabAssumption DEF TypeOK, Mint, Session
<1>1. \A s \in Session : lab'[s] = "ACTIVE" => lab[s] = "ACTIVE" /\ key'[s] = key[s]
  BY <1>0 DEF Mint, TypeOK
<1>2. /\ start'[p].pc = "tx" /\ start'[p].session = minted + 1 /\ start'[p].key = start[p].key
      /\ \A o \in Start : o # p => start'[o] = start[o]
  BY DEF Mint, TypeOK, Request
<1>3. start[p].key \in Key /\ lock'[start[p].key] = minted + 1
      /\ \A k \in Key : k # start[p].key => lock'[k] = lock[k]
  BY FoundType DEF TypeOK
<1>4. \A s \in Session : lab[s] = "ACTIVE" => key[s] # start[p].key
  <2>1. LockOf(p) /\ 0 \notin Session
    BY DEF LockOK, Session
  <2>. QED BY <2>1, FoundType DEF LockOf
<1>5. LockOf(p)'
  BY <1>1, <1>2, <1>3, <1>4 DEF LockOf
<1>6. ASSUME NEW o \in Start, o # p
      PROVE  LockOf(o)'
  <2>1. LockOf(o) /\ start'[o] = start[o] /\ start[o].key \in Key
    BY <1>2, <1>6, FoundType DEF LockOK
  <2>2. CASE start[o].key # start[p].key
    BY <1>1, <1>3, <2>1, <2>2, LockFrame
  <2>3. CASE start[o].key = start[p].key
    <3>1. start[o].pc # "get" /\ start[o].pc # "tx"
      <4>1. start[o].pc = "tx" => start[o].session # 0
        BY FoundType DEF Session
      <4>. QED BY <2>1, <2>3, <4>1 DEF LockOf
    <3>2. start[o].writes = {}
      BY <3>1, FoundType
    <3>3. start[o].found # 0 => start[o].found \in Session
      BY FoundType
    <3>. QED BY <1>1, <1>4, <2>1, <2>3, <3>1, <3>2, <3>3 DEF LockOf
  <2>. QED BY <2>2, <2>3
<1>7. OneActive'
  BY <1>1, OneFrame DEF LockOK
<1>. QED BY <1>5, <1>6, <1>7 DEF LockOK

LEMMA LockCommit ==
    ASSUME TypeOK, Sound, LockOK, NEW p \in Start, NEW w \in Write, Commit(p, w)
    PROVE  LockOK'
<1>0. /\ start[p].pc = "tx" /\ w \in start[p].writes /\ start[p].session \in Session
      /\ key' = key /\ lock' = lock /\ key[start[p].session] = start[p].key /\ LockOf(p)
      /\ lock[start[p].key] = start[p].session
  BY FoundType DEF Commit, Sound, LockOK, LockOf
<1>1. /\ \A o \in Start : o # p => start'[o] = start[o]
      /\ \/ start'[p].pc = "idle" /\ start'[p].writes = {}
         \/ /\ start'[p].pc = "tx" /\ start'[p].session = start[p].session
            /\ start'[p].key = start[p].key /\ start'[p].writes = start[p].writes \ {w}
  <2>1. CASE Answer(p, start[p].session)
    BY <2>1, AnswerFields
  <2>2. CASE start' = [start EXCEPT ![p].writes = @ \ {w}]
    BY <1>0, <2>2 DEF TypeOK, Request
  <2>. QED BY <2>1, <2>2 DEF Commit
<1>2. CASE w = "event"
  <2>1. lab' = lab
    BY <1>2 DEF Commit, Written
  <2>2. LockOf(p)'
    BY <1>0, <1>1, <2>1 DEF LockOf
  <2>. QED BY <1>0, <1>1, <2>1, <2>2, LockRequest
<1>3. CASE w = "row"
  <2>1. /\ lab'[start[p].session] = "ACTIVE" /\ lab[start[p].session] = "none"
        /\ \A s \in Session : s # start[p].session => lab'[s] = lab[s]
        /\ \A s \in Session : lab[s] = "ACTIVE" => key[s] # start[p].key
    BY <1>0, <1>3 DEF Commit, Written, TypeOK, Sound, LockOf
  <2>2. "row" \notin start'[p].writes
    BY <1>1, <1>3
  <2>3. LockOf(p)'
    BY <1>0, <1>1, <2>2 DEF LockOf
  <2>4. ASSUME NEW o \in Start, o # p
        PROVE  LockOf(o)'
    <3>1. LockOf(o) /\ start'[o] = start[o]
      BY <1>1, <2>4 DEF LockOK
    <3>2. start[o].found # start[p].session /\ (start[o].found # 0 => start[o].found \in Session)
      <4>1. start[p].session # 0
        BY <1>0 DEF Session
      <4>. QED BY <2>1, <4>1, FoundType DEF Sound
    <3>3. "row" \in start[o].writes => start[o].key # start[p].key
      <4>1. "row" \in start[o].writes => start[o].pc = "tx"
        BY FoundType
      <4>. QED BY <1>0, <2>4, <3>1, <4>1 DEF LockOf, Sound
    <3>. QED BY <1>0, <2>1, <3>1, <3>2, <3>3 DEF LockOf
  <2>5. OneActive'
    BY <1>0, <2>1 DEF OneActive, LockOK
  <2>. QED BY <2>3, <2>4, <2>5 DEF LockOK
<1>. QED BY <1>2, <1>3 DEF Write

LEMMA LockStep ==
    ASSUME TypeOK, Sound, LockSafe, [Next]_vars
    PROVE  LockSafe'
<1>. SUFFICES ASSUME Without({"db", "expiry"})'
              PROVE  LockOK'
  BY DEF LockSafe
<1>0. LockOK /\ ~Fault("db") /\ ~Fault("expiry")
  BY FaultsGrow DEF LockSafe
<1>1. ASSUME NEW p \in Start, NEW k \in Key, Find(p, k)
      PROVE  LockOK'
  <2>1. UNCHANGED <<lab, key, lock>>
    BY <1>0, <1>1 DEF Find
  <2>2. LockOf(p)'
    <3>1. CASE start'[p].pc = "count" /\ start'[p].found = 0 /\ Active(k) = {}
      BY <1>0, <1>1, <2>1, <3>1, FindFields DEF LockOf, Active
    <3>2. CASE start'[p].pc = "probe" /\ start'[p].found \in Active(k)
      BY <1>0, <1>1, <2>1, <3>2, FindFields DEF LockOf, Active, LockOK, OneActive
    <3>. QED BY <1>0, <1>1, <3>1, <3>2, FindFields
  <2>. QED BY <1>0, <1>1, <2>1, <2>2, FindFields, LockRequest
<1>2. ASSUME NEW p \in Start, NEW s, Answer(p, s), UNCHANGED <<lab, key, lock>>
      PROVE  LockOK'
  <2>1. LockOf(p)'
    BY <1>0, <1>2, AnswerFields DEF LockOf
  <2>. QED BY <1>0, <1>2, <2>1, AnswerFields, LockRequest
<1>3. ASSUME NEW p \in Start, Probe(p) \/ Count(p)
      PROVE  LockOK'
  <2>1. UNCHANGED <<lab, key, lock>> /\ start[p].pc \in {"probe", "count"} /\ LockOf(p)
    BY <1>0, <1>3 DEF Probe, Count, LockOK
  <2>2. CASE \E s : Answer(p, s)
    BY <1>0, <1>2, <2>1, <2>2
  <2>3. CASE \/ start[p].pc = "probe" /\ Goto(p, "recycle")
             \/ start[p].pc = "count" /\ Goto(p, "lock")
    <3>1. LockOf(p)'
      <4>1. start[p].writes = {}
        BY <1>0, <2>1, FoundType
      <4>. QED BY <1>0, <2>1, <2>3, <4>1, GotoFields DEF LockOf
    <3>. QED BY <1>0, <2>1, <2>3, <3>1, GotoFields, LockRequest
  <2>. QED BY <1>0, <1>3, <2>2, <2>3 DEF Probe, Count
<1>4. ASSUME NEW p \in Start, Recycle(p)
      PROVE  LockOK'
  <2>0. /\ start[p].pc = "recycle" /\ start[p].found \in Session /\ start[p].writes = {}
        /\ UNCHANGED <<key, lock>> /\ Goto(p, "count") /\ LockOf(p)
    <3>1. start[p].found # 0
      BY <1>0, <1>4 DEF Recycle, TypeOK, Sane
    <3>. QED BY <1>0, <1>4, <3>1, FoundType DEF Recycle, LockOK
  <2>1. /\ lab'[start[p].found] = "TERMINATED"
        /\ \A s \in Session : lab'[s] = "ACTIVE" => lab[s] = "ACTIVE" /\ key'[s] = key[s]
    BY <1>0, <1>4, <2>0 DEF Recycle, TypeOK
  <2>2. LockOf(p)'
    BY <1>0, <2>0, <2>1, GotoFields DEF LockOf
  <2>3. ASSUME NEW o \in Start, o # p
        PROVE  LockOf(o)'
    BY <1>0, <2>0, <2>1, <2>3, GotoFields, LockFrame DEF LockOK
  <2>4. OneActive'
    BY <1>0, <2>1, OneFrame DEF LockOK
  <2>. QED BY <1>0, <2>2, <2>3, <2>4 DEF LockOK
<1>5. ASSUME NEW p \in Start, TryLock(p)
      PROVE  LockOK'
  <2>1. CASE Mint(p) /\ lock[start[p].key] = 0 /\ lock' = [lock EXCEPT ![start[p].key] = minted + 1]
    BY <1>0, <1>5, <2>1, LockMint DEF TryLock
  <2>2. CASE lock[start[p].key] # 0 /\ Goto(p, "get") /\ UNCHANGED <<key, lock>>
    <3>1. LockOf(p)'
      <4>1. start[p].writes = {}
        BY <1>0, <1>5, FoundType DEF TryLock
      <4>. QED BY <1>0, <2>2, <4>1, GotoFields DEF LockOf
    <3>. QED BY <1>0, <1>5, <2>2, <3>1, GotoFields, LockRequest DEF TryLock
  <2>. QED BY <1>0, <1>5, <2>1, <2>2 DEF TryLock
<1>6. ASSUME NEW p \in Start, GetLocked(p)
      PROVE  LockOK'
  <2>1. lock[start[p].key] # 0
    BY <1>0, <1>6 DEF GetLocked, LockOK, LockOf
  <2>. QED BY <1>0, <1>2, <1>6, <2>1 DEF GetLocked
<1>7. ASSUME NEW p \in Start, Abort(p)
      PROVE  LockOK'
  BY <1>0, <1>2, <1>7 DEF Abort
<1>8. ASSUME NEW p \in Start, CommitFails(p) \/ Undo(p)
      PROVE  FALSE
  BY <1>0, <1>8 DEF CommitFails, Undo, LockOK, LockOf
<1>9. CASE \/ \E k \in Key : LockExpires(k)
           \/ \E s \in Session : SessionEnds(s) \/ Expire(s)
           \/ \E r \in Replica : ReaperStep(r) \/ ReaperCrash(r)
           \/ LeaderExpires
           \/ UNCHANGED vars
  BY <1>0, <1>9, AsideStep, LockAside
<1>. QED BY <1>0, <1>1, <1>3, <1>4, <1>5, <1>6, <1>7, <1>8, <1>9, LockCommit DEF Next, StartStep

LEMMA LockInit == Init => LockSafe
<1>. SUFFICES ASSUME Init PROVE LockOK
  BY DEF LockSafe
<1>1. \A p \in Start : start[p].pc = "idle" /\ start[p].writes = {}
  BY DEF Init
<1>2. \A s \in Session : lab[s] = "none"
  BY DEF Init
<1>. QED BY <1>1, <1>2 DEF LockOK, LockOf, OneActive

\* A user has one ACTIVE session of a challenge however many requests start it at
\* once, crash, or find the session dead, as long as no write of a start fails and no
\* lock expires within a request.
THEOREM OneActiveCorrect == Spec => []OneActivePerChallenge
<1>1. TypeOK /\ Sound /\ LockSafe /\ [Next]_vars => TypeOK' /\ Sound' /\ LockSafe'
  BY TypeStep, SoundStep, LockStep
<1>2. LockSafe => OneActivePerChallenge
  BY DEF LockSafe, LockOK, OneActive, OneActivePerChallenge
<1>. QED BY <1>1, <1>2, TypeInit, SoundInit, LockInit, PTL DEF Spec

-----------------------------------------------------------------------------
(* The overshoot of the limit                                               *)

LEMMA SizesFinite ==
    ASSUME NEW u \in User
    PROVE  /\ IsFiniteSet(ActiveOf(u)) /\ Cardinality(ActiveOf(u)) \in Nat
           /\ IsFiniteSet(Coming(u)) /\ Cardinality(Coming(u)) \in Nat
           /\ Cardinality(Coming(u)) <= Cardinality(Start) /\ Cardinality(Start) \in Nat
<1>1. IsFiniteSet(Session)
  BY LabAssumption, FS_Interval DEF Session
<1>2. ActiveOf(u) \subseteq Session /\ Coming(u) \subseteq Start
  BY DEF ActiveOf, Coming
<1>. QED BY <1>1, <1>2, LabAssumption, FS_Subset, FS_CardinalityType

\* The sizes do not grow.
LEMMA LimitFrame ==
    ASSUME NEW u \in User, Cardinality(ActiveOf(u)) + Cardinality(Coming(u)) < Limit + Cardinality(Start),
           ActiveOf(u)' \subseteq ActiveOf(u), Coming(u)' \subseteq Coming(u)
    PROVE  Cardinality(ActiveOf(u)') + Cardinality(Coming(u)') < Limit + Cardinality(Start)
<1>1. /\ IsFiniteSet(ActiveOf(u)) /\ Cardinality(ActiveOf(u)) \in Nat
      /\ IsFiniteSet(Coming(u)) /\ Cardinality(Coming(u)) \in Nat /\ Cardinality(Start) \in Nat
  BY SizesFinite
<1>2. /\ Cardinality(ActiveOf(u)') <= Cardinality(ActiveOf(u)) /\ Cardinality(ActiveOf(u)') \in Nat
      /\ Cardinality(Coming(u)') <= Cardinality(Coming(u)) /\ Cardinality(Coming(u)') \in Nat
  BY <1>1, FS_Subset, FS_CardinalityType
<1>. QED BY <1>1, <1>2, LabAssumption

\* A request that was coming has its session.
LEMMA LimitArrives ==
    ASSUME NEW u \in User, Cardinality(ActiveOf(u)) + Cardinality(Coming(u)) < Limit + Cardinality(Start),
           NEW s, NEW p \in Coming(u),
           ActiveOf(u)' \subseteq ActiveOf(u) \cup {s}, Coming(u)' \subseteq Coming(u) \ {p}
    PROVE  Cardinality(ActiveOf(u)') + Cardinality(Coming(u)') < Limit + Cardinality(Start)
<1>1. /\ IsFiniteSet(ActiveOf(u)) /\ Cardinality(ActiveOf(u)) \in Nat
      /\ IsFiniteSet(Coming(u)) /\ Cardinality(Coming(u)) \in Nat /\ Cardinality(Start) \in Nat
  BY SizesFinite
<1>2. /\ IsFiniteSet(ActiveOf(u) \cup {s})
      /\ Cardinality(ActiveOf(u) \cup {s}) <= Cardinality(ActiveOf(u)) + 1
      /\ Cardinality(ActiveOf(u) \cup {s}) \in Nat
  <2>. DEFINE A == ActiveOf(u)
              n == Cardinality(A)
              m == Cardinality(A \cup {s})
  <2>1. IsFiniteSet(A) /\ n \in Nat
    BY <1>1
  <2>. HIDE DEF A
  <2>2. IsFiniteSet(A \cup {s}) /\ (m = n \/ m = n + 1)
    <3>1. CASE s \in A
      <4>1. A \cup {s} = A
        BY <3>1
      <4>. QED BY <2>1, <4>1
    <3>2. CASE s \notin A
      BY <2>1, <3>2, FS_AddElement
    <3>. QED BY <3>1, <3>2
  <2>3. m \in Nat
    BY <2>2, FS_CardinalityType
  <2>. HIDE DEF n, m
  <2>4. m <= n + 1
    BY <2>1, <2>2, <2>3
  <2>. QED BY <2>2, <2>3, <2>4 DEF A, n, m
<1>3. /\ IsFiniteSet(Coming(u) \ {p})
      /\ Cardinality(Coming(u) \ {p}) = Cardinality(Coming(u)) - 1
      /\ Cardinality(Coming(u) \ {p}) \in Nat
  BY <1>1, FS_RemoveElement, FS_CardinalityType
<1>4. /\ Cardinality(ActiveOf(u)') <= Cardinality(ActiveOf(u) \cup {s}) /\ Cardinality(ActiveOf(u)') \in Nat
      /\ Cardinality(Coming(u)') <= Cardinality(Coming(u) \ {p}) /\ Cardinality(Coming(u)') \in Nat
  BY <1>2, <1>3, FS_Subset, FS_CardinalityType
<1>. QED BY <1>1, <1>2, <1>3, <1>4, LabAssumption

\* Request p writes its row, or not, and is not coming any more when it has.
LEMMA LimitWritten ==
    ASSUME TypeOK, Sound, LimitOvershoot, NEW p \in Start, start[p].pc = "tx", UNCHANGED key,
           NEW ws \in SUBSET start[p].writes, Written(p, ws),
           \A o \in Start : o # p => start'[o] = start[o],
           start'[p].key = start[p].key, start'[p].pc \notin {"lock", "get"},
           start'[p].writes \subseteq start[p].writes \ ws
    PROVE  LimitOvershoot'
<1>. SUFFICES ASSUME NEW u \in User
              PROVE  Cardinality(ActiveOf(u)') + Cardinality(Coming(u)') < Limit + Cardinality(Start)
  BY DEF LimitOvershoot
<1>1. Cardinality(ActiveOf(u)) + Cardinality(Coming(u)) < Limit + Cardinality(Start)
  BY DEF LimitOvershoot
<1>2. start[p].session \in Session /\ key[start[p].session] = start[p].key
  BY FoundType DEF Sound
<1>3. Coming(u)' \subseteq Coming(u)
  BY DEF Coming
<1>4. CASE "row" \in ws /\ start[p].key[1] = u
  <2>1. p \in Coming(u) /\ p \notin Coming(u)'
    BY <1>4 DEF Coming
  <2>2. ActiveOf(u)' \subseteq ActiveOf(u) \cup {start[p].session}
    BY <1>2 DEF ActiveOf, Written, TypeOK
  <2>. QED BY <1>1, <1>3, <2>1, <2>2, LimitArrives
<1>5. CASE ~("row" \in ws /\ start[p].key[1] = u)
  <2>1. ActiveOf(u)' \subseteq ActiveOf(u)
    BY <1>2, <1>5 DEF ActiveOf, Written, TypeOK
  <2>. QED BY <1>1, <1>3, <2>1, LimitFrame
<1>. QED BY <1>4, <1>5

LEMMA LimitStep ==
    ASSUME TypeOK, Sound, LimitOvershoot, [Next]_vars
    PROVE  LimitOvershoot'
<1>1. ASSUME \A u \in User : ActiveOf(u)' \subseteq ActiveOf(u) /\ Coming(u)' \subseteq Coming(u)
      PROVE  LimitOvershoot'
  BY <1>1, LimitFrame DEF LimitOvershoot
<1>2. ASSUME \A s \in Session : lab'[s] = "ACTIVE" => lab[s] = "ACTIVE" /\ key'[s] = key[s]
      PROVE  \A u \in User : ActiveOf(u)' \subseteq ActiveOf(u)
  BY <1>2 DEF ActiveOf
<1>3. ASSUME NEW p \in Start, \A o \in Start : o # p => start'[o] = start[o],
             \/ start'[p].pc \notin {"lock", "get"} /\ start'[p].writes = {}
             \/ start[p].pc \in {"lock", "get"} /\ start'[p].key = start[p].key
      PROVE  \A u \in User : Coming(u)' \subseteq Coming(u)
  BY <1>3 DEF Coming
<1>4. ASSUME NEW p \in Start, NEW k \in Key, Find(p, k)
      PROVE  LimitOvershoot'
  <2>1. UNCHANGED <<lab, key>>
    BY <1>4 DEF Find
  <2>2. /\ start'[p].pc \notin {"lock", "get"} /\ start'[p].writes = {}
        /\ \A o \in Start : o # p => start'[o] = start[o]
    BY <1>4, FindFields
  <2>. QED BY <1>1, <1>2, <1>3, <2>1, <2>2
<1>5. ASSUME NEW p \in Start, NEW s, Answer(p, s), UNCHANGED <<lab, key>>
      PROVE  LimitOvershoot'
  <2>1. /\ start'[p].pc \notin {"lock", "get"} /\ start'[p].writes = {}
        /\ \A o \in Start : o # p => start'[o] = start[o]
    BY <1>5, AnswerFields
  <2>. QED BY <1>1, <1>2, <1>3, <1>5, <2>1
<1>6. ASSUME NEW p \in Start, Probe(p) \/ Recycle(p)
      PROVE  LimitOvershoot'
  <2>1. CASE \E s : Answer(p, s) /\ UNCHANGED <<lab, key>>
    BY <1>5, <2>1
  <2>2. CASE \E c \in {"recycle", "count"} : Goto(p, c)
    <3>1. start[p].writes = {}
      BY <1>6, FoundType DEF Probe, Recycle
    <3>2. /\ start'[p].pc \notin {"lock", "get"} /\ start'[p].writes = {}
          /\ \A o \in Start : o # p => start'[o] = start[o]
      BY <2>2, <3>1, GotoFields
    <3>3. \A s \in Session : lab'[s] = "ACTIVE" => lab[s] = "ACTIVE" /\ key'[s] = key[s]
      BY <1>6 DEF Probe, Recycle, TypeOK
    <3>. QED BY <1>1, <1>2, <1>3, <3>2, <3>3
  <2>. QED BY <1>6, <2>1, <2>2 DEF Probe, Recycle
<1>7. ASSUME NEW p \in Start, Count(p)
      PROVE  LimitOvershoot'
  <2>1. UNCHANGED <<lab, key>>
    BY <1>7 DEF Count
  <2>2. CASE Answer(p, 0)
    BY <1>5, <2>1, <2>2
  <2>3. CASE Cardinality(ActiveOf(start[p].key[1])) < Limit /\ Goto(p, "lock")
    <3>. SUFFICES ASSUME NEW u \in User
                  PROVE  Cardinality(ActiveOf(u)') + Cardinality(Coming(u)') < Limit + Cardinality(Start)
      BY DEF LimitOvershoot
    <3>1. ActiveOf(u)' = ActiveOf(u)
      BY <2>1 DEF ActiveOf
    <3>2. CASE u = start[p].key[1]
      <4>1. IsFiniteSet(Start) /\ Coming(u)' \subseteq Start
        BY LabAssumption DEF Coming
      <4>2. Cardinality(Coming(u)') <= Cardinality(Start) /\ Cardinality(Coming(u)') \in Nat
            /\ Cardinality(Start) \in Nat
        BY <4>1, FS_Subset, FS_CardinalityType
      <4>3. Cardinality(ActiveOf(u)') < Limit /\ Cardinality(ActiveOf(u)') \in Nat
        BY <2>3, <3>1, <3>2, SizesFinite
      <4>. QED BY <4>2, <4>3, LabAssumption
    <3>3. CASE u # start[p].key[1]
      <4>1. Coming(u)' \subseteq Coming(u)
        BY <2>3, <3>3, GotoFields DEF Coming
      <4>. QED BY <3>1, <4>1, LimitFrame DEF LimitOvershoot
    <3>. QED BY <3>2, <3>3
  <2>4. Cardinality(ActiveOf(start[p].key[1])) \in Nat
    BY SizesFinite, FoundType DEF Key
  <2>. QED BY <1>7, <2>2, <2>3, <2>4, LabAssumption DEF Count
<1>8. ASSUME NEW p \in Start, TryLock(p) \/ GetLocked(p)
      PROVE  LimitOvershoot'
  <2>1. lab' = lab /\ start[p].pc \in {"lock", "get"}
    BY <1>8 DEF TryLock, GetLocked
  <2>2. CASE Mint(p)
    <3>1. minted + 1 \in Session /\ lab[minted + 1] = "none"
      BY <2>2, LabAssumption DEF Mint, TypeOK, Session
    <3>2. \A s \in Session : lab'[s] = "ACTIVE" => lab[s] = "ACTIVE" /\ key'[s] = key[s]
      BY <2>1, <2>2, <3>1 DEF Mint, TypeOK
    <3>3. start'[p].key = start[p].key /\ \A o \in Start : o # p => start'[o] = start[o]
      BY <2>2 DEF Mint, TypeOK, Request
    <3>. QED BY <1>1, <1>2, <1>3, <2>1, <3>2, <3>3
  <2>3. CASE Goto(p, "get") /\ UNCHANGED key
    BY <1>1, <1>2, <1>3, <2>1, <2>3, GotoFields
  <2>4. CASE Answer(p, lock[start[p].key]) /\ UNCHANGED key
    BY <1>5, <2>1, <2>4
  <2>. QED BY <1>8, <2>2, <2>3, <2>4 DEF TryLock, GetLocked
<1>9. ASSUME NEW p \in Start, NEW w \in Write, Commit(p, w)
      PROVE  LimitOvershoot'
  <2>1. start[p].pc = "tx" /\ {w} \in SUBSET start[p].writes /\ Written(p, {w}) /\ UNCHANGED key
    BY <1>9 DEF Commit
  <2>2. /\ \A o \in Start : o # p => start'[o] = start[o]
        /\ start'[p].key = start[p].key /\ start'[p].pc \notin {"lock", "get"}
        /\ start'[p].writes \subseteq start[p].writes \ {w}
    <3>1. CASE Answer(p, start[p].session)
      BY <3>1, AnswerFields
    <3>2. CASE start' = [start EXCEPT ![p].writes = @ \ {w}]
      BY <2>1, <3>2 DEF TypeOK, Request
    <3>. QED BY <1>9, <3>1, <3>2 DEF Commit
  <2>. QED BY <2>1, <2>2, LimitWritten
<1>10. ASSUME NEW p \in Start, CommitFails(p)
       PROVE  LimitOvershoot'
  <2>1. PICK ws \in SUBSET start[p].writes : Written(p, ws)
    BY <1>10 DEF CommitFails
  <2>2. start[p].pc = "tx" /\ UNCHANGED key
    BY <1>10 DEF CommitFails
  <2>3. /\ \A o \in Start : o # p => start'[o] = start[o]
        /\ start'[p].key = start[p].key /\ start'[p].pc \notin {"lock", "get"}
        /\ start'[p].writes \subseteq start[p].writes \ ws
    BY <1>10 DEF CommitFails, TypeOK, Request
  <2>. QED BY <2>1, <2>2, <2>3, LimitWritten
<1>11. ASSUME NEW p \in Start, Undo(p) \/ Abort(p)
       PROVE  LimitOvershoot'
  BY <1>5, <1>11 DEF Undo, Abort
<1>12. CASE \/ \E k \in Key : LockExpires(k)
            \/ \E s \in Session : SessionEnds(s) \/ Expire(s)
            \/ \E r \in Replica : ReaperStep(r) \/ ReaperCrash(r)
            \/ LeaderExpires
            \/ UNCHANGED vars
  <2>1. Aside
    BY <1>12, AsideStep
  <2>2. \A s \in Session : lab'[s] = "ACTIVE" => lab[s] = "ACTIVE" /\ key'[s] = key[s]
    BY <2>1 DEF Aside
  <2>3. \A u \in User : Coming(u)' \subseteq Coming(u)
    BY <2>1 DEF Aside, Coming
  <2>. QED BY <1>1, <1>2, <2>2, <2>3
<1>. QED BY <1>4, <1>6, <1>7, <1>8, <1>9, <1>10, <1>11, <1>12 DEF Next, StartStep

LEMMA LimitInit == Init => LimitOvershoot
<1>. SUFFICES ASSUME Init, NEW u \in User
              PROVE  Cardinality(ActiveOf(u)) + Cardinality(Coming(u)) < Limit + Cardinality(Start)
  BY DEF LimitOvershoot
<1>1. ActiveOf(u) = {} /\ Coming(u) = {}
  BY DEF Init, ActiveOf, Coming
<1>2. Cardinality(ActiveOf(u)) = 0 /\ Cardinality(Coming(u)) = 0
  BY <1>1, FS_EmptySet
<1>. QED BY <1>2, SizesFinite, LabAssumption

\* Under every fault, a user's ACTIVE sessions pass the limit of the plan by less
\* than the requests in progress.
THEOREM LimitCorrect == Spec => []LimitOvershoot
<1>1. TypeOK /\ Sound /\ LimitOvershoot /\ [Next]_vars => TypeOK' /\ Sound' /\ LimitOvershoot'
  BY TypeStep, SoundStep, LimitStep
<1>. QED BY <1>1, TypeInit, SoundInit, LimitInit, PTL DEF Spec
-----------------------------------------------------------------------------
(* The two writes of a start                                                *)

\* The row of a session and the event that has it provisioned are there, or neither.
Paired(s) == lab[s] # "none" <=> "started" \in events[s]

\* A request that is writing has made just the writes it has not left.
Writing(p) ==
    start[p].pc = "tx" =>
        /\ start[p].writes # {}
        /\ lab[start[p].session] = "none" <=> "row" \in start[p].writes
        /\ "started" \in events[start[p].session] <=> "event" \notin start[p].writes

\* No write was given up, and whatever nobody is writing is paired.
PairOK ==
    /\ \A p \in Start : start[p].pc # "undo" /\ Writing(p)
    /\ \A s \in Session :
        (\A p \in Start : start[p].pc = "tx" => start[p].session # s) => Paired(s)

PairSafe == Without({"db", "crash"}) => PairOK

\* No session is begun or started by the step.
Even == \A s \in Session : /\ lab'[s] = "none" <=> lab[s] = "none"
                           /\ "started" \in events'[s] <=> "started" \in events[s]

\* The requests stand where they stood.
LEMMA PairAside ==
    ASSUME TypeOK, PairOK, Even, UNCHANGED start
    PROVE  PairOK'
<1>1. ASSUME NEW p \in Start
      PROVE  start'[p].pc # "undo" /\ Writing(p)'
  <2>1. start[p].pc = "tx" => start[p].session \in Session
    BY FoundType
  <2>2. start[p].pc # "undo" /\ Writing(p) /\ start'[p] = start[p]
    BY DEF PairOK
  <2>. QED BY <2>1, <2>2 DEF Writing, Even
<1>2. \A s \in Session : Paired(s) => Paired(s)'
  BY DEF Paired, Even
<1>. QED BY <1>1, <1>2 DEF PairOK

\* Request p takes a step outside its writes.
LEMMA PairRequest ==
    ASSUME TypeOK, PairOK, Even, NEW p \in Start, start[p].pc # "tx",
           start'[p].pc \notin {"tx", "undo"},
           \A o \in Start : o # p => start'[o] = start[o]
    PROVE  PairOK'
<1>1. ASSUME NEW o \in Start
      PROVE  start'[o].pc # "undo" /\ Writing(o)'
  <2>1. CASE o = p
    BY <2>1 DEF Writing
  <2>2. CASE o # p
    <3>1. start[o].pc = "tx" => start[o].session \in Session
      BY FoundType
    <3>2. start[o].pc # "undo" /\ Writing(o) /\ start'[o] = start[o]
      BY <2>2 DEF PairOK
    <3>. QED BY <3>1, <3>2 DEF Writing, Even
  <2>. QED BY <2>1, <2>2
<1>2. ASSUME NEW s \in Session, \A o \in Start : start'[o].pc = "tx" => start'[o].session # s
      PROVE  Paired(s)'
  <2>1. \A o \in Start : start[o].pc = "tx" => start[o].session # s
    BY <1>2
  <2>. QED BY <2>1 DEF PairOK, Paired, Even
<1>. QED BY <1>1, <1>2 DEF PairOK

\* A session is minted: it has neither a row nor an event yet.
LEMMA PairMint ==
    ASSUME TypeOK, PairOK, NEW p \in Start, start[p].pc # "tx", Mint(p), UNCHANGED <<lab, events>>
    PROVE  PairOK'
<1>0. /\ minted \in Nat /\ minted + 1 \in Session
      /\ \A s \in Session : lab[s] # "none" => s <= minted
  BY LabAssumption DEF TypeOK, Mint, Session
<1>1. /\ start'[p].pc = "tx" /\ start'[p].session = minted + 1 /\ start'[p].writes = Write
      /\ \A o \in Start : o # p => start'[o] = start[o]
  BY <1>0 DEF Mint, TypeOK, Request
<1>2. \A o \in Start : start[o].session # minted + 1
  BY <1>0 DEF TypeOK, Sane, Request
<1>3. lab[minted + 1] = "none" /\ "started" \notin events[minted + 1]
  BY <1>0, <1>2 DEF PairOK, Paired
<1>4. ASSUME NEW o \in Start
      PROVE  start'[o].pc # "undo" /\ Writing(o)'
  <2>1. CASE o = p
    BY <1>1, <1>3, <2>1 DEF Writing, Write
  <2>2. CASE o # p
    BY <1>1, <2>2 DEF PairOK, Writing
  <2>. QED BY <2>1, <2>2
<1>5. ASSUME NEW s \in Session, \A o \in Start : start'[o].pc = "tx" => start'[o].session # s
      PROVE  Paired(s)'
  <2>1. \A o \in Start : start[o].pc = "tx" => start[o].session # s
    BY <1>1, <1>5
  <2>. QED BY <2>1 DEF PairOK, Paired
<1>. QED BY <1>4, <1>5 DEF PairOK

\* One of the two writes is made; after the other one the session is paired.
LEMMA PairCommit ==
    ASSUME TypeOK, Sound, PairOK, NEW p \in Start, NEW w \in Write, Commit(p, w)
    PROVE  PairOK'
<1>. DEFINE s == start[p].session
<1>0. /\ start[p].pc = "tx" /\ w \in start[p].writes /\ s \in Session
      /\ start[p].writes \subseteq Write /\ Writing(p)
  BY FoundType DEF Commit, PairOK
<1>1. /\ \A o \in Start : o # p => start'[o] = start[o]
      /\ \/ start'[p].pc = "idle" /\ start[p].writes = {w}
         \/ /\ start'[p].pc = "tx" /\ start'[p].session = s
            /\ start'[p].writes = start[p].writes \ {w} /\ start[p].writes # {w}
  <2>1. CASE start[p].writes = {w} /\ Answer(p, s)
    BY <2>1, AnswerFields
  <2>2. CASE start[p].writes # {w} /\ start' = [start EXCEPT ![p].writes = @ \ {w}]
    BY <1>0, <2>2 DEF TypeOK, Request
  <2>. QED BY <2>1, <2>2 DEF Commit
<1>2. /\ \A t \in Session : t # s => lab'[t] = lab[t] /\ events'[t] = events[t]
      /\ lab'[s] # "none" <=> w = "row" \/ lab[s] # "none"
      /\ "started" \in events'[s] <=> w = "event" \/ "started" \in events[s]
  BY <1>0 DEF Commit, Written, TypeOK, Write
<1>3. \A o \in Start : o # p /\ start[o].pc = "tx" => start[o].session # s
  BY <1>0 DEF Sound
<1>4. ASSUME NEW o \in Start
      PROVE  start'[o].pc # "undo" /\ Writing(o)'
  <2>1. CASE o = p
    BY <1>0, <1>1, <1>2, <2>1 DEF Writing, Write
  <2>2. CASE o # p
    <3>1. start[o].pc = "tx" => start[o].session \in Session
      BY FoundType
    <3>2. start[o].pc # "undo" /\ Writing(o) /\ start'[o] = start[o]
      BY <1>1, <2>2 DEF PairOK
    <3>. QED BY <1>2, <1>3, <2>2, <3>1, <3>2 DEF Writing
  <2>. QED BY <2>1, <2>2
<1>5. ASSUME NEW t \in Session, \A o \in Start : start'[o].pc = "tx" => start'[o].session # t
      PROVE  Paired(t)'
  <2>1. CASE t = s
    <3>1. start[p].writes = {w}
      BY <1>1, <1>5, <2>1
    <3>. QED BY <1>0, <1>2, <2>1, <3>1 DEF Writing, Paired, Write
  <2>2. CASE t # s
    <3>1. \A o \in Start : start[o].pc = "tx" => start[o].session # t
      BY <1>1, <1>5, <2>2
    <3>. QED BY <1>2, <2>2, <3>1 DEF PairOK, Paired
  <2>. QED BY <2>1, <2>2
<1>. QED BY <1>4, <1>5 DEF PairOK

LEMMA PairStep ==
    ASSUME TypeOK, Sound, PairSafe, [Next]_vars
    PROVE  PairSafe'
<1>. SUFFICES ASSUME Without({"db", "crash"})'
              PROVE  PairOK'
  BY DEF PairSafe
<1>0. PairOK /\ ~Fault("db") /\ ~Fault("crash")
  BY FaultsGrow DEF PairSafe
<1>1. ASSUME NEW p \in Start, NEW k \in Key, Find(p, k)
      PROVE  PairOK'
  <2>1. Even /\ start[p].pc = "idle"
    BY <1>1 DEF Find, Even
  <2>. QED BY <1>0, <1>1, <2>1, FindFields, PairRequest
<1>2. ASSUME NEW p \in Start, Probe(p) \/ Count(p)
      PROVE  PairOK'
  <2>1. Even /\ start[p].pc \in {"probe", "count"}
    BY <1>2 DEF Probe, Count, Even
  <2>2. (\E s : Answer(p, s)) \/ \E c \in {"recycle", "lock"} : Goto(p, c)
    BY <1>2 DEF Probe, Count
  <2>. QED BY <1>0, <2>1, <2>2, AnswerFields, GotoFields, PairRequest
<1>3. ASSUME NEW p \in Start, Recycle(p)
      PROVE  PairOK'
  <2>1. start[p].pc = "recycle" /\ start[p].found \in Session /\ lab[start[p].found] # "none"
    <3>1. start[p].found # 0
      BY <1>3 DEF Recycle, TypeOK, Sane
    <3>. QED BY <1>3, <3>1, FoundType DEF Recycle, Sound
  <2>2. Even /\ Goto(p, "count")
    BY <1>3, <2>1 DEF Recycle, Even, TypeOK
  <2>. QED BY <1>0, <2>1, <2>2, GotoFields, PairRequest
<1>4. ASSUME NEW p \in Start, TryLock(p) \/ GetLocked(p)
      PROVE  PairOK'
  <2>1. Even /\ start[p].pc \in {"lock", "get"} /\ UNCHANGED <<lab, events>>
    BY <1>4 DEF TryLock, GetLocked, Even
  <2>2. CASE Mint(p)
    BY <1>0, <2>1, <2>2, PairMint
  <2>3. CASE (\E s : Answer(p, s)) \/ Goto(p, "get")
    BY <1>0, <2>1, <2>3, AnswerFields, GotoFields, PairRequest
  <2>. QED BY <1>4, <2>2, <2>3 DEF TryLock, GetLocked
<1>5. ASSUME NEW p \in Start, CommitFails(p) \/ Undo(p) \/ Abort(p)
      PROVE  FALSE
  BY <1>0, <1>5 DEF CommitFails, Undo, Abort, PairOK
<1>6. ASSUME NEW s \in Session, SessionEnds(s) \/ Expire(s)
      PROVE  PairOK'
  <2>1. Even /\ UNCHANGED start
    BY <1>0, <1>6 DEF SessionEnds, EndSession, AdminTerminates, Solved, ProvisionFailed, Expire,
                      Close, Tell, Even, TypeOK
  <2>. QED BY <1>0, <2>1, PairAside
<1>7. ASSUME NEW r \in Replica, ReaperStep(r) \/ ReaperCrash(r)
      PROVE  PairOK'
  <2>1. ASSUME NEW s \in Session, Reap(r, s)
        PROVE  Even /\ UNCHANGED start
    <3>1. lab[s] # "none"
      BY <2>1 DEF Reap, Sound
    <3>2. lab' = [lab EXCEPT ![s] = "TERMINATED"] /\ Tell(s, "over") /\ UNCHANGED start
      BY <1>0, <2>1 DEF Reap
    <3>3. lab \in [Session -> Status] /\ events \in [Session -> SUBSET Notice]
      BY DEF TypeOK
    <3>4. events' = [events EXCEPT ![s] = events[s] \cup {"over"}]
      BY <3>2 DEF Tell
    <3>. QED BY <3>1, <3>2, <3>3, <3>4 DEF Even
  <2>2. Elect(r) \/ ReapFind(r) \/ ReaperCrash(r) => Even /\ UNCHANGED start
    BY DEF Elect, ReapFind, ReaperCrash, Even
  <2>3. Even /\ UNCHANGED start
    BY <1>7, <2>1, <2>2 DEF ReaperStep
  <2>. QED BY <1>0, <2>3, PairAside
<1>8. CASE (\E k \in Key : LockExpires(k)) \/ LeaderExpires \/ UNCHANGED vars
  <2>1. Even /\ UNCHANGED start
    BY <1>8 DEF LockExpires, LeaderExpires, vars, Even
  <2>. QED BY <1>0, <2>1, PairAside
<1>. QED BY <1>0, <1>1, <1>2, <1>3, <1>4, <1>5, <1>6, <1>7, <1>8, PairCommit DEF Next, StartStep

LEMMA PairInit == Init => PairSafe
<1>. SUFFICES ASSUME Init PROVE PairOK
  BY DEF PairSafe
<1>1. \A p \in Start : start[p].pc = "idle"
  BY DEF Init
<1>2. \A s \in Session : lab[s] = "none" /\ events[s] = {}
  BY DEF Init
<1>. QED BY <1>1, <1>2 DEF PairOK, Writing, Paired

\* A session that is written has its event, and an announced session its row, once its
\* request has made both writes; until a write fails or a request dies between the two.
THEOREM PairedCorrect == Spec => []RowWithEvent
<1>1. TypeOK /\ Sound /\ PairSafe /\ [Next]_vars => TypeOK' /\ Sound' /\ PairSafe'
  BY TypeStep, SoundStep, PairStep
<1>2. PairSafe => RowWithEvent
  BY DEF PairSafe, PairOK, Paired, RowWithEvent
<1>. QED BY <1>1, <1>2, TypeInit, SoundInit, PairInit, PTL DEF Spec
=============================================================================
