----------------------------- MODULE LabSession -----------------------------
(***************************************************************************)
(* The LabSession rows of the core service, and who changes them at once:  *)
(* the requests that start a challenge, each with a lookup, a probe, a     *)
(* count, a Redis lock and two writes between which others run; the        *)
(* requests and Kafka events that end a session; the administrator; the    *)
(* session reaper of every replica, elected with another Redis lock.       *)
(*                                                                         *)
(* The tenant and bypass clients of packages/db run every model operation  *)
(* in a transaction of its own, whatever array of operations $transaction  *)
(* is given: the row of a session and its outbox event are two writes.     *)
(***************************************************************************)
EXTENDS Naturals, FiniteSets

CONSTANTS
    User, Challenge,
    Start,       \* requests in progress
    Replica,     \* core-service pods, each with a reaper
    None,        \* no replica
    Limit,       \* concurrent sessions of the plan tier
    ReapBatch,   \* "take" of the reaper
    MaxSessions, \* bound: sessions minted
    Faults,      \* the kinds of fault that may happen
    MaxFaults    \* bound: how many of them

Key     == User \X Challenge
Session == 1 .. MaxSessions

ASSUME LabAssumption ==
    /\ Limit \in Nat \ {0}
    /\ ReapBatch \in Nat \ {0}
    /\ MaxSessions \in Nat
    /\ MaxFaults \in Nat
    /\ IsFiniteSet(Start)
    /\ None \notin Replica

VARIABLES
    lab,     \* LabSession
    key,     \* session -> the user and challenge it was minted for
    events,  \* session -> its events, in the outbox or on Kafka
    expired, \* sessions that were ACTIVE when their TTL ended
    minted,  \* sessions minted so far
    lock,    \* core:session:<user>:<challenge>, 0 when unset
    start,   \* POST /challenges/:id/start
    leader,  \* core:reaper:leader
    reaper,  \* cycles of the session reapers
    faults   \* faults so far: how many, of what kinds

vars == <<lab, key, events, expired, minted, lock, start, leader, reaper, faults>>

Status == {"none", "ACTIVE", "COMPLETED", "TERMINATED"}

\* over: session.ended to the worker, or session.failed from it.
Notice == {"started", "over"}
Write  == {"row", "event"}

\* found: the session the lookup saw; reply: the session answered (200 or 201).
Request   == [pc: {"idle", "probe", "recycle", "count", "lock", "get", "tx", "undo"},
              key: Key, found: 0 .. MaxSessions, session: 0 .. MaxSessions,
              writes: SUBSET Write, reply: 0 .. MaxSessions]
Reaping   == [pc: {"idle", "find", "reap"}, todo: SUBSET Session]
IdleReaper == [pc |-> "idle", todo |-> {}]

Happened == [n : Nat, kinds : SUBSET Faults]

\* The sessions a request refers to are among the m minted, and it has those its step works on.
Sane(q, m) ==
    /\ q.found <= m /\ q.session <= m /\ q.reply <= m
    /\ q.pc \in {"probe", "recycle"} => q.found # 0
    /\ q.pc = "tx" => q.session # 0
    /\ q.pc # "tx" => q.writes = {}

TypeOK ==
    /\ lab \in [Session -> Status]
    /\ key \in [Session -> Key]
    /\ events \in [Session -> SUBSET Notice]
    /\ expired \subseteq Session
    /\ minted \in 0 .. MaxSessions
    /\ lock \in [Key -> 0 .. minted]
    /\ start \in [Start -> Request]
    /\ \A p \in Start : Sane(start[p], minted)
    /\ \A s \in Session : lab[s] # "none" => s <= minted
    /\ leader \in Replica \cup {None}
    /\ reaper \in [Replica -> Reaping]
    /\ \A r \in Replica : \A s \in reaper[r].todo : s <= minted
    /\ faults \in Happened

Init ==
    /\ lab = [s \in Session |-> "none"]
    /\ \E k \in Key :
        /\ key = [s \in Session |-> k]
        /\ start = [p \in Start |-> [pc |-> "idle", key |-> k, found |-> 0, session |-> 0,
                                     writes |-> {}, reply |-> 0]]
    /\ events = [s \in Session |-> {}]
    /\ expired = {}
    /\ minted = 0
    /\ lock = [k \in Key |-> 0]
    /\ leader = None
    /\ reaper = [r \in Replica |-> IdleReaper]
    /\ faults = [n |-> 0, kinds |-> {}]

-----------------------------------------------------------------------------
Fault(kind) ==
    /\ kind \in Faults
    /\ faults.n < MaxFaults
    /\ faults' = [n |-> faults.n + 1, kinds |-> faults.kinds \cup {kind}]

Active(k)      == {s \in Session : lab[s] = "ACTIVE" /\ key[s] = k}
ActiveOf(u)    == {s \in Session : lab[s] = "ACTIVE" /\ key[s][1] = u}
Known(s)       == lab[s] # "none" \/ \E p \in Start : start[p].reply = s

\* Request p ends with session s for an answer; 0 stands for an error.
Answer(p, s) ==
    start' = [start EXCEPT ![p] = [pc |-> "idle", key |-> @.key, found |-> 0, session |-> 0,
                                   writes |-> {}, reply |-> s]]

Goto(p, pc) == start' = [start EXCEPT ![p].pc = pc]

-----------------------------------------------------------------------------
(* POST /challenges/:id/start                                              *)

\* The lookup of an ACTIVE session of the user for this challenge.
Find(p, k) ==
    /\ start[p].pc = "idle"
    /\ \/ /\ Active(k) = {}
          /\ start' = [start EXCEPT ![p] = [pc |-> "count", key |-> k, found |-> 0,
                                            session |-> 0, writes |-> {}, reply |-> 0]]
       \/ \E s \in Active(k) :
            start' = [start EXCEPT ![p] = [pc |-> "probe", key |-> k, found |-> s,
                                           session |-> 0, writes |-> {}, reply |-> 0]]
    /\ UNCHANGED <<lab, key, events, expired, minted, lock, leader, reaper, faults>>

\* The sandbox is asked whether it is alive.  A time-out, the open circuit, and
\* the 404 of a session that is still being provisioned count as dead.
Probe(p) ==
    /\ start[p].pc = "probe"
    /\ \/ "started" \in events[start[p].found] /\ Answer(p, start[p].found)
       \/ Goto(p, "recycle")
    /\ UNCHANGED <<lab, key, events, expired, minted, lock, leader, reaper, faults>>

\* The dead session is terminated, whatever its status is by now; no event.
Recycle(p) ==
    /\ start[p].pc = "recycle"
    /\ lab' = [lab EXCEPT ![start[p].found] = "TERMINATED"]
    /\ Goto(p, "count")
    /\ UNCHANGED <<key, events, expired, minted, lock, leader, reaper, faults>>

\* Mutant of Count: off by one.
CountOneMore(p) ==
    /\ start[p].pc = "count"
    /\ IF Cardinality(ActiveOf(start[p].key[1])) > Limit THEN Answer(p, 0) ELSE Goto(p, "lock")
    /\ UNCHANGED <<lab, key, events, expired, minted, lock, leader, reaper, faults>>

\* The plan's limit: 403 when it is reached.
Count(p) ==
    /\ start[p].pc = "count"
    /\ IF Cardinality(ActiveOf(start[p].key[1])) >= Limit THEN Answer(p, 0) ELSE Goto(p, "lock")
    /\ UNCHANGED <<lab, key, events, expired, minted, lock, leader, reaper, faults>>

\* p goes on to create the session of the id it has generated; an id that is not
\* used is not counted.
Mint(p) ==
    /\ minted < MaxSessions
    /\ minted' = minted + 1
    /\ key' = [key EXCEPT ![minted + 1] = start[p].key]
    /\ start' = [start EXCEPT ![p].pc = "tx", ![p].session = minted + 1, ![p].writes = Write]

\* Mutant of TryLock: SET without NX.
TryLockTakes(p) ==
    /\ start[p].pc = "lock"
    /\ Mint(p)
    /\ lock' = [lock EXCEPT ![start[p].key] = minted + 1]
    /\ UNCHANGED <<lab, events, expired, leader, reaper, faults>>

\* SET NX of the new session id.
TryLock(p) ==
    /\ start[p].pc = "lock"
    /\ \/ /\ lock[start[p].key] = 0
          /\ Mint(p)
          /\ lock' = [lock EXCEPT ![start[p].key] = minted + 1]
       \/ /\ lock[start[p].key] # 0
          /\ Goto(p, "get")
          /\ UNCHANGED <<minted, key, lock>>
    /\ UNCHANGED <<lab, events, expired, leader, reaper, faults>>

\* The lock's session is the answer.  If the lock is gone by now, the request goes
\* on without one.
GetLocked(p) ==
    /\ start[p].pc = "get"
    /\ \/ /\ lock[start[p].key] # 0
          /\ Answer(p, lock[start[p].key])
          /\ UNCHANGED <<minted, key>>
       \/ lock[start[p].key] = 0 /\ Mint(p)
    /\ UNCHANGED <<lab, events, expired, lock, leader, reaper, faults>>

\* The writes ws of p reach the database.
Written(p, ws) ==
    /\ lab' = IF "row" \in ws THEN [lab EXCEPT ![start[p].session] = "ACTIVE"] ELSE lab
    /\ events' = IF "event" \in ws THEN [events EXCEPT ![start[p].session] = @ \cup {"started"}]
                 ELSE events

\* Mutant of Commit: the answer does not wait for the other write.
CommitEither(p, w) ==
    /\ start[p].pc = "tx"
    /\ w \in start[p].writes
    /\ Written(p, {w})
    /\ Answer(p, start[p].session)
    /\ UNCHANGED <<key, expired, minted, lock, leader, reaper, faults>>

\* One of the two writes; 201 after both.
Commit(p, w) ==
    /\ start[p].pc = "tx"
    /\ w \in start[p].writes
    /\ Written(p, {w})
    /\ IF start[p].writes = {w} THEN Answer(p, start[p].session)
       ELSE start' = [start EXCEPT ![p].writes = @ \ {w}]
    /\ UNCHANGED <<key, expired, minted, lock, leader, reaper, faults>>

\* A write fails; those left may have been made, this one with its answer lost.
CommitFails(p) ==
    /\ start[p].pc = "tx"
    /\ Fault("db")
    /\ \E ws \in SUBSET start[p].writes : Written(p, ws)
    /\ start' = [start EXCEPT ![p].pc = "undo", ![p].writes = {}]
    /\ UNCHANGED <<key, expired, minted, lock, leader, reaper>>

\* The lock of the key is deleted, whosever it is; 500.
Undo(p) ==
    /\ start[p].pc = "undo"
    /\ lock' = [lock EXCEPT ![start[p].key] = 0]
    /\ Answer(p, 0)
    /\ UNCHANGED <<lab, key, events, expired, minted, leader, reaper, faults>>

\* The pod dies under the request, or an unguarded call fails: nothing is undone.
Abort(p) ==
    /\ start[p].pc # "idle"
    /\ Fault("crash")
    /\ Answer(p, 0)
    /\ UNCHANGED <<lab, key, events, expired, minted, lock, leader, reaper>>

\* p may yet be misled by the end of k's lock: it created the lock's session or is
\* about to read it, or its lookup was made before that session was there.
Straddles(p, k) ==
    /\ start[p].key = k
    /\ \/ start[p].pc \in {"get", "tx", "undo"}
       \/ start[p].pc \in {"probe", "recycle", "count", "lock"} /\ start[p].found # lock[k]

\* Ten seconds after SET.  That they end within a request is a fault of its own.
LockExpires(k) ==
    /\ lock[k] # 0
    /\ IF \E p \in Start : Straddles(p, k) THEN Fault("expiry") ELSE UNCHANGED faults
    /\ lock' = [lock EXCEPT ![k] = 0]
    /\ UNCHANGED <<lab, key, events, expired, minted, start, leader, reaper>>

-----------------------------------------------------------------------------
(* The ends of a session                                                   *)

Close(s, status) == lab' = [lab EXCEPT ![s] = IF @ = "ACTIVE" THEN status ELSE @]
Tell(s, notice)  == events' = [events EXCEPT ![s] = @ \cup {notice}]

\* DELETE /session/:id, and DELETE /session/active for each session it lists: the
\* row is guarded by its status, the event is not.  Either write may fail alone.
EndSession(s) ==
    /\ Known(s)
    /\ \/ Close(s, "TERMINATED") /\ Tell(s, "over") /\ UNCHANGED faults
       \/ Fault("db") /\ Close(s, "TERMINATED") /\ UNCHANGED events
       \/ Fault("db") /\ Tell(s, "over") /\ UNCHANGED lab
    /\ UNCHANGED <<key, expired, minted, lock, start, leader, reaper>>

\* POST /admin/sandboxes/:id/terminate.
AdminTerminates(s) ==
    /\ lab[s] # "none"
    /\ lab' = [lab EXCEPT ![s] = "TERMINATED"]
    /\ UNCHANGED <<key, events, expired, minted, lock, start, leader, reaper, faults>>

\* challenge.solved: the sandbox has been there, whatever the row says by now.
Solved(s) ==
    /\ "started" \in events[s]
    /\ Close(s, "COMPLETED")
    /\ UNCHANGED <<key, events, expired, minted, lock, start, leader, reaper, faults>>

\* session.failed: the worker could not provision the sandbox.
ProvisionFailed(s) ==
    /\ "started" \in events[s]
    /\ Close(s, "TERMINATED")
    /\ Tell(s, "over")
    /\ UNCHANGED <<key, expired, minted, lock, start, leader, reaper, faults>>

-----------------------------------------------------------------------------
(* The session reaper                                                      *)

\* Time passes.
Expire(s) ==
    /\ lab[s] = "ACTIVE" /\ s \notin expired
    /\ expired' = expired \cup {s}
    /\ UNCHANGED <<lab, key, events, minted, lock, start, leader, reaper, faults>>

\* Mutant of Elect: the result of SET NX is ignored.
ElectAlways(r) ==
    /\ reaper[r].pc = "idle"
    /\ leader' = IF leader = None THEN r ELSE leader
    /\ reaper' = [reaper EXCEPT ![r].pc = "find"]
    /\ UNCHANGED <<lab, key, events, expired, minted, lock, start, faults>>

\* A cycle whose SET NX succeeds.
Elect(r) ==
    /\ reaper[r].pc = "idle"
    /\ leader = None
    /\ leader' = r
    /\ reaper' = [reaper EXCEPT ![r].pc = "find"]
    /\ UNCHANGED <<lab, key, events, expired, minted, lock, start, faults>>

Overdue == {s \in expired : lab[s] = "ACTIVE"}

\* Mutant of ReapFind: the cycle ends with the search.
ReapFindLoses(r) ==
    /\ reaper[r].pc = "find"
    /\ reaper' = [reaper EXCEPT ![r] = IdleReaper]
    /\ UNCHANGED <<lab, key, events, expired, minted, lock, start, leader, faults>>

\* Up to ReapBatch overdue sessions, in no order.
ReapFind(r) ==
    /\ reaper[r].pc = "find"
    /\ \E batch \in SUBSET Overdue :
        /\ \/ Cardinality(batch) = ReapBatch
           \/ Cardinality(batch) < ReapBatch /\ batch = Overdue
        /\ reaper' = [reaper EXCEPT ![r] =
                        IF batch = {} THEN IdleReaper ELSE [pc |-> "reap", todo |-> batch]]
    /\ UNCHANGED <<lab, key, events, expired, minted, lock, start, leader, faults>>

\* The row of s is terminated whatever its status is by now, and the event written.
\* An error, after which either may be missing, is logged and the loop goes on.
Reap(r, s) ==
    /\ reaper[r].pc = "reap"
    /\ s \in reaper[r].todo
    /\ \/ lab' = [lab EXCEPT ![s] = "TERMINATED"] /\ Tell(s, "over") /\ UNCHANGED faults
       \/ /\ Fault("db")
          /\ lab' \in {lab, [lab EXCEPT ![s] = "TERMINATED"]}
          /\ (UNCHANGED events \/ Tell(s, "over"))
    /\ reaper' = [reaper EXCEPT ![r] = IF reaper[r].todo = {s} THEN IdleReaper
                                       ELSE [pc |-> "reap", todo |-> reaper[r].todo \ {s}]]
    /\ UNCHANGED <<key, expired, minted, lock, start, leader>>

\* Ninety seconds after the election; that its cycle still runs is a fault.
LeaderExpires ==
    /\ leader # None
    /\ IF reaper[leader].pc # "idle" THEN Fault("slow") ELSE UNCHANGED faults
    /\ leader' = None
    /\ UNCHANGED <<lab, key, events, expired, minted, lock, start, reaper>>

ReaperCrash(r) ==
    /\ reaper[r].pc # "idle"
    /\ Fault("crash")
    /\ reaper' = [reaper EXCEPT ![r] = IdleReaper]
    /\ UNCHANGED <<lab, key, events, expired, minted, lock, start, leader>>

-----------------------------------------------------------------------------
StartStep(p) ==
    \/ Probe(p) \/ Recycle(p) \/ Count(p) \/ TryLock(p) \/ GetLocked(p)
    \/ \E w \in Write : Commit(p, w)
    \/ CommitFails(p) \/ Undo(p)

SessionEnds(s) == EndSession(s) \/ AdminTerminates(s) \/ Solved(s) \/ ProvisionFailed(s)

ReaperStep(r) == Elect(r) \/ ReapFind(r) \/ \E s \in Session : Reap(r, s)

Next ==
    \/ \E p \in Start : (\E k \in Key : Find(p, k)) \/ StartStep(p) \/ Abort(p)
    \/ \E k \in Key : LockExpires(k)
    \/ \E s \in Session : SessionEnds(s) \/ Expire(s)
    \/ \E r \in Replica : ReaperStep(r) \/ ReaperCrash(r)
    \/ LeaderExpires

Spec == Init /\ [][Next]_vars

\* The interval timer of each replica and the handlers it calls go on, and Redis
\* keys expire.
Fairness ==
    /\ \A r \in Replica : WF_vars(ReaperStep(r))
    /\ WF_vars(LeaderExpires)

FairSpec == Spec /\ Fairness

-----------------------------------------------------------------------------
(* Properties                                                              *)

\* No fault of these kinds has happened yet.
Without(kinds) == faults.kinds \cap kinds = {}

\* However many clicks run at once, crash, or find the session dead, a user has one
\* ACTIVE session of a challenge (coreservice-contract.md: the lock prevents "duplicate
\* session creations"), until a write of a start fails or a lock expires within one.
OneActivePerChallenge ==
    Without({"db", "expiry"}) =>
        \A s, t \in Session :
            lab[s] = "ACTIVE" /\ lab[t] = "ACTIVE" /\ key[s] = key[t] => s = t

\* Requests of u that may still add an ACTIVE session.
Coming(u) == {p \in Start : /\ start[p].key[1] = u
                            /\ start[p].pc \in {"lock", "get"} \/ "row" \in start[p].writes}

\* The count is made before the lock is taken and the row written, so that the
\* plan's limit can be passed, but by no more than the other requests in progress:
\* the sessions of a user that are there or coming stay below this bound.
LimitOvershoot ==
    \A u \in User : Cardinality(ActiveOf(u)) + Cardinality(Coming(u)) < Limit + Cardinality(Start)

\* The two writes of $transaction are transactions of their own: a session nobody is
\* writing has a row and the event that has it provisioned, or neither, while no write
\* fails and no request dies between the two.
RowWithEvent ==
    Without({"db", "crash"}) =>
        \A s \in Session :
            (\A p \in Start : start[p].pc \in {"tx", "undo"} => start[p].session # s)
            => (lab[s] # "none" <=> "started" \in events[s])

\* One replica at a time has sessions to reap, until a cycle outlives its lease.
ReapersDisjoint ==
    Without({"slow"}) =>
        \A r, q \in Replica : reaper[r].pc # "idle" /\ reaper[q].pc # "idle" => r = q

\* A session that outlives its TTL is taken off the ACTIVE ones, though replicas
\* crash in the middle of a batch and transactions fail.
OverdueIsEnded == \A s \in Session : s \in Overdue ~> s \notin Overdue
=============================================================================
