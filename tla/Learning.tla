------------------------------ MODULE Learning ------------------------------
(***************************************************************************)
(* What the core service writes when the sandbox worker reports a solved   *)
(* or failed challenge: completions, XP, streaks, check results, history   *)
(* and badges.  The consumers of the replicas work at the same time, every *)
(* statement is a transaction of its own, and an error ends the handler    *)
(* without a retry.                                                        *)
(***************************************************************************)
EXTENDS Integers, FiniteSets

CONSTANTS
    Worker,     \* consumers of the group, one message at a time each
    Session,    \* lab sessions
    ChallengeOf,\* session -> challenge
    Learner,    \* users with an account
    UserOf,     \* session -> user; who is not a Learner is a guest
    Path,       \* the challenges of a learning path
    Milestones, \* days of the streak badges
    MaxSolves,  \* messages of challenge.solved
    MaxDay,     \* days
    LFaults,    \* the kinds of fault that may happen
    MaxLFaults  \* how many of them

Message   == 1 .. MaxSolves
Challenge == {ChallengeOf[s] : s \in Session}
User      == {UserOf[s] : s \in Session}
Pair      == Learner \X Challenge
Badge     == {"first-blood", "path"} \X {1} \cup {"streak"} \X Milestones
PathBadge == <<"path", 1>>

ASSUME LearningAssumption ==
    /\ MaxSolves \in Nat /\ MaxDay \in Nat \ {0} /\ MaxLFaults \in Nat
    /\ Session # {}
    /\ Path \subseteq Challenge
    /\ Milestones \subseteq Nat

VARIABLES
    message,    \* challenge.solved: its session and where it stands
    work,       \* the handler of each consumer
    completed,  \* Completion of challenges
    awards,     \* how often the XP of a challenge was added
    streak,     \* currentStreak, longestStreak, lastActivityDate
    check,      \* ChallengeCheckResult
    history,    \* Submission rows with status COMPLETED, per message
    status,     \* LabSession
    badge,      \* UserBadge
    today,      \* UTC day
    days,       \* days whose activity was counted
    clash,      \* learners of whom two handlers have worked at once
    lfaults     \* number and kinds of the faults so far

learnVars == <<message, work, completed, awards, streak, check, history, status, badge,
               today, days, clash, lfaults>>

AnySession == CHOOSE s \in Session : TRUE
Streak == [current: Nat, longest: Nat, last: Nat]      \* last: 0 for null
NoStreak == [current |-> 0, longest |-> 0, last |-> 0]
Idle == [pc |-> "idle", msg |-> 0, first |-> FALSE, next |-> NoStreak]

LearnTypeOK ==
    /\ message \in [Message -> [session: Session, at: {"none", "waiting", "consumed"}]]
    /\ work \in [Worker -> [pc: {"idle", "find", "complete", "check", "read", "award", "end",
                                 "submit", "milestones", "path"},
                            msg: 0 .. MaxSolves, first: BOOLEAN, next: Streak]]
    /\ \A w \in Worker : work[w].pc = "idle" <=> work[w].msg = 0
    /\ completed \subseteq Pair
    /\ awards \in [Pair -> Nat]
    /\ streak \in [Learner -> Streak]
    /\ \A u \in Learner : streak[u].last <= today
    /\ check \in [Pair -> {"none", "PASSED", "FAILED"}]
    /\ history \in [Message -> Nat]
    /\ status \in [Session -> {"ACTIVE", "COMPLETED", "TERMINATED"}]
    /\ badge \subseteq Learner \X Badge
    /\ today \in 1 .. MaxDay
    /\ days \in [Learner -> SUBSET (1 .. MaxDay)]
    /\ clash \subseteq User
    /\ lfaults \in [n: Nat, kinds: SUBSET LFaults]

LearnInit ==
    /\ message = [m \in Message |-> [session |-> AnySession, at |-> "none"]]
    /\ work = [w \in Worker |-> Idle]
    /\ completed = {}
    /\ awards = [p \in Pair |-> 0]
    /\ streak = [u \in Learner |-> NoStreak]
    /\ check = [p \in Pair |-> "none"]
    /\ history = [m \in Message |-> 0]
    /\ status = [s \in Session |-> "ACTIVE"]
    /\ badge = {}
    /\ today = 1
    /\ days = [u \in Learner |-> {}]
    /\ clash = {}
    /\ lfaults = [n |-> 0, kinds |-> {}]

LFault(kind) ==
    /\ kind \in LFaults
    /\ lfaults.n < MaxLFaults
    /\ lfaults' = [n |-> lfaults.n + 1, kinds |-> lfaults.kinds \cup {kind}]

LWithout(kinds) == lfaults.kinds \cap kinds = {}

-----------------------------------------------------------------------------
(* calculateStreak                                                         *)

Larger(a, b) == IF a > b THEN a ELSE b

\* Mutant of CalculateStreak: days are compared by their difference only.
CalculateStreakOffByOne(s, day) ==
    LET current == IF day - s.last <= 1 THEN s.current + 1 ELSE 1
    IN  [current |-> current, longest |-> Larger(s.longest, current), last |-> day]

\* By the difference to the last day: first activity or a gap, the same day, the next,
\* or the past, when the clock of this replica is behind.
CalculateStreak(s, day) ==
    LET current == IF s.last = 0 \/ day - s.last > 1 THEN 1
                   ELSE IF day - s.last = 1 THEN s.current + 1
                   ELSE Larger(s.current, 1)
    IN  [current |-> current, longest |-> Larger(s.longest, current),
         last |-> Larger(s.last, day)]

\* Reference: the run of consecutive days of D that ends at day d, and the longest run.
RunTo(D, d) == Cardinality({i \in D : i <= d /\ i .. d \subseteq D})
LongestRun(D) == IF D = {} THEN 0
                 ELSE CHOOSE n \in {RunTo(D, d) : d \in D} : \A d \in D : RunTo(D, d) <= n

-----------------------------------------------------------------------------
(* The sandbox worker and the other writers of a session                   *)

\* The validator of a session reports that its challenge is solved, once or more.
Solve(s) ==
    \E m \in Message :
        /\ message[m].at = "none"
        /\ \A n \in Message : n < m => message[n].at # "none"
        /\ message' = [message EXCEPT ![m] = [session |-> s, at |-> "waiting"]]
        /\ UNCHANGED <<work, completed, awards, streak, check, history, status, badge,
                       today, days, clash, lfaults>>

\* A session ends by a request or its time before its solution is processed.
EndedEarly(s) ==
    /\ status[s] = "ACTIVE"
    /\ LFault("ended")
    /\ status' = [status EXCEPT ![s] = "TERMINATED"]
    /\ UNCHANGED <<message, work, completed, awards, streak, check, history, badge,
                   today, days, clash>>

-----------------------------------------------------------------------------
(* The consumer of challenge.solved                                        *)

MsgSession(w) == message[work[w].msg].session
Solver(w) == UserOf[MsgSession(w)]
Solved(w) == <<Solver(w), ChallengeOf[MsgSession(w)]>>

At(w, pc) == work[w].pc = pc
Goes(w, pc) == work' = [work EXCEPT ![w].pc = pc]

\* The handler ends and the message is consumed, whatever came of it.
Finish(w) ==
    /\ work' = [work EXCEPT ![w] = Idle]
    /\ message' = [message EXCEPT ![work[w].msg].at = "consumed"]

\* A statement fails: the error is logged.
Fails(w) == LFault("db") /\ Finish(w)

\* A message is handled again when its consumer died before the commit.
Begin(w, m) ==
    /\ At(w, "idle")
    /\ message[m].at = "waiting"
    /\ \A v \in Worker : work[v].msg # m
    /\ LET u == UserOf[message[m].session]
       IN  clash' = IF \E v \in Worker : work[v].pc # "idle" /\ Solver(v) = u
                    THEN clash \cup {u} ELSE clash
    /\ work' = [work EXCEPT ![w] = [Idle EXCEPT !.pc = "find", !.msg = m]]
    /\ UNCHANGED <<message, completed, awards, streak, check, history, status, badge,
                   today, days, lfaults>>

\* A guest's session is completed, and nothing else is kept.
GuestSolved(w) ==
    /\ At(w, "find") /\ Solver(w) \notin Learner
    /\ \/ /\ status' = [status EXCEPT ![MsgSession(w)] = IF @ = "ACTIVE" THEN "COMPLETED" ELSE @]
          /\ Finish(w)
          /\ UNCHANGED lfaults
       \/ Fails(w) /\ UNCHANGED status
    /\ UNCHANGED <<completed, awards, streak, check, history, badge, today, days, clash>>

\* No completion is there yet.
IsFirst(w) == Solved(w) \notin completed

\* The node is upserted and the completion looked up.
Find(w) ==
    /\ At(w, "find") /\ Solver(w) \in Learner
    /\ \/ /\ work' = [work EXCEPT ![w].pc = "complete", ![w].first = IsFirst(w)]
          /\ UNCHANGED <<message, lfaults>>
       \/ Fails(w)
    /\ UNCHANGED <<completed, awards, streak, check, history, status, badge, today, days,
                   clash>>

Complete(w) ==
    /\ At(w, "complete")
    /\ \/ completed' = completed \cup {Solved(w)} /\ Goes(w, "check") /\ UNCHANGED <<message, lfaults>>
       \/ Fails(w) /\ UNCHANGED completed
    /\ UNCHANGED <<awards, streak, check, history, status, badge, today, days, clash>>

Check(w) ==
    /\ At(w, "check")
    /\ \/ check' = [check EXCEPT ![Solved(w)] = "PASSED"] /\ Goes(w, "read") /\ UNCHANGED <<message, lfaults>>
       \/ Fails(w) /\ UNCHANGED check
    /\ UNCHANGED <<completed, awards, streak, history, status, badge, today, days, clash>>

\* The user is read and the new streak computed for the day of this replica's clock.
Read(w) ==
    /\ At(w, "read")
    /\ \/ \E day \in {today, today - 1} \ {0} :
              /\ IF day = today THEN UNCHANGED lfaults ELSE LFault("skew")
              /\ work' = [work EXCEPT ![w].pc = "award",
                                      ![w].next = CalculateStreak(streak[Solver(w)], day)]
              /\ UNCHANGED message
       \/ Fails(w)
    /\ UNCHANGED <<completed, awards, streak, check, history, status, badge, today, days,
                   clash>>

\* Mutant of Award: the XP is added with every solve.
AwardAll(w) ==
    /\ At(w, "award")
    /\ awards' = [awards EXCEPT ![Solved(w)] = @ + 1]
    /\ streak' = [streak EXCEPT ![Solver(w)] = work[w].next]
    /\ days' = [days EXCEPT ![Solver(w)] = @ \cup {work[w].next.last}]
    /\ Goes(w, "end")
    /\ UNCHANGED <<message, completed, check, history, status, badge, today, clash, lfaults>>

\* A first solve adds the XP and writes the streak, as computed from what was read.
Award(w) ==
    /\ At(w, "award")
    /\ \/ /\ Goes(w, "end")
          /\ IF work[w].first
             THEN /\ awards' = [awards EXCEPT ![Solved(w)] = @ + 1]
                  /\ streak' = [streak EXCEPT ![Solver(w)] = work[w].next]
                  /\ days' = [days EXCEPT ![Solver(w)] = @ \cup {work[w].next.last}]
             ELSE UNCHANGED <<awards, streak, days>>
          /\ UNCHANGED <<message, lfaults>>
       \/ work[w].first /\ Fails(w) /\ UNCHANGED <<awards, streak, days>>
    /\ UNCHANGED <<completed, check, history, status, badge, today, clash>>

EndSession(w) ==
    /\ At(w, "end")
    /\ \/ /\ status' = [status EXCEPT ![MsgSession(w)] = IF @ = "ACTIVE" THEN "COMPLETED" ELSE @]
          /\ Goes(w, "submit")
          /\ UNCHANGED <<message, lfaults>>
       \/ Fails(w) /\ UNCHANGED status
    /\ UNCHANGED <<completed, awards, streak, check, history, badge, today, days, clash>>

Submit(w) ==
    /\ At(w, "submit")
    /\ \/ /\ history' = [history EXCEPT ![work[w].msg] = @ + 1]
          /\ IF work[w].first THEN Goes(w, "milestones") /\ UNCHANGED message ELSE Finish(w)
          /\ UNCHANGED lfaults
       \/ Fails(w) /\ UNCHANGED history
    /\ UNCHANGED <<completed, awards, streak, check, status, badge, today, days, clash>>

\* evaluateMilestoneBadges, for the first solve and the streak computed above.  A badge
\* that is there already, or is created by another handler meanwhile, stays; one that
\* cannot be written is missing.
MilestonesReached(w) ==
    {"streak"} \X {b \in Milestones : work[w].next.current >= b}
        \cup {b \in {<<"first-blood", 1>>} :
                  \E s \in Session : UserOf[s] = Solver(w) /\ status[s] = "COMPLETED"}

AwardMilestones(w) ==
    /\ At(w, "milestones")
    /\ \/ \E B \in SUBSET MilestonesReached(w) :
              /\ IF B = MilestonesReached(w) THEN UNCHANGED lfaults ELSE LFault("db")
              /\ badge' = badge \cup {Solver(w)} \X B
              /\ Goes(w, "path")
              /\ UNCHANGED message
       \/ Fails(w) /\ UNCHANGED badge
    /\ UNCHANGED <<completed, awards, streak, check, history, status, today, days, clash>>

\* Mutant of PathDone: the challenge just solved is looked for as an active session.
PathDoneEarly(u) ==
    \A c \in Path : \E s \in Session : UserOf[s] = u /\ ChallengeOf[s] = c /\ status[s] = "ACTIVE"

\* The user has completed a session of every challenge of the path.
PathDone(u) ==
    \A c \in Path : \E s \in Session : UserOf[s] = u /\ ChallengeOf[s] = c /\ status[s] = "COMPLETED"

AwardPath(w) ==
    /\ At(w, "path")
    /\ \/ /\ badge' = IF Solved(w)[2] \in Path /\ PathDone(Solver(w))
                      THEN badge \cup {<<Solver(w), PathBadge>>} ELSE badge
          /\ Finish(w)
          /\ UNCHANGED lfaults
       \/ Fails(w) /\ UNCHANGED badge
    /\ UNCHANGED <<completed, awards, streak, check, history, status, today, days, clash>>

\* The process of a consumer dies; its message is delivered again.
LearnCrash(w) ==
    /\ ~At(w, "idle")
    /\ LFault("crash")
    /\ work' = [work EXCEPT ![w] = Idle]
    /\ UNCHANGED <<message, completed, awards, streak, check, history, status, badge,
                   today, days, clash>>

-----------------------------------------------------------------------------
(* challenge.failed and time                                               *)

\* A failed run of a validator; its submission row is left out.
FailedRun(s) ==
    /\ UserOf[s] \in Learner
    /\ check' = [check EXCEPT ![<<UserOf[s], ChallengeOf[s]>>] = "FAILED"]
    /\ UNCHANGED <<message, work, completed, awards, streak, history, status, badge,
                   today, days, clash, lfaults>>

Midnight ==
    /\ today < MaxDay
    /\ today' = today + 1
    /\ UNCHANGED <<message, work, completed, awards, streak, check, history, status, badge,
                   days, clash, lfaults>>

Handle(w) ==
    \/ \E m \in Message : Begin(w, m)
    \/ GuestSolved(w) \/ Find(w) \/ Complete(w) \/ Check(w) \/ Read(w) \/ Award(w)
    \/ EndSession(w) \/ Submit(w) \/ AwardMilestones(w) \/ AwardPath(w)

LearnNext ==
    \/ \E s \in Session : Solve(s) \/ EndedEarly(s) \/ FailedRun(s)
    \/ \E w \in Worker : Handle(w) \/ LearnCrash(w)
    \/ Midnight

LearnSpec == LearnInit /\ [][LearnNext]_learnVars

-----------------------------------------------------------------------------
(* Safety                                                                  *)

\* The XP of a challenge is added once, however often it is solved, reported and
\* delivered, unless two handlers work for the learner at once.
XpAddedOnce ==
    \A u \in Learner \ clash, c \in Challenge : awards[<<u, c>>] <= 1

Working(u) == \E w \in Worker : work[w].pc # "idle" /\ Solver(w) = u

\* No XP without a completion, and none withheld: a completed challenge has its XP, or a
\* handler is about to add it, if no statement failed and no process died in between.
XpGoesWithCompletion ==
    \A p \in Pair :
        /\ awards[p] > 0 => p \in completed
        /\ LWithout({"db", "crash"}) /\ p \in completed /\ ~Working(p[1]) => awards[p] > 0

\* A message that is consumed has left its mark, even if a crash came between.
SolveIsKept ==
    LWithout({"db"}) =>
        \A m \in Message : message[m].at = "consumed" /\ UserOf[message[m].session] \in Learner =>
            /\ history[m] > 0
            /\ <<UserOf[message[m].session], ChallengeOf[message[m].session]>> \in completed

\* The streak is what the days of counted activity say: the run up to the last day, and
\* the longest run, as long as a learner's messages are handled one after the other.
StreakIsRun ==
    \A u \in Learner \ clash : LWithout({"skew"}) =>
        /\ streak[u].current = RunTo(days[u], streak[u].last)
        /\ streak[u].longest = LongestRun(days[u])

\* Who has the badge of a path has completed every challenge of it, in sessions that
\* were not a guest's or another learner's.
PathBadgeEarned == \A u \in Learner : <<u, PathBadge>> \in badge => {u} \X Path \subseteq completed

\* The solves that complete a path may be handled at the same time: one of the handlers
\* sees the sessions of both.
PathBadgeAwarded ==
    \A u \in Learner :
        LWithout({"db", "crash", "ended"}) /\ Path # {} /\ {u} \X Path \subseteq completed
            => <<u, PathBadge>> \in badge \/ Working(u)

\* A solve is counted: it leaves its completion and submission, and its XP comes once, and
\* with the completion.
SolveCounted == LearnTypeOK /\ XpAddedOnce /\ XpGoesWithCompletion /\ SolveIsKept

\* Who has completed a path has its badge, and nobody else.
PathBadgeHeld == PathBadgeEarned /\ PathBadgeAwarded
=============================================================================
