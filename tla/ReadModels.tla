----------------------------- MODULE ReadModels -----------------------------
(***************************************************************************)
(* What the core service tells its users of the rows the other modules     *)
(* write: the dashboard, the histories and a roadmap's progress            *)
(* (user/dashboard.routes.ts), the leaderboards, the feed, the profile and *)
(* the list of challenges (challenge.routes.ts), an organization's matrix  *)
(* of assignments (org.routes.ts) and the graph of nodes (node.routes.ts). *)
(*                                                                         *)
(* A read is one answer from one state of the rows, whose creation times   *)
(* are all different.  Every list the code cuts off is cut off at a        *)
(* constant, small enough here to be exceeded.                             *)
(***************************************************************************)
EXTENDS Naturals, FiniteSets

CONSTANTS
    Reader,        \* users, who read and are read of
    Private,       \* those whose profile is not public
    Team,          \* organizations
    Topic,         \* challenges, which are nodes too
    Course,        \* learning paths,
    NodesOf,       \* ... the challenges of each,
    Prerequisite,  \* the edges between nodes: <<n, m>> when n asks for m
    OwnedBy,       \* the organization that contributed a challenge, or "nobody"
    TakeRecent,    \* rows the dashboard reads: the last 10 completions
    TakeSessions,  \* ... and the last 20 sessions
    TakeShown,     \* ... of which 5 are in progress
    TakeHistory,   \* rows of each kind in a history: 20, a feed's limit, a board's limit
    MaxRows        \* rows ever written

ASSUME ReadAssumption ==
    /\ Private \subseteq Reader
    /\ NodesOf \in [Course -> SUBSET Topic]
    /\ Prerequisite \subseteq Topic \X Topic
    /\ OwnedBy \in [Topic -> Team \cup {"nobody"}]
    /\ {TakeRecent, TakeSessions, TakeShown, TakeHistory} \subseteq Nat \ {0}
    /\ IsFiniteSet(Topic) /\ MaxRows \in Nat

VARIABLES
    clock,        \* the time of the last row
    labSessions,  \* LabSession: when, whose, of what, its status and its end
    completions,  \* Completion
    earned,       \* UserBadge
    submissions,  \* Submission
    follows,      \* UserFollow: <<follower, followed>>
    orgOf         \* User.orgId, "nobody" for none

readVars == <<clock, labSessions, completions, earned, submissions, follows, orgOf>>

RowOf == [at: 1 .. MaxRows, by: Reader, of: Topic]
SessionRow == [at: 1 .. MaxRows, by: Reader, of: Topic,
               status: {"RUNNING", "COMPLETED", "EXPIRED"}, end: 0 .. MaxRows]

ReadTypeOK ==
    /\ clock \in 0 .. MaxRows
    /\ labSessions \subseteq SessionRow
    /\ completions \subseteq RowOf /\ submissions \subseteq RowOf
    /\ earned \subseteq [at: 1 .. MaxRows, by: Reader]
    /\ follows \subseteq Reader \X Reader
    /\ orgOf \in [Reader -> Team \cup {"nobody"}]

ReadInit ==
    /\ clock = 0
    /\ labSessions = {} /\ completions = {} /\ earned = {} /\ submissions = {}
    /\ follows \in {{}, {p \in Reader \X Reader : p[1] # p[2]}}
    /\ orgOf \in [Reader -> Team \cup {"nobody"}]

Now == clock + 1
Tick == clock < MaxRows /\ clock' = Now

-----------------------------------------------------------------------------
(* The rows, as the other modules write them                               *)

Start(u, c) ==
    /\ Tick
    /\ \A s \in labSessions : s.by = u /\ s.of = c => s.status # "RUNNING"
    /\ labSessions' = labSessions \cup {[at |-> Now, by |-> u, of |-> c, status |-> "RUNNING", end |-> 0]}
    /\ UNCHANGED <<completions, earned, submissions, follows, orgOf>>

End(s) ==
    /\ Tick /\ s.status = "RUNNING"
    /\ \E st \in {"COMPLETED", "EXPIRED"} :
         labSessions' = (labSessions \ {s}) \cup {[s EXCEPT !.status = st, !.end = Now]}
    /\ UNCHANGED <<completions, earned, submissions, follows, orgOf>>

WriteCompletion(u, c) ==
    /\ Tick /\ ~\E r \in completions : r.by = u /\ r.of = c
    /\ completions' = completions \cup {[at |-> Now, by |-> u, of |-> c]}
    /\ UNCHANGED <<labSessions, earned, submissions, follows, orgOf>>

WriteSubmission(u, c) ==
    /\ Tick
    /\ submissions' = submissions \cup {[at |-> Now, by |-> u, of |-> c]}
    /\ UNCHANGED <<labSessions, completions, earned, follows, orgOf>>

Earn(u) ==
    /\ Tick
    /\ earned' = earned \cup {[at |-> Now, by |-> u]}
    /\ UNCHANGED <<labSessions, completions, submissions, follows, orgOf>>

ReadNext ==
    \/ \E u \in Reader : Earn(u)
    \/ \E u \in Reader, c \in Topic : Start(u, c) \/ WriteCompletion(u, c) \/ WriteSubmission(u, c)
    \/ \E s \in labSessions : End(s)

ReadSpec == ReadInit /\ [][ReadNext]_readVars

-----------------------------------------------------------------------------
(* Queries                                                                 *)

By(rows, u) == {r \in rows : r.by = u}

\* orderBy desc, take n.
Latest(rows, n) == {r \in rows : Cardinality({q \in rows : q.at > r.at}) < n}

\* The first row of each challenge in a list, latest first.
FirstOfEach(rows) == {r \in rows : \A q \in rows : q.of = r.of => q.at <= r.at}

Nodes(rows) == {r.of : r \in rows}

\* Mutant of RecentCompletions: the list of the activity feed serves the count too.
RecentAll(u) == Latest(completions, TakeRecent)

RecentCompletions(u) == Latest(By(completions, u), TakeRecent)

\* What the dashboard proposes to go on with: the challenges of the last sessions whose
\* latest one has not solved them, an expired one included.
InProgress(u) ==
    LET recent == FirstOfEach(Latest(By(labSessions, u), TakeSessions))
    IN  Latest({s \in recent : s.status # "COMPLETED"}, TakeShown)

HasActivity(u) == RecentCompletions(u) # {} \/ By(labSessions, u) # {}

RecommendedNext(u) ==
    IF InProgress(u) # {} THEN Nodes(Latest(InProgress(u), 1))
    ELSE IF HasActivity(u) THEN {"catalog"} ELSE {"first steps"}

\* A path counts once all of its challenges are among the completions that were read.
RoadmapsCompleted(u) ==
    {p \in Course : NodesOf[p] # {} /\ NodesOf[p] \subseteq Nodes(RecentCompletions(u))}

RoadmapProgress(u, p) == Nodes(By(completions, u)) \cap NodesOf[p]

\* The last completions and the last submissions, merged.
History(u) == Latest(By(completions, u), TakeHistory) \cup Latest(By(submissions, u), TakeHistory)

\* The last solved sessions of those a user follows, by their end, and their last badges;
\* merged by time and cut off again.
SolvedBy(u) == {[at |-> s.end, by |-> s.by] : s \in {t \in By(labSessions, u) : t.status = "COMPLETED"}}
Followed(u) == {v \in Reader : <<u, v>> \in follows}

Feed(u) ==
    LET solved == UNION {SolvedBy(v) : v \in Followed(u)}
        badges == {b \in earned : b.by \in Followed(u)}
    IN  Latest(Latest(solved, TakeHistory) \cup Latest(badges, TakeHistory), TakeHistory)

\* The profile: the last solved sessions, one of each challenge.
Profile(u) == FirstOfEach(Latest({s \in By(labSessions, u) : s.status = "COMPLETED"}, TakeSessions))

\* The list of challenges, and the page of one of them.
Listed(u) == {c \in Topic : OwnedBy[c] = "nobody"
                                \/ (orgOf[u] # "nobody" /\ OwnedBy[c] = orgOf[u])}
Forbidden(u, c) == OwnedBy[c] # "nobody" /\ OwnedBy[c] # orgOf[u]

\* The boards rank by points, one for each completion; of equal points the database
\* lists either first, so a board is the set of those who may be on it.
Xp(u) == Cardinality(By(completions, u))
Rank(scope, u) == 1 + Cardinality({v \in scope : Xp(v) > Xp(u)})

Roster(t) == {u \in Reader : orgOf[u] = t}
PublicBoard(t) ==
    LET scope == Roster(t) \ Private IN {u \in scope : Rank(scope, u) <= TakeHistory}

\* A category's board lists whoever solved one of its nodes, by all of their points.
CategoryBoard(c) ==
    LET scope == {r.by : r \in {q \in completions : q.of = c}} \ Private
    IN  {u \in scope : Rank(scope, u) <= TakeHistory}

-----------------------------------------------------------------------------
(* An organization's matrix                                                *)

\* Math.round of a percentage, a half upwards.
Percentage(done, total) == IF total = 0 THEN 0 ELSE (200 * done + total) \div (2 * total)

AssignmentStatus(done, total) ==
    CASE Percentage(done, total) = 100 -> "COMPLETED"
      [] Percentage(done, total) \in 1 .. 99 -> "IN_PROGRESS"
      [] OTHER -> "NOT_STARTED"

MatrixCell(u, p) ==
    AssignmentStatus(Cardinality(RoadmapProgress(u, p)), Cardinality(NodesOf[p]))

-----------------------------------------------------------------------------
(* The graph                                                               *)

Parents(n) == {m \in Topic : <<n, m>> \in Prerequisite}
Children(n) == {m \in Topic : <<m, n>> \in Prerequisite}

\* The recursive query: the parents, the parents of what it has, and nothing else.
Leads(n, S) == Parents(n) \subseteq S /\ \A k \in S : Parents(k) \subseteq S
Ancestors == [n \in Topic |-> {m \in Topic : \A S \in SUBSET Topic : Leads(n, S) => m \in S}]

Frontier(u) ==
    LET done == Nodes(By(completions, u)) IN {n \in Topic \ done : Parents(n) \subseteq done}

-----------------------------------------------------------------------------
(* What the answers promise                                                *)

\* Paths whose share of solved challenges is not rounded up to all of them.
Fine == {p \in Course : Cardinality(NodesOf[p]) < 200}

\* The dashboard counts no roadmap that is not completed, and with no more completions
\* than it reads it counts all of them ("Count actual roadmaps completed", line 110).
RoadmapsAreCounted ==
    \A u \in Reader : LET done == {p \in Course : MatrixCell(u, p) = "COMPLETED"} IN
       /\ RoadmapsCompleted(u) \subseteq done
       /\ Cardinality(By(completions, u)) <= TakeRecent => done \cap Fine \subseteq RoadmapsCompleted(u)

\* What the user is told to resume is the last challenge he started and has not solved
\* since; only sessions older than those that were read are missed.
ResumesTheLast ==
    \A u \in Reader :
       LET open == {s \in FirstOfEach(By(labSessions, u)) : s.status # "COMPLETED"} IN
       /\ Nodes(InProgress(u)) \subseteq Nodes(open)
       /\ Cardinality(By(labSessions, u)) <= TakeSessions /\ open # {} =>
            RecommendedNext(u) = Nodes(Latest(open, 1))

\* The feed is the latest of everything the followed have done: cutting off each kind
\* first loses nothing.  A history is gapless in each kind.
ListsAreLatest ==
    \A u \in Reader :
       /\ Feed(u) = Latest(UNION {SolvedBy(v) \cup By(earned, v) : v \in Followed(u)}, TakeHistory)
       /\ \A r \in History(u), kind \in {completions, submissions} :
             r \in kind => \A q \in By(kind, u) : q.at > r.at => q \in History(u)

\* A profile shows a challenge once, and all of the solved ones of the sessions it reads.
ProfileIsOnce ==
    \A u \in Reader :
       LET solved == {s \in By(labSessions, u) : s.status = "COMPLETED"} IN
       /\ \A s, t \in Profile(u) : s.of = t.of => s = t
       /\ Nodes(Profile(u)) = Nodes(Latest(solved, TakeSessions))

\* A challenge is listed for whom its page can be opened, and for nobody else.
ListedIsOpen == \A u \in Reader : Listed(u) = {c \in Topic : ~Forbidden(u, c)}

\* An organization's public board names its members only, none of them lower than on
\* the board its members see; and the first of a category has solved something of it.
BoardsAgree ==
    /\ \A t \in Team : \A u \in PublicBoard(t) :
          u \in Roster(t) /\ Rank(Roster(t) \ Private, u) <= Rank(Roster(t), u)
    /\ \A c \in Topic : CategoryBoard(c) = {} =>
          \A u \in Reader \ Private : c \notin Nodes(By(completions, u))

\* A path of fewer than 200 challenges is not rounded up to completed; one of 200 is.
NotRoundedUp ==
    /\ \A total \in 1 .. 199 : \A done \in 0 .. total - 1 :
         AssignmentStatus(done, total) # "COMPLETED"
    /\ AssignmentStatus(199, 200) = "COMPLETED"

\* The matrix calls a path completed when it is.
MatrixIsExact ==
    /\ NotRoundedUp
    /\ \A u \in Reader, p \in Course :
         LET whole == NodesOf[p] # {} /\ RoadmapProgress(u, p) = NodesOf[p] IN
         /\ whole => MatrixCell(u, p) = "COMPLETED"
         /\ p \in Fine /\ MatrixCell(u, p) = "COMPLETED" => whole

\* The ancestors are what the prerequisites lead to.
AncestorsAreClosed ==
    \A n, m \in Topic :
       /\ m \in Ancestors[n] <=> m \in Parents(n) \/ \E k \in Parents(n) : m \in Ancestors[k]
       /\ m \in Parents(n) <=> n \in Children(m)

Acyclic == \A n \in Topic : n \notin Ancestors[n]

\* Whoever has something left has something unlocked, as long as no node is its own
\* ancestor.
FrontierIsOpen ==
    /\ AncestorsAreClosed
    /\ Acyclic => \A u \in Reader : Nodes(By(completions, u)) # Topic => Frontier(u) # {}

\* While no row was written there is nothing to tell.
AnswersSound ==
    clock > 0 =>
         /\ ReadTypeOK
         /\ RoadmapsAreCounted /\ ResumesTheLast /\ ListsAreLatest /\ ProfileIsOnce
         /\ ListedIsOpen /\ BoardsAgree /\ MatrixIsExact /\ FrontierIsOpen
=============================================================================
