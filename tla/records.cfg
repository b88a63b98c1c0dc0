SPECIFICATION MCSpec
CONSTANTS
 Worker = {w1, w2}
 s1 = s1
 s2 = s2
 s3 = s3
 ann = ann
 guest = guest
 c1 = c1
 c2 = c2
 Session = {s1, s2, s3}
 ChallengeOf <- MCChallengeOf
 UserOf <- MCUserOf
 Learner = {ann}
 Path = {c1, c2}
 Milestones = {2}
 MaxSolves = 2
 MaxDay = 3
 LFaults = {"db", "crash", "skew", "ended"}
 MaxLFaults = 1
 Person = {p1, p2, p3}
 Org = {o1}
 Request = {q1, q2}
 MaxInvites = 2
 Seats = 2
 MaxJoins = 2
 MaxOFaults = 1
 Guest = {g1, g2}
 Trial = {x1, x2}
 Caller = {k1, k2}
 MaxTrials = 3
 PerHour = 2
 MaxTFaults = 1
 Visitor = {v1}
 Item = {v1, i1}
 Http = {h1, h2}
 MaxHttp = 4
 Questions = 10
 o1 = o1
 Reader = {u, v}
 Private = {v}
 Team = {o1}
 Topic = {c1, c2}
 Course <- MCCourse
 NodesOf <- MCNodesOf
 Prerequisite <- MCPrerequisite
 OwnedBy <- MCOwnedBy
 TakeRecent = 1
 TakeSessions = 2
 TakeShown = 1
 TakeHistory = 1
 MaxRows = 4
INVARIANT SolveCounted
INVARIANT StreakIsRun
INVARIANT PathBadgeHeld
INVARIANT MembershipHolds
INVARIANT InviteHolds
INVARIANT TrialGuarded
 
INVARIANT AnswersSound
CHECK_DEADLOCK FALSE
