SPECIFICATION FairSpec

CONSTANTS
    User = {u1}
    Challenge = {c1}
    Start = {p1}
    Replica = {r1, r2}
    None = None
    Limit = 2
    ReapBatch = 1
    MaxSessions = 2
    Faults = {"db", "expiry", "crash", "slow"}
    MaxFaults = 1

INVARIANT ReapersDisjoint
PROPERTY OverdueIsEnded

CHECK_DEADLOCK FALSE
