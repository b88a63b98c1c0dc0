SPECIFICATION Spec

CONSTANTS
    User = {u1}
    Challenge = {c1, c2}
    Start = {p1, p2, p3}
    Replica = {}
    None = None
    Limit = 1
    ReapBatch = 1
    MaxSessions = 2
    Faults = {"expiry", "crash"}
    MaxFaults = 1

SYMMETRY Symmetric

INVARIANT OneActivePerChallenge
INVARIANT LimitOvershoot
INVARIANT RowWithEvent

CHECK_DEADLOCK FALSE
