SPECIFICATION Spec

CONSTANTS
    Replica = {r1}
    Cycle = {k1, k2}
    m1 = m1
    m2 = m2
    Message = {m1}
    MessageOf <- EqualPayloads
    MaxEvents = 2
    BatchSize = 2
    MaxRetries = 2
    Threshold = 2
    Faults = {"kafka", "rabbit", "db", "conn", "channel", "crash"}
    MaxFaults = 1

PROPERTY ImplementsDelivery
INVARIANT SettledForCause

CHECK_DEADLOCK FALSE
