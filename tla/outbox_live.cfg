SPECIFICATION FairSpec

CONSTANTS
    Replica = {r1}
    Cycle = {k1}
    m1 = m1
    m2 = m2
    Message = {m1, m2}
    MessageOf <- DistinctPayloads
    MaxEvents = 2
    BatchSize = 1
    MaxRetries = 2
    Threshold = 1
    Faults = {"kafka", "rabbit", "db", "crash", "channel"}
    MaxFaults = 2

PROPERTY EventSettles

CHECK_DEADLOCK FALSE
