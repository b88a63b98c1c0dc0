SPECIFICATION FairSpec

CONSTANTS
    Worker = {w1, w2}
    Session = {s1}
    Container = {c1}
    None = None
    Provisioning = Provisioning
    TTL <- MCTTL
    RedisTTL = 2
    Grace = 1
    MaxAge = 2
    MaxStarts = 1
    MaxEnds = 1
    Faults = {"redis", "provision", "oom"}
    MaxFaults = 1

PROPERTY StartResolved
PROPERTY EveryContainerStops
