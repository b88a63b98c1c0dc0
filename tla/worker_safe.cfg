SPECIFICATION Spec

CONSTANTS
    Worker = {w1}
    Session = {s1, s2}
    Container = {c1, c2, c3}
    None = None
    Provisioning = Provisioning
    TTL <- MCTTL
    RedisTTL = 2
    Grace = 1
    MaxAge = 2
    MaxStarts = 1
    MaxEnds = 1
    Faults = {"crash", "conn", "redis", "docker", "kafka", "timeout", "provision", "oom", "disk"}
    MaxFaults = 1

SYMMETRY Symmetric

INVARIANT RecordsNameOwnContainer
INVARIANT ServedSessionIsRouted
INVARIANT DuplicateStartsHarmless
INVARIANT FailureSettled
