SPECIFICATION MCSpec

CONSTANTS
    Conn = {a, b}
    Foreign = {}
    Maker = maker
    Made <- OneStage
    MaxCreates = 1
    MaxPtys = 2
    MaxChunks = 2
    Buffer = 1
    MaxFailures = 1
    Call = {c1, c2}
    MaxSockets = 3
    MaxTimers = 4
    MaxAttempts = 3
    Request = {r1, r2}
    MaxExchanges = 2
    MaxRefusals = 1
    Box = {b1}
    MaxMishaps = 2
    MaxTerminals = 2

SYMMETRY ConnSymmetry

INVARIANT WatcherMissesNothing
INVARIANT PtySound
INVARIANT MachineSound
 
INVARIANT RuntimesSound

CHECK_DEADLOCK FALSE
