SPECIFICATION MailFairSpec

CONSTANTS
    Replica = {r1}
    MaxEvents = 2
    KindOf <- TwoMails
    BatchSize = 2
    MaxRetries = 2
    Threshold = 1
    MaxTries = 2
    Faults = {"kafka", "db", "restart", "conn", "boot", "redis", "rabbit", "smtp", "handler", "crash"}
    MaxFaults = 1

PROPERTY ImplementsMailDelivery
PROPERTY MailArrives
INVARIANT MailSound

CHECK_DEADLOCK FALSE
