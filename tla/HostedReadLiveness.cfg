SPECIFICATION FairSpec
CONSTANTS
    w1 = w1
    w2 = w2
    Workers = {w1, w2}
    Jobs = {j1, j2}
    Outputs = {o1}
    Nil = Nil
    Lease = 1
    Retry = 1
    RecoveryLimit = 1
    Skew <- EvenClocks
    MaxSkew = 0
    MaxFaults = 1
    MaxRevision = 1
PROPERTIES
    EveryJobSettles
    OutboxDrains
    ImplementsContract
CHECK_DEADLOCK TRUE
