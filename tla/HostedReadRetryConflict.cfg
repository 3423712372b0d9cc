SPECIFICATION Spec
CONSTANTS
    w1 = w1
    w2 = w2
    Workers = {w1, w2}
    Jobs = {j1}
    Outputs = {o1, o2}
    Nil = Nil
    Lease = 1
    Retry = 1
    RecoveryLimit = 1
    Skew <- EvenClocks
    MaxSkew = 0
    MaxFaults = 1
    MaxRevision = 2
INVARIANT RecoveredReadNotRefused
CHECK_DEADLOCK TRUE
