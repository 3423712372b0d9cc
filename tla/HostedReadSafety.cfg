SPECIFICATION Spec
CONSTANTS
    w1 = w1
    w2 = w2
    Workers = {w1, w2}
    Jobs = {j1}
    Outputs = {o1, o2}
    Nil = Nil
    Lease = 2
    Retry = 1
    RecoveryLimit = 1
    Skew <- SkewedClocks
    MaxSkew = 1
    MaxFaults = 1
    MaxRevision = 3
SYMMETRY JobSymmetry
INVARIANTS
    AuditLedger
    DispatchLedger
    FencedOut
    ArtifactMatches
PROPERTIES
    LeaseProtectsHolder
    OnlyOwnerClosesDispatch
CHECK_DEADLOCK TRUE
