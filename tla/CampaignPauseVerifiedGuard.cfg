\* One process dies, between the verification and the guard among others.
SPECIFICATION FairSpec
CONSTANTS
    Callers = {c1}
    Runs = {r1}
    None = None
    Answers = {"succeeded", "rejected"}
    ApprovalsFinal = TRUE
    LockTtl = 1
    Delay = 1
    Margin = 1
    CallLimit = 1
    MaxApprovals = 1
    MaxFaults = 1
PROPERTY
    VerifiedFreesTarget
CHECK_DEADLOCK FALSE
