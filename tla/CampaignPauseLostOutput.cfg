\* One process dies, between the receipt and the output of a plan among others.
SPECIFICATION FairSpec
CONSTANTS
    Callers = {c1}
    Runs = {r1}
    None = None
    Answers = {"succeeded", "rejected"}
    ApprovalsFinal = TRUE
    LockTtl = 1
    Delay = 1
    Margin = 1
    CallLimit = 1
    MaxApprovals = 1
    MaxFaults = 1
PROPERTY
    AttemptsResolve
CHECK_DEADLOCK FALSE
