\* One call after another on two plans of one campaign; no fault but a lease
\* that ends under an apply.
SPECIFICATION FairSpec
CONSTANTS
    Callers = {c1}
    Runs = {r1, r2}
    None = None
    Answers = {"succeeded", "rejected"}
    ApprovalsFinal = TRUE
    LockTtl = 1
    Delay = 1
    Margin = 1
    CallLimit = 1
    MaxApprovals = 1
    MaxFaults = 0
PROPERTIES
    AttemptsResolve
    TargetReopens
CHECK_DEADLOCK FALSE
