\* Two dead processes or failed store calls, two concurrent calls on one plan
\* that may be approved twice, with a verification delay.
SPECIFICATION Spec
CONSTANTS
    Callers = {c1, c2}
    Runs = {r1}
    None = None
    Answers = {"succeeded", "rejected"}
    ApprovalsFinal = FALSE
    LockTtl = 1
    Delay = 1
    Margin = 1
    CallLimit = 1
    MaxApprovals = 2
    MaxFaults = 2
SYMMETRY Symmetry
INVARIANTS
    GuardCoversRequest
    NoRecoveryInFlight
CHECK_DEADLOCK FALSE
