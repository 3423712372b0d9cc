\* Two concurrent calls on two plans of one campaign, nothing fails but what
\* the calls do to each other and what time does to their leases.
\* Time is in units of 30 s.
SPECIFICATION Spec
CONSTANTS
    Callers = {c1, c2}
    Runs = {r1, r2}
    None = None
    Answers = {"succeeded"}
    ApprovalsFinal = TRUE
    LockTtl = 1
    Delay = 0
    Margin = 1
    CallLimit = 1
    MaxApprovals = 1
    MaxFaults = 0
SYMMETRY Symmetry
INVARIANTS
    OutputMatchesReceipt
PROPERTIES
    RequestIsExclusive
    ImplementsContract
CHECK_DEADLOCK FALSE
