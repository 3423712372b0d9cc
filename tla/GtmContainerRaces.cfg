\* Two concurrent calls on two releases and a workspace plan of one container,
\* one of which may die or meet a failing store; a checked request may wait for
\* ever.  Time is in units of 30 s.
SPECIFICATION Spec
CONSTANTS
    Callers = {c1, c2}
    Runs = {r1, r2, r3}
    r1 = r1
    r2 = r2
    r3 = r3
    Kind <- ThreeKind
    Size <- ThreeSize
    None = None
    LockTtl = 1
    Margin = 1
    CallLimit = 1
    Prompt = TRUE
    MaxFaults = 1
SYMMETRY Symmetry
INVARIANTS
    ReceiptIsComplete
PROPERTIES
    WritesAwaitRecovery
    NoWriteAfterRecovery
    RecoveryNotErased
