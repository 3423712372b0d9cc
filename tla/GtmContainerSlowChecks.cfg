\* The same plans while the reads of apply may outlast its lease.
SPECIFICATION Spec
CONSTANTS
    Callers = {c1, c2}
    Runs = {r1, r2, r3}
    r1 = r1
    r2 = r2
    r3 = r3
    Kind <- ThreeKind
    Size <- ThreeSize
    None = None
    LockTtl = 1
    Margin = 1
    CallLimit = 1
    Prompt = FALSE
    MaxFaults = 0
SYMMETRY Symmetry
PROPERTIES
    WritesAwaitRecovery
