\* A claim that is answered ambiguously while a concurrent retry resolves it.
SPECIFICATION Spec
CONSTANTS
    r1 = r1
    r2 = r2
    r3 = r3
    r4 = r4
    Requests = {r1, r2, r3}
    Operations = {"claim", "release", "retry"}
    MaxTries = 2
    Kept = 1
    MaxReceipts = 3
    MaxAttempts = 3
SYMMETRY RequestSymmetry
INVARIANTS OneAttemptPerRequest
CHECK_DEADLOCK FALSE
