\* Three commands, room for two receipts, one body kept.  Commands that ended
\* send nothing more: the system may stop.
SPECIFICATION Spec
CONSTANTS
    r1 = r1
    r2 = r2
    r3 = r3
    r4 = r4
    Requests = {r1, r2, r3}
    Operations = {"claim", "release", "comment", "retry"}
    MaxTries = 2
    Kept = 1
    MaxReceipts = 2
    MaxAttempts = 3
SYMMETRY RequestSymmetry
INVARIANTS WritesOnce RetryTellsNewest
PROPERTIES AnsweredIsFenced
CHECK_DEADLOCK FALSE
