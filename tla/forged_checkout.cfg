\* One `forged checkout`, its late requests and hosts that interfere, with
\* fairness.
SPECIFICATION SpecCheckout
CONSTANTS
    Issues = {i1}
    NoIssue = NoIssue
    TTL = 2
    MaxClaims = 2
    Margin = 0
    RenewEvery = 0
    Tries = 2
    MaxKeys = 1
INVARIANTS DeadlineCover RegisteredInOrder
PROPERTIES LostStopsAgent LeavesNoLease
CHECK_DEADLOCK FALSE
