\* Two actors of one process compete for one issue; no session ends.
SPECIFICATION SpecContention
CONSTANTS
    Issues = {i1}
    NoIssue = NoIssue
    TTL = 3
    MaxClaims = 2
    a1 = a1
    a2 = a2
    p1 = p1
    s1 = s1
    Actors = {a1, a2}
    NoActor = NoActor
    Instances = {p1}
    Sessions = {s1}
    InstanceOf <- OneProcess
    SessionOf <- OneSession
    Workspaces = {}
    Margin = 1
    RenewEvery = 1
    RenewRetry = 1
    MaxNonces = 3
INVARIANTS TypeOK LeaseCover ExclusiveBelief ClosedWorkNotHeld RejectedCloseDidNothing
PROPERTIES CloseLeavesOthersWork AttemptIsStable KeepsPromise
SYMMETRY Symmetry
