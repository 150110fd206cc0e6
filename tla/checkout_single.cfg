\* One actor, two tenures, a workspace, and every way to lose a tenure.
SPECIFICATION SpecCheckouts
CONSTANTS
    Issues = {i1}
    NoIssue = NoIssue
    TTL = 2
    MaxClaims = 2
    a1 = a1
    p1 = p1
    s1 = s1
    w1 = w1
    Actors = {a1}
    NoActor = NoActor
    Instances = {p1}
    Sessions = {s1}
    InstanceOf <- OneProcess
    SessionOf <- OneSession
    Workspaces = {w1}
    NoTarget = NoTarget
    Slots = 1
    Margin = 1
    RenewEvery = 0
    RenewRetry = 0
    MaxNonces = 2
INVARIANTS ReadyIsUsable CloseFindsNonePreparing PreparingIsRunning
PROPERTIES NoRevivedWorkspace
