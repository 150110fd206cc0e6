\* One actor, one tenure and one workspace, with the fairness of the daemon.
SPECIFICATION FairSpec
CONSTANTS
    Issues = {i1}
    NoIssue = NoIssue
    TTL = 2
    MaxClaims = 1
    a1 = a1
    p1 = p1
    s1 = s1
    w1 = w1
    Actors = {a1}
    NoActor = NoActor
    Instances = {p1}
    Sessions = {s1}
    InstanceOf <- OneProcess
    SessionOf <- OneSession
    Workspaces = {w1}
    NoTarget = NoTarget
    Slots = 1
    Margin = 1
    RenewEvery = 0
    RenewRetry = 0
    MaxNonces = 2
PROPERTIES PreparingIsDecided ReadyFades OverIssuesAreFreed
