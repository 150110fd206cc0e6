\* One actor whose renewals are answered late.
SPECIFICATION SpecContention
CONSTANTS
    Issues = {i1}
    NoIssue = NoIssue
    TTL = 3
    MaxClaims = 2
    a1 = a1
    a2 = a2
    p1 = p1
    s1 = s1
    Actors = {a1}
    NoActor = NoActor
    Instances = {p1}
    Sessions = {s1}
    InstanceOf <- OneProcess
    SessionOf <- OneSession
    Workspaces = {}
    Margin = 1
    RenewEvery = 1
    RenewRetry = 1
    MaxNonces = 3

PROPERTIES NoLateRevival
