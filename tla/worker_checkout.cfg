\* A tenure with two workspaces and its successor, which shares its gate.
SPECIFICATION SpecTenures
CONSTANTS
    Issues = {i1}
    NoIssue = NoIssue
    TTL = 1
    MaxClaims = 2
    Workspaces = {w1, w2}
    Requests = {r1, r2}
    NoRequest = NoRequest
    Gates = 1
    Slots = 2
INVARIANTS ClosedHasNonePreparing AnsweredLeavesNoneReady OneJobPerRequest
PROPERTIES CallsEnd
