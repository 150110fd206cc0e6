SPECIFICATION SpecPi
CONSTANTS
  p1 = p1
  Controllers = {p1}
  Issues = {i1}
  NoIssue = NoIssue
  TTL = 3
  MaxClaims = 2
  Margin = 1
  RenewEvery = 1
  RenewRetry = 1
  MaxMinted = 4
  MaxBeats = 2
  MaxStrays = 1
INVARIANTS EditCover LiveIsRenewed UnresolvedStopsEditing
PROPERTIES NoLateRevival RetryBeginsNothing LateRequestsSpareTheTenure
