SPECIFICATION FairSpec
CONSTANTS
  None = None
  Clients = {"a", "b"}
  Injected = "injected"
  Calls = {1, 2}
  Sharings <- MCSharings
  Plans <- MCPlans
  RevokedFilters <- MCRevokedFilters
  Statuses = {200, 301, 403, 404, 429, 503}
  PageRows = 2
  MaxRecords = 3
  MaxRevoked = 1
INVARIANTS TypeOK ClosedByOwner HeadersAreOwn ListedMatches CountIsExact ListedAll ErrorsAreTyped
PROPERTIES CallsEnd
