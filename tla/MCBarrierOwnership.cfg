SPECIFICATION OwnedSpec
CONSTANTS
  Namespaces = {"ns"}
  Tools = {"pay"}
  Global = Global
  IdempotencyKeys = {"k1"}
  Arguments = {"amount"}
  NoArgument = NoArgument
  Requests <- MCOneRequest
  LimitIds = {}
  PauseScopes = {}
  NoLimit = NoLimit
  LimitSettings = {}
  NoAction = NoAction
  c1 = c1
  c2 = c2
  c3 = c3
  res1 = res1
  res2 = res2
  Results = {res1, res2}
  NoResult = NoResult
  Effects = {"allow", "require_approval"}
  Ttls <- MCTtls
  Lease = 1
  Skew = 1
  MaxClock = 3
  MaxReceipts = 11
  MaxControls = 0
  Calls = {c1, c2}
  NoRequest = NoRequest
PROPERTIES
  ClaimOwnedByOneCall
