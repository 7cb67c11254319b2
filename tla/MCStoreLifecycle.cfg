SPECIFICATION Spec
CONSTANTS
  Namespaces = {"ns"}
  Tools = {"pay"}
  Global = Global
  IdempotencyKeys = {"k1"}
  Arguments = {"amount"}
  NoArgument = NoArgument
  Requests <- MCRequests
  LimitIds = {}
  PauseScopes <- MCPauseScopes
  NoLimit = NoLimit
  LimitSettings = {}
  NoAction = NoAction
  Results = {r1, r2}
  NoResult = NoResult
  Effects = {"allow", "deny", "require_approval"}
  Ttls <- MCTtls
  Lease = 1
  Skew = 1
  MaxClock = 5
  MaxReceipts = 13
  MaxControls = 1
INVARIANTS
  AuditReplay
  DecisionFresh
PROPERTIES
  NoLateStart
  SettledForever
