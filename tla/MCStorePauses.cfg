SPECIFICATION Spec
CONSTANTS
  Namespaces = {"ns"}
  Tools = {"pay", "note"}
  Global = Global
  IdempotencyKeys = {k1}
  k1 = k1
  k2 = k2
  l1 = l1
  l2 = l2
  Arguments = {"amount"}
  NoArgument = NoArgument
  Requests <- MCMixed
  LimitIds = {l1}
  PauseScopes <- MCMixedScopes
  NoLimit = NoLimit
  LimitSettings <- MCMixedSettings
  NoAction = NoAction
  Results = {r1}
  NoResult = NoResult
  Effects = {"allow"}
  Ttls <- MCTtls
  Lease = 1
  Skew = 0
  MaxClock = 2
  MaxReceipts = 9
  MaxControls = 3
INVARIANTS
  ControlsAudited
PROPERTIES
  PauseStopsStarts
