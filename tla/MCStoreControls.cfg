SPECIFICATION Spec
CONSTANTS
  Namespaces = {"ns"}
  Tools = {"pay"}
  Global = Global
  IdempotencyKeys = {k1, k2}
  k1 = k1
  k2 = k2
  l1 = l1
  l2 = l2
  Arguments = {"amount"}
  NoArgument = NoArgument
  Requests <- MCPayments
  LimitIds = {l1, l2}
  PauseScopes = {}
  NoLimit = NoLimit
  LimitSettings <- MCSettings
  NoAction = NoAction
  Results = {r1}
  NoResult = NoResult
  Effects = {"allow"}
  Ttls <- MCTtls
  Lease = 1
  Skew = 1
  MaxClock = 2
  MaxReceipts = 8
  MaxControls = 3
INVARIANTS
  TypeOK
  UsageIsHeld
  HeldOnlyWhileCounted
  HeldInItsWindow
PROPERTIES
  LimitRespected
SYMMETRY MCSymmetry
