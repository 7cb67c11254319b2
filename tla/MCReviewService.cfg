SPECIFICATION Spec
CONSTANTS
  a1 = a1
  a2 = a2
  ann = ann
  eve = eve
  t1 = t1
  t2 = t2
  acme = acme
  globex = globex
  billing = billing
  c1 = c1
  c2 = c2
  k1 = k1
  k2 = k2
  Actions = {a1, a2}
  ApiClients = {c1}
  Browsers = {c2}
  Tokens = {t1, t2}
  Cookies = {k1, k2}
  Subjects = {ann, eve}
  Actors = {ann, eve}
  Organizations = {acme, globex}
  Namespaces = {billing}
  Filters = {"any", "pending"}
  Requests <- MCRequests
  Documents <- MCDocuments
  NoRequester = NoRequester
  NoOne = NoOne
  NoAction = NoAction
  NoCookie = NoCookie
  NoToken = NoToken
  NoPrincipal = NoPrincipal
  MaxReopens = 0
  PageSize = 1
  MaxListed = 1
  MaxSessions = 1
  MaxReceipts = 3
  MaxCalls = 3
SYMMETRY Interchangeable
INVARIANTS
  TypeOK
  TenantIsolation
  OfferedIsAccepted
  NothingMissed
PROPERTIES
  SessionsMakeRoom
  KeepsGatePromise
CHECK_DEADLOCK FALSE
