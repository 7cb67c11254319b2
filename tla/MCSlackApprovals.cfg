SPECIFICATION FairSpec
CONSTANTS
  s1 = s1
  s2 = s2
  k1 = k1
  ann = ann
  member = member
  bob = bob
  api = api
  general = general
  audit = audit
  acme = acme
  billing = billing
  a1 = a1
  Actions = {a1}
  Services = {s1, s2}
  Clicks = {k1}
  Users = {member}
  Subjects = {ann, bob}
  Actors = {member, api}
  Channels = {general, audit}
  Organizations = {acme}
  Namespaces = {billing}
  Requests <- MCRequests
  Configs <- MCConfigs
  Others <- MCOthers
  NoRequester = NoRequester
  NoOne = NoOne
  NoAction = NoAction
  NoService = NoService
  NoConfig = NoConfig
  NoNote = NoNote
  NoClick = NoClick
  MaxReopens = 1
  MaxAttempts = 2
  MaxMessages = 2
  MaxFaults = 1
INVARIANTS
  TypeOK
  DecisionsFromBoundMessage
  MarksAreTrue
PROPERTIES
  BindingKept
  KeepsGatePromise
  PendingIsAnnounced
CHECK_DEADLOCK FALSE
