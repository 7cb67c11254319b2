SPECIFICATION Spec
CONSTANTS
  Endpoints = {1, 2}
  Events = {"approved", "expired", "limit_blocked"}
  StatusedEvents = {"approved", "expired"}
  Configs <- MCSync
  w1 = w1
  w2 = w2
  Workers = {w1, w2}
  NoWorker = NoWorker
  NoEndpoint = NoEndpoint
  NoDelivery = NoDelivery
  MaxReceipts = 2
  MaxFaults = 1
  MaxRetries = 1
  MaxClaims = 2
SYMMETRY MCSymmetry
INVARIANTS
  OutboxMatchesCheckpoint
  AttemptsAccounted
