SPECIFICATION FairSpec
CONSTANTS
  Endpoints = {1}
  Events = {"approved", "limit_blocked"}
  StatusedEvents = {"approved"}
  Configs <- MCBlocked
  w1 = w1
  w2 = w2
  Workers = {w1}
  NoWorker = NoWorker
  NoEndpoint = NoEndpoint
  NoDelivery = NoDelivery
  MaxReceipts = 2
  MaxFaults = 1
  MaxRetries = 1
  MaxClaims = 3
PROPERTIES
  EveryEventReachesOutbox
