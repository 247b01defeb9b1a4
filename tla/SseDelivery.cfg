SPECIFICATION FairSpec
CONSTANTS
  None = None
  Flavours = {"sync", "async"}
  ResumeIds = {0, 1}
  Budgets = {None}
  InitialBackoff = 1
  MaxBackoff = 2
  EventKinds = {"attestation", "heartbeat", "idOnly", "unmodelled", "keepalive"}
  CleanCloses <- MCPoliteToSync
  MaxEvents = 3
  MaxFaults = 2
INVARIANTS TypeOK InOrder NoLoss DeliveredWhole
PROPERTIES ImplementsFeed EventuallyDelivered
