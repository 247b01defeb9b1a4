SPECIFICATION Spec
CONSTANTS
  None = None
  Flavours = {"sync", "async"}
  ResumeIds = {0}
  Budgets = {None}
  InitialBackoff = 1
  MaxBackoff = 30
  EventKinds = {"attestation"}
  CleanCloses <- MCAnywhere
  MaxEvents = 2
  MaxFaults = 1
INVARIANT NoLoss
