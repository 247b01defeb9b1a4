SPECIFICATION Spec
CONSTANTS
  None = None
  Flavours = {"sync", "async"}
  ResumeIds = {0}
  Budgets = {0}
  InitialBackoff = 1
  MaxBackoff = 30
  EventKinds = {"attestation"}
  CleanCloses <- MCAnywhere
  MaxEvents = 1
  MaxFaults = 2
INVARIANT ReconnectBudget
