SPECIFICATION SessionFairSpec
CONSTANTS
  None = None
  Flavours = {"sync", "async"}
  ResumeIds = {0, 1, 2, 3}
  Budgets <- MCRetryBudgets
  InitialBackoff = 1
  MaxBackoff = 6
  EventKinds = {"attestation", "unmodelled"}
  CleanCloses <- MCNever
  MaxEvents = 3
  MaxFaults = 5
INVARIANTS ReconnectBudget BackoffSchedule UnmodelledIsNotSkipped
PROPERTIES SessionImplementsFeed SessionDelivers
