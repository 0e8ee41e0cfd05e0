SPECIFICATION Spec
CONSTANTS
  Job = {1, 2}
  PrKeyOf <- OnePr
  DeadlineOf <- FirstHasDeadline
  ScopeOf <- OneScope
  ScopeLimitOf <- Unbounded
  MaxConcurrent = 2
  SettleWindow = 0
  LeaseTtl = 1
  MaxAttempts = 2
  RetryBase = 1
  RetryMax = 1
  HasPublisher = TRUE
  MaxNow = 3
  MaxCrashes = 1
  MaxSaveFaults = 1
INVARIANTS TypeOK OneWorkerPerPr RunsMatchLeases Reclaimable OneCallPerJob CalledResultIsDurable QueueInv
PROPERTIES ResultNeverRerun TerminalIsFinal OnlyNewestCompletes ImplementsLedger
