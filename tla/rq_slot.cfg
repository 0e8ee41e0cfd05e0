SPECIFICATION Spec
CONSTANTS
  Job = {1, 2}
  PrKeyOf <- OnePr
  DeadlineOf <- NoDeadline
  ScopeOf <- OneScope
  ScopeLimitOf <- Unbounded
  MaxConcurrent = 1
  SettleWindow = 0
  LeaseTtl = 1
  MaxAttempts = 2
  RetryBase = 1
  RetryMax = 1
  HasPublisher = TRUE
  MaxNow = 3
  MaxCrashes = 0
  MaxSaveFaults = 1
INVARIANTS SlotHasCall
