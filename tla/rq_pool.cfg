SPECIFICATION FairSpec
CONSTANTS
  Job = {1, 2, 3}
  PrKeyOf <- TwoPrs
  DeadlineOf <- NoDeadline
  ScopeOf <- SharedPool
  ScopeLimitOf <- OneInPool
  MaxConcurrent = 2
  SettleWindow = 1
  LeaseTtl = 2
  MaxAttempts = 1
  RetryBase = 0
  RetryMax = 0
  HasPublisher = TRUE
  MaxNow = 3
  MaxCrashes = 0
  MaxSaveFaults = 0
INVARIANTS SlotsBounded
PROPERTIES NewestIsDispatched
