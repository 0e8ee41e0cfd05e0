SPECIFICATION Spec
CONSTANTS
  Job = {1, 2}
  PrKeyOf <- OnePr
  DeadlineOf <- SecondHasDeadline
  ScopeOf <- OneScope
  ScopeLimitOf <- Unbounded
  MaxConcurrent = 1
  SettleWindow = 1
  LeaseTtl = 2
  MaxAttempts = 2
  RetryBase = 1
  RetryMax = 1
  HasPublisher = TRUE
  MaxNow = 4
  MaxCrashes = 0
  MaxSaveFaults = 0
PROPERTIES SupersededNeverRedispatched
