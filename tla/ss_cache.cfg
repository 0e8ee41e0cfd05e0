SPECIFICATION Spec
CONSTANTS
  MaxSaves = 2
  MaxFaults = 1
  MaxCrashes = 0
INVARIANTS CacheIsDurableTruth
