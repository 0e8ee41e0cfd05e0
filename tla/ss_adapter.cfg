SPECIFICATION Spec
CONSTANTS
  MaxSaves = 4
  MaxFaults = 2
  MaxCrashes = 1
INVARIANTS HealthyMeansDurable BeliefMatchesBackend
PROPERTIES NeverGoesBack FlushProves
