SPECIFICATION Spec
CONSTANTS
  Run = {r1}
  Reservation = {x, y, z}
  Caller = {c1, c2, c3}
  MaxRequests = 2
  MaxTokens = 5
  Estimate = 2
  Usage = {1, 3}
  MaxCancels = 2
  MaxRestarts = 2
INVARIANTS OwnedOnce WithinCaps
PROPERTIES SettledIsFinal CancelledStaysRefused
SYMMETRY Symmetric
CHECK_DEADLOCK FALSE
