SPECIFICATION Spec
CONSTANTS
  Request = {1, 2, 3, 4}
  MaxConcurrent = 1
  Priority <- TwoClasses
  WithSignal = {2}
  WithDeadline = {3}
INVARIANT FreeSlotIsOffered
CHECK_DEADLOCK FALSE
