SPECIFICATION FairSpec
CONSTANTS
  Request = {1, 2, 3, 4, 5}
  MaxConcurrent = 2
  Priority <- TwoClasses
  WithSignal = {2, 3}
  WithDeadline = {3, 4}
INVARIANT GovTypeOK
PROPERTIES OutcomeIsFinal PriorityRespected WaitersAnswered
CHECK_DEADLOCK FALSE
