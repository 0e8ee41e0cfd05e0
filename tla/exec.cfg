SPECIFICATION Spec
CONSTANT MaxFaults = 2
INVARIANTS CollectedAgrees RecoveryNeverGuesses TerminatedIsGone
PROPERTY SettledRecordIsFinal
CHECK_DEADLOCK FALSE
