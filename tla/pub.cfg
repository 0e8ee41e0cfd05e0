SPECIFICATION FairSpec
CONSTANTS
  Job = {1, 2}
  HeadOf <- TwoHeads
  FirstHead = 1
  HasDeadline = {2}
  MaxMoves = 1
  MaxFaults = 1
  MaxCrashes = 1
INVARIANTS PubTypeOK EvidenceChain UsageOnce WriteWasFresh
PROPERTIES PublishedIsFinal  
CHECK_DEADLOCK FALSE
