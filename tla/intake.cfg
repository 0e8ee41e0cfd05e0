SPECIFICATION FairSpec
CONSTANTS
  Generation = {g1}
  Webhook = {w1, w2}
  Poll = {p1}
  Token = {t1, t2, t3, t4, t5, t6}
  NoToken = NoToken
  Foreign = Foreign
  MaxFaults = 3
  MaxCrashes = 1
INVARIANTS AckedIsQueued ClaimHasOwner
PROPERTIES ForeignClaimStands PolledHeadQueued
CHECK_DEADLOCK FALSE
