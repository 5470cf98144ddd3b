SPECIFICATION FairSpec
CONSTANTS
  Channels = {c1, c2}
  None = None
  MaxRequests = 2
  MaxLosses = 1
  Rate = 48000
  Full = 32768
INVARIANTS
  TypeOK
  HoldToTalk
  CallAgrees
  
PROPERTY GateFollows
CHECK_DEADLOCK FALSE
