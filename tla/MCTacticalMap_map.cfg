SPECIFICATION FairSpec
CONSTANTS
  Rooms = {r1, r2}
  None = None
  Mine = {m1}
  Theirs = {m2}
  MaxMoves = 1
  MaxLosses = 1
  MaxMaps = 2
  MaxClicks = 3
  Cap = 1
INVARIANT TypeOK
PROPERTIES
  MarkersConverge
  
