SPECIFICATION FairSpec
CONSTANTS
  v1 = v1
  v2 = v2
  v3 = v3
  home = home
  none = none
  Videos = {v1, v2, v3}
  Listed = {v1, v2}
  First = v1
  Home = home
  None = none
  Modes = {"default", "single", "freeform"}
  MaxMoves = 3
INVARIANTS GateHasKey
  
CHECK_DEADLOCK FALSE
