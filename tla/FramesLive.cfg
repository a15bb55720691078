SPECIFICATION FairSpec
CONSTANTS
  page = page
  m1 = m1
  m2 = m2
  none = none
  failed = failed
  Page = page
  Players = {m1}
  Phantoms = {m2}
  None = none
  Failed = failed
  MaxMoves = 2
INVARIANTS GateShut RateRestored
PROPERTIES VideoDriven
CHECK_DEADLOCK FALSE
