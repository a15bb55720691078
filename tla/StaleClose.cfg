SPECIFICATION Spec
CONSTANTS
  NoId = NoId
  NoConn = NoConn
  Absent = Absent
  None = None
  Conns = {c1, c2}
  Ids = {i1}
  TombstoneTicks = 1
  KickBlockTicks = 1
  IdleTicks = 1
  JoinTicks = 1
  PromptClose = FALSE
SYMMETRY Symmetry
INVARIANTS TombstoneMeansGone
