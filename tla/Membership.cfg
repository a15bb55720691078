SPECIFICATION FairSpec
CONSTANTS
  NoId = NoId
  NoConn = NoConn
  Absent = Absent
  None = None
  Conns = {c1, c2}
  Ids = {i1, i2}
  TombstoneTicks = 1
  KickBlockTicks = 2
  IdleTicks = 1
  JoinTicks = 1
  PromptClose = TRUE
INVARIANTS TypeOK SocketBacksRecord OpenMeansMember KickedStaysOut
PROPERTIES GraceHonoured KeepsSeats JoinOrClose GhostsLeave SilentPeersLeave RoomEnds
