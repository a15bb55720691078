SPECIFICATION Spec
CONSTANTS
  a = a
  b = b
  i1 = i1
  i2 = i2
  r1 = r1
  r2 = r2
  none = none
  Rooms = {a}
  Malformed = {}
  Ids = {i1}
  Runtimes = {r1, r2}
  None = none
  BackoffSteps = 1
  MaxCalls = 2
SYMMETRY Perms
INVARIANTS OneLink OneJoinPerSocket ColoredMeansJoined PopupCurrent
CHECK_DEADLOCK FALSE
