SPECIFICATION FairSpec
CONSTANTS
  a = a
  b = b
  i1 = i1
  i2 = i2
  r1 = r1
  r2 = r2
  none = none
  Rooms = {a, b}
  Malformed = {b}
  Ids = {i1}
  Runtimes = {r1}
  None = none
  BackoffSteps = 2
  MaxCalls = 2
PROPERTIES DropResolves JoinGoesOut
CHECK_DEADLOCK FALSE
