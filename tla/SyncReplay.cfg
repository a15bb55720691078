SPECIFICATION Spec
CONSTANTS
  None = None
  Clients = {c1}
  Videos = {v1}
  Modes = {"default"}
  FreeformCap = 1
  MaxVersion = 2
  MaxCalls = 1
  MaxCommits = 2
  MaxFrames = 1
INVARIANTS RejoinsCatchUp
