SPECIFICATION Spec
CONSTANTS
  None = None
  Clients = {c1}
  Videos = {v1, v2}
  Modes = {"default", "single", "freeform"}
  FreeformCap = 1
  MaxVersion = 2
  MaxCalls = 1
  MaxCommits = 3
  MaxFrames = 1
SYMMETRY Symmetry
INVARIANTS TypeOK RoomAgrees CacheFresh
