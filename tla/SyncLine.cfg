SPECIFICATION FairSpec
CONSTANTS
  None = None
  Clients = {c1, c2}
  Videos = {v1}
  Modes = {"default"}
  FreeformCap = 1
  MaxVersion = 2
  MaxCalls = 1
  MaxCommits = 1
  MaxFrames = 1
INVARIANTS CaughtUp
PROPERTIES KeepsTimeline VersionsArrive
