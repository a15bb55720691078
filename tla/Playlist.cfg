SPECIFICATION Spec
CONSTANTS
  NoLabel = NoLabel
  Null = Null
  Batches <- Sample
  InitialLists <- Lists

  Videos = {v1, v2, v3}
  Ids = {e1, e2, e3}
  Labels = {}
  Requests = {r1}
  PerRoomCap = 3
  FreeformCap = 2
  MaxNow = 1
SYMMETRY Symmetry
INVARIANTS EntriesUnique CursorInPlaylist PositionsContiguous
PROPERTIES CuratedSticky PruneTakesOldest KeepsRow SingleLocks
