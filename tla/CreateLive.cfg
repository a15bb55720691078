SPECIFICATION FairSpec
CONSTANTS
    v1 = v1
    v2 = v2
    Pages = {v1, v2}
    Titled = {v1}
    Films = {v1}
    Empty = Empty
    Bad = Bad
    None = None
    Typed = Typed
    MaxMoves = 8
INVARIANTS PreviewIsTheUrl
PROPERTIES PreviewComes
CHECK_DEADLOCK FALSE
