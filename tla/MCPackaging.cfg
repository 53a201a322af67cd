SPECIFICATION Spec
CONSTANTS
    Base = 2
    BLOCK_MAX_BYTES = 14
    NodeBytes = 2
    LinkBytes = 2
    HtmlBytes = 3
    PlaylistBytes = 3
    EntryBytes = 1
    ScriptLengths = {1, 13, 14, 15, 28, 84, 85}
    SegmentLengths = {0, 1, 14}
    MaxSegments = 6
INVARIANTS
    ScriptReadsBack
    PlaylistResolves
    NamesInPlayOrder
    SizesExact
    PlayerComplete
CHECK_DEADLOCK FALSE
