\* The clock may go back; an underflow wraps, or panics.
CONSTANTS
    BusCapacity = 2
    BlockMax = 3
    SegmentMax = 2
    Clocks = {0, 1, 3}
    Modulus = 16
    MaxPackets = 5
    MaxBlocks = 3
SPECIFICATION Spec
INVARIANTS
    TypeOK
    BlocksFit
    DurationsBelowTarget
    PacketsConserved
    StartsWithPat
    SubtractionsSafe
    TimelineNotAhead
PROPERTIES
    ImplementsMediaSource
\* The thread ends, and the bounds stop it.
CHECK_DEADLOCK FALSE
