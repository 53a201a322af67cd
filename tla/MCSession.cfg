\* Four segments of up to two units, and a backlog that fills.
CONSTANTS
    Images = {approved, other}
    Approved = approved
    Backlog = 2
    SocketBuffer = 1
    MaxUnits = 2
    MaxSegments = 4
SPECIFICATION FairSpec
INVARIANTS
    TypeOK
    NoMutualWait
    SuccessIsWhole
PROPERTIES
    SentinelBreaksLoop
\* The model ends with the thread.
CHECK_DEADLOCK FALSE
