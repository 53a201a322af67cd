\* Accepting a connection fails with segments in the backlog.
CONSTANTS
    Images = {approved, other}
    Approved = approved
    Backlog = 2
    SocketBuffer = 1
    MaxUnits = 2
    MaxSegments = 2
SPECIFICATION Spec
INVARIANTS
    SuccessMeansAllRead
\* The model ends with the thread.
CHECK_DEADLOCK FALSE
