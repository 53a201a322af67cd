\* The backlog is full when podman exits.
CONSTANTS
    Images = {approved, other}
    Approved = approved
    Backlog = 2
    SocketBuffer = 1
    MaxUnits = 2
    MaxSegments = 2
SPECIFICATION FairSpec
PROPERTIES
    ChildExitBreaksLoop
\* The model ends with the thread.
CHECK_DEADLOCK FALSE
