\* A router listed again as an additional peer is no router any more.
CONSTANTS
    a = a
    b = b
    c = c
    BadHash = BadHash
    Peers <- MCPeers
    Lists <- MCLists
    Announced <- MCAnnounced
SPECIFICATION Spec
INVARIANTS
    RoutersListened
CHECK_DEADLOCK FALSE
