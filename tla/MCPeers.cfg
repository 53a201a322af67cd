\* Every pair of lists of at most two addresses.
CONSTANTS
    a = a
    b = b
    c = c
    BadHash = BadHash
    Peers <- MCPeers
    Lists <- MCLists
    Announced <- MCAnnounced
SPECIFICATION Spec
INVARIANTS
    TypeOK
    AllPeersBootstrap
    LastEntryDecides
    PlayersDialSecurely
\* A node without peers stops.
CHECK_DEADLOCK FALSE
