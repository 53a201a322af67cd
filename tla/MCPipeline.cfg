\* Two block contents, and a provider store that can fill up.
CONSTANTS
    Peers = {p1}
    PinningGateways = {g1}
    PublicGateways = {g2, g3}
    PlayerGateways = {g2}
    PinningServices = {s1}
    RouterAddrs = {a1}
    OtherAddrs = {}
    ConfiguredAddrs = {}
    ScriptParts = 1
    MaxFiles = 2
    MaxProvidedKeys = 14
    MaxRemoteKeys = 1
    MaxQueue = 2
    Blocks = {b1, b2}
    BusCapacity = 2
    MaxBlocks = 3
SPECIFICATION FairSpec
INVARIANTS
    TypeOK
    DagClosed
    PinnedDagWarmed
    PublishedArePrefixes
    QueueSound
PROPERTIES
    BlocksNeverForgotten
    FinalPublished
    WaitsOnlyForUrgent
\* The process may have panicked.
CHECK_DEADLOCK FALSE
