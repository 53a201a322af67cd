\* Two peers and a script of two parts.
CONSTANTS
    Peers = {p1, p2}
    PinningGateways = {g1}
    PublicGateways = {g2}
    PlayerGateways = {g2}
    PinningServices = {s1}
    RouterAddrs = {a1}
    OtherAddrs = {}
    ConfiguredAddrs = {}
    ScriptParts = 2
    MaxFiles = 1
    MaxProvidedKeys = 20
    MaxRemoteKeys = 0
    MaxQueue = 2
    Blocks = {b1}
    BusCapacity = 1
    MaxBlocks = 1
SPECIFICATION WantsSpec
INVARIANTS
    WantsQueued
\* The process may have panicked.
CHECK_DEADLOCK FALSE
