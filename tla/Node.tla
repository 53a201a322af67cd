-------------------------------- MODULE Node --------------------------------
(***************************************************************************)
(* The network node of network/src/p2p: P2PVideoNode::poll with what it    *)
(* calls, the block store, and the swarm events that change it.  One poll  *)
(* sends at most one wanted block, drains the media update bus, and then   *)
(* lets the swarm handle events until it blocks.                           *)
(*                                                                         *)
(* A block is named by its cid, a tuple that holds what its contents are   *)
(* made from, so equal contents have equal cids; a usage is <<rank, n>>.   *)
(***************************************************************************)
EXTENDS Naturals, Sequences, FiniteSets

CONSTANTS
    Peers,              \* bitswap peers
    PinningGateways,    \* gateways every block is warmed in
    PublicGateways,     \* gateways every block but video is warmed in
    PlayerGateways,     \* the public gateways with https on port 443
    PinningServices,
    RouterAddrs,        \* wss addresses a configured router may have
    OtherAddrs,         \* wss addresses another configured peer may have
    ConfiguredAddrs,    \* those of them the configuration already holds
    ScriptParts,        \* raw blocks main.js is cut into
    MaxFiles,           \* segments a directory of one block can list
    MaxProvidedKeys,    \* limit of the DHT's provider store, 128 * 1024
    MaxRemoteKeys,      \* bound: keys other peers provide through our DHT
    MaxQueue            \* bound: requests waiting at a time

ASSUME NodeAssumption ==
    /\ PlayerGateways \subseteq PublicGateways
    /\ ConfiguredAddrs \subseteq RouterAddrs \cup OtherAddrs
    /\ ScriptParts \in Nat \ {0}
    /\ MaxFiles \in Nat
    /\ MaxProvidedKeys \in Nat /\ MaxRemoteKeys \in Nat /\ MaxQueue \in Nat

VARIABLES
    bus,            \* the media update bus
    pc,             \* "idle", "drain", "network", or "panicked"
    data,           \* block_store.data: a function from cids to usages
    send_queue,     \* block_store.send_queue: a set of requests
    known,          \* the wss addresses in configured_peers
    remote_keys,    \* keys of other peers in the provider store
    connected,      \* the peers bitswap is connected to
    warmups,        \* <<gateway, cid>> offered to the warmer
    pins,           \* <<service, cid>> offered to the pinner
    storing         \* the files of a container that are still to be stored

nodeVars == <<bus, pc, data, send_queue, known, remote_keys, connected, warmups, pins, storing>>

-----------------------------------------------------------------------------
Segment(b) == <<"segment", b>>
Playlist(mc) == <<"playlist", mc>>
VideoDirectory(mc) == <<"video_directory", mc>>
Html(mc, gateway, addrs) == <<"html", mc, gateway, addrs>>
PlayerDirectory(mc, gateway, addrs) == <<"player_directory", mc, gateway, addrs>>
Script == <<"script">>
Part(i) == <<"part", i>>

DistBlocks == {Script} \cup {Part(i) : i \in 1 .. ScriptParts}

SegmentsOf(mc) == {Segment(mc[i]) : i \in 1 .. Len(mc)}

\* The blocks a block names: directory links, the parts of a file, and the
\* cids written into the page.
Links(cid) ==
    CASE cid[1] = "player_directory" ->
            {Html(cid[2], cid[3], cid[4]), VideoDirectory(cid[2]), Script}
      [] cid[1] = "html" -> {VideoDirectory(cid[2]), Script}
      [] cid[1] = "video_directory" -> {Playlist(cid[2])} \cup SegmentsOf(cid[2])
      [] cid[1] = "script" -> {Part(i) : i \in 1 .. ScriptParts}
      [] OTHER -> {}

\* The usage every block but a segment is stored with.
UsageOf(cid) ==
    CASE cid[1] = "player_directory" -> <<0, Len(cid[2])>>
      [] cid[1] = "html" -> <<2, Len(cid[2])>>
      [] cid[1] = "video_directory" -> <<3, Len(cid[2])>>
      [] cid[1] = "playlist" -> <<4, Len(cid[2])>>
      [] OTHER -> <<1, 0>>
VideoSegment(n) == <<5, n>>

\* The derived order of BlockUsage: by variant, then by number.
MoreUrgent(u, v) == u[1] < v[1] \/ (u[1] = v[1] /\ u[2] < v[2])

\* Mutant: the pin is asked of the gateways, not of the pinning services.
PinsOfGateways(cid) == IF cid[1] = "player_directory" THEN PinningGateways \X {cid} ELSE {}

\* warmup_block and pin_block, for a block of the given usage.
WarmupsOf(cid) ==
    (IF cid[1] = "segment" THEN PinningGateways ELSE PinningGateways \cup PublicGateways)
        \X {cid}
PinsOf(cid) == IF cid[1] = "player_directory" THEN PinningServices \X {cid} ELSE {}

\* Mutant: the player's blocks come before the container's.
FilesPlayerFirst(mc, gateway) ==
    <<Html(mc, gateway, known), PlayerDirectory(mc, gateway, known),
      Playlist(mc), VideoDirectory(mc)>>

\* The blocks of HLSContainer and then of HLSPlayer, as into_blocks lists them.
Files(mc, gateway) ==
    <<Playlist(mc), VideoDirectory(mc),
      Html(mc, gateway, known), PlayerDirectory(mc, gateway, known)>>

\* start_providing fails when a new key finds the store full, and is unwrapped.
KeysExhausted(cid) == Cardinality(DOMAIN data \cup {cid}) + remote_keys > MaxProvidedKeys

\* store_block
StoreBlock(cid, usage) ==
    IF KeysExhausted(cid)
    THEN /\ pc' = "panicked"
         /\ UNCHANGED <<data, warmups, pins>>
    ELSE /\ data' = [c \in DOMAIN data \cup {cid} |-> IF c = cid THEN usage ELSE data[c]]
         /\ warmups' = warmups \cup WarmupsOf(cid)
         /\ pins' = pins \cup PinsOf(cid)
         /\ UNCHANGED pc

\* P2PVideoNode::new, which stores the player's script.
NodeInit ==
    /\ bus = <<>>
    /\ pc = "idle"
    /\ data = [c \in DistBlocks |-> UsageOf(c)]
    /\ warmups = UNION {WarmupsOf(c) : c \in DistBlocks}
    /\ pins = {}
    /\ send_queue = {}
    /\ known = ConfiguredAddrs
    /\ remote_keys = 0
    /\ connected = Peers
    /\ storing = <<>>
-----------------------------------------------------------------------------
next_sendLast(r) == \A q \in send_queue : ~ MoreUrgent(r.usage, q.usage)    \* mutant
\* The least request in the queue's order, which compares usages only.
next_send(r) == \A q \in send_queue : ~ MoreUrgent(q.usage, r.usage)

\* poll, first part: nothing to send ...
NothingToSend ==
    /\ pc = "idle"
    /\ send_queue = {}
    /\ pc' = "drain"
    /\ UNCHANGED <<bus, data, send_queue, known, remote_keys, connected, warmups, pins, storing>>

\* ... or one block leaves the queue for its peer.  Bitswap unwraps the
\* peer's connection (notes.md:13), which the node does not look at.
SendWanted ==
    /\ pc = "idle"
    /\ \E r \in send_queue :
        /\ next_send(r)
        /\ send_queue' = send_queue \ {r}
        /\ pc' = IF r.cid \in DOMAIN data /\ r.peer \notin connected
                 THEN "panicked" ELSE "drain"
    /\ UNCHANGED <<bus, data, known, remote_keys, connected, warmups, pins, storing>>

\* poll, second part: take the next update from the bus.
ReceiveBlock ==
    /\ pc = "drain" /\ storing = <<>>
    /\ bus # <<>> /\ Head(bus).type = "Block"
    /\ StoreBlock(Segment(Head(bus).block), VideoSegment(Head(bus).sequence))
    /\ bus' = Tail(bus)
    /\ UNCHANGED <<send_queue, known, remote_keys, connected, storing>>

CanConfigurePlayer == known \cap RouterAddrs # {} /\ PlayerGateways # {}

\* publish_media_container: with a player configuration, package the files ...
PublishContainer ==
    /\ pc = "drain" /\ storing = <<>>
    /\ bus # <<>> /\ Head(bus).type = "Container"
    /\ CanConfigurePlayer
    /\ Len(Head(bus).blocks) <= MaxFiles
    /\ \E gateway \in PlayerGateways : storing' = Files(Head(bus).blocks, gateway)
    /\ bus' = Tail(bus)
    /\ UNCHANGED <<pc, data, send_queue, known, remote_keys, connected, warmups, pins>>

\* ... and store them one by one.
StoreFile ==
    /\ pc = "drain"
    /\ storing # <<>>
    /\ StoreBlock(Head(storing), UsageOf(Head(storing)))
    /\ storing' = Tail(storing)
    /\ UNCHANGED <<bus, send_queue, known, remote_keys, connected>>

\* The directory does not fit a block: DirectoryBlock::new asserts that it does.
ContainerTooLong ==
    /\ pc = "drain" /\ storing = <<>>
    /\ bus # <<>> /\ Head(bus).type = "Container"
    /\ CanConfigurePlayer
    /\ Len(Head(bus).blocks) > MaxFiles
    /\ bus' = Tail(bus)
    /\ pc' = "panicked"
    /\ UNCHANGED <<data, send_queue, known, remote_keys, connected, warmups, pins, storing>>

\* print_qr fails on the terminal, and is unwrapped.
PrintFails ==
    /\ pc = "drain" /\ storing = <<>>
    /\ bus # <<>> /\ Head(bus).type = "Container"
    /\ CanConfigurePlayer
    /\ Len(Head(bus).blocks) <= MaxFiles
    /\ bus' = Tail(bus)
    /\ pc' = "panicked"
    /\ UNCHANGED <<data, send_queue, known, remote_keys, connected, warmups, pins, storing>>

\* configure_player fails: the container is dropped.
DropContainer ==
    /\ pc = "drain" /\ storing = <<>>
    /\ bus # <<>> /\ Head(bus).type = "Container"
    /\ ~ CanConfigurePlayer
    /\ bus' = Tail(bus)
    /\ UNCHANGED <<pc, data, send_queue, known, remote_keys, connected, warmups, pins, storing>>

BusDrained ==
    /\ pc = "drain" /\ storing = <<>>
    /\ bus = <<>>
    /\ pc' = "network"
    /\ UNCHANGED <<bus, data, send_queue, known, remote_keys, connected, warmups, pins, storing>>
-----------------------------------------------------------------------------
\* Mutant: a block the store does not have is queued too.
WantUnstored(peer, cid) ==
    /\ pc = "network"
    /\ peer \in connected
    /\ Cardinality(send_queue) < MaxQueue
    /\ send_queue' =
        LET usage == IF cid \in DOMAIN data THEN data[cid] ELSE VideoSegment(0) IN
        IF \A r \in send_queue : r.usage # usage
        THEN send_queue \cup {[usage |-> usage, cid |-> cid, peer |-> peer]}
        ELSE send_queue
    /\ UNCHANGED <<bus, pc, data, known, remote_keys, connected, warmups, pins, storing>>

\* BitswapEvent::ReceivedWant.  BTreeSet::insert keeps an equal element, and
\* requests of one usage are equal.
Want(peer, cid) ==
    /\ pc = "network"
    /\ peer \in connected
    /\ Cardinality(send_queue) < MaxQueue
    /\ send_queue' =
        IF cid \in DOMAIN data /\ \A r \in send_queue : r.usage # data[cid]
        THEN send_queue \cup {[usage |-> data[cid], cid |-> cid, peer |-> peer]}
        ELSE send_queue
    /\ UNCHANGED <<bus, pc, data, known, remote_keys, connected, warmups, pins, storing>>

\* IdentifyEvent::Received: a configured peer listens at one more address.
Identify(addr) ==
    /\ pc = "network"
    /\ known' = known \cup {addr}
    /\ UNCHANGED <<bus, pc, data, send_queue, remote_keys, connected, warmups, pins, storing>>

\* Another peer announces a key to our DHT server.
AddProvider ==
    /\ pc = "network"
    /\ remote_keys < MaxRemoteKeys
    /\ Cardinality(DOMAIN data) + remote_keys < MaxProvidedKeys
    /\ remote_keys' = remote_keys + 1
    /\ UNCHANGED <<bus, pc, data, send_queue, known, connected, warmups, pins, storing>>

Connect(peer) ==
    /\ pc = "network"
    /\ connected' = connected \cup {peer}
    /\ UNCHANGED <<bus, pc, data, send_queue, known, remote_keys, warmups, pins, storing>>

Disconnect(peer) ==
    /\ pc = "network"
    /\ connected' = connected \ {peer}
    /\ UNCHANGED <<bus, pc, data, send_queue, known, remote_keys, warmups, pins, storing>>

\* The swarm blocks: poll returns, to be woken again.
PollPending ==
    /\ pc = "network"
    /\ pc' = "idle"
    /\ UNCHANGED <<bus, data, send_queue, known, remote_keys, connected, warmups, pins, storing>>

Poll ==
    \/ NothingToSend \/ SendWanted
    \/ ReceiveBlock
    \/ PublishContainer \/ StoreFile \/ ContainerTooLong \/ PrintFails \/ DropContainer
    \/ BusDrained
    \/ PollPending

\* What the swarm handles between two polls; peers may want the given cids.
SwarmEvent(wantable) ==
    \/ \E peer \in Peers, cid \in wantable : Want(peer, cid)
    \/ \E addr \in RouterAddrs \cup OtherAddrs : Identify(addr)
    \/ AddProvider
    \/ \E peer \in Peers : Connect(peer)
    \/ \E peer \in Peers : Disconnect(peer)
=============================================================================
