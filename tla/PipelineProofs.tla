--------------------------- MODULE PipelineProofs ---------------------------
(***************************************************************************)
(* Theorems about Pipeline, for any sets of blocks, peers, gateways and    *)
(* addresses, any bus and any limits.                                      *)
(*                                                                         *)
(* DagClosed is not inductive: when the node publishes a container it must *)
(* have every block the container lists.  What makes it true is an         *)
(* invariant of the bus, BusCarries: a block that is listed by a container *)
(* in the bus, or that was ever sent, is stored or waits in the bus, ahead *)
(* of that container.  While its files are stored one by one, FilesInOrder *)
(* says that each links only to what is stored or comes before it.         *)
(*                                                                         *)
(* HoldInv is about the store alone, and the last two parts about what one *)
(* step does for the liveness properties.                                  *)
(***************************************************************************)
EXTENDS Pipeline, TLAPS

Update == [type : {"Block"}, block : Blocks, sequence : 0 .. MaxBlocks]
          \cup [type : {"Container"}, blocks : Containers]

StreamTypeOK ==
    /\ bus \in Seq(Update)
    /\ sent \in Seq(Blocks) /\ Len(sent) <= MaxBlocks

IsContainer(i) == bus[i].type = "Container"

\* b is stored in d, or is among the first n updates of s.
Carried(s, d, b, n) ==
    \/ Segment(b) \in DOMAIN d
    \/ \E j \in 1 .. n : s[j].type = "Block" /\ s[j].block = b

BusCarries ==
    pc # "panicked" =>
        /\ \A i \in 1 .. Len(bus) : IsContainer(i) =>
              \A k \in 1 .. Len(bus[i].blocks) : Carried(bus, data, bus[i].blocks[k], i - 1)
        /\ \A k \in 1 .. Len(sent) : Carried(bus, data, sent[k], Len(bus))

BusPrefixes == \A i \in 1 .. Len(bus) : IsContainer(i) => IsPrefix(bus[i].blocks, sent)

DistStored == DistBlocks \subseteq DOMAIN data

\* What the node is storing of a container comes after what it links to.
FilesInOrder ==
    pc # "panicked" =>
        \A i \in 1 .. Len(storing) :
            /\ Links(storing[i]) \subseteq DOMAIN data \cup {storing[j] : j \in 1 .. i - 1}
            /\ storing[i][1] = "video_directory" => IsPrefix(storing[i][2], sent)

TypeInv == TypeOK /\ StreamTypeOK
FlowInv ==
    /\ DagClosed /\ DistStored /\ PublishedArePrefixes
    /\ BusCarries /\ BusPrefixes /\ FilesInOrder
IInv == TypeInv /\ FlowInv

-----------------------------------------------------------------------------
\* What the links and usages of each kind of block are.
LEMMA LinksOf ==
    /\ \A b : Links(Segment(b)) = {}
    /\ \A mc : Links(Playlist(mc)) = {}
    /\ \A mc : Links(VideoDirectory(mc)) = {Playlist(mc)} \cup SegmentsOf(mc)
    /\ \A mc, g, a : Links(Html(mc, g, a)) = {VideoDirectory(mc), Script}
    /\ \A mc, g, a : Links(PlayerDirectory(mc, g, a))
                        = {Html(mc, g, a), VideoDirectory(mc), Script}
    /\ Links(Script) = {Part(i) : i \in 1 .. ScriptParts}
    /\ \A i : Links(Part(i)) = {}
BY DEF Links, Segment, Playlist, VideoDirectory, Html, PlayerDirectory, Script, Part

LEMMA UsagesOf ==
    /\ \A mc : UsageOf(Playlist(mc)) = <<4, Len(mc)>>
    /\ \A mc : UsageOf(VideoDirectory(mc)) = <<3, Len(mc)>>
    /\ \A mc, g, a : UsageOf(Html(mc, g, a)) = <<2, Len(mc)>>
    /\ \A mc, g, a : UsageOf(PlayerDirectory(mc, g, a)) = <<0, Len(mc)>>
    /\ UsageOf(Script) = <<1, 0>>
    /\ \A i : UsageOf(Part(i)) = <<1, 0>>
BY DEF UsageOf, Playlist, VideoDirectory, Html, PlayerDirectory, Script, Part

\* Which blocks are video directories.
LEMMA DirectoryKind ==
    /\ \A b : Segment(b)[1] # "video_directory"
    /\ \A mc : Playlist(mc)[1] # "video_directory"
    /\ \A mc : VideoDirectory(mc)[2] = mc
    /\ \A mc, g, a : Html(mc, g, a)[1] # "video_directory"
    /\ \A mc, g, a : PlayerDirectory(mc, g, a)[1] # "video_directory"
    /\ Script[1] # "video_directory"
    /\ \A i : Part(i)[1] # "video_directory"
BY DEF Segment, Playlist, VideoDirectory, Html, PlayerDirectory, Script, Part

\* Storing a block either ends the process or adds it to what is stored.
LEMMA Stored ==
    ASSUME NEW cid, NEW usage, StoreBlock(cid, usage)
    PROVE  \/ pc' = "panicked" /\ data' = data /\ warmups' = warmups /\ pins' = pins
           \/ /\ pc' = pc
              /\ DOMAIN data' = DOMAIN data \cup {cid}
              /\ data'[cid] = usage
              /\ \A c \in DOMAIN data \ {cid} : data'[c] = data[c]
              /\ warmups' = warmups \cup WarmupsOf(cid)
              /\ pins' = pins \cup PinsOf(cid)
BY DEF StoreBlock

\* The bus grows at one end ...
LEMMA BusAppend ==
    ASSUME NEW s, NEW T, s \in Seq(T), NEW u
    PROVE  /\ Len(Append(s, u)) = Len(s) + 1
           /\ \A i \in 1 .. Len(s) : Append(s, u)[i] = s[i]
           /\ Append(s, u)[Len(s) + 1] = u
OBVIOUS

\* ... and shrinks at the other.
LEMMA BusTail ==
    ASSUME NEW T, NEW s \in Seq(T), s # <<>>
    PROVE  /\ Head(s) = s[1] /\ s[1] \in T /\ Len(s) \in Nat /\ Len(s) > 0
           /\ Tail(s) \in Seq(T) /\ Len(Tail(s)) = Len(s) - 1
           /\ \A i \in 1 .. Len(Tail(s)) : Tail(s)[i] = s[i + 1]
OBVIOUS

\* A prefix of the stream stays one when the stream grows.
LEMMA PrefixAppend ==
    ASSUME NEW T, NEW s \in Seq(T), NEW p \in Seq(T), NEW b \in T, IsPrefix(p, s)
    PROVE  IsPrefix(p, Append(s, b))
BY DEF IsPrefix

LEMMA PrefixSelf == ASSUME NEW T, NEW s \in Seq(T) PROVE IsPrefix(s, s)
BY DEF IsPrefix

LEMMA ContainersAreSeqs == \A mc \in Containers : mc \in Seq(Blocks) /\ Len(mc) \in 0 .. MaxBlocks
BY PipelineAssumption DEF Containers

LEMMA SentIsContainer == ASSUME StreamTypeOK PROVE sent \in Containers
BY PipelineAssumption DEF StreamTypeOK, Containers
-----------------------------------------------------------------------------
(***************************************************************************)
(* Types.                                                                  *)
(***************************************************************************)
LEMMA StoredTypes ==
    ASSUME TypeOK, NEW cid \in Cid, NEW usage \in Usage, StoreBlock(cid, usage)
    PROVE  /\ pc' \in {pc, "panicked"}
           /\ DOMAIN data' \subseteq Cid /\ \A c \in DOMAIN data' : data'[c] \in Usage
           /\ warmups' \subseteq (PinningGateways \cup PublicGateways) \X Cid
           /\ pins' \subseteq PinningServices \X Cid
<1>1. /\ WarmupsOf(cid) \subseteq (PinningGateways \cup PublicGateways) \X Cid
      /\ PinsOf(cid) \subseteq PinningServices \X Cid
  BY DEF WarmupsOf, PinsOf
<1>2. CASE pc' = "panicked" /\ data' = data /\ warmups' = warmups /\ pins' = pins
  BY <1>2 DEF TypeOK
<1>3. CASE /\ pc' = pc
           /\ DOMAIN data' = DOMAIN data \cup {cid}
           /\ data'[cid] = usage
           /\ \A c \in DOMAIN data \ {cid} : data'[c] = data[c]
           /\ warmups' = warmups \cup WarmupsOf(cid)
           /\ pins' = pins \cup PinsOf(cid)
  <2>1. DOMAIN data' \subseteq Cid /\ \A c \in DOMAIN data' : data'[c] \in Usage
    BY <1>3 DEF TypeOK
  <2>2. /\ warmups' \subseteq (PinningGateways \cup PublicGateways) \X Cid
        /\ pins' \subseteq PinningServices \X Cid
    <3>1. /\ warmups \subseteq (PinningGateways \cup PublicGateways) \X Cid
          /\ pins \subseteq PinningServices \X Cid
      BY DEF TypeOK
    <3> HIDE DEF Cid
    <3> QED BY <1>1, <1>3, <3>1
  <2> QED BY <1>3, <2>1, <2>2
<1> QED BY <1>2, <1>3, Stored

LEMMA UsageTypes == \A c \in Cid : UsageOf(c) \in Usage
<1> SUFFICES ASSUME NEW c \in Cid PROVE UsageOf(c) \in Usage
  OBVIOUS
<1>1. <<1, 0>> \in Usage /\ \A r \in 0 .. 5, n \in 0 .. MaxBlocks : <<r, n>> \in Usage
  BY PipelineAssumption DEF Usage
<1>2. \A b : UsageOf(Segment(b)) = <<1, 0>>
  BY DEF UsageOf, Segment
<1>3. \A mc \in Containers : Len(mc) \in 0 .. MaxBlocks
  BY ContainersAreSeqs
<1> QED BY <1>1, <1>2, <1>3, UsagesOf DEF Cid, DistBlocks

LEMMA FilesTypes ==
    ASSUME TypeOK, NEW mc \in Containers, NEW gateway \in PlayerGateways
    PROVE  Files(mc, gateway) \in Seq(Cid) /\ Len(Files(mc, gateway)) = 4
<1>1. known \in SUBSET Addrs
  BY DEF TypeOK
<1>2. /\ Playlist(mc) \in Cid /\ VideoDirectory(mc) \in Cid
      /\ Html(mc, gateway, known) \in Cid /\ PlayerDirectory(mc, gateway, known) \in Cid
  BY <1>1 DEF Cid
<1> QED BY <1>2 DEF Files

LEMMA InitTypes == Init => TypeInv
<1> SUFFICES ASSUME Init PROVE TypeInv
  OBVIOUS
<1> USE PipelineAssumption, NodeAssumption DEF Init, Source!Init, NodeInit
<1>1. \A c \in DistBlocks : UsageOf(c) = <<1, 0>>
  BY UsagesOf DEF DistBlocks
<1>2. DistBlocks \subseteq Cid /\ <<1, 0>> \in Usage
  BY DEF Cid, Usage
<1>3. \A c \in Cid : WarmupsOf(c) \subseteq (PinningGateways \cup PublicGateways) \X Cid
  BY DEF WarmupsOf
<1>4. warmups \subseteq (PinningGateways \cup PublicGateways) \X Cid
  BY <1>2, <1>3
<1>5. TypeOK
  BY <1>1, <1>2, <1>4 DEF TypeOK, Addrs
<1>6. StreamTypeOK
  BY DEF StreamTypeOK
<1> QED BY <1>5, <1>6 DEF TypeInv

\* The ingest thread sends typed updates.
LEMMA IngestTypes == ASSUME TypeInv, Ingest PROVE TypeInv'
<1> USE PipelineAssumption
<1>1. TypeOK'
  BY DEF TypeInv, Ingest, TypeOK
<1>2. sent \in Containers
  BY SentIsContainer DEF TypeInv
<1>3. [type |-> "Container", blocks |-> sent] \in Update
  BY <1>2 DEF Update
<1>4. ASSUME NEW b \in Blocks, Source!SendBlock(b) PROVE StreamTypeOK'
  <2>1. [type |-> "Block", block |-> b, sequence |-> Len(sent)] \in Update
    BY <1>4 DEF Update, TypeInv, StreamTypeOK
  <2> QED BY <1>4, <2>1 DEF Source!SendBlock, Source!BlockUpdate, TypeInv, StreamTypeOK
<1>5. ASSUME Source!SendContainer \/ Source!Finish PROVE StreamTypeOK'
  BY <1>3, <1>5
     DEF Source!SendContainer, Source!Finish, Source!ContainerUpdate, TypeInv, StreamTypeOK
<1>6. ASSUME Source!NotDue \/ Source!Fail PROVE StreamTypeOK'
  BY <1>6 DEF Source!NotDue, Source!Fail, TypeInv, StreamTypeOK
<1> QED BY <1>1, <1>4, <1>5, <1>6 DEF Ingest, Source!Produce, TypeInv

\* So does the node store typed blocks.
LEMMA NodeTypes == ASSUME TypeInv, NodePoll PROVE TypeInv'
<1> USE PipelineAssumption
<1>1. bus # <<>> => /\ Head(bus) = bus[1] /\ bus[1] \in Update
                    /\ Tail(bus) \in Seq(Update)
  BY BusTail DEF TypeInv, StreamTypeOK
<1>2. CASE NothingToSend \/ SendWanted \/ BusDrained \/ PollPending
  BY <1>2 DEF NodePoll, NothingToSend, SendWanted, BusDrained, PollPending,
              TypeInv, TypeOK, StreamTypeOK
<1>3. CASE DropContainer \/ ContainerTooLong \/ PrintFails
  <2>1. TypeOK'
    BY <1>3 DEF DropContainer, ContainerTooLong, PrintFails, NodePoll, TypeInv, TypeOK
  <2>2. StreamTypeOK'
    BY <1>1, <1>3 DEF DropContainer, ContainerTooLong, PrintFails, NodePoll, TypeInv, StreamTypeOK
  <2> QED BY <2>1, <2>2 DEF TypeInv
<1>4. CASE ReceiveBlock
  <2> DEFINE u == Head(bus)
  <2>1. u.block \in Blocks /\ u.sequence \in 0 .. MaxBlocks
    BY <1>1, <1>4 DEF ReceiveBlock, Update
  <2>2. Segment(u.block) \in Cid /\ VideoSegment(u.sequence) \in Usage
    BY <2>1 DEF Cid, VideoSegment, Usage
  <2>3. StoreBlock(Segment(u.block), VideoSegment(u.sequence))
    BY <1>4 DEF ReceiveBlock
  <2>4. TypeOK'
    BY <1>4, <2>2, <2>3, StoredTypes DEF ReceiveBlock, TypeInv, TypeOK
  <2>5. StreamTypeOK'
    BY <1>1, <1>4 DEF ReceiveBlock, NodePoll, TypeInv, StreamTypeOK
  <2> QED BY <2>4, <2>5 DEF TypeInv
<1>5. CASE PublishContainer
  <2>1. Head(bus).blocks \in Containers
    BY <1>1, <1>5 DEF PublishContainer, Update
  <2>2. storing' \in Seq(Cid) /\ Len(storing') = 4
    BY <1>5, <2>1, FilesTypes DEF PublishContainer, TypeInv
  <2>3. TypeOK'
    <3>1. /\ pc = "drain" /\ pc' = pc
          /\ UNCHANGED <<data, send_queue, known, remote_keys, connected, warmups, pins>>
      BY <1>5 DEF PublishContainer
    <3> QED BY <2>2, <3>1 DEF TypeInv, TypeOK
  <2>4. StreamTypeOK'
    BY <1>1, <1>5 DEF PublishContainer, NodePoll, TypeInv, StreamTypeOK
  <2> QED BY <2>3, <2>4 DEF TypeInv
<1>6. CASE StoreFile
  <2> DEFINE c == Head(storing)
  <2>1. /\ c \in Cid /\ storing' \in Seq(Cid) /\ Len(storing') <= 4
        /\ pc = "drain" /\ StoreBlock(c, UsageOf(c))
    BY <1>6 DEF StoreFile, TypeInv, TypeOK
  <2>2. UsageOf(c) \in Usage
    BY <2>1, UsageTypes
  <2>3. TypeOK'
    BY <1>6, <2>1, <2>2, StoredTypes DEF StoreFile, TypeInv, TypeOK
  <2>4. StreamTypeOK'
    BY <1>6 DEF StoreFile, NodePoll, TypeInv, StreamTypeOK
  <2> QED BY <2>3, <2>4 DEF TypeInv
<1> QED BY <1>2, <1>3, <1>4, <1>5, <1>6 DEF NodePoll, Poll

LEMMA EventTypes == ASSUME TypeInv, NodeEvent PROVE TypeInv'
<1> USE PipelineAssumption, NodeAssumption
<1>1. ASSUME NEW peer \in Peers, NEW cid \in Wantable, Want(peer, cid) PROVE TypeInv'
  <2>1. cid \in DOMAIN data =>
           [usage |-> data[cid], cid |-> cid, peer |-> peer] \in Request
    BY DEF Request, TypeInv, TypeOK
  <2> QED BY <1>1, <2>1 DEF NodeEvent, Want, TypeInv, TypeOK, StreamTypeOK
<1>2. ASSUME NEW addr \in RouterAddrs \cup OtherAddrs, Identify(addr) PROVE TypeInv'
  BY <1>2 DEF NodeEvent, Identify, TypeInv, TypeOK, StreamTypeOK, Addrs
<1>3. ASSUME AddProvider PROVE TypeInv'
  BY <1>3 DEF NodeEvent, AddProvider, TypeInv, TypeOK, StreamTypeOK
<1>4. ASSUME NEW peer \in Peers, Connect(peer) \/ Disconnect(peer) PROVE TypeInv'
  BY <1>4 DEF NodeEvent, Connect, Disconnect, TypeInv, TypeOK, StreamTypeOK
<1> QED BY <1>1, <1>2, <1>3, <1>4 DEF NodeEvent, SwarmEvent

LEMMA StepTypes == TypeInv /\ [Next]_vars => TypeInv'
<1>1. ASSUME TypeInv, UNCHANGED vars PROVE TypeInv'
  BY <1>1 DEF vars, nodeVars, TypeInv, TypeOK, StreamTypeOK
<1> QED BY <1>1, IngestTypes, NodeTypes, EventTypes DEF Next

(***************************************************************************)
(* The variables of the node have their types, and so do the updates that  *)
(* the bus carries to it.                                                  *)
(***************************************************************************)
THEOREM TypeCorrect == Spec => [](TypeOK /\ StreamTypeOK)
<1>1. Spec => []TypeInv
  BY InitTypes, StepTypes, PTL DEF Spec
<1> QED BY <1>1, PTL DEF TypeInv
-----------------------------------------------------------------------------
(***************************************************************************)
(* The flow of blocks from the ingest thread to the store.                 *)
(***************************************************************************)
LEMMA InitFlow == Init => FlowInv
<1> SUFFICES ASSUME Init PROVE FlowInv
  OBVIOUS
<1>1. bus = <<>> /\ sent = <<>> /\ DOMAIN data = DistBlocks /\ storing = <<>>
  BY DEF Init, Source!Init, NodeInit
<1>2. DagClosed
  BY <1>1, LinksOf DEF DagClosed, DistBlocks
<1>3. DistStored
  BY <1>1 DEF DistStored
<1>4. BusCarries /\ BusPrefixes /\ FilesInOrder
  BY <1>1 DEF BusCarries, BusPrefixes, FilesInOrder
<1>5. PublishedArePrefixes
  BY <1>1, DirectoryKind DEF PublishedArePrefixes, DistBlocks
<1> QED BY <1>2, <1>3, <1>4, <1>5 DEF FlowInv

\* Steps that leave the bus, the stream, the store and its files alone.
LEMMA QuietFlow ==
    ASSUME FlowInv, bus' = bus, sent' = sent, data' = data, storing' = storing,
           pc = "panicked" => pc' = pc
    PROVE  FlowInv'
<1>1. \A b, n : Carried(bus', data', b, n) <=> Carried(bus, data, b, n)
  BY DEF Carried
<1>2. BusCarries'
  BY <1>1 DEF FlowInv, BusCarries, IsContainer
<1>3. BusPrefixes'
  BY DEF FlowInv, BusPrefixes, IsContainer
<1>4. DagClosed' /\ DistStored' /\ PublishedArePrefixes' /\ FilesInOrder'
  BY DEF FlowInv, DagClosed, DistStored, PublishedArePrefixes, FilesInOrder
<1> QED BY <1>2, <1>3, <1>4 DEF FlowInv

\* The ingest thread sends a block: it waits in the bus from now on.
LEMMA SendBlockFlow ==
    ASSUME TypeInv, FlowInv, pc # "panicked", NEW b \in Blocks, Source!SendBlock(b),
           data' = data, pc' = pc, storing' = storing
    PROVE  FlowInv'
<1> DEFINE u == [type |-> "Block", block |-> b, sequence |-> Len(sent)]
<1>1. bus' = Append(bus, u) /\ sent' = Append(sent, b)
  BY DEF Source!SendBlock, Source!BlockUpdate
<1>2. bus \in Seq(Update) /\ sent \in Seq(Blocks)
  BY DEF TypeInv, StreamTypeOK
<1>3. /\ Len(bus) \in Nat /\ Len(bus') = Len(bus) + 1
      /\ \A i \in 1 .. Len(bus) : bus'[i] = bus[i]
      /\ bus'[Len(bus) + 1] = u
  BY <1>1, <1>2, BusAppend
<1>4. /\ Len(sent) \in Nat /\ Len(sent') = Len(sent) + 1
      /\ \A k \in 1 .. Len(sent) : sent'[k] = sent[k]
      /\ sent'[Len(sent) + 1] = b
  BY <1>1, <1>2, BusAppend
<1>5. \A x : \A n \in 0 .. Len(bus) : Carried(bus, data, x, n) => Carried(bus', data', x, n)
  BY <1>3 DEF Carried
<1>6. \A x : Carried(bus', data', x, Len(bus)) => Carried(bus', data', x, Len(bus) + 1)
  BY <1>3 DEF Carried
<1>7. Carried(bus', data', b, Len(bus) + 1)
  BY <1>3 DEF Carried
<1>8. BusCarries'
  <2>1. ASSUME NEW i \in 1 .. Len(bus'), IsContainer(i)',
               NEW k \in 1 .. Len(bus'[i].blocks)
        PROVE  Carried(bus', data', bus'[i].blocks[k], i - 1)
    <3>1. i # Len(bus) + 1
      BY <1>3, <2>1 DEF IsContainer
    <3>2. i \in 1 .. Len(bus) /\ bus'[i] = bus[i] /\ i - 1 \in 0 .. Len(bus)
      BY <1>3, <3>1
    <3>3. Carried(bus, data, bus[i].blocks[k], i - 1)
      BY <2>1, <3>2 DEF FlowInv, BusCarries, IsContainer
    <3> QED BY <1>5, <3>2, <3>3
  <2>2. ASSUME NEW k \in 1 .. Len(sent') PROVE Carried(bus', data', sent'[k], Len(bus'))
    <3>1. CASE k \in 1 .. Len(sent)
      <4>1. Carried(bus, data, sent[k], Len(bus))
        BY <3>1 DEF FlowInv, BusCarries
      <4>2. Carried(bus', data', sent[k], Len(bus))
        BY <1>3, <1>5, <4>1
      <4> QED BY <1>3, <1>4, <1>6, <3>1, <4>2
    <3>2. CASE k = Len(sent) + 1
      BY <1>3, <1>4, <1>7, <3>2
    <3> QED BY <1>4, <3>1, <3>2
  <2> QED BY <2>1, <2>2 DEF BusCarries
<1>9. BusPrefixes'
  <2>1. ASSUME NEW i \in 1 .. Len(bus'), IsContainer(i)'
        PROVE  IsPrefix(bus'[i].blocks, sent')
    <3>1. i \in 1 .. Len(bus) /\ bus'[i] = bus[i] /\ IsContainer(i)
      BY <1>3, <2>1 DEF IsContainer
    <3>2. bus[i].blocks \in Seq(Blocks)
      BY <1>2, <3>1, ContainersAreSeqs DEF Update, IsContainer
    <3> QED BY <1>1, <1>2, <3>1, <3>2, PrefixAppend DEF FlowInv, BusPrefixes
  <2> QED BY <2>1 DEF BusPrefixes
<1>10. ASSUME NEW c \in Cid, c[1] = "video_directory", IsPrefix(c[2], sent)
       PROVE  IsPrefix(c[2], sent')
  <2>1. PICK mc \in Containers : c = VideoDirectory(mc)
    BY <1>10, DirectoryKind DEF Cid, DistBlocks
  <2>2. c[2] \in Seq(Blocks)
    BY <2>1, DirectoryKind, ContainersAreSeqs
  <2> QED BY <1>1, <1>2, <1>10, <2>2, PrefixAppend
<1>11. PublishedArePrefixes'
  BY <1>10 DEF TypeInv, TypeOK, FlowInv, PublishedArePrefixes
<1>12. FilesInOrder'
  BY <1>10 DEF TypeInv, TypeOK, FlowInv, FilesInOrder
<1>13. DagClosed' /\ DistStored'
  BY DEF FlowInv, DagClosed, DistStored
<1> QED BY <1>8, <1>9, <1>11, <1>12, <1>13 DEF FlowInv

\* The ingest thread sends a container: all it lists was sent before.
LEMMA SendContainerFlow ==
    ASSUME TypeInv, FlowInv, pc # "panicked", data' = data, pc' = pc, sent' = sent,
           storing' = storing,
           bus' = Append(bus, [type |-> "Container", blocks |-> sent])
    PROVE  FlowInv'
<1> DEFINE u == [type |-> "Container", blocks |-> sent]
<1>1. bus \in Seq(Update) /\ sent \in Seq(Blocks)
  BY DEF TypeInv, StreamTypeOK
<1>2. /\ Len(bus) \in Nat /\ Len(bus') = Len(bus) + 1
      /\ \A i \in 1 .. Len(bus) : bus'[i] = bus[i]
      /\ bus'[Len(bus) + 1] = u
  BY <1>1, BusAppend
<1>3. \A x : \A n \in 0 .. Len(bus) : Carried(bus, data, x, n) => Carried(bus', data', x, n)
  BY <1>2 DEF Carried
<1>4. \A x : Carried(bus', data', x, Len(bus)) => Carried(bus', data', x, Len(bus) + 1)
  BY <1>2 DEF Carried
<1>5. \A k \in 1 .. Len(sent) : Carried(bus', data', sent[k], Len(bus))
  BY <1>2, <1>3 DEF FlowInv, BusCarries
<1>6. BusCarries'
  <2>1. ASSUME NEW i \in 1 .. Len(bus'), IsContainer(i)',
               NEW k \in 1 .. Len(bus'[i].blocks)
        PROVE  Carried(bus', data', bus'[i].blocks[k], i - 1)
    <3>1. CASE i = Len(bus) + 1
      <4>1. bus'[i].blocks = sent /\ i - 1 = Len(bus)
        BY <1>2, <3>1
      <4> QED BY <1>5, <4>1
    <3>2. CASE i \in 1 .. Len(bus)
      <4>1. bus'[i] = bus[i] /\ i - 1 \in 0 .. Len(bus)
        BY <1>2, <3>2
      <4>2. Carried(bus, data, bus[i].blocks[k], i - 1)
        BY <2>1, <3>2, <4>1 DEF FlowInv, BusCarries, IsContainer
      <4> QED BY <1>3, <4>1, <4>2
    <3> QED BY <1>2, <3>1, <3>2
  <2>2. \A k \in 1 .. Len(sent') : Carried(bus', data', sent'[k], Len(bus'))
    BY <1>2, <1>4, <1>5
  <2> QED BY <2>1, <2>2 DEF BusCarries
<1>7. BusPrefixes'
  <2>1. IsPrefix(sent, sent)
    BY <1>1, PrefixSelf
  <2> QED BY <1>2, <2>1 DEF FlowInv, BusPrefixes, IsContainer
<1>8. DagClosed' /\ DistStored' /\ PublishedArePrefixes' /\ FilesInOrder'
  BY DEF FlowInv, DagClosed, DistStored, PublishedArePrefixes, FilesInOrder
<1> QED BY <1>6, <1>7, <1>8 DEF FlowInv

LEMMA IngestFlow == ASSUME TypeInv, FlowInv, Ingest PROVE FlowInv'
<1>1. pc # "panicked" /\ pc' = pc /\ data' = data /\ storing' = storing
  BY DEF Ingest
<1>2. ASSUME NEW b \in Blocks, Source!SendBlock(b) PROVE FlowInv'
  BY <1>1, <1>2, SendBlockFlow
<1>3. CASE Source!SendContainer \/ Source!Finish
  BY <1>1, <1>3, SendContainerFlow
     DEF Source!SendContainer, Source!Finish, Source!ContainerUpdate
<1>4. CASE Source!NotDue \/ Source!Fail
  BY <1>1, <1>4, QuietFlow DEF Source!NotDue, Source!Fail
<1> QED BY <1>2, <1>3, <1>4 DEF Ingest, Source!Produce

\* The node takes an update; what it held is stored, or the node is dead.
LEMMA TakeFlow ==
    ASSUME TypeInv, FlowInv, bus # <<>>, bus' = Tail(bus), sent' = sent,
           pc' # "panicked" =>
              /\ pc # "panicked"
              /\ DOMAIN data \subseteq DOMAIN data'
              /\ bus[1].type = "Block" => Segment(bus[1].block) \in DOMAIN data'
    PROVE  BusCarries' /\ BusPrefixes'
<1>1. /\ Len(bus) \in Nat /\ Len(bus) > 0 /\ Len(bus') = Len(bus) - 1
      /\ \A i \in 1 .. Len(bus') : bus'[i] = bus[i + 1]
  BY BusTail DEF TypeInv, StreamTypeOK
<1>2. BusPrefixes'
  BY <1>1 DEF FlowInv, BusPrefixes, IsContainer
<1>3. ASSUME pc' # "panicked", NEW x, NEW n \in 1 .. Len(bus), Carried(bus, data, x, n)
      PROVE  Carried(bus', data', x, n - 1)
  <2>1. CASE Segment(x) \in DOMAIN data
    BY <1>3, <2>1 DEF Carried
  <2>2. CASE \E j \in 1 .. n : bus[j].type = "Block" /\ bus[j].block = x
    <3>1. PICK j \in 1 .. n : bus[j].type = "Block" /\ bus[j].block = x
      BY <2>2
    <3>2. CASE j = 1
      BY <1>3, <3>1, <3>2 DEF Carried
    <3>3. CASE j # 1
      <4>1. j - 1 \in 1 .. n - 1 /\ bus'[j - 1] = bus[j]
        BY <1>1, <3>1, <3>3
      <4> QED BY <3>1, <4>1 DEF Carried
    <3> QED BY <3>2, <3>3
  <2> QED BY <1>3, <2>1, <2>2 DEF Carried
<1>4. ASSUME pc' # "panicked", NEW i \in 1 .. Len(bus'), IsContainer(i)',
             NEW k \in 1 .. Len(bus'[i].blocks)
      PROVE  Carried(bus', data', bus'[i].blocks[k], i - 1)
  <2>1. i + 1 \in 1 .. Len(bus) /\ i \in 1 .. Len(bus) /\ bus'[i] = bus[i + 1]
        /\ (i + 1) - 1 = i
    BY <1>1
  <2>2. Carried(bus, data, bus[i + 1].blocks[k], i)
    BY <1>4, <2>1 DEF FlowInv, BusCarries, IsContainer
  <2> QED BY <1>3, <1>4, <2>1, <2>2
<1>5. ASSUME pc' # "panicked", NEW k \in 1 .. Len(sent') PROVE Carried(bus', data', sent'[k], Len(bus'))
  <2>1. Carried(bus, data, sent[k], Len(bus)) /\ Len(bus) \in 1 .. Len(bus)
    BY <1>1, <1>5 DEF FlowInv, BusCarries
  <2> QED BY <1>1, <1>3, <1>5, <2>1
<1> QED BY <1>2, <1>4, <1>5 DEF BusCarries

\* A segment from the bus links to nothing.
LEMMA ReceiveBlockFlow ==
    ASSUME TypeInv, FlowInv, ReceiveBlock, sent' = sent PROVE FlowInv'
<1> DEFINE b == Head(bus).block
<1>1. /\ bus # <<>> /\ bus' = Tail(bus) /\ pc = "drain"
      /\ StoreBlock(Segment(b), VideoSegment(Head(bus).sequence))
      /\ Head(bus) = bus[1] /\ storing' = <<>>
  BY BusTail DEF ReceiveBlock, TypeInv, StreamTypeOK
<1>2. FilesInOrder'
  BY <1>1 DEF FilesInOrder
<1>3. CASE pc' = "panicked" /\ data' = data
  <2>1. BusCarries' /\ BusPrefixes'
    BY <1>1, <1>3, TakeFlow
  <2> QED
    BY <1>2, <1>3, <2>1 DEF FlowInv, DagClosed, DistStored, PublishedArePrefixes
<1>4. CASE pc' = pc /\ DOMAIN data' = DOMAIN data \cup {Segment(b)}
  <2>1. BusCarries' /\ BusPrefixes'
    BY <1>1, <1>4, TakeFlow
  <2>2. DagClosed'
    BY <1>4, LinksOf DEF FlowInv, DagClosed
  <2>3. DistStored' /\ PublishedArePrefixes'
    BY <1>4, DirectoryKind DEF FlowInv, DistStored, PublishedArePrefixes
  <2> QED BY <1>2, <2>1, <2>2, <2>3 DEF FlowInv
<1> QED BY <1>1, <1>3, <1>4, Stored

\* A container at the head of the bus: nothing waits ahead of it, so all it
\* lists is stored, and its files link to nothing else but each other.
LEMMA PublishFlow ==
    ASSUME TypeInv, FlowInv, PublishContainer, sent' = sent PROVE FlowInv'
<1> DEFINE mc == Head(bus).blocks
<1>1. /\ bus # <<>> /\ bus' = Tail(bus) /\ pc = "drain"
      /\ pc' = pc /\ data' = data
      /\ Head(bus) = bus[1] /\ bus[1].type = "Container" /\ 1 \in 1 .. Len(bus)
  BY BusTail DEF PublishContainer, TypeInv, StreamTypeOK
<1>2. BusCarries' /\ BusPrefixes'
  BY <1>1, TakeFlow
<1>3. PICK gateway \in PlayerGateways : storing' = Files(mc, gateway)
  BY DEF PublishContainer
<1>4. /\ Len(storing') = 4
      /\ storing'[1] = Playlist(mc) /\ storing'[2] = VideoDirectory(mc)
      /\ storing'[3] = Html(mc, gateway, known)
      /\ storing'[4] = PlayerDirectory(mc, gateway, known)
  BY <1>3 DEF Files
<1>5. SegmentsOf(mc) \subseteq DOMAIN data
  <2>1. ASSUME NEW k \in 1 .. Len(mc) PROVE Segment(mc[k]) \in DOMAIN data
    <3>1. Carried(bus, data, bus[1].blocks[k], 1 - 1)
      BY <1>1 DEF FlowInv, BusCarries, IsContainer
    <3> QED BY <1>1, <3>1 DEF Carried
  <2> QED BY <2>1 DEF SegmentsOf
<1>6. Script \in DOMAIN data
  BY DEF FlowInv, DistStored, DistBlocks
<1>7. IsPrefix(mc, sent)
  BY <1>1 DEF FlowInv, BusPrefixes, IsContainer
<1>8. ASSUME NEW i \in 1 .. Len(storing')
      PROVE  /\ Links(storing'[i]) \subseteq
                   DOMAIN data \cup {storing'[j] : j \in 1 .. i - 1}
             /\ storing'[i][1] = "video_directory" => IsPrefix(storing'[i][2], sent)
  <2>1. CASE i = 1
    BY <1>4, <2>1, LinksOf, DirectoryKind
  <2>2. CASE i = 2
    <3>1. Links(storing'[i]) = {storing'[1]} \cup SegmentsOf(mc) /\ 1 \in 1 .. i - 1
      BY <1>4, <2>2, LinksOf
    <3> QED BY <1>4, <1>5, <1>7, <2>2, <3>1, DirectoryKind
  <2>3. CASE i = 3
    <3>1. Links(storing'[i]) = {storing'[2], Script} /\ 2 \in 1 .. i - 1
      BY <1>4, <2>3, LinksOf
    <3> QED BY <1>4, <1>6, <2>3, <3>1, DirectoryKind
  <2>4. CASE i = 4
    <3>1. /\ Links(storing'[i]) = {storing'[3], storing'[2], Script}
          /\ 2 \in 1 .. i - 1 /\ 3 \in 1 .. i - 1
      BY <1>4, <2>4, LinksOf
    <3> QED BY <1>4, <1>6, <2>4, <3>1, DirectoryKind
  <2> QED BY <1>4, <2>1, <2>2, <2>3, <2>4
<1>9. FilesInOrder'
  BY <1>1, <1>8 DEF FilesInOrder
<1>10. DagClosed' /\ DistStored' /\ PublishedArePrefixes'
  BY <1>1 DEF FlowInv, DagClosed, DistStored, PublishedArePrefixes
<1> QED BY <1>2, <1>9, <1>10 DEF FlowInv

\* The first of the files links only to what is stored; the second's turn
\* comes when the first is.
LEMMA StoreFileFlow ==
    ASSUME TypeInv, FlowInv, StoreFile, sent' = sent PROVE FlowInv'
<1> DEFINE c == Head(storing)
<1>1. /\ storing # <<>> /\ storing' = Tail(storing) /\ pc = "drain" /\ bus' = bus
      /\ StoreBlock(c, UsageOf(c))
  BY DEF StoreFile
<1>2. /\ Len(storing) \in Nat /\ Len(storing) > 0 /\ c = storing[1]
      /\ Len(storing') = Len(storing) - 1
      /\ \A i \in 1 .. Len(storing') : storing'[i] = storing[i + 1]
  BY <1>1, BusTail DEF TypeInv, TypeOK
<1>3. BusPrefixes'
  BY <1>1 DEF FlowInv, BusPrefixes, IsContainer
<1>4. CASE pc' = "panicked" /\ data' = data
  BY <1>3, <1>4
     DEF FlowInv, DagClosed, DistStored, PublishedArePrefixes, BusCarries, FilesInOrder
<1>5. CASE pc' = pc /\ DOMAIN data' = DOMAIN data \cup {c}
  <2>1. /\ Links(c) \subseteq DOMAIN data
        /\ c[1] = "video_directory" => IsPrefix(c[2], sent)
    <3>1. 1 \in 1 .. Len(storing) /\ 1 .. 1 - 1 = {}
      BY <1>2
    <3>2. /\ Links(storing[1]) \subseteq DOMAIN data \cup {storing[j] : j \in 1 .. 1 - 1}
          /\ storing[1][1] = "video_directory" => IsPrefix(storing[1][2], sent)
      BY <1>1, <3>1 DEF FlowInv, FilesInOrder
    <3> QED BY <1>2, <3>1, <3>2
  <2>2. DagClosed' /\ DistStored' /\ PublishedArePrefixes'
    <3> HIDE DEF c
    <3> QED BY <1>5, <2>1 DEF FlowInv, DagClosed, DistStored, PublishedArePrefixes
  <2>3. \A b, n : Carried(bus, data, b, n) => Carried(bus', data', b, n)
    BY <1>1, <1>5 DEF Carried
  <2>4. BusCarries'
    BY <1>1, <1>5, <2>3 DEF FlowInv, BusCarries, IsContainer
  <2>5. ASSUME NEW i \in 1 .. Len(storing')
        PROVE  /\ Links(storing'[i]) \subseteq
                     DOMAIN data' \cup {storing'[j] : j \in 1 .. i - 1}
               /\ storing'[i][1] = "video_directory" => IsPrefix(storing'[i][2], sent)
    <3>1. i + 1 \in 1 .. Len(storing) /\ storing'[i] = storing[i + 1] /\ (i + 1) - 1 = i
      BY <1>2
    <3>2. /\ Links(storing[i + 1]) \subseteq DOMAIN data \cup {storing[j] : j \in 1 .. i}
          /\ storing[i + 1][1] = "video_directory" => IsPrefix(storing[i + 1][2], sent)
      BY <1>1, <3>1 DEF FlowInv, FilesInOrder
    <3>3. \A j \in 1 .. i : storing[j] = c \/ storing[j] \in {storing'[k] : k \in 1 .. i - 1}
      <4> SUFFICES ASSUME NEW j \in 1 .. i, j # 1
                   PROVE  storing[j] \in {storing'[k] : k \in 1 .. i - 1}
        BY <1>2
      <4>1. j - 1 \in 1 .. i - 1 /\ j - 1 \in 1 .. Len(storing') /\ (j - 1) + 1 = j
        BY <1>2
      <4>2. storing'[j - 1] = storing[j]
        BY <1>2, <4>1
      <4> QED BY <4>1, <4>2
    <3> HIDE DEF c
    <3> QED BY <1>5, <3>1, <3>2, <3>3
  <2>6. FilesInOrder'
    BY <2>5 DEF FilesInOrder
  <2> QED BY <1>3, <2>2, <2>4, <2>6 DEF FlowInv
<1> QED BY <1>1, <1>4, <1>5, Stored

LEMMA NodeFlow == ASSUME TypeInv, FlowInv, NodePoll PROVE FlowInv'
<1>1. sent' = sent
  BY DEF NodePoll
<1>2. CASE NothingToSend \/ SendWanted \/ BusDrained \/ PollPending
  BY <1>1, <1>2, QuietFlow DEF NothingToSend, SendWanted, BusDrained, PollPending
<1>3. CASE DropContainer \/ ContainerTooLong \/ PrintFails
  <2>1. /\ bus # <<>> /\ bus' = Tail(bus) /\ data' = data /\ pc' \in {pc, "panicked"}
        /\ Head(bus) = bus[1] /\ bus[1].type = "Container" /\ pc # "panicked"
        /\ storing' = <<>>
    BY <1>3, BusTail DEF DropContainer, ContainerTooLong, PrintFails, TypeInv, StreamTypeOK
  <2>2. BusCarries' /\ BusPrefixes'
    BY <1>1, <2>1, TakeFlow
  <2> QED
    BY <1>1, <2>1, <2>2
       DEF FlowInv, DagClosed, DistStored, PublishedArePrefixes, FilesInOrder
<1>4. CASE ReceiveBlock
  BY <1>1, <1>4, ReceiveBlockFlow
<1>5. CASE PublishContainer
  BY <1>1, <1>5, PublishFlow
<1>6. CASE StoreFile
  BY <1>1, <1>6, StoreFileFlow
<1> QED BY <1>2, <1>3, <1>4, <1>5, <1>6 DEF NodePoll, Poll

LEMMA EventFlow == ASSUME FlowInv, NodeEvent PROVE FlowInv'
BY QuietFlow DEF NodeEvent, SwarmEvent, Want, Identify, AddProvider, Connect, Disconnect

LEMMA StepFlow == TypeInv /\ FlowInv /\ [Next]_vars => FlowInv'
<1>1. ASSUME FlowInv, UNCHANGED vars PROVE FlowInv'
  BY <1>1, QuietFlow DEF vars, nodeVars
<1> QED BY <1>1, IngestFlow, NodeFlow, EventFlow DEF Next

(***************************************************************************)
(* The inductive invariant of the pipeline.                                *)
(***************************************************************************)
THEOREM Invariance == Spec => []IInv
<1>1. Init => IInv
  BY InitTypes, InitFlow DEF IInv
<1>2. IInv /\ [Next]_vars => IInv'
  BY StepTypes, StepFlow DEF IInv
<1> QED BY <1>1, <1>2, PTL DEF Spec

(***************************************************************************)
(* The store is closed under links in every state: what the node announces *)
(* with publish_media_container (node.rs:138) can be fetched whole.        *)
(***************************************************************************)
THEOREM DagClosedCorrect == Spec => []DagClosed
BY Invariance, PTL DEF IInv, FlowInv

(***************************************************************************)
(* Every published directory is a prefix of the ingested stream, for every *)
(* interleaving of the ingest thread and the node.                         *)
(***************************************************************************)
THEOREM PublishedPrefixesCorrect == Spec => []PublishedArePrefixes
BY Invariance, PTL DEF IInv, FlowInv
-----------------------------------------------------------------------------
(***************************************************************************)
(* What the node holds for each block: its usage, the requests that wait   *)
(* for it, and the gateways it was offered to.                             *)
(*                                                                         *)
(* A block's usage may change only when a segment's bytes come again.      *)
(* That the new number is the larger one rests on the bus, Numbered:       *)
(* blocks wait in it in the order of their numbers, and every number in it *)
(* is larger than those the store has.                                     *)
(***************************************************************************)
IsBlock(i) == bus[i].type = "Block"

Numbered ==
    /\ \A i \in 1 .. Len(bus) : IsBlock(i) =>
          /\ bus[i].sequence < Len(sent)
          /\ \A j \in 1 .. i - 1 : IsBlock(j) => bus[j].sequence < bus[i].sequence
    /\ \A c \in DOMAIN data : c[1] = "segment" =>
          /\ data[c][1] = 5 /\ data[c][2] < Len(sent)
          /\ \A i \in 1 .. Len(bus) : IsBlock(i) => data[c][2] < bus[i].sequence

UsagesFixed == \A c \in DOMAIN data : c[1] # "segment" => data[c] = UsageOf(c)

Offered ==
    /\ \A c \in DOMAIN data : WarmupsOf(c) \subseteq warmups
    /\ \A p \in pins : p[2][1] = "player_directory"

NoSegments == \A i \in 1 .. Len(storing) : storing[i][1] # "segment"

HoldInv == Numbered /\ UsagesFixed /\ Offered /\ NoSegments /\ QueueSound

\* What a step may do to the blocks held.
Grows ==
    \A c \in DOMAIN data :
        /\ c \in DOMAIN data'
        /\ data'[c] # data[c] => c[1] = "segment" /\ MoreUrgent(data[c], data'[c])
-----------------------------------------------------------------------------
LEMMA SegmentKind ==
    /\ \A b : Segment(b)[1] = "segment"
    /\ \A mc : Playlist(mc)[1] # "segment"
    /\ \A mc : VideoDirectory(mc)[1] # "segment"
    /\ \A mc, g, a : Html(mc, g, a)[1] # "segment"
    /\ \A mc, g, a : PlayerDirectory(mc, g, a)[1] = "player_directory"
    /\ Script[1] # "segment"
    /\ \A i : Part(i)[1] # "segment"
BY DEF Segment, Playlist, VideoDirectory, Html, PlayerDirectory, Script, Part

LEMMA PinsKind ==
    ASSUME NEW c, NEW p \in PinsOf(c) PROVE p[2] = c /\ c[1] = "player_directory"
BY DEF PinsOf

\* MoreUrgent is the lexicographic order of pairs of numbers.
LEMMA UrgencyOrder ==
    ASSUME NEW u \in Usage, NEW v \in Usage, NEW w \in Usage,
           MoreUrgent(u, v), ~ MoreUrgent(u, w)
    PROVE  ~ MoreUrgent(v, w)
BY PipelineAssumption DEF MoreUrgent, Usage

LEMMA InitHold == Init => HoldInv
<1> SUFFICES ASSUME Init PROVE HoldInv
  OBVIOUS
<1> USE DEF Init, Source!Init, NodeInit
<1>1. \A c \in DistBlocks : c[1] # "segment"
  BY SegmentKind DEF DistBlocks
<1>2. Numbered /\ UsagesFixed
  BY <1>1 DEF Numbered, UsagesFixed
<1>3. Offered /\ NoSegments /\ QueueSound
  BY DEF Offered, NoSegments, QueueSound
<1> QED BY <1>2, <1>3 DEF HoldInv

\* Steps that leave the store and what was offered alone.
LEMMA QuietOffered ==
    ASSUME UsagesFixed, Offered, data' = data, warmups' = warmups, pins' = pins
    PROVE  UsagesFixed' /\ Offered' /\ Grows
BY DEF UsagesFixed, Offered, Grows

LEMMA QuietFiles == ASSUME NoSegments, storing' = storing PROVE NoSegments'
BY DEF NoSegments

LEMMA QuietNumbered ==
    ASSUME Numbered, data' = data, bus' = bus, sent' = sent PROVE Numbered'
BY DEF Numbered, IsBlock

\* The queue stays sound while the store grows.
LEMMA QuietQueue ==
    ASSUME TypeInv, TypeInv', QueueSound, Grows, send_queue' \subseteq send_queue
    PROVE  QueueSound'
<1>1. ASSUME NEW r \in send_queue'
      PROVE  r.cid \in DOMAIN data' /\ ~ MoreUrgent(data'[r.cid], r.usage)
  <2>1. r \in send_queue /\ r.cid \in DOMAIN data /\ ~ MoreUrgent(data[r.cid], r.usage)
    BY <1>1 DEF QueueSound
  <2>2. r.usage \in Usage /\ data[r.cid] \in Usage
    BY <2>1 DEF TypeInv, TypeOK, Request
  <2>3. r.cid \in DOMAIN data'
    BY <2>1 DEF Grows
  <2>4. data'[r.cid] \in Usage
    BY <2>3 DEF TypeInv, TypeOK
  <2>5. data'[r.cid] # data[r.cid] => MoreUrgent(data[r.cid], data'[r.cid])
    BY <2>1 DEF Grows
  <2> QED BY <2>1, <2>2, <2>3, <2>4, <2>5, UrgencyOrder
<1>2. \A q, r \in send_queue' : q.usage = r.usage => q = r
  BY DEF QueueSound
<1> QED BY <1>1, <1>2 DEF QueueSound

\* The ingest thread numbers a block by its place in the stream.
LEMMA IngestHold ==
    ASSUME TypeInv, TypeInv', HoldInv, Ingest PROVE HoldInv' /\ Grows
<1>1. /\ data' = data /\ warmups' = warmups /\ pins' = pins
      /\ send_queue' = send_queue /\ storing' = storing
  BY DEF Ingest
<1>2. UsagesFixed' /\ Offered' /\ NoSegments' /\ Grows
  BY <1>1, QuietOffered, QuietFiles DEF HoldInv
<1>3. QueueSound'
  BY <1>1, <1>2, QuietQueue DEF HoldInv
<1>4. bus \in Seq(Update) /\ sent \in Seq(Blocks)
  BY DEF TypeInv, StreamTypeOK
<1>5. ASSUME NEW b \in Blocks, Source!SendBlock(b) PROVE Numbered'
  <2> DEFINE u == [type |-> "Block", block |-> b, sequence |-> Len(sent)]
  <2>1. bus' = Append(bus, u) /\ sent' = Append(sent, b)
    BY <1>5 DEF Source!SendBlock, Source!BlockUpdate
  <2>2. /\ Len(bus) \in Nat /\ Len(bus') = Len(bus) + 1
        /\ \A i \in 1 .. Len(bus) : bus'[i] = bus[i]
        /\ bus'[Len(bus) + 1] = u
        /\ Len(sent) \in Nat /\ Len(sent') = Len(sent) + 1
    BY <1>4, <2>1, BusAppend
  <2>3. \A i \in 1 .. Len(bus) : IsBlock(i) => bus[i].sequence \in Nat
    BY <1>4 DEF Update, IsBlock
  <2>4. \A c \in DOMAIN data : data[c][2] \in Nat
    BY PipelineAssumption DEF TypeInv, TypeOK, Usage
  <2>5. ASSUME NEW i \in 1 .. Len(bus'), IsBlock(i)'
        PROVE  /\ bus'[i].sequence < Len(sent')
               /\ \A j \in 1 .. i - 1 : IsBlock(j)' => bus'[j].sequence < bus'[i].sequence
    <3>1. \A j \in 1 .. Len(bus) : IsBlock(j) => bus[j].sequence < Len(sent)
      BY DEF HoldInv, Numbered
    <3>2. CASE i = Len(bus) + 1
      BY <2>2, <2>3, <3>1, <3>2 DEF IsBlock
    <3>3. CASE i \in 1 .. Len(bus)
      <4>1. IsBlock(i) /\ bus'[i] = bus[i] /\ bus[i].sequence < Len(sent)
        BY <2>2, <2>5, <3>1, <3>3 DEF IsBlock
      <4>2. \A j \in 1 .. i - 1 : IsBlock(j) => bus[j].sequence < bus[i].sequence
        BY <3>3, <4>1 DEF HoldInv, Numbered
      <4>3. \A j \in 1 .. i - 1 : j \in 1 .. Len(bus) /\ bus'[j] = bus[j]
        BY <2>2, <3>3
      <4>4. bus[i].sequence \in Nat
        BY <2>3, <3>3, <4>1
      <4> QED BY <2>2, <4>1, <4>2, <4>3, <4>4 DEF IsBlock
    <3> QED BY <2>2, <3>2, <3>3
  <2>6. ASSUME NEW c \in DOMAIN data, c[1] = "segment"
        PROVE  /\ data[c][1] = 5 /\ data[c][2] < Len(sent')
               /\ \A i \in 1 .. Len(bus') : IsBlock(i)' => data[c][2] < bus'[i].sequence
    <3>1. /\ data[c][1] = 5 /\ data[c][2] < Len(sent) /\ data[c][2] \in Nat
          /\ \A i \in 1 .. Len(bus) : IsBlock(i) => data[c][2] < bus[i].sequence
      BY <2>4, <2>6 DEF HoldInv, Numbered
    <3>2. ASSUME NEW i \in 1 .. Len(bus'), IsBlock(i)'
          PROVE  data[c][2] < bus'[i].sequence
      <4>1. CASE i \in 1 .. Len(bus)
        BY <2>2, <3>1, <3>2, <4>1 DEF IsBlock
      <4>2. CASE i = Len(bus) + 1
        BY <2>2, <3>1, <4>2
      <4> QED BY <2>2, <3>2, <4>1, <4>2
    <3> QED BY <2>2, <3>1, <3>2
  <2> QED BY <1>1, <2>5, <2>6 DEF Numbered
<1>6. CASE Source!SendContainer \/ Source!Finish
  <2>1. bus' = Append(bus, [type |-> "Container", blocks |-> sent]) /\ sent' = sent
    BY <1>6 DEF Source!SendContainer, Source!Finish, Source!ContainerUpdate
  <2>2. /\ Len(bus) \in Nat /\ Len(bus') = Len(bus) + 1
        /\ \A i \in 1 .. Len(bus) : bus'[i] = bus[i]
        /\ bus'[Len(bus) + 1].type = "Container"
    BY <1>4, <2>1, BusAppend
  <2>3. \A i \in 1 .. Len(bus') : IsBlock(i)' => i \in 1 .. Len(bus) /\ IsBlock(i)
    BY <2>2 DEF IsBlock
  <2>4. ASSUME NEW i \in 1 .. Len(bus'), IsBlock(i)'
        PROVE  /\ bus'[i].sequence < Len(sent')
               /\ \A j \in 1 .. i - 1 : IsBlock(j)' => bus'[j].sequence < bus'[i].sequence
    <3>1. i \in 1 .. Len(bus) /\ IsBlock(i) /\ bus'[i] = bus[i]
      BY <2>2, <2>3, <2>4
    <3>2. \A j \in 1 .. i - 1 : IsBlock(j)' => IsBlock(j) /\ bus'[j] = bus[j]
      BY <2>2, <2>3, <3>1
    <3> QED BY <2>1, <3>1, <3>2 DEF HoldInv, Numbered
  <2>5. ASSUME NEW c \in DOMAIN data, c[1] = "segment"
        PROVE  /\ data[c][1] = 5 /\ data[c][2] < Len(sent')
               /\ \A i \in 1 .. Len(bus') : IsBlock(i)' => data[c][2] < bus'[i].sequence
    BY <2>1, <2>2, <2>3, <2>5 DEF HoldInv, Numbered
  <2>6. Numbered'
    BY <1>1, <2>4, <2>5 DEF Numbered
  <2> QED BY <1>2, <1>3, <2>6 DEF HoldInv
<1>7. CASE Source!NotDue \/ Source!Fail
  <2>1. bus' = bus /\ sent' = sent
    BY <1>7 DEF Source!NotDue, Source!Fail
  <2>2. Numbered'
    BY <1>1, <2>1, QuietNumbered DEF HoldInv
  <2> QED BY <1>2, <1>3, <2>2 DEF HoldInv
<1> QED BY <1>2, <1>3, <1>5, <1>6, <1>7
   DEF Ingest, Source!Produce, HoldInv

\* An update leaves the bus: the numbers left in it stay above the store's.
LEMMA TakeNumbered ==
    ASSUME TypeInv, Numbered, bus # <<>>, bus' = Tail(bus), sent' = sent,
           \A c \in DOMAIN data' : c[1] = "segment" =>
              \/ c \in DOMAIN data /\ data'[c] = data[c]
              \/ bus[1].type = "Block" /\ data'[c] = <<5, bus[1].sequence>>
    PROVE  Numbered'
<1>1. /\ Len(bus) \in Nat /\ Len(bus) > 0 /\ Len(bus') = Len(bus) - 1
      /\ \A i \in 1 .. Len(bus') : bus'[i] = bus[i + 1]
  BY BusTail DEF TypeInv, StreamTypeOK
<1>2. ASSUME NEW i \in 1 .. Len(bus'), IsBlock(i)'
      PROVE  /\ bus'[i].sequence < Len(sent')
             /\ \A j \in 1 .. i - 1 : IsBlock(j)' => bus'[j].sequence < bus'[i].sequence
  <2>1. i + 1 \in 1 .. Len(bus) /\ IsBlock(i + 1)
    BY <1>1, <1>2 DEF IsBlock
  <2>2. \A j \in 1 .. i - 1 : j + 1 \in 1 .. (i + 1) - 1 /\ bus'[j] = bus[j + 1]
    BY <1>1
  <2> QED BY <1>1, <2>1, <2>2 DEF Numbered, IsBlock
<1>3. ASSUME NEW c \in DOMAIN data', c[1] = "segment"
      PROVE  /\ data'[c][1] = 5 /\ data'[c][2] < Len(sent')
             /\ \A i \in 1 .. Len(bus') : IsBlock(i)' => data'[c][2] < bus'[i].sequence
  <2>1. \A i \in 1 .. Len(bus') : /\ i + 1 \in 1 .. Len(bus) /\ 1 \in 1 .. (i + 1) - 1
                                  /\ bus'[i] = bus[i + 1]
    BY <1>1
  <2>2. CASE c \in DOMAIN data /\ data'[c] = data[c]
    BY <1>3, <2>1, <2>2 DEF Numbered, IsBlock
  <2>3. CASE bus[1].type = "Block" /\ data'[c] = <<5, bus[1].sequence>>
    BY <1>1, <2>1, <2>3 DEF Numbered, IsBlock
  <2> QED BY <1>3, <2>2, <2>3
<1> QED BY <1>2, <1>3 DEF Numbered

\* What is stored is offered.
LEMMA StoreOffered ==
    ASSUME Offered, NEW cid, NEW usage, StoreBlock(cid, usage) PROVE Offered'
<1>1. CASE pc' = "panicked" /\ data' = data /\ warmups' = warmups /\ pins' = pins
  BY <1>1 DEF Offered
<1>2. CASE /\ DOMAIN data' = DOMAIN data \cup {cid}
           /\ warmups' = warmups \cup WarmupsOf(cid)
           /\ pins' = pins \cup PinsOf(cid)
  BY <1>2, PinsKind DEF Offered
<1> QED BY <1>1, <1>2, Stored

LEMMA ReceiveBlockHold ==
    ASSUME TypeInv, HoldInv, ReceiveBlock, sent' = sent
    PROVE  Numbered' /\ UsagesFixed' /\ Offered' /\ NoSegments' /\ Grows
<1> DEFINE b == Head(bus).block
           n == Head(bus).sequence
<1>1. /\ bus # <<>> /\ bus' = Tail(bus) /\ StoreBlock(Segment(b), <<5, n>>)
      /\ Head(bus) = bus[1] /\ bus[1].type = "Block" /\ storing' = storing
      /\ 1 \in 1 .. Len(bus)
  BY BusTail DEF ReceiveBlock, VideoSegment, TypeInv, StreamTypeOK
<1>2. Offered' /\ NoSegments'
  BY <1>1, StoreOffered, QuietFiles DEF HoldInv
<1>3. CASE data' = data
  <2>1. Numbered'
    BY <1>1, <1>3, TakeNumbered DEF HoldInv
  <2>2. UsagesFixed' /\ Grows
    BY <1>3 DEF HoldInv, UsagesFixed, Grows
  <2> QED BY <1>2, <2>1, <2>2
<1>4. CASE /\ DOMAIN data' = DOMAIN data \cup {Segment(b)}
           /\ data'[Segment(b)] = <<5, n>>
           /\ \A c \in DOMAIN data \ {Segment(b)} : data'[c] = data[c]
  <2>1. Numbered'
    BY <1>1, <1>4, TakeNumbered DEF HoldInv
  <2>2. UsagesFixed'
    BY <1>4, SegmentKind DEF HoldInv, UsagesFixed
  <2>3. Segment(b) \in DOMAIN data => MoreUrgent(data[Segment(b)], <<5, n>>)
    BY <1>1, SegmentKind DEF HoldInv, Numbered, IsBlock, MoreUrgent
  <2>4. Grows
    BY <1>4, <2>3, SegmentKind DEF Grows
  <2> QED BY <1>2, <2>1, <2>2, <2>4
<1> QED BY <1>1, <1>3, <1>4, Stored

LEMMA PublishHold ==
    ASSUME TypeInv, HoldInv, PublishContainer, sent' = sent
    PROVE  Numbered' /\ UsagesFixed' /\ Offered' /\ NoSegments' /\ Grows
<1>1. /\ bus # <<>> /\ bus' = Tail(bus)
      /\ data' = data /\ warmups' = warmups /\ pins' = pins
  BY DEF PublishContainer
<1>2. NoSegments'
  <2>1. PICK mc, gateway : storing' = Files(mc, gateway)
    BY DEF PublishContainer
  <2> QED BY <2>1, SegmentKind DEF NoSegments, Files
<1> QED BY <1>1, <1>2, TakeNumbered, QuietOffered DEF HoldInv

\* A file keeps the usage of its kind, also when it is stored again.
LEMMA StoreFileHold ==
    ASSUME TypeInv, HoldInv, StoreFile, sent' = sent
    PROVE  Numbered' /\ UsagesFixed' /\ Offered' /\ NoSegments' /\ Grows
<1> DEFINE file == Head(storing)
<1>1. /\ storing # <<>> /\ storing' = Tail(storing) /\ bus' = bus
      /\ StoreBlock(file, UsageOf(file))
  BY DEF StoreFile
<1>2. /\ Len(storing) \in Nat /\ Len(storing) > 0 /\ file = storing[1]
      /\ Len(storing') = Len(storing) - 1
      /\ \A i \in 1 .. Len(storing') : storing'[i] = storing[i + 1]
  BY <1>1, BusTail DEF TypeInv, TypeOK
<1>3. file[1] # "segment" /\ NoSegments'
  <2>1. \A i \in 1 .. Len(storing') : i + 1 \in 1 .. Len(storing)
    BY <1>2
  <2> QED BY <1>2, <2>1 DEF HoldInv, NoSegments
<1>4. Offered'
  BY <1>1, StoreOffered DEF HoldInv
<1> HIDE DEF file
<1>5. CASE data' = data
  <2>1. Numbered'
    BY <1>1, <1>5, QuietNumbered DEF HoldInv
  <2>2. UsagesFixed' /\ Grows
    BY <1>5 DEF HoldInv, UsagesFixed, Grows
  <2> QED BY <1>3, <1>4, <2>1, <2>2
<1>6. CASE /\ DOMAIN data' = DOMAIN data \cup {file}
           /\ data'[file] = UsageOf(file)
           /\ \A c \in DOMAIN data \ {file} : data'[c] = data[c]
  <2>1. \A c \in DOMAIN data' : c[1] = "segment" => c \in DOMAIN data /\ data'[c] = data[c]
    BY <1>3, <1>6
  <2>2. Numbered'
    BY <1>1, <2>1 DEF HoldInv, Numbered, IsBlock
  <2>3. UsagesFixed' /\ Grows
    BY <1>3, <1>6 DEF HoldInv, UsagesFixed, Grows
  <2> QED BY <1>3, <1>4, <2>2, <2>3
<1> QED BY <1>1, <1>5, <1>6, Stored

LEMMA NodeHold ==
    ASSUME TypeInv, TypeInv', HoldInv, NodePoll PROVE HoldInv' /\ Grows
<1>1. sent' = sent
  BY DEF NodePoll
<1>2. send_queue' \subseteq send_queue
  BY DEF NodePoll, Poll, NothingToSend, SendWanted, ReceiveBlock, PublishContainer,
         StoreFile, ContainerTooLong, PrintFails, DropContainer, BusDrained, PollPending
<1>3. Numbered' /\ UsagesFixed' /\ Offered' /\ NoSegments' /\ Grows
  <2>1. CASE NothingToSend \/ SendWanted \/ BusDrained \/ PollPending
    BY <1>1, <2>1, QuietNumbered, QuietOffered, QuietFiles
       DEF HoldInv, NothingToSend, SendWanted, BusDrained, PollPending
  <2>2. CASE DropContainer \/ ContainerTooLong \/ PrintFails
    <3>1. /\ bus # <<>> /\ bus' = Tail(bus)
          /\ data' = data /\ warmups' = warmups /\ pins' = pins /\ storing' = storing
      BY <2>2 DEF DropContainer, ContainerTooLong, PrintFails
    <3> QED BY <1>1, <3>1, TakeNumbered, QuietOffered, QuietFiles DEF HoldInv
  <2>3. CASE ReceiveBlock
    BY <1>1, <2>3, ReceiveBlockHold
  <2>4. CASE PublishContainer
    BY <1>1, <2>4, PublishHold
  <2>5. CASE StoreFile
    BY <1>1, <2>5, StoreFileHold
  <2> QED BY <2>1, <2>2, <2>3, <2>4, <2>5 DEF NodePoll, Poll
<1> QED BY <1>2, <1>3, QuietQueue DEF HoldInv

\* A want is queued with the usage its block has now.
LEMMA EventHold ==
    ASSUME TypeInv, TypeInv', HoldInv, NodeEvent PROVE HoldInv' /\ Grows
<1>1. /\ data' = data /\ warmups' = warmups /\ pins' = pins
      /\ bus' = bus /\ sent' = sent /\ storing' = storing
  BY DEF NodeEvent, SwarmEvent, Want, Identify, AddProvider, Connect, Disconnect
<1>2. Numbered' /\ UsagesFixed' /\ Offered' /\ NoSegments' /\ Grows
  BY <1>1, QuietNumbered, QuietOffered, QuietFiles DEF HoldInv
<1>3. CASE send_queue' = send_queue
  BY <1>2, <1>3, QuietQueue DEF HoldInv
<1>4. ASSUME NEW peer \in Peers, NEW cid \in DOMAIN data,
             \A r \in send_queue : r.usage # data[cid],
             send_queue' =
                send_queue \cup {[usage |-> data[cid], cid |-> cid, peer |-> peer]}
      PROVE  QueueSound'
  <2>1. data[cid] \in Usage
    BY DEF TypeInv, TypeOK
  <2>2. ~ MoreUrgent(data[cid], data[cid])
    BY <2>1, PipelineAssumption DEF MoreUrgent, Usage
  <2> QED BY <1>1, <1>4, <2>2 DEF HoldInv, QueueSound
<1>5. send_queue' # send_queue =>
         \E peer \in Peers, cid \in DOMAIN data :
            /\ \A r \in send_queue : r.usage # data[cid]
            /\ send_queue' =
                  send_queue \cup {[usage |-> data[cid], cid |-> cid, peer |-> peer]}
  BY DEF NodeEvent, SwarmEvent, Want, Identify, AddProvider, Connect, Disconnect
<1> QED BY <1>2, <1>3, <1>4, <1>5 DEF HoldInv

LEMMA StepHold ==
    TypeInv /\ TypeInv' /\ HoldInv /\ [Next]_vars => HoldInv' /\ Grows
<1>1. ASSUME TypeInv, TypeInv', HoldInv, UNCHANGED vars PROVE HoldInv' /\ Grows
  <2>1. /\ data' = data /\ warmups' = warmups /\ pins' = pins
        /\ bus' = bus /\ sent' = sent /\ send_queue' = send_queue /\ storing' = storing
    BY <1>1 DEF vars, nodeVars
  <2>2. Numbered' /\ UsagesFixed' /\ Offered' /\ NoSegments' /\ Grows
    BY <1>1, <2>1, QuietNumbered, QuietOffered, QuietFiles DEF HoldInv
  <2> QED BY <1>1, <2>1, <2>2, QuietQueue DEF HoldInv
<1> QED BY <1>1, IngestHold, NodeHold, EventHold DEF Next

(***************************************************************************)
(* The inductive invariant of what the node holds.                         *)
(***************************************************************************)
THEOREM HoldInvariance == Spec => [](IInv /\ HoldInv)
<1>1. Init => TypeInv /\ HoldInv
  BY InitTypes, InitHold
<1>2. TypeInv /\ HoldInv /\ [Next]_vars => (TypeInv /\ HoldInv)'
  BY StepTypes, StepHold
<1> QED BY <1>1, <1>2, Invariance, PTL DEF Spec

(***************************************************************************)
(* A request waits only for a block the store has, one per usage, and      *)
(* never with a usage ahead of the block's own (behaviour.rs:115).         *)
(***************************************************************************)
THEOREM QueueSoundCorrect == Spec => []QueueSound
BY HoldInvariance, PTL DEF HoldInv

(***************************************************************************)
(* No block is forgotten, and only a segment whose bytes come again is     *)
(* renumbered, upwards (store_block, node.rs:195).                         *)
(***************************************************************************)
THEOREM BlocksNeverForgottenCorrect == Spec => BlocksNeverForgotten
<1>1. TypeInv /\ TypeInv' /\ HoldInv /\ [Next]_vars => [Grows]_vars
  BY StepHold
<1>2. Spec => []TypeInv /\ []HoldInv
  BY HoldInvariance, PTL DEF IInv
<1>3. Spec => [][Grows]_vars
  BY <1>1, <1>2, PTL DEF Spec
<1> QED BY <1>3 DEF BlocksNeverForgotten, Grows

(***************************************************************************)
(* What a pinning service is asked to pin is a player directory, and every *)
(* block under it was offered to the gateways (pin_block, node.rs:222).    *)
(* A store closed under links, each of its blocks offered, makes it so.    *)
(***************************************************************************)
THEOREM PinnedDagWarmedCorrect == Spec => []PinnedDagWarmed
<1>1. IInv /\ HoldInv => PinnedDagWarmed
  <2> SUFFICES ASSUME IInv, HoldInv, NEW s \in PinningServices, NEW c \in DOMAIN data,
                      <<s, c>> \in pins
               PROVE  /\ c[1] = "player_directory"
                      /\ \A d \in Below(Below(Below({c}))) :
                            /\ PinningGateways \X {d} \subseteq warmups
                            /\ d \notin {Segment(b) : b \in Blocks} =>
                                  PublicGateways \X {d} \subseteq warmups
    BY DEF PinnedDagWarmed
  <2>1. c[1] = "player_directory"
    BY DEF HoldInv, Offered
  <2>2. ASSUME NEW S, S \subseteq DOMAIN data PROVE Below(S) \subseteq DOMAIN data
    BY <2>2 DEF IInv, FlowInv, DagClosed, Below
  <2>3. Below(Below(Below({c}))) \subseteq DOMAIN data
    BY <2>2
  <2>4. ASSUME NEW d \in DOMAIN data
        PROVE  /\ PinningGateways \X {d} \subseteq warmups
               /\ d \notin {Segment(b) : b \in Blocks} => PublicGateways \X {d} \subseteq warmups
    <3>1. WarmupsOf(d) \subseteq warmups /\ d \in Cid
      BY DEF HoldInv, Offered, IInv, TypeInv, TypeOK
    <3>2. d \notin {Segment(b) : b \in Blocks} => d[1] # "segment"
      BY <3>1, SegmentKind DEF Cid, DistBlocks, PlayerDirectory
    <3> QED BY <3>1, <3>2 DEF WarmupsOf
  <2> QED BY <2>1, <2>3, <2>4
<1> QED BY <1>1, HoldInvariance, PTL
-----------------------------------------------------------------------------
(***************************************************************************)
(* What one step does for the two liveness properties.  That the node is   *)
(* polled again and again turns these into WaitsOnlyForUrgent and          *)
(* FinalPublished, and TLC checks that part.                               *)
(***************************************************************************)
First(u) == \A q \in send_queue : ~ MoreUrgent(q.usage, u)

LeastUsageLeaves ==
    \A u \in Usage :
        Waiting(u) =>
            /\ ~ Waiting(u)' => NodePoll /\ First(u)
            /\ pc = "idle" /\ NodePoll /\ First(u) => ~ Waiting(u)'

LEMMA UsagesCompare ==
    \A u, v \in Usage : ~ MoreUrgent(u, v) /\ ~ MoreUrgent(v, u) => u = v
BY PipelineAssumption DEF Usage, MoreUrgent

\* One request leaves the queue in a poll that starts with some waiting.
LEMMA SendLeaves ==
    ASSUME TypeInv, QueueSound, SendWanted, NEW u \in Usage, Waiting(u)
    PROVE  ~ Waiting(u)' <=> First(u)
<1>1. PICK r \in send_queue : next_send(r) /\ send_queue' = send_queue \ {r}
  BY DEF SendWanted
<1>2. PICK r0 \in send_queue : r0.usage = u
  BY DEF Waiting
<1>3. \A q \in send_queue : q.usage = u => q = r0
  BY <1>2 DEF QueueSound
<1>4. ~ Waiting(u)' <=> r = r0
  BY <1>1, <1>2, <1>3 DEF Waiting
<1>5. r.usage \in Usage
  BY DEF TypeInv, TypeOK, Request
<1>6. r = r0 => First(u)
  BY <1>1, <1>2 DEF next_send, First
<1>7. First(u) => r = r0
  <2>1. ~ MoreUrgent(u, r.usage)
    BY <1>1, <1>2 DEF next_send
  <2>2. First(u) => ~ MoreUrgent(r.usage, u)
    BY DEF First
  <2>3. First(u) => r.usage = u
    BY <1>5, <2>1, <2>2, UsagesCompare
  <2> QED BY <1>3, <2>3
<1> QED BY <1>4, <1>6, <1>7

(***************************************************************************)
(* A waiting usage leaves the queue only in a poll, only when nothing more *)
(* urgent waits, and then it does leave: no want, no new block and no      *)
(* renumbering takes its turn away (next_send, storage.rs:29-63).          *)
(***************************************************************************)
THEOREM LeastUsageLeavesCorrect == Spec => [][LeastUsageLeaves]_vars
<1>1. ASSUME TypeInv, QueueSound, Next PROVE LeastUsageLeaves
  <2> SUFFICES ASSUME NEW u \in Usage, Waiting(u)
               PROVE  /\ ~ Waiting(u)' => NodePoll /\ First(u)
                      /\ pc = "idle" /\ NodePoll /\ First(u) => ~ Waiting(u)'
    BY DEF LeastUsageLeaves
  <2>1. send_queue \subseteq send_queue' => Waiting(u)'
    BY DEF Waiting
  <2>2. Ingest \/ NodeEvent => send_queue \subseteq send_queue'
    BY DEF Ingest, NodeEvent, SwarmEvent, Want, Identify, AddProvider, Connect, Disconnect
  <2>3. NodePoll /\ ~ SendWanted => send_queue' = send_queue
    BY DEF NodePoll, Poll, NothingToSend, ReceiveBlock, PublishContainer, StoreFile,
           ContainerTooLong, PrintFails, DropContainer, BusDrained, PollPending
  <2>4. SendWanted => (~ Waiting(u)' <=> First(u))
    BY <1>1, SendLeaves
  <2>5. pc = "idle" /\ NodePoll => SendWanted
    BY DEF NodePoll, Poll, NothingToSend, ReceiveBlock, PublishContainer, StoreFile,
           ContainerTooLong, PrintFails, DropContainer, BusDrained, PollPending, Waiting
  <2>6. ~ Waiting(u)' => NodePoll /\ SendWanted
    BY <1>1, <2>1, <2>2, <2>3 DEF Next
  <2> QED BY <2>4, <2>5, <2>6
<1>2. TypeInv /\ QueueSound /\ [Next]_vars => [LeastUsageLeaves]_vars
  BY <1>1
<1>3. IInv /\ HoldInv => TypeInv /\ QueueSound
  BY DEF IInv, HoldInv
<1> QED BY <1>2, <1>3, HoldInvariance, PTL DEF Spec
-----------------------------------------------------------------------------
\* A source that ended well sends nothing more, and its last update is the
\* container of the whole stream.
Ended ==
    source = "done" =>
        /\ ~ publishing
        /\ bus # <<>> => bus[Len(bus)] = Source!ContainerUpdate

\* The final container is under way, or its files are: polls left until its
\* directory is stored.
OwedFile(i) == storing[i] = VideoDirectory(sent)
Owed ==
    /\ source = "done" /\ CanConfigurePlayer /\ pc # "panicked"
    /\ bus # <<>> \/ \E i \in 1 .. Len(storing) : OwedFile(i)
Distance ==
    5 * Len(bus) + Len(storing)
        + (CASE pc = "drain" -> 1 [] pc = "idle" -> 2 [] OTHER -> 3)

Approaches ==
    Owed =>
        \/ Whole' \/ pc' = "panicked"
        \/ Owed' /\ Distance' <= Distance /\ (NodePoll => Distance' < Distance)

LEMMA EndedNext == TypeInv /\ Ended /\ [Next]_vars => Ended'
<1> SUFFICES ASSUME TypeInv, Ended, [Next]_vars PROVE Ended'
  OBVIOUS
<1>1. bus \in Seq(Update)
  BY DEF TypeInv, StreamTypeOK
<1>2. CASE bus' = bus /\ sent' = sent /\ source' = source /\ publishing' = publishing
  BY <1>2 DEF Ended, Source!ContainerUpdate
<1>3. CASE /\ bus # <<>> /\ bus' = Tail(bus)
           /\ sent' = sent /\ source' = source /\ publishing' = publishing
  <2>1. /\ Len(bus) \in Nat /\ Len(Tail(bus)) = Len(bus) - 1
        /\ \A i \in 1 .. Len(Tail(bus)) : Tail(bus)[i] = bus[i + 1]
        /\ Tail(bus) \in Seq(Update)
    BY <1>1, <1>3, BusTail
  <2>2. bus' # <<>> => bus'[Len(bus')] = bus[Len(bus)]
    BY <1>3, <2>1
  <2> QED BY <1>3, <2>2 DEF Ended, Source!ContainerUpdate
<1>4. CASE Ingest
  <2>1. ASSUME NEW b \in Blocks, Source!SendBlock(b) PROVE source' # "done"
    BY <2>1 DEF Source!SendBlock
  <2>2. CASE Source!SendContainer \/ Source!NotDue
    <3>1. source # "done" /\ source' = source
      BY <2>2 DEF Source!SendContainer, Source!NotDue, Ended
    <3> QED BY <3>1 DEF Ended
  <2>3. CASE Source!Finish
    <3>1. bus'[Len(bus')] = Source!ContainerUpdate
      BY <1>1, <2>3, BusAppend DEF Source!Finish
    <3> QED BY <2>3, <3>1 DEF Source!Finish, Ended, Source!ContainerUpdate
  <2>4. CASE Source!Fail
    BY <2>4 DEF Source!Fail, Ended
  <2> QED BY <1>4, <2>1, <2>2, <2>3, <2>4 DEF Ingest, Source!Produce, Ended
<1>5. NodePoll => \/ bus' = bus /\ sent' = sent /\ source' = source /\ publishing' = publishing
                  \/ /\ bus # <<>> /\ bus' = Tail(bus)
                     /\ sent' = sent /\ source' = source /\ publishing' = publishing
  BY DEF NodePoll, Poll, NothingToSend, SendWanted, ReceiveBlock, PublishContainer, StoreFile,
         ContainerTooLong, PrintFails, DropContainer, BusDrained, PollPending
<1>6. NodeEvent \/ UNCHANGED vars =>
         bus' = bus /\ sent' = sent /\ source' = source /\ publishing' = publishing
  BY DEF vars, nodeVars, NodeEvent, SwarmEvent, Want, Identify, AddProvider, Connect, Disconnect
<1> QED BY <1>2, <1>3, <1>4, <1>5, <1>6 DEF Next

(***************************************************************************)
(* After a stream that ended well nothing is added to the bus, and as long *)
(* as it holds anything it ends with the final container (ingest.rs:226).  *)
(***************************************************************************)
THEOREM EndedCorrect == Spec => []Ended
<1>1. Init => Ended
  BY DEF Init, Source!Init, Ended
<1> QED BY <1>1, InitTypes, StepTypes, EndedNext, PTL DEF Spec

\* A poll that takes an update brings the last one nearer, or starts on it.
LEMMA TakeApproaches ==
    ASSUME TypeInv, Ended, Owed, ReceiveBlock \/ PublishContainer,
           sent' = sent, source' = source
    PROVE  pc' = "panicked" \/ (Owed' /\ Distance' < Distance)
<1>1. bus \in Seq(Update)
  BY DEF TypeInv, StreamTypeOK
<1>2. /\ bus # <<>> /\ bus' = Tail(bus) /\ pc = "drain" /\ known' = known /\ storing = <<>>
      /\ pc' = pc \/ pc' = "panicked"
  BY DEF ReceiveBlock, PublishContainer, StoreBlock
<1>3. /\ Len(bus) \in Nat /\ Len(bus) > 0 /\ Len(Tail(bus)) = Len(bus) - 1
      /\ Head(bus) = bus[1] /\ Tail(bus) \in Seq(Update)
  BY <1>1, <1>2, BusTail
<1>4. Len(storing') \in 0 .. 4
  BY <1>2 DEF ReceiveBlock, PublishContainer, Files
<1>5. pc' = pc => Distance' < Distance
  <2> SUFFICES ASSUME pc' = pc PROVE Distance' < Distance
    OBVIOUS
  <2> DEFINE n == Len(bus)
             k == Len(storing')
  <2>1. Distance = 5 * n + 1 /\ Distance' = 5 * (n - 1) + k + 1
    BY <1>2, <1>3, <1>4 DEF Distance
  <2>2. n \in Nat /\ k \in 0 .. 4
    BY <1>3, <1>4
  <2> HIDE DEF n, k
  <2>3. 5 * (n - 1) + k + 1 < 5 * n + 1
    BY <2>2
  <2> QED BY <2>1, <2>3
<1>6. CanConfigurePlayer' /\ source' = "done"
  BY <1>2 DEF Owed, CanConfigurePlayer
<1>7. CASE Len(bus) # 1
  <2>1. Len(bus') = Len(bus) - 1 /\ Len(bus') # 0
    BY <1>2, <1>3, <1>7
  <2>2. bus' # <<>>
    BY <2>1
  <2> QED BY <1>2, <1>5, <1>6, <2>2 DEF Owed
<1>8. CASE Len(bus) = 1
  <2>1. Head(bus) = [type |-> "Container", blocks |-> sent]
    BY <1>2, <1>3, <1>8 DEF Ended, Owed, Source!ContainerUpdate
  <2>2. PublishContainer
    BY <2>1 DEF ReceiveBlock
  <2>3. PICK gateway \in PlayerGateways : storing' = Files(sent, gateway)
    BY <2>1, <2>2 DEF PublishContainer
  <2>4. 2 \in 1 .. Len(storing') /\ storing'[2] = VideoDirectory(sent)
    BY <2>3 DEF Files
  <2>5. OwedFile(2)'
    BY <2>4 DEF OwedFile, VideoDirectory
  <2> QED BY <1>2, <1>5, <1>6, <2>4, <2>5 DEF Owed
<1> QED BY <1>7, <1>8

\* A poll that stores a file stores the directory, or brings it nearer.
LEMMA StoreApproaches ==
    ASSUME TypeInv, Owed, StoreFile, sent' = sent, source' = source
    PROVE  Whole' \/ pc' = "panicked" \/ (Owed' /\ Distance' < Distance)
<1> DEFINE c == Head(storing)
<1>1. /\ storing # <<>> /\ storing' = Tail(storing) /\ bus' = bus /\ known' = known
      /\ StoreBlock(c, UsageOf(c))
  BY DEF StoreFile
<1>2. /\ Len(storing) \in Nat /\ Len(storing) > 0 /\ c = storing[1]
      /\ Len(storing') = Len(storing) - 1
      /\ \A i \in 1 .. Len(storing') : storing'[i] = storing[i + 1]
  BY <1>1, BusTail DEF TypeInv, TypeOK
<1>3. pc' = "panicked" \/ (pc' = pc /\ DOMAIN data' = DOMAIN data \cup {c})
  BY <1>1, Stored
<1>4. Len(bus) \in Nat
  BY DEF TypeInv, StreamTypeOK
<1>5. pc' = pc => Distance' < Distance
  BY <1>1, <1>2, <1>4 DEF Distance
<1>6. CanConfigurePlayer' /\ source' = "done" /\ VideoDirectory(sent') = VideoDirectory(sent)
  BY <1>1 DEF Owed, CanConfigurePlayer
<1>7. CASE bus # <<>> /\ pc' = pc
  BY <1>1, <1>5, <1>6, <1>7 DEF Owed
<1>8. CASE bus = <<>> /\ pc' = pc
  <2>1. PICK i \in 1 .. Len(storing) : storing[i] = VideoDirectory(sent)
    BY <1>8 DEF Owed, OwedFile
  <2>2. CASE i = 1
    <3>1. VideoDirectory(sent) \in DOMAIN data'
      <4>1. DOMAIN data' = DOMAIN data \cup {c} /\ c = VideoDirectory(sent)
        <5>1. "panicked" # pc
          BY DEF Owed
        <5> QED BY <1>2, <1>3, <1>8, <2>1, <2>2, <5>1
      <4> HIDE DEF c
      <4> QED BY <4>1
    <3> QED BY <1>6, <3>1 DEF Whole
  <2>3. CASE i # 1
    <3>1. i - 1 \in 1 .. Len(storing') /\ storing'[i - 1] = VideoDirectory(sent')
      BY <1>2, <1>6, <2>1, <2>3
    <3>2. OwedFile(i - 1)'
      BY <3>1 DEF OwedFile
    <3> QED BY <1>5, <1>6, <1>8, <3>1, <3>2 DEF Owed
  <2> QED BY <2>2, <2>3
<1> QED BY <1>3, <1>7, <1>8

LEMMA PollApproaches ==
    ASSUME TypeInv, Ended, Owed, NodePoll
    PROVE  Whole' \/ pc' = "panicked" \/ (Owed' /\ Distance' < Distance)
<1>1. sent' = sent /\ source' = source
  BY DEF NodePoll
<1>2. CASE ReceiveBlock \/ PublishContainer
  BY <1>1, <1>2, TakeApproaches
<1>3. CASE ContainerTooLong \/ PrintFails
  BY <1>3 DEF ContainerTooLong, PrintFails
<1>4. CASE DropContainer \/ BusDrained
  BY <1>4 DEF DropContainer, BusDrained, Owed
<1>5. CASE StoreFile
  BY <1>1, <1>5, StoreApproaches
<1>6. CASE NothingToSend \/ SendWanted \/ PollPending
  <2>1. /\ bus' = bus /\ known' = known /\ storing' = storing
        /\ \/ pc = "idle" /\ pc' \in {"drain", "panicked"}
           \/ pc = "network" /\ pc' = "idle"
    BY <1>6 DEF NothingToSend, SendWanted, PollPending
  <2>2. Len(bus) \in Nat /\ Len(storing) \in Nat
    BY DEF TypeInv, StreamTypeOK, TypeOK
  <2>3. pc' # "panicked" => Distance' < Distance
    BY <2>1, <2>2 DEF Distance
  <2>4. pc' # "panicked" => Owed'
    BY <1>1, <2>1 DEF Owed, OwedFile, CanConfigurePlayer
  <2> QED BY <2>3, <2>4
<1> QED BY <1>2, <1>3, <1>4, <1>5, <1>6 DEF NodePoll, Poll

(***************************************************************************)
(* Once the stream has ended well and a player can be configured, every    *)
(* poll brings the final container nearer to being published and nothing   *)
(* that happens between polls puts it off, until it is published or the    *)
(* process panics (media_update_received, node.rs:131-164).                *)
(***************************************************************************)
THEOREM FinalApproaches == Spec => [][Approaches]_vars
<1>1. ASSUME TypeInv, Ended, Next PROVE Approaches
  <2> SUFFICES ASSUME Owed
               PROVE  \/ Whole' \/ pc' = "panicked"
                      \/ /\ Owed' /\ Distance' <= Distance
                         /\ NodePoll => Distance' < Distance
    BY DEF Approaches
  <2>1. ~ Ingest
    BY <1>1 DEF Owed, Ended, Ingest, Source!Produce, Source!SendBlock, Source!SendContainer,
                Source!NotDue, Source!Finish, Source!Fail
  <2>2. Len(bus) \in Nat /\ Len(storing) \in Nat
    BY <1>1 DEF TypeInv, StreamTypeOK, TypeOK
  <2>3. Distance \in Int
    BY <2>2 DEF Distance
  <2>4. CASE NodePoll
    <3>1. bus' \in Seq(Update) /\ storing' \in Seq(Cid)
      BY <1>1, StepTypes DEF TypeInv, StreamTypeOK, TypeOK
    <3>2. Len(bus') \in Nat /\ Len(storing') \in Nat
      BY <3>1
    <3>3. Distance' \in Int
      BY <3>2 DEF Distance
    <3>4. Whole' \/ pc' = "panicked" \/ (Owed' /\ Distance' < Distance)
      BY <1>1, <2>4, PollApproaches
    <3> QED BY <2>3, <3>3, <3>4
  <2>5. CASE NodeEvent /\ ~ NodePoll
    <3>1. /\ bus' = bus /\ source' = source /\ pc' = pc /\ known \subseteq known'
          /\ storing' = storing /\ sent' = sent
      BY <2>5 DEF NodeEvent, SwarmEvent, Want, Identify, AddProvider, Connect, Disconnect
    <3>2. Owed' /\ Distance' = Distance
      BY <3>1 DEF Owed, OwedFile, Distance, CanConfigurePlayer
    <3> QED BY <2>3, <2>5, <3>2
  <2> QED BY <1>1, <2>1, <2>4, <2>5 DEF Next
<1>2. TypeInv /\ Ended /\ [Next]_vars => [Approaches]_vars
  BY <1>1
<1>3. Spec => []TypeInv
  BY Invariance, PTL DEF IInv
<1> QED BY <1>2, <1>3, EndedCorrect, PTL DEF Spec
=============================================================================
