------------------------------ MODULE Pipeline ------------------------------
(***************************************************************************)
(* The node fed by an ingest thread, as main.rs starts them: Node composed *)
(* with MediaSource over the bus they share.  A panic of the ingest thread *)
(* leaves the node running; a panic of the node ends the process.          *)
(***************************************************************************)
EXTENDS Node, SequencesExt

CONSTANTS
    Blocks,         \* the contents a video block may have
    BusCapacity,    \* capacity of the bus, 32 in the code
    MaxBlocks       \* bound: blocks one source sends

ASSUME PipelineAssumption == BusCapacity \in Nat \ {0} /\ MaxBlocks \in Nat

VARIABLES
    sent,           \* the blocks sent so far, in order
    source,         \* "live", "done" or "failed"
    publishing      \* a block was sent that a container may follow

Source == INSTANCE MediaSource

vars == <<nodeVars, sent, source, publishing>>

Init == Source!Init /\ NodeInit

\* The ingest thread runs beside the node, until the process ends.
Ingest ==
    /\ pc # "panicked"
    /\ Source!Produce
    /\ UNCHANGED <<pc, data, send_queue, known, remote_keys, connected, warmups, pins, storing>>

NodePoll == Poll /\ UNCHANGED <<sent, source, publishing>>

\* Peers may want a block before the node has stored it.
Wantable == DOMAIN data \cup SegmentsOf(sent)
NodeEvent == SwarmEvent(Wantable) /\ UNCHANGED <<sent, source, publishing>>

Next == Ingest \/ NodePoll \/ NodeEvent

Spec == Init /\ [][Next]_vars

\* The node is polled again and again: gossipsub's heartbeat wakes it when
\* nothing else does, and the swarm blocks eventually.  Nothing is assumed
\* of the ingest thread, of ffmpeg or of the peers.
FairSpec == Spec /\ WF_vars(NodePoll)
-----------------------------------------------------------------------------
Containers == UNION {[1 .. n -> Blocks] : n \in 0 .. MaxBlocks}
Addrs == RouterAddrs \cup OtherAddrs
Cid == DistBlocks \cup {Segment(b) : b \in Blocks}
       \cup {Playlist(mc) : mc \in Containers} \cup {VideoDirectory(mc) : mc \in Containers}
       \cup {Html(mc, g, a) : mc \in Containers, g \in PlayerGateways, a \in SUBSET Addrs}
       \cup {PlayerDirectory(mc, g, a) :
                mc \in Containers, g \in PlayerGateways, a \in SUBSET Addrs}
Usage == (0 .. 5) \X (0 .. MaxBlocks)
Request == [usage : Usage, cid : Cid, peer : Peers]

TypeOK ==
    /\ pc \in {"idle", "drain", "network", "panicked"}
    /\ DOMAIN data \subseteq Cid /\ \A c \in DOMAIN data : data[c] \in Usage
    /\ send_queue \subseteq Request
    /\ known \subseteq Addrs
    /\ remote_keys \in 0 .. MaxRemoteKeys
    /\ connected \subseteq Peers
    /\ warmups \subseteq (PinningGateways \cup PublicGateways) \X Cid
    /\ pins \subseteq PinningServices \X Cid
    /\ storing \in Seq(Cid) /\ Len(storing) <= 4
    /\ storing # <<>> => pc \in {"drain", "panicked"}

(***************************************************************************)
(* A block is stored only when every block it names is stored: whoever     *)
(* follows links from a player the node has shown, from a pin, or from a   *)
(* directory a peer was sent, never meets a block the node lacks.  It      *)
(* rests on the ingest thread sending a block before any container that    *)
(* lists it, on the bus keeping that order across two threads, and on the  *)
(* node storing its script before it polls.                                *)
(***************************************************************************)
DagClosed == \A c \in DOMAIN data : Links(c) \subseteq DOMAIN data

(***************************************************************************)
(* "Only pin the top-most object" (node.rs:225): a pin is asked for a      *)
(* player directory alone, and by then every block under it has been       *)
(* offered to every gateway that pins, and every block but video to every  *)
(* public gateway.                                                         *)
(***************************************************************************)
Below(cids) == cids \cup UNION {Links(c) : c \in cids}
PinnedDagWarmed ==
    \A s \in PinningServices : \A c \in DOMAIN data :
        <<s, c>> \in pins =>
            /\ c[1] = "player_directory"
            /\ \A d \in Below(Below(Below({c}))) :
                /\ PinningGateways \X {d} \subseteq warmups
                /\ d \notin {Segment(b) : b \in Blocks} =>
                      PublicGateways \X {d} \subseteq warmups

(***************************************************************************)
(* Every directory the node has published is a prefix of the stream the    *)
(* ingest thread made, however the two threads interleave and whatever     *)
(* containers were dropped.  A stream that fails, or whose last container  *)
(* is dropped, leaves a shorter prefix; DagClosed says it has no holes.    *)
(***************************************************************************)
PublishedArePrefixes ==
    \A c \in DOMAIN data : c[1] = "video_directory" => IsPrefix(c[2], sent)

(***************************************************************************)
(* A request waits only for a block the store has, and at most one waits   *)
(* per usage; its usage may be out of date when the same bytes were        *)
(* ingested again, but never ahead of the usage the block has now.         *)
(***************************************************************************)
QueueSound ==
    /\ \A r \in send_queue : r.cid \in DOMAIN data /\ ~ MoreUrgent(data[r.cid], r.usage)
    /\ \A q, r \in send_queue : q.usage = r.usage => q = r

(***************************************************************************)
(* No block is ever forgotten, and a block's usage never becomes more      *)
(* urgent: only a segment whose bytes come again is renumbered, upwards.   *)
(***************************************************************************)
BlocksNeverForgotten ==
    [][\A c \in DOMAIN data :
        /\ c \in DOMAIN data'
        /\ data'[c] # data[c] => c[1] = "segment" /\ MoreUrgent(data[c], data'[c])]_vars

(***************************************************************************)
(* When the stream ends well, and a player can be configured by then, the  *)
(* whole stream is published, however many periodic containers came first. *)
(***************************************************************************)
Whole == VideoDirectory(sent) \in DOMAIN data
FinalPublished ==
    source = "done" /\ bus # <<>> /\ CanConfigurePlayer ~> Whole \/ pc = "panicked"

(***************************************************************************)
(* A request waits forever only if more urgent ones are waiting again and  *)
(* again: one block leaves the queue per poll, least usage first.          *)
(***************************************************************************)
Waiting(u) == \E r \in send_queue : r.usage = u
WaitsOnlyForUrgent ==
    \A u \in Usage :
        <>[] (pc # "panicked" /\ Waiting(u)) =>
            []<> (\E q \in send_queue : MoreUrgent(q.usage, u))
=============================================================================
