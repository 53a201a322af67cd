---------------------------- MODULE MediaSource ----------------------------
(***************************************************************************)
(* What the ingest thread promises the node over the media update bus, the *)
(* bounded channel of media/src/lib.rs: blocks arrive numbered in order, a *)
(* container lists exactly the blocks sent before it and comes right after *)
(* one of them, and only a source that ends well sends a last container.   *)
(* Ingest implements this; Pipeline composes it with the node.             *)
(***************************************************************************)
EXTENDS Naturals, Sequences

CONSTANTS
    Blocks,         \* the contents a video block may have
    BusCapacity,    \* capacity of the channel, 32 in the code
    MaxBlocks       \* bound: blocks one source sends

VARIABLES
    bus,        \* the channel of MediaUpdates
    sent,       \* the blocks sent so far, in order
    source,     \* "live", then "done" (ended well) or "failed" (panicked)
    publishing  \* a block was sent that a container may follow

vars == <<bus, sent, source, publishing>>

BusHasRoom == Len(bus) < BusCapacity

\* Mutants: the number counts what waits; the container is a sliding window.
BlockUpdateInBus(b) == [type |-> "Block", block |-> b, sequence |-> Len(bus)]
ContainerUpdateWindow ==
    [type |-> "Container", blocks |-> IF Len(sent) > 1 THEN Tail(sent) ELSE sent]

BlockUpdate(b) == [type |-> "Block", block |-> b, sequence |-> Len(sent)]
ContainerUpdate == [type |-> "Container", blocks |-> sent]

Init ==
    /\ bus = <<>>
    /\ sent = <<>>
    /\ source = "live"
    /\ publishing = FALSE

\* Mutant: a block that finds the bus full is dropped.
SendBlockOrDrop(b) ==
    /\ source = "live" /\ ~ publishing
    /\ Len(sent) < MaxBlocks
    /\ bus' = IF BusHasRoom THEN Append(bus, BlockUpdate(b)) ELSE bus
    /\ sent' = Append(sent, b)
    /\ publishing' \in BOOLEAN
    /\ UNCHANGED source

SendBlock(b) ==
    /\ source = "live" /\ ~ publishing
    /\ BusHasRoom
    /\ Len(sent) < MaxBlocks
    /\ bus' = Append(bus, BlockUpdate(b))
    /\ sent' = Append(sent, b)
    /\ publishing' \in BOOLEAN
    /\ UNCHANGED source

\* A periodic container.
SendContainer ==
    /\ publishing
    /\ BusHasRoom
    /\ bus' = Append(bus, ContainerUpdate)
    /\ publishing' = FALSE
    /\ UNCHANGED <<sent, source>>

NotDue ==
    /\ publishing
    /\ publishing' = FALSE
    /\ UNCHANGED <<bus, sent, source>>

\* Mutant: the source ends without its final container.
FinishSilently ==
    /\ source = "live" /\ ~ publishing
    /\ source' = "done"
    /\ UNCHANGED <<bus, sent, publishing>>

\* The final container, which may be empty.
Finish ==
    /\ source = "live" /\ ~ publishing
    /\ BusHasRoom
    /\ bus' = Append(bus, ContainerUpdate)
    /\ source' = "done"
    /\ UNCHANGED <<sent, publishing>>

\* The ingest thread panics and sends no final container.
Fail ==
    /\ source = "live" /\ ~ publishing
    /\ source' = "failed"
    /\ UNCHANGED <<bus, sent, publishing>>

Produce == (\E b \in Blocks : SendBlock(b)) \/ SendContainer \/ NotDue \/ Finish \/ Fail

\* The node takes the oldest update.
Receive ==
    /\ bus # <<>>
    /\ bus' = Tail(bus)
    /\ UNCHANGED <<sent, source, publishing>>

Next == Produce \/ Receive

Spec == Init /\ [][Next]_vars
=============================================================================
