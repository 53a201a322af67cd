------------------------------- MODULE Wants -------------------------------
(***************************************************************************)
(* Pipeline with a history of the wants that reached the node and were not *)
(* answered yet.  The code keeps no such record: what it knows of a want   *)
(* is the request in its send queue, if there is one.                      *)
(***************************************************************************)
EXTENDS Pipeline

VARIABLE
    asked       \* <<peer, cid>>: a want for a stored block, not answered yet

wantsVars == <<vars, asked>>

WantsInit == Init /\ asked = {}

\* inject_event(BitswapEvent::ReceivedWant)
ReceivedWant(peer, cid) ==
    /\ Want(peer, cid)
    /\ asked' = IF cid \in DOMAIN data THEN asked \cup {<<peer, cid>>} ELSE asked
    /\ UNCHANGED <<sent, source, publishing>>

OtherEvent == SwarmEvent({}) /\ UNCHANGED <<sent, source, publishing>>

\* A request that leaves the queue answers the want it was queued for.
Answered == {<<r.peer, r.cid>> : r \in send_queue \ send_queue'}

WantsNext ==
    \/ \E peer \in Peers, cid \in Wantable : ReceivedWant(peer, cid)
    \/ (Ingest \/ NodePoll \/ OtherEvent) /\ asked' = asked \ Answered

WantsSpec == WantsInit /\ [][WantsNext]_wantsVars

(***************************************************************************)
(* "Ignore blocks we don't have, sort blocks we do by their BlockUsage,    *)
(* and dedupe" (behaviour.rs:115): only a want that was made before is     *)
(* dropped, so for each want of a peer a request of that peer for that     *)
(* block waits until it is answered.                                       *)
(***************************************************************************)
WantsQueued ==
    \A want \in asked : \E r \in send_queue : <<r.peer, r.cid>> = want
=============================================================================
