------------------------------- MODULE Pinner -------------------------------
(***************************************************************************)
(* The pinner, network/src/pinner.rs.  The node offers a pin with          *)
(* try_send; a pool of tasks takes pins from a bounded FIFO channel and    *)
(* posts each to its service once, whatever comes of it.                   *)
(*                                                                         *)
(* A pin of the model is one offer, as a URL is in Warmer.  A task panics  *)
(* on a pin whose service address cannot be joined with "pins"; task()     *)
(* awaits the first pool task, and when that one has panicked the thread   *)
(* unwinds, and takes the runtime and every other task with it.            *)
(***************************************************************************)
EXTENDS Naturals, Sequences, FiniteSets

CONSTANTS
    Pins,           \* the offers the node will make
    BadPins,        \* those to a service whose address cannot be joined
    Workers,        \* the pool tasks, 0..POOL_SIZE-1 in the code
    Awaited,        \* the pool task that task() awaits first, 0 in the code
    QUEUE_SIZE,     \* capacity of the channel, 100 in the code
    NoPin           \* what a task holds between two pins

ASSUME PinnerAssumption ==
    /\ BadPins \subseteq Pins /\ IsFiniteSet(BadPins)
    /\ Awaited \in Workers /\ IsFiniteSet(Workers)
    /\ QUEUE_SIZE \in Nat \ {0}
    /\ NoPin \notin Pins

VARIABLES
    queue,      \* the channel: a sequence of pins
    pc,         \* pc[w]: "recv", "request", "post" (request in flight) or "gone"
    held,       \* held[w]: the pin task w took and has not settled, or NoPin
    outcome,    \* outcome[p]: "none" until p is dropped, loaded or failed
    requests,   \* requests[p]: requests made for p
    lost,       \* pins a task took and that ended with it
    accepted    \* the pins the channel took, in order

vars == <<queue, pc, held, outcome, requests, lost, accepted>>

-----------------------------------------------------------------------------
HasRoom == Len(queue) < QUEUE_SIZE

Queued(p) == \E i \in 1 .. Len(queue) : queue[i] = p
Held(p) == \E w \in Workers : held[w] = p
Accepted(p) == \E i \in 1 .. Len(accepted) : accepted[i] = p

\* Offers that were never made.
Fresh(p) == outcome[p] = "none" /\ ~ Accepted(p)

Init ==
    /\ queue = <<>> /\ accepted = <<>>
    /\ pc = [w \in Workers |-> "recv"]
    /\ held = [w \in Workers |-> NoPin]
    /\ outcome = [p \in Pins |-> "none"]
    /\ requests = [p \in Pins |-> 0]
    /\ lost = {}

\* Pinner::send, called by the node: a full channel drops the pin.  The node
\* holds both ends of the channel, so it is never disconnected.
Send(p) ==
    /\ Fresh(p)
    /\ IF HasRoom
       THEN /\ queue' = Append(queue, p)
            /\ accepted' = Append(accepted, p)
            /\ UNCHANGED outcome
       ELSE /\ outcome' = [outcome EXCEPT ![p] = "dropped"]
            /\ UNCHANGED <<queue, accepted>>
    /\ UNCHANGED <<pc, held, requests, lost>>

\* pool_task: receiver.recv() delivers a pin to the task.
Recv(w) ==
    /\ pc[w] = "recv"
    /\ queue # <<>> /\ Head(queue) \notin BadPins
    /\ held' = [held EXCEPT ![w] = Head(queue)]
    /\ queue' = Tail(queue)
    /\ pc' = [pc EXCEPT ![w] = "request"]
    /\ UNCHANGED <<outcome, requests, lost, accepted>>

\* client.post(..).send(): the request leaves, once the address is resolved
\* and the connection made, while the other tasks run on.  One that fails
\* before it leaves counts as made.
Request(w) ==
    /\ pc[w] = "request"
    /\ requests' = [requests EXCEPT ![held[w]] = @ + 1]
    /\ pc' = [pc EXCEPT ![w] = "post"]
    /\ UNCHANGED <<queue, held, outcome, lost, accepted>>

\* item.api.join("pins").unwrap() fails: the task panics with its pin.
RecvBad(w) ==
    /\ pc[w] = "recv"
    /\ queue # <<>> /\ Head(queue) \in BadPins
    /\ queue' = Tail(queue)
    /\ lost' = lost \cup {Head(queue)}
    /\ pc' = [pc EXCEPT ![w] = "gone"]
    /\ UNCHANGED <<held, outcome, requests, accepted>>

\* Mutant: a request that fails is unwrapped, and panics its task.
PostErrPanics(w) ==
    /\ pc[w] = "post"
    /\ lost' = lost \cup {held[w]}
    /\ held' = [held EXCEPT ![w] = NoPin]
    /\ pc' = [pc EXCEPT ![w] = "gone"]
    /\ UNCHANGED <<queue, outcome, requests, accepted>>

\* Mutant: a request that fails is made again at once.
PostErrRetries(w) ==
    /\ pc[w] = "post"
    /\ requests' = [requests EXCEPT ![held[w]] = @ + 1]
    /\ UNCHANGED <<queue, pc, held, outcome, lost, accepted>>

\* Mutant: a failed pin goes back to the channel and starts afresh.
PostErrRequeues(w) ==
    /\ pc[w] = "post" /\ HasRoom
    /\ queue' = Append(queue, held[w])
    /\ requests' = [requests EXCEPT ![held[w]] = 0]
    /\ held' = [held EXCEPT ![w] = NoPin]
    /\ pc' = [pc EXCEPT ![w] = "recv"]
    /\ UNCHANGED <<outcome, lost, accepted>>

\* The service answers with a pin status, or the request fails: an error, a
\* timeout, or an answer that does not parse.  Neither is looked at.
Post(w, result) ==
    /\ pc[w] = "post"
    /\ outcome' = [outcome EXCEPT ![held[w]] = result]
    /\ held' = [held EXCEPT ![w] = NoPin]
    /\ pc' = [pc EXCEPT ![w] = "recv"]
    /\ UNCHANGED <<queue, requests, lost, accepted>>
PostOk(w) == Post(w, "loaded")
PostErr(w) == Post(w, "failed")

\* task.await.unwrap() of a pool task that panicked: the thread unwinds and
\* its runtime drops every task, with the request it was making.
PoolEnds ==
    /\ pc[Awaited] = "gone"
    /\ \E w \in Workers : pc[w] # "gone"
    /\ lost' = lost \cup {held[w] : w \in {v \in Workers : pc[v] \in {"request", "post"}}}
    /\ pc' = [w \in Workers |-> "gone"]
    /\ held' = [w \in Workers |-> NoPin]
    /\ UNCHANGED <<queue, outcome, requests, accepted>>

PoolTask(w) == Recv(w) \/ RecvBad(w) \/ Request(w) \/ PostOk(w) \/ PostErr(w)

Next ==
    \/ \E p \in Pins : Send(p)
    \/ \E w \in Workers : Recv(w)
    \/ \E w \in Workers : RecvBad(w)
    \/ \E w \in Workers : Request(w)
    \/ \E w \in Workers : PostOk(w)
    \/ \E w \in Workers : PostErr(w)
    \/ PoolEnds

Spec == Init /\ [][Next]_vars

\* Every pool task keeps running until it panics, and the client's timeout
\* bounds each request.
FairSpec == Spec /\ \A w \in Workers : WF_vars(PoolTask(w))
-----------------------------------------------------------------------------
TypeOK ==
    /\ queue \in Seq(Pins) /\ Len(queue) <= QUEUE_SIZE
    /\ accepted \in Seq(Pins)
    /\ pc \in [Workers -> {"recv", "request", "post", "gone"}]
    /\ held \in [Workers -> Pins \cup {NoPin}]
    /\ \A w \in Workers : held[w] # NoPin <=> pc[w] \in {"request", "post"}
    /\ outcome \in [Pins -> {"none", "dropped", "loaded", "failed"}]
    /\ requests \in [Pins -> 0 .. 1]
    /\ lost \subseteq Pins

(***************************************************************************)
(* Two tasks may send the requests of two pins in either order, so the     *)
(* service may hear of a newer player first.  But a pin is overtaken only  *)
(* in the hands of a task, never in the channel, and a task holds one: at  *)
(* most POOL_SIZE - 1 pins at a time are not yet requested when a later    *)
(* one was (pool_task takes no pin before it has done with the last, and   *)
(* offers none again).                                                     *)
(***************************************************************************)
Overtaken ==
    {accepted[i] : i \in {k \in 1 .. Len(accepted) :
        /\ requests[accepted[k]] = 0 /\ accepted[k] \notin lost
        /\ \E j \in k + 1 .. Len(accepted) : requests[accepted[j]] = 1}}
FewOvertaken ==
    /\ \A p \in Overtaken : Held(p)
    /\ Cardinality(Overtaken) < Cardinality(Workers)

(***************************************************************************)
(* A pin is in one place: it waits, or one task holds it, or it is         *)
(* settled, or it went down with its task.                                 *)
(***************************************************************************)
OnePlace ==
    /\ \A i, j \in 1 .. Len(accepted) : accepted[i] = accepted[j] => i = j
    /\ \A p \in Pins :
          /\ Queued(p) => ~ Held(p) /\ outcome[p] = "none" /\ p \notin lost
          /\ Held(p) => outcome[p] = "none" /\ p \notin lost
          /\ p \in lost => outcome[p] = "none"
          /\ Accepted(p) <=> Queued(p) \/ Held(p) \/ p \in lost
                             \/ outcome[p] \in {"loaded", "failed"}
    /\ \A v, w \in Workers : held[v] # NoPin /\ held[v] = held[w] => v = w

(***************************************************************************)
(* While the awaited task lives, each bad pin costs one task and nothing   *)
(* else: every task that is gone took a bad pin of its own, and no good    *)
(* pin is lost.  The pool outlives fewer bad pins than it has tasks.       *)
(***************************************************************************)
Gone == {w \in Workers : pc[w] = "gone"}
DamageContained ==
    pc[Awaited] # "gone" =>
        /\ lost \subseteq BadPins
        /\ Cardinality(Gone) = Cardinality(lost)

(***************************************************************************)
(* A pin the channel accepted is requested and then settled, unless the    *)
(* pool ends: unlike the warmer's, these tasks never wait for room, so a   *)
(* full channel of failing pins always drains.                             *)
(***************************************************************************)
EveryPinSettles ==
    \A p \in Pins \ BadPins :
        Accepted(p) ~> outcome[p] # "none" \/ \A w \in Workers : pc[w] = "gone"

(***************************************************************************)
(* The pinner implements WarmService with one try: a pin that is lost with *)
(* its task stays pending for ever, as the service allows.                 *)
(***************************************************************************)
Status == [p \in Pins |-> IF outcome[p] # "none" THEN outcome[p]
                          ELSE IF Accepted(p) THEN "pending" ELSE "new"]

Service == INSTANCE WarmService
    WITH Offers <- Pins, MaxTries <- 1, status <- Status, tries <- requests

ImplementsWarmService == Service!Spec
=============================================================================
