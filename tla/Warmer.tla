------------------------------- MODULE Warmer -------------------------------
(***************************************************************************)
(* The gateway warmer, network/src/warmer.rs.  The node offers URLs with   *)
(* try_send; a pool of tasks receives them from a bounded FIFO channel,    *)
(* makes a HEAD request for each, and sends a URL that failed back into    *)
(* the same channel with a blocking send, up to NUM_RETRIES times.         *)
(*                                                                         *)
(* A URL of the model is one offer: two offers of one address are two      *)
(* members of Urls.  What an address is made of is not modelled.           *)
(***************************************************************************)
EXTENDS Integers, Sequences, FiniteSets

CONSTANTS
    Urls,           \* the offers the node will make
    Workers,        \* the pool tasks, 0..POOL_SIZE-1 in the code
    QUEUE_SIZE,     \* capacity of the channel, 10000 in the code
    NUM_RETRIES,    \* retries after the first request, 10 in the code
    NoItem          \* what a task holds between two items

Item == [url : Urls, try_num : 0 .. NUM_RETRIES]

ASSUME WarmerAssumption ==
    /\ IsFiniteSet(Urls)
    /\ IsFiniteSet(Workers) /\ Workers # {}
    /\ QUEUE_SIZE \in Nat \ {0}
    /\ NUM_RETRIES \in Nat
    /\ NoItem \notin Item

VARIABLES
    queue,      \* the channel: a sequence of items
    pc,         \* pc[w]: "recv", "head" (request in flight) or "resend"
    item,       \* item[w]: the item task w works on, or NoItem
    outcome,    \* outcome[u]: "none" until u is dropped, loaded or failed
    attempts    \* attempts[u]: HEAD requests made for u

vars == <<queue, pc, item, outcome, attempts>>

-----------------------------------------------------------------------------
Queued(u) == \E i \in 1 .. Len(queue) : queue[i].url = u
Held(u) == \E w \in Workers : item[w] # NoItem /\ item[w].url = u
InFlight(u) == Queued(u) \/ Held(u)

\* Room for one more item in channel(QUEUE_SIZE).
HasRoomOffByOne == Len(queue) < QUEUE_SIZE - 1      \* mutant
HasRoom == Len(queue) < QUEUE_SIZE

\* Offers that were never made: nothing has happened to them yet.
Fresh(u) == outcome[u] = "none" /\ attempts[u] = 0 /\ ~ InFlight(u)

Init ==
    /\ queue = <<>>
    /\ pc = [w \in Workers |-> "recv"]
    /\ item = [w \in Workers |-> NoItem]
    /\ outcome = [u \in Urls |-> "none"]
    /\ attempts = [u \in Urls |-> 0]

\* Warmer::send, called by the node: a full channel drops the item.
Send(u) ==
    /\ Fresh(u)
    /\ IF HasRoom
       THEN /\ queue' = Append(queue, [url |-> u, try_num |-> 0])
            /\ UNCHANGED outcome
       ELSE /\ outcome' = [outcome EXCEPT ![u] = "dropped"]
            /\ UNCHANGED queue
    /\ UNCHANGED <<pc, item, attempts>>

\* pool_task: receiver.recv() delivers an item and its HEAD request leaves.
Recv(w) ==
    /\ pc[w] = "recv"
    /\ queue # <<>>
    /\ item' = [item EXCEPT ![w] = Head(queue)]
    /\ queue' = Tail(queue)
    /\ pc' = [pc EXCEPT ![w] = "head"]
    /\ attempts' = [attempts EXCEPT ![Head(queue).url] = @ + 1]
    /\ UNCHANGED outcome

\* The gateway answers 200.
HeadOk(w) ==
    /\ pc[w] = "head"
    /\ outcome' = [outcome EXCEPT ![item[w].url] = "loaded"]
    /\ item' = [item EXCEPT ![w] = NoItem]
    /\ pc' = [pc EXCEPT ![w] = "recv"]
    /\ UNCHANGED <<queue, attempts>>

\* The test of pool_task on the try that would come next.
ExhaustedLate(next_try_num) == next_try_num > NUM_RETRIES + 1   \* mutant
ExhaustedEarly(next_try_num) == next_try_num >= NUM_RETRIES     \* mutant
Exhausted(next_try_num) == next_try_num > NUM_RETRIES

\* Any other answer, an error, or the client's timeout: give up or retry.
HeadErr(w) ==
    /\ pc[w] = "head"
    /\ LET u == item[w].url
           next_try_num == item[w].try_num + 1
       IN  IF Exhausted(next_try_num)
           THEN /\ outcome' = [outcome EXCEPT ![u] = "failed"]
                /\ item' = [item EXCEPT ![w] = NoItem]
                /\ pc' = [pc EXCEPT ![w] = "recv"]
           ELSE /\ item' = [item EXCEPT ![w] = [url |-> u, try_num |-> next_try_num]]
                /\ pc' = [pc EXCEPT ![w] = "resend"]
                /\ UNCHANGED outcome
    /\ UNCHANGED <<queue, attempts>>

\* Mutant: a retry that finds the channel full is dropped, as in try_send.
ResendOrDrop(w) ==
    /\ pc[w] = "resend"
    /\ queue' = IF HasRoom THEN Append(queue, item[w]) ELSE queue
    /\ item' = [item EXCEPT ![w] = NoItem]
    /\ pc' = [pc EXCEPT ![w] = "recv"]
    /\ UNCHANGED <<outcome, attempts>>

\* Mutant: the task keeps the item it has sent back.
ResendKeeps(w) ==
    /\ pc[w] = "resend"
    /\ HasRoom
    /\ queue' = Append(queue, item[w])
    /\ pc' = [pc EXCEPT ![w] = "head"]
    /\ UNCHANGED <<item, outcome, attempts>>

\* sender.send(next_try).await: waits for room in the channel it also drains.
Resend(w) ==
    /\ pc[w] = "resend"
    /\ HasRoom
    /\ queue' = Append(queue, item[w])
    /\ item' = [item EXCEPT ![w] = NoItem]
    /\ pc' = [pc EXCEPT ![w] = "recv"]
    /\ UNCHANGED <<outcome, attempts>>

PoolTask(w) == Recv(w) \/ HeadOk(w) \/ HeadErr(w) \/ Resend(w)

Next ==
    \/ \E u \in Urls : Send(u)
    \/ \E w \in Workers : Recv(w)
    \/ \E w \in Workers : HeadOk(w)
    \/ \E w \in Workers : HeadErr(w)
    \/ \E w \in Workers : Resend(w)

Spec == Init /\ [][Next]_vars

\* Every pool task keeps running, and the client's timeout bounds each
\* request.  Nothing is assumed of the node or of what a gateway answers.
FairSpec == Spec /\ \A w \in Workers : WF_vars(PoolTask(w))
-----------------------------------------------------------------------------
TypeOK ==
    /\ queue \in Seq(Item) /\ Len(queue) <= QUEUE_SIZE
    /\ pc \in [Workers -> {"recv", "head", "resend"}]
    /\ item \in [Workers -> Item \cup {NoItem}]
    /\ \A w \in Workers : item[w] = NoItem <=> pc[w] = "recv"
    /\ outcome \in [Urls -> {"none", "dropped", "loaded", "failed"}]
    /\ attempts \in [Urls -> 0 .. NUM_RETRIES + 1]

(***************************************************************************)
(* An offer is in one place at a time: no two queue positions, no two      *)
(* tasks, and no queue position and task, hold the same URL, and a URL     *)
(* that is settled is nowhere.  A retry moves the item between the channel *)
(* and a task, so a copy left behind would double every later request.     *)
(***************************************************************************)
OneCopy ==
    /\ \A i, j \in 1 .. Len(queue) : queue[i].url = queue[j].url => i = j
    /\ \A v, w \in Workers :
          item[v] # NoItem /\ item[w] # NoItem /\ item[v].url = item[w].url => v = w
    /\ \A i \in 1 .. Len(queue), w \in Workers :
          item[w] # NoItem => queue[i].url # item[w].url
    /\ \A u \in Urls : outcome[u] # "none" => ~ InFlight(u)

(***************************************************************************)
(* try_num counts the requests made for the URL it travels with, across    *)
(* every queueing and retry: it is exact while the item waits, and one     *)
(* behind while its request is in flight.  So a URL is given up after      *)
(* NUM_RETRIES + 1 requests and never before.                              *)
(***************************************************************************)
TriesAgree ==
    /\ \A i \in 1 .. Len(queue) : attempts[queue[i].url] = queue[i].try_num
    /\ \A w \in Workers :
          /\ pc[w] = "head" => attempts[item[w].url] = item[w].try_num + 1
          /\ pc[w] = "resend" => attempts[item[w].url] = item[w].try_num
    /\ \A u \in Urls : outcome[u] = "failed" => attempts[u] = NUM_RETRIES + 1

(***************************************************************************)
(* The pool is never stuck as a whole: not every task waits for room in    *)
(* the channel that only these tasks drain.                                *)
(***************************************************************************)
Wedged == ~ HasRoom /\ \A w \in Workers : pc[w] = "resend"
NeverWedged == ~ Wedged

(***************************************************************************)
(* Every offer the channel accepted is eventually loaded or given up:      *)
(* "Load this block into all gateways that we expect to pin this block     *)
(* eventually" (node.rs:204).                                              *)
(***************************************************************************)
EveryOfferSettles == \A u \in Urls : InFlight(u) ~> outcome[u] # "none"

(***************************************************************************)
(* The warmer implements WarmService: an offer is pending while it waits   *)
(* in the channel or in the hands of a task, so an item that is lost,      *)
(* duplicated or tried too often is a step the service does not take.      *)
(***************************************************************************)
Status == [u \in Urls |-> IF outcome[u] # "none" THEN outcome[u]
                          ELSE IF InFlight(u) THEN "pending" ELSE "new"]

Service == INSTANCE WarmService
    WITH Offers <- Urls, MaxTries <- NUM_RETRIES + 1, status <- Status, tries <- attempts

ImplementsWarmService == Service!Spec
=============================================================================
