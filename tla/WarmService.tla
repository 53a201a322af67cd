---------------------------- MODULE WarmService ----------------------------
(***************************************************************************)
(* What the warmer promises the node: an offered URL is either dropped at  *)
(* the door or stays pending until a gateway answers it, and it is given   *)
(* up only after exactly MaxTries requests.  How offers wait, and which    *)
(* task makes a request, is not visible here.                              *)
(***************************************************************************)
EXTENDS Naturals

CONSTANTS
    Offers,     \* the URLs the node offers, each offer counted separately
    MaxTries    \* requests made before an offer is given up

VARIABLES
    status,     \* status[o]: where offer o stands
    tries       \* tries[o]: requests made for o so far

vars == <<status, tries>>

Init ==
    /\ status = [o \in Offers |-> "new"]
    /\ tries = [o \in Offers |-> 0]

\* The node offers o; a full queue drops it.
Offer(o) ==
    /\ status[o] = "new"
    /\ \E s \in {"pending", "dropped"} : status' = [status EXCEPT ![o] = s]
    /\ UNCHANGED tries

\* A request for o leaves for the gateway.
Try(o) ==
    /\ status[o] = "pending"
    /\ tries[o] < MaxTries
    /\ tries' = [tries EXCEPT ![o] = @ + 1]
    /\ UNCHANGED status

\* The gateway answers a request for o with success.
Load(o) ==
    /\ status[o] = "pending"
    /\ tries[o] > 0
    /\ status' = [status EXCEPT ![o] = "loaded"]
    /\ UNCHANGED tries

\* o is given up, which costs exactly MaxTries requests.
GiveUp(o) ==
    /\ status[o] = "pending"
    /\ tries[o] = MaxTries
    /\ status' = [status EXCEPT ![o] = "failed"]
    /\ UNCHANGED tries

Next == \E o \in Offers : Offer(o) \/ Try(o) \/ Load(o) \/ GiveUp(o)

Spec == Init /\ [][Next]_vars
=============================================================================
