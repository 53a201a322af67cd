---------------------------- MODULE PinnerProofs ----------------------------
(***************************************************************************)
(* Theorems about Pinner, for any number of pins, bad addresses and tasks  *)
(* and any channel.  Nothing here is inductive alone: a pin is requested   *)
(* at most once because the channel is a suffix of what was accepted, and  *)
(* a task that dies takes exactly one pin because a pin is in one place.   *)
(* That few pins are overtaken rests on Spare: the task that sent the last *)
(* of the requests made so far holds no pin that it overtook.              *)
(***************************************************************************)
EXTENDS Pinner, TLAPS, FiniteSetTheorems

Taken == Len(accepted) - Len(queue)

\* Pins are taken in the order they were accepted.
TakenInOrder ==
    /\ Taken >= 0
    /\ \A i \in 1 .. Len(queue) : queue[i] = accepted[Taken + i]

\* A request was made for what left the channel, at most.
Requested ==
    /\ \A p \in Pins : requests[p] = 1 => Accepted(p) /\ ~ Queued(p)
    /\ \A p \in Pins : outcome[p] \in {"loaded", "failed"} => requests[p] = 1
    /\ \A w \in Workers : pc[w] = "request" => requests[held[w]] = 0
    /\ \A w \in Workers : pc[w] = "post" => requests[held[w]] = 1

Spare == \E w \in Workers : held[w] \notin Overtaken

IInv == TypeOK /\ TakenInOrder /\ OnePlace /\ Requested /\ Spare /\ DamageContained

LEMMA InitInv == Init => IInv
<1> SUFFICES ASSUME Init PROVE IInv
  OBVIOUS
<1>1. Gone = {}
  BY DEF Init, Gone
<1>2. DamageContained
  BY <1>1 DEF Init, DamageContained
<1>3. TypeOK /\ TakenInOrder /\ OnePlace /\ Requested
  BY PinnerAssumption
     DEF Init, TypeOK, TakenInOrder, Taken, OnePlace, Queued, Held, Accepted, Requested
<1>4. Spare
  BY PinnerAssumption DEF Init, Spare, Overtaken
<1> QED BY <1>2, <1>3, <1>4 DEF IInv

\* A step that ends no task and loses no pin keeps the damage as it is.
LEMMA SameDamage ==
    ASSUME IInv, TypeOK', lost' = lost,
           \A w \in Workers : pc'[w] = "gone" <=> pc[w] = "gone"
    PROVE  DamageContained'
<1>1. Gone' = Gone
  BY DEF Gone
<1> QED BY <1>1, PinnerAssumption DEF IInv, DamageContained

\* A step that lets no pin be overtaken keeps the task that holds none.
LEMMA SameSpare == ASSUME Spare, held' = held, Overtaken' \subseteq Overtaken PROVE Spare'
BY DEF Spare

LEMMA SameOvertaken ==
    ASSUME accepted' = accepted, requests' = requests, lost \subseteq lost'
    PROVE  Overtaken' \subseteq Overtaken
BY DEF Overtaken

\* What waits has had no request.
LEMMA WaitingUnrequested ==
    ASSUME IInv, NEW j \in 1 .. Len(accepted), j > Taken
    PROVE  Queued(accepted[j]) /\ requests[accepted[j]] = 0
<1>1. Len(accepted) \in Nat /\ Len(queue) \in Nat /\ accepted[j] \in Pins
  BY DEF IInv, TypeOK
<1>2. Taken \in Nat /\ Taken + Len(queue) = Len(accepted)
  BY <1>1 DEF IInv, TakenInOrder, Taken
<1>3. j - Taken \in 1 .. Len(queue)
  BY <1>1, <1>2
<1>4. queue[j - Taken] = accepted[j]
  BY <1>1, <1>2, <1>3 DEF IInv, TakenInOrder
<1>5. Queued(accepted[j])
  BY <1>3, <1>4 DEF Queued
<1> QED BY <1>1, <1>5 DEF IInv, Requested, TypeOK

\* Offering a fresh pin, or dropping it.
LEMMA SendInv == ASSUME IInv, NEW p \in Pins, Send(p) PROVE IInv'
<1> USE PinnerAssumption DEF IInv, Send
<1>1. CASE HasRoom
  <2>1. /\ queue' = Append(queue, p) /\ accepted' = Append(accepted, p)
        /\ UNCHANGED <<pc, held, requests, lost, outcome>>
    BY <1>1
  <2>2. /\ Len(queue') = Len(queue) + 1 /\ Len(accepted') = Len(accepted) + 1
        /\ \A i \in 1 .. Len(queue) : queue'[i] = queue[i]
        /\ \A i \in 1 .. Len(accepted) : accepted'[i] = accepted[i]
        /\ queue'[Len(queue) + 1] = p /\ accepted'[Len(accepted) + 1] = p
        /\ Len(queue) \in Nat /\ Len(accepted) \in Nat
    BY <2>1 DEF TypeOK
  <2>3. TypeOK'
    BY <1>1, <2>1 DEF TypeOK, HasRoom
  <2>4. requests[p] = 0
    BY DEF Fresh, Requested, TypeOK
  <2>5. TakenInOrder'
    <3>1. Taken' = Taken /\ Taken \in Nat
      BY <2>2 DEF TakenInOrder, Taken
    <3>2. \A i \in 1 .. Len(queue') : queue'[i] = accepted'[Taken + i]
      <4>1. \A i \in 1 .. Len(queue) : queue[i] = accepted[Taken + i]
        BY DEF TakenInOrder
      <4>2. Len(queue) + Taken = Len(accepted)
        BY <2>2 DEF Taken
      <4>3. \A i \in 1 .. Len(queue) : Taken + i \in 1 .. Len(accepted)
        BY <2>2, <3>1, <4>2
      <4>4. ASSUME NEW i \in 1 .. Len(queue)
            PROVE  queue'[i] = accepted'[Taken + i]
        BY <2>2, <4>1, <4>3
      <4>5. queue'[Len(queue) + 1] = accepted'[Taken + (Len(queue) + 1)]
        BY <2>2, <3>1, <4>2
      <4> QED BY <2>2, <4>4, <4>5
    <3> QED BY <2>1, <3>1, <3>2 DEF TakenInOrder
  <2>6. /\ \A x \in Pins : Queued(x)' <=> Queued(x) \/ x = p
        /\ \A x \in Pins : Accepted(x)' <=> Accepted(x) \/ x = p
        /\ \A x \in Pins : Held(x)' <=> Held(x)
    BY <2>1, <2>2 DEF Queued, Accepted, Held
  <2>7. OnePlace'
    <3>1. \A i, j \in 1 .. Len(accepted') : accepted'[i] = accepted'[j] => i = j
      BY <2>2 DEF OnePlace, Fresh, Accepted
    <3> QED BY <2>1, <2>6, <3>1 DEF OnePlace, Fresh
  <2>8. Requested'
    BY <2>1, <2>4, <2>6 DEF Requested
  <2>9. Overtaken' \subseteq Overtaken
    BY <2>1, <2>2, <2>4 DEF Overtaken
  <2> QED BY <2>1, <2>3, <2>5, <2>7, <2>8, <2>9, SameDamage, SameSpare
<1>2. CASE ~ HasRoom
  <2>1. /\ outcome' = [outcome EXCEPT ![p] = "dropped"]
        /\ UNCHANGED <<queue, accepted, pc, held, requests, lost>>
    BY <1>2
  <2>2. TypeOK'
    BY <2>1 DEF TypeOK
  <2>3. TakenInOrder' /\ Requested'
    BY <2>1 DEF TypeOK, TakenInOrder, Taken, Requested, Accepted, Queued
  <2>4. ~ Queued(p) /\ ~ Held(p) /\ p \notin lost
    BY DEF OnePlace, Fresh
  <2>5. \A x \in Pins : /\ Queued(x)' <=> Queued(x)
                        /\ Held(x)' <=> Held(x)
                        /\ Accepted(x)' <=> Accepted(x)
    BY <2>1 DEF Queued, Held, Accepted
  <2>6. OnePlace'
    BY <2>1, <2>4, <2>5 DEF OnePlace, Fresh, TypeOK
  <2> QED BY <2>1, <2>2, <2>3, <2>6, SameDamage, SameSpare, SameOvertaken
<1> QED BY <1>1, <1>2

\* The oldest pin: where it comes from and what is known of it.
LEMMA OldestPin ==
    ASSUME IInv, queue # <<>>, queue' = Tail(queue)
    PROVE  /\ Head(queue) \in Pins /\ Head(queue) = queue[1]
           /\ Len(queue) > 0 /\ Len(queue) \in Nat /\ Len(accepted) \in Nat
           /\ Len(queue') = Len(queue) - 1
           /\ \A i \in 1 .. Len(queue') : queue'[i] = queue[i + 1]
           /\ Taken \in Nat /\ Taken + 1 \in 1 .. Len(accepted)
           /\ accepted[Taken + 1] = Head(queue)
           /\ requests[Head(queue)] = 0
           /\ outcome[Head(queue)] = "none"
           /\ ~ Held(Head(queue)) /\ Head(queue) \notin lost
           /\ Accepted(Head(queue))
<1> DEFINE p == Head(queue)
<1>1. queue \in Seq(Pins) /\ accepted \in Seq(Pins) /\ queue # <<>>
  BY DEF IInv, TypeOK
<1>2. /\ Len(queue) > 0 /\ p = queue[1] /\ p \in Pins
      /\ Len(queue) \in Nat /\ Len(accepted) \in Nat
  BY <1>1
<1>3. /\ Len(queue') = Len(queue) - 1
      /\ \A i \in 1 .. Len(queue') : queue'[i] = queue[i + 1]
  BY <1>1
<1>4. Taken \in Nat /\ Taken + 1 \in 1 .. Len(accepted) /\ accepted[Taken + 1] = p
  BY <1>2 DEF IInv, TakenInOrder, Taken
<1>5. Queued(p)
  BY <1>2 DEF Queued
<1>6. requests[p] = 0
  BY <1>4, WaitingUnrequested
<1> QED BY <1>2, <1>3, <1>4, <1>5, <1>6 DEF IInv, OnePlace

\* Taking the oldest pin moves the border between waiting and taken by one,
\* and no pin but the oldest leaves the channel.
LEMMA TakeOrder ==
    ASSUME IInv, queue # <<>>, queue' = Tail(queue), accepted' = accepted
    PROVE  /\ TakenInOrder'
           /\ \A x \in Pins : Accepted(x)' <=> Accepted(x)
           /\ \A x \in Pins : Queued(x)' <=> Queued(x) /\ x # Head(queue)
<1> DEFINE p == Head(queue)
<1>1. /\ p \in Pins /\ p = queue[1] /\ Len(queue) > 0
      /\ Len(queue) \in Nat /\ Len(accepted) \in Nat
      /\ Len(queue') = Len(queue) - 1
      /\ \A i \in 1 .. Len(queue') : queue'[i] = queue[i + 1]
      /\ Taken \in Nat /\ Taken + 1 \in 1 .. Len(accepted)
      /\ accepted[Taken + 1] = p /\ Accepted(p)
  BY OldestPin
<1>2. /\ \A i, j \in 1 .. Len(accepted) : accepted[i] = accepted[j] => i = j
      /\ \A i \in 1 .. Len(queue) : queue[i] = accepted[Taken + i]
  BY DEF IInv, OnePlace, TakenInOrder
<1>3. Taken' = Taken + 1 /\ Len(queue) = Len(accepted) - Taken
  BY <1>1 DEF Taken
<1>4. \A i \in 1 .. Len(queue') : queue'[i] = accepted'[Taken + 1 + i]
  BY <1>1, <1>2
<1>5. TakenInOrder'
  BY <1>1, <1>3, <1>4 DEF TakenInOrder
<1>6. \A x \in Pins : Accepted(x)' <=> Accepted(x)
  BY DEF Accepted
<1>7. \A x \in Pins : Queued(x)' <=> Queued(x) /\ x # p
  <2>1. ASSUME NEW x \in Pins, Queued(x)' PROVE Queued(x) /\ x # p
    <3>1. PICK i \in 1 .. Len(queue') : queue'[i] = x
      BY <2>1 DEF Queued
    <3>2. i + 1 \in 1 .. Len(queue) /\ queue[i + 1] = x
      BY <1>1, <3>1
    <3>3. Taken + i + 1 \in 1 .. Len(accepted) /\ accepted[Taken + i + 1] = x
      BY <1>1, <1>2, <1>3, <3>2
    <3>4. Taken + i + 1 # Taken + 1
      BY <1>1
    <3> QED BY <1>1, <1>2, <3>2, <3>3, <3>4 DEF Queued
  <2>2. ASSUME NEW x \in Pins, Queued(x), x # p PROVE Queued(x)'
    <3>1. PICK i \in 1 .. Len(queue) : queue[i] = x
      BY <2>2 DEF Queued
    <3>2. i # 1
      BY <1>1, <2>2, <3>1
    <3>3. i - 1 \in 1 .. Len(queue') /\ queue'[i - 1] = x
      BY <1>1, <3>1, <3>2
    <3> QED BY <3>3 DEF Queued
  <2> QED BY <2>1, <2>2
<1> QED BY <1>5, <1>6, <1>7

\* The oldest pin has not been overtaken.
LEMMA OldestNotOvertaken == ASSUME IInv, queue # <<>> PROVE Head(queue) \notin Overtaken
<1> SUFFICES ASSUME NEW k \in 1 .. Len(accepted), accepted[k] = Head(queue),
                    NEW j \in k + 1 .. Len(accepted), requests[accepted[j]] = 1
             PROVE  FALSE
  BY DEF Overtaken
<1>1. queue \in Seq(Pins) /\ accepted \in Seq(Pins)
  BY DEF IInv, TypeOK
<1>2. Len(queue) > 0 /\ Head(queue) = queue[1] /\ Len(queue) \in Nat /\ Len(accepted) \in Nat
  BY <1>1
<1>3. Taken \in Nat /\ Taken + 1 \in 1 .. Len(accepted) /\ accepted[Taken + 1] = Head(queue)
  BY <1>2 DEF IInv, TakenInOrder, Taken
<1>4. k = Taken + 1
  BY <1>3 DEF IInv, OnePlace
<1>5. j \in 1 .. Len(accepted) /\ j > Taken
  BY <1>2, <1>3, <1>4
<1> QED BY <1>5, WaitingUnrequested

\* A task takes the oldest pin.
LEMMA RecvInv == ASSUME IInv, NEW w \in Workers, Recv(w) PROVE IInv'
<1> DEFINE p == Head(queue)
<1> USE PinnerAssumption
<1>1. /\ queue # <<>> /\ p \notin BadPins /\ pc[w] = "recv"
      /\ queue' = Tail(queue) /\ accepted' = accepted /\ outcome' = outcome /\ lost' = lost
      /\ held' = [held EXCEPT ![w] = p] /\ pc' = [pc EXCEPT ![w] = "request"]
      /\ requests' = requests
  BY DEF Recv
<1>2. /\ p \in Pins /\ requests[p] = 0 /\ outcome[p] = "none" /\ Accepted(p)
      /\ ~ Held(p) /\ p \notin lost /\ Len(queue') = Len(queue) - 1
  BY <1>1, OldestPin
<1>3. /\ TakenInOrder'
      /\ \A x \in Pins : Accepted(x)' <=> Accepted(x)
      /\ \A x \in Pins : Queued(x)' <=> Queued(x) /\ x # p
  BY <1>1, TakeOrder
<1>4. held[w] = NoPin
  BY <1>1 DEF IInv, TypeOK
<1>5. queue' \in Seq(Pins)
  BY <1>1 DEF IInv, TypeOK
<1>6. TypeOK'
  BY <1>1, <1>2, <1>5 DEF IInv, TypeOK
<1>7. \A x \in Pins : Held(x)' <=> Held(x) \/ x = p
  BY <1>1, <1>2, <1>4 DEF IInv, TypeOK, Held
<1>8. OnePlace'
  <2>1. \A v, u \in Workers : held'[v] # NoPin /\ held'[v] = held'[u] => v = u
    BY <1>1, <1>2 DEF IInv, TypeOK, OnePlace, Held
  <2> QED BY <1>1, <1>2, <1>3, <1>7, <2>1 DEF IInv, OnePlace
<1>9. DamageContained'
  BY <1>1, <1>6, SameDamage DEF IInv, TypeOK
<1>10. Requested'
  BY <1>1, <1>2, <1>3 DEF IInv, TypeOK, Requested
<1>11. Spare'
  <2>1. Overtaken' \subseteq Overtaken
    BY <1>1, SameOvertaken
  <2>2. p \notin Overtaken
    BY <1>1, OldestNotOvertaken
  <2> QED BY <1>1, <2>1, <2>2 DEF IInv, TypeOK, Spare
<1> QED BY <1>3, <1>6, <1>8, <1>9, <1>10, <1>11 DEF IInv

\* The request of a pin leaves: its task holds nothing that it overtakes.
LEMMA RequestInv == ASSUME IInv, NEW w \in Workers, Request(w) PROVE IInv'
<1> DEFINE p == held[w]
<1> USE PinnerAssumption
<1>1. /\ pc[w] = "request" /\ pc' = [pc EXCEPT ![w] = "post"]
      /\ requests' = [requests EXCEPT ![p] = @ + 1]
      /\ UNCHANGED <<queue, held, outcome, lost, accepted>>
  BY DEF Request
<1>2. p \in Pins /\ p # NoPin /\ Held(p) /\ requests[p] = 0
  BY <1>1 DEF IInv, TypeOK, Held, Requested
<1>3. Accepted(p) /\ ~ Queued(p)
  BY <1>2 DEF IInv, OnePlace
<1>4. \A x \in Pins : requests'[x] = IF x = p THEN 1 ELSE requests[x]
  BY <1>1, <1>2 DEF IInv, TypeOK
<1>5. TypeOK'
  BY <1>1, <1>2, <1>4 DEF IInv, TypeOK
<1>6. TakenInOrder' /\ OnePlace'
  <2>1. TakenInOrder'
    BY <1>1 DEF IInv, TakenInOrder, Taken
  <2>2. \A x \in Pins : /\ Queued(x)' <=> Queued(x)
                        /\ Held(x)' <=> Held(x)
                        /\ Accepted(x)' <=> Accepted(x)
    BY <1>1 DEF Queued, Held, Accepted
  <2>3. OnePlace'
    BY <1>1, <2>2 DEF IInv, OnePlace
  <2> QED BY <2>1, <2>3
<1>7. Requested'
  <2>1. \A x \in Pins : (Accepted(x)' <=> Accepted(x)) /\ (Queued(x)' <=> Queued(x))
    BY <1>1 DEF Accepted, Queued
  <2>2. \A v \in Workers : v # w /\ held[v] # NoPin => held[v] # p
    BY <1>2 DEF IInv, OnePlace
  <2>3. \A v \in Workers : pc[v] \in {"request", "post"} => held[v] \in Pins /\ held[v] # NoPin
    BY DEF IInv, TypeOK
  <2>4. \A v \in Workers : v # w => pc'[v] = pc[v]
    BY <1>1 DEF IInv, TypeOK
  <2>5. pc'[w] = "post"
    BY <1>1 DEF IInv, TypeOK
  <2> QED BY <1>1, <1>2, <1>3, <1>4, <2>1, <2>2, <2>3, <2>4, <2>5 DEF IInv, Requested
<1>8. Spare'
  <2>1. requests'[p] = 1
    BY <1>2, <1>4
  <2>2. held'[w] = p
    BY <1>1
  <2> QED BY <2>1, <2>2 DEF Spare, Overtaken
<1>9. DamageContained'
  BY <1>1, <1>5, SameDamage DEF IInv, TypeOK
<1> QED BY <1>5, <1>6, <1>7, <1>8, <1>9 DEF IInv

\* A task takes the oldest pin and panics on its address.
LEMMA RecvBadInv == ASSUME IInv, NEW w \in Workers, RecvBad(w) PROVE IInv'
<1> DEFINE p == Head(queue)
<1> USE PinnerAssumption
<1>1. /\ queue # <<>> /\ p \in BadPins /\ pc[w] = "recv"
      /\ queue' = Tail(queue) /\ UNCHANGED <<accepted, outcome, held, requests>>
      /\ lost' = lost \cup {p} /\ pc' = [pc EXCEPT ![w] = "gone"]
  BY DEF RecvBad
<1>2. /\ p \in Pins /\ requests[p] = 0 /\ outcome[p] = "none" /\ Accepted(p)
      /\ ~ Held(p) /\ p \notin lost /\ Len(queue') = Len(queue) - 1
  BY <1>1, OldestPin
<1>3. /\ TakenInOrder'
      /\ \A x \in Pins : Accepted(x)' <=> Accepted(x)
      /\ \A x \in Pins : Queued(x)' <=> Queued(x) /\ x # p
  BY <1>1, TakeOrder
<1>4. queue' \in Seq(Pins)
  BY <1>1 DEF IInv, TypeOK
<1>5. TypeOK'
  BY <1>1, <1>2, <1>3, <1>4 DEF IInv, TypeOK
<1>6. \A x \in Pins : Held(x)' <=> Held(x)
  BY <1>1 DEF Held
<1>7. OnePlace'
  BY <1>1, <1>2, <1>3, <1>6 DEF IInv, OnePlace
<1>8. DamageContained'
  <2> SUFFICES ASSUME pc'[Awaited] # "gone"
               PROVE  lost' \subseteq BadPins /\ Cardinality(Gone') = Cardinality(lost')
    BY DEF DamageContained, Gone
  <2>1. pc[Awaited] # "gone"
    BY <1>1 DEF IInv, TypeOK
  <2>2. lost \subseteq BadPins /\ Cardinality(Gone) = Cardinality(lost)
    BY <2>1 DEF IInv, DamageContained
  <2>3. Gone' = Gone \cup {w} /\ w \notin Gone
    BY <1>1 DEF IInv, TypeOK, Gone
  <2>4. IsFiniteSet(Gone) /\ IsFiniteSet(lost)
    BY <2>2, FS_Subset DEF Gone
  <2>5. Cardinality(Gone') = Cardinality(Gone) + 1
    BY <2>3, <2>4, FS_AddElement
  <2>6. Cardinality(lost') = Cardinality(lost) + 1
    BY <1>1, <1>2, <2>4, FS_AddElement
  <2> QED BY <1>1, <2>2, <2>5, <2>6
<1>9. Requested'
  BY <1>1, <1>3 DEF IInv, TypeOK, Requested
<1>10. Spare'
  BY <1>1, SameOvertaken, SameSpare DEF IInv
<1> QED BY <1>3, <1>5, <1>7, <1>8, <1>9, <1>10 DEF IInv

\* A request ends, well or badly.
LEMMA PostInv ==
    ASSUME IInv, NEW w \in Workers, NEW result \in {"loaded", "failed"}, Post(w, result)
    PROVE  IInv'
<1> DEFINE p == held[w]
<1> USE PinnerAssumption
<1>1. /\ pc[w] = "post" /\ UNCHANGED <<queue, accepted, requests, lost>>
      /\ outcome' = [outcome EXCEPT ![p] = result]
      /\ held' = [held EXCEPT ![w] = NoPin] /\ pc' = [pc EXCEPT ![w] = "recv"]
  BY DEF Post
<1>2. p \in Pins /\ p # NoPin /\ Held(p)
  BY <1>1 DEF IInv, TypeOK, Held
<1>3. TypeOK'
  BY <1>1, <1>2 DEF IInv, TypeOK
<1>4. TakenInOrder' /\ requests[p] = 1
  BY <1>1 DEF IInv, TakenInOrder, Taken, Requested
<1>5. /\ \A x \in Pins : Held(x)' <=> Held(x) /\ x # p
      /\ \A x \in Pins : Queued(x)' <=> Queued(x)
      /\ \A x \in Pins : Accepted(x)' <=> Accepted(x)
  <2>1. \A x \in Pins : Held(x)' <=> Held(x) /\ x # p
    BY <1>1, <1>2 DEF IInv, OnePlace, TypeOK, Held
  <2> QED BY <1>1, <2>1 DEF Queued, Accepted
<1>6. OnePlace'
  <2>1. \A x \in Pins : outcome'[x] = IF x = p THEN result ELSE outcome[x]
    BY <1>1, <1>2 DEF IInv, TypeOK
  <2>2. \A v, u \in Workers : held'[v] # NoPin /\ held'[v] = held'[u] => v = u
    BY <1>1 DEF IInv, TypeOK, OnePlace
  <2>3. \A x \in Pins :
          /\ Queued(x)' => ~ Held(x)' /\ outcome'[x] = "none" /\ x \notin lost'
          /\ Held(x)' => outcome'[x] = "none" /\ x \notin lost'
          /\ x \in lost' => outcome'[x] = "none"
          /\ Accepted(x)' <=> Queued(x)' \/ Held(x)' \/ x \in lost'
                              \/ outcome'[x] \in {"loaded", "failed"}
    BY <1>1, <1>2, <1>5, <2>1 DEF IInv, OnePlace
  <2> QED BY <1>1, <2>2, <2>3 DEF IInv, OnePlace
<1>7. DamageContained'
  BY <1>1, <1>3, SameDamage DEF IInv, TypeOK
<1>8. Requested'
  BY <1>1, <1>2, <1>4, <1>5 DEF IInv, TypeOK, Requested
<1>9. Spare'
  <2>1. Overtaken' \subseteq Overtaken
    BY <1>1, SameOvertaken
  <2>2. NoPin \notin Overtaken
    BY DEF IInv, TypeOK, Overtaken
  <2> QED BY <1>1, <2>1, <2>2 DEF IInv, TypeOK, Spare
<1> QED BY <1>3, <1>4, <1>6, <1>7, <1>8, <1>9 DEF IInv

\* The thread unwinds, and every request in flight goes with it.
LEMMA PoolEndsInv == ASSUME IInv, PoolEnds PROVE IInv'
<1> USE PinnerAssumption
<1>1. /\ pc' = [w \in Workers |-> "gone"] /\ held' = [w \in Workers |-> NoPin]
      /\ lost' = lost \cup {held[w] : w \in {v \in Workers : pc[v] \in {"request", "post"}}}
      /\ UNCHANGED <<queue, outcome, requests, accepted>>
  BY DEF PoolEnds
<1>2. \A x \in Pins : x \in lost' <=> x \in lost \/ Held(x)
  BY <1>1 DEF IInv, TypeOK, Held
<1>3. TypeOK'
  BY <1>1 DEF IInv, TypeOK
<1>4. TakenInOrder' /\ Requested'
  BY <1>1 DEF IInv, TakenInOrder, Taken, Requested, Accepted, Queued
<1>5. /\ \A x \in Pins : ~ Held(x)'
      /\ \A x \in Pins : Queued(x)' <=> Queued(x)
      /\ \A x \in Pins : Accepted(x)' <=> Accepted(x)
  BY <1>1 DEF Held, Queued, Accepted
<1>6. OnePlace'
  BY <1>1, <1>2, <1>5 DEF IInv, OnePlace
<1>7. DamageContained'
  BY <1>1 DEF DamageContained
<1>8. Spare'
  <2>1. NoPin \notin Overtaken'
    BY <1>3 DEF TypeOK, Overtaken
  <2> QED BY <1>1, <2>1 DEF Spare
<1> QED BY <1>3, <1>4, <1>6, <1>7, <1>8 DEF IInv

LEMMA StepInv == IInv /\ [Next]_vars => IInv'
<1> SUFFICES ASSUME IInv, [Next]_vars PROVE IInv'
  OBVIOUS
<1>1. ASSUME NEW p \in Pins, Send(p) PROVE IInv'
  BY <1>1, SendInv
<1>2. ASSUME NEW w \in Workers, Recv(w) PROVE IInv'
  BY <1>2, RecvInv
<1>3. ASSUME NEW w \in Workers, RecvBad(w) PROVE IInv'
  BY <1>3, RecvBadInv
<1>4. ASSUME NEW w \in Workers, PostOk(w) PROVE IInv'
  BY <1>4, PostInv DEF PostOk
<1>5. ASSUME NEW w \in Workers, PostErr(w) PROVE IInv'
  BY <1>5, PostInv DEF PostErr
<1>6. CASE PoolEnds
  BY <1>6, PoolEndsInv
<1>7. CASE UNCHANGED vars
  BY <1>7 DEF vars, IInv, TypeOK, TakenInOrder, Taken, OnePlace, Requested, Spare,
              Overtaken, DamageContained, Gone, Queued, Held, Accepted
<1>8. ASSUME NEW w \in Workers, Request(w) PROVE IInv'
  BY <1>8, RequestInv
<1> QED BY <1>1, <1>2, <1>3, <1>4, <1>5, <1>6, <1>7, <1>8 DEF Next

(***************************************************************************)
(* The inductive invariant holds in every state of the pinner.             *)
(***************************************************************************)
THEOREM Invariance == Spec => []IInv
BY InitInv, StepInv, PTL DEF Spec

(***************************************************************************)
(* The channel stays within QUEUE_SIZE and a pin is requested at most once *)
(* (pinner.rs:76-110).                                                     *)
(***************************************************************************)
THEOREM TypeCorrect == Spec => []TypeOK
BY Invariance, PTL DEF IInv

(***************************************************************************)
(* Whatever the order in which parallel tasks send their requests, a pin   *)
(* that a later one overtook is in the hands of a task, and there are      *)
(* fewer of them than tasks (pinner.rs:82-97): the task whose request left *)
(* last holds none.                                                        *)
(***************************************************************************)
THEOREM FewOvertakenCorrect == Spec => []FewOvertaken
<1>1. ASSUME IInv PROVE FewOvertaken
  <2>1. ASSUME NEW p \in Overtaken PROVE Held(p)
    <3>1. PICK k \in 1 .. Len(accepted) :
             /\ p = accepted[k] /\ requests[p] = 0 /\ p \notin lost
             /\ \E j \in k + 1 .. Len(accepted) : requests[accepted[j]] = 1
      BY DEF Overtaken
    <3>2. PICK j \in k + 1 .. Len(accepted) : requests[accepted[j]] = 1
      BY <3>1
    <3>3. p \in Pins /\ Len(accepted) \in Nat /\ Len(queue) \in Nat
      BY <1>1, <3>1 DEF IInv, TypeOK
    <3>4. Accepted(p)
      BY <3>1 DEF Accepted
    <3>5. outcome[p] \notin {"loaded", "failed"}
      BY <1>1, <3>1, <3>3 DEF IInv, Requested
    <3>6. ~ Queued(p)
      <4> SUFFICES ASSUME NEW i \in 1 .. Len(queue), queue[i] = p PROVE FALSE
        BY DEF Queued
      <4>1. Taken \in Nat /\ Taken + i \in 1 .. Len(accepted) /\ accepted[Taken + i] = p
        BY <1>1, <3>3 DEF IInv, TakenInOrder, Taken
      <4>2. k = Taken + i
        BY <1>1, <3>1, <4>1 DEF IInv, OnePlace
      <4>3. j \in 1 .. Len(accepted) /\ j > Taken
        BY <3>3, <4>1, <4>2
      <4> QED BY <1>1, <3>2, <4>3, WaitingUnrequested
    <3> QED BY <1>1, <3>1, <3>3, <3>4, <3>5, <3>6 DEF IInv, OnePlace
  <2>2. PICK w \in Workers : held[w] \notin Overtaken
    BY <1>1 DEF IInv, Spare
  <2> DEFINE others == Workers \ {w}
             hands == {held[v] : v \in others}
  <2>3. Overtaken \subseteq hands
    BY <2>1, <2>2 DEF Held
  <2>4. /\ IsFiniteSet(others) /\ Cardinality(others) = Cardinality(Workers) - 1
        /\ Cardinality(Workers) \in Nat
    BY PinnerAssumption, FS_RemoveElement, FS_CardinalityType
  <2>5. IsFiniteSet(hands) /\ Cardinality(hands) <= Cardinality(others)
    <3> DEFINE hand == [v \in others |-> held[v]]
    <3>1. hand \in Surjection(others, hands)
      BY DEF Surjection, Range
    <3> HIDE DEF others, hands, hand
    <3> QED BY <2>4, <3>1, FS_Surjection
  <2>6. /\ IsFiniteSet(Overtaken) /\ Cardinality(Overtaken) <= Cardinality(hands)
        /\ Cardinality(Overtaken) \in Nat /\ Cardinality(hands) \in Nat
    <3> HIDE DEF hands
    <3> QED BY <2>3, <2>5, FS_Subset, FS_CardinalityType
  <2>7. Cardinality(Overtaken) < Cardinality(Workers)
    <3> HIDE DEF hands, others
    <3> QED BY <2>4, <2>5, <2>6
  <2> QED BY <2>1, <2>7 DEF FewOvertaken
<1> QED BY <1>1, Invariance, PTL

(***************************************************************************)
(* A pin waits, or is held by one task, or is settled, or was lost with   *)
(* its task (pinner.rs:82-108).                                            *)
(***************************************************************************)
THEOREM OnePlaceCorrect == Spec => []OnePlace
BY Invariance, PTL DEF IInv

(***************************************************************************)
(* Until the awaited task dies, a bad address costs one task and its pin,  *)
(* and no other pin is lost (pinner.rs:71-73, 86-90).                      *)
(***************************************************************************)
THEOREM DamageContainedCorrect == Spec => []DamageContained
BY Invariance, PTL DEF IInv
-----------------------------------------------------------------------------
(***************************************************************************)
(* The refinement.  What the service sees of a pin is whether the channel  *)
(* took it and how it was settled.                                         *)
(***************************************************************************)
LEMMA InitRefines == Init => Service!Init
BY PinnerAssumption DEF Init, Service!Init, Status, Accepted

LEMMA SameStatus ==
    ASSUME outcome' = outcome, accepted' = accepted
    PROVE  Status' = Status
BY DEF Status, Accepted

LEMMA PostRefines ==
    ASSUME IInv, NEW w \in Workers, NEW result \in {"loaded", "failed"}, Post(w, result)
    PROVE  \E p \in Pins : Service!Load(p) \/ Service!GiveUp(p)
<1> DEFINE p == held[w]
<1> USE PinnerAssumption
<1>1. /\ pc[w] = "post" /\ UNCHANGED <<accepted, requests>>
      /\ outcome' = [outcome EXCEPT ![p] = result]
  BY DEF Post
<1>2. p \in Pins /\ p # NoPin /\ Held(p)
  BY <1>1 DEF IInv, TypeOK, Held
<1>3. outcome[p] = "none" /\ Accepted(p) /\ requests[p] = 1
  BY <1>1, <1>2 DEF IInv, OnePlace, Requested
<1>4. Status[p] = "pending"
  BY <1>2, <1>3 DEF Status
<1>5. \A x \in Pins : outcome'[x] = IF x = p THEN result ELSE outcome[x]
  BY <1>1, <1>2 DEF IInv, TypeOK
<1>6. Status' = [Status EXCEPT ![p] = result]
  <2>1. \A x \in Pins : Accepted(x)' <=> Accepted(x)
    BY <1>1 DEF Accepted
  <2> QED BY <1>2, <1>5, <2>1 DEF Status
<1>7. CASE result = "loaded"
  <2>1. Service!Load(p)
    BY <1>1, <1>3, <1>4, <1>6, <1>7 DEF Service!Load
  <2> QED BY <1>2, <2>1
<1>8. CASE result = "failed"
  <2>1. Service!GiveUp(p)
    BY <1>1, <1>3, <1>4, <1>6, <1>8 DEF Service!GiveUp
  <2> QED BY <1>2, <2>1
<1> QED BY <1>7, <1>8

LEMMA StepRefines == IInv /\ [Next]_vars => [Service!Next]_(Service!vars)
<1> SUFFICES ASSUME IInv, [Next]_vars PROVE [Service!Next]_(Service!vars)
  OBVIOUS
<1> USE PinnerAssumption
<1>1. ASSUME NEW p \in Pins, Send(p) PROVE Service!Offer(p)
  <2>1. Status[p] = "new" /\ requests' = requests
    BY <1>1 DEF Send, Fresh, Status
  <2>2. CASE HasRoom
    <3>1. accepted' = Append(accepted, p) /\ outcome' = outcome
      BY <1>1, <2>2 DEF Send
    <3>2. \A x \in Pins : Accepted(x)' <=> Accepted(x) \/ x = p
      <4>1. /\ Len(accepted') = Len(accepted) + 1 /\ accepted'[Len(accepted) + 1] = p
            /\ \A i \in 1 .. Len(accepted) : accepted'[i] = accepted[i]
            /\ Len(accepted) \in Nat
        BY <3>1 DEF IInv, TypeOK
      <4> QED BY <4>1 DEF Accepted
    <3>3. outcome[p] = "none"
      BY <1>1 DEF Send, Fresh
    <3>4. Status' = [Status EXCEPT ![p] = "pending"]
      BY <3>1, <3>2, <3>3 DEF Status
    <3> QED BY <2>1, <3>4 DEF Service!Offer
  <2>3. CASE ~ HasRoom
    <3>1. accepted' = accepted /\ outcome' = [outcome EXCEPT ![p] = "dropped"]
      BY <1>1, <2>3 DEF Send
    <3>2. \A x \in Pins : outcome'[x] = IF x = p THEN "dropped" ELSE outcome[x]
      BY <3>1 DEF IInv, TypeOK
    <3>3. \A x \in Pins : Accepted(x)' <=> Accepted(x)
      BY <3>1 DEF Accepted
    <3>4. Status' = [Status EXCEPT ![p] = "dropped"]
      BY <3>2, <3>3 DEF Status
    <3> QED BY <2>1, <3>4 DEF Service!Offer
  <2> QED BY <2>2, <2>3
<1>2. ASSUME NEW w \in Workers, Request(w) PROVE \E p \in Pins : Service!Try(p)
  <2> DEFINE p == held[w]
  <2>1. p \in Pins /\ p # NoPin /\ Held(p) /\ requests[p] = 0
    BY <1>2 DEF Request, IInv, TypeOK, Held, Requested
  <2>2. Status[p] = "pending"
    BY <2>1 DEF Status, IInv, OnePlace
  <2>3. Status' = Status
    BY <1>2, SameStatus DEF Request
  <2>4. requests[p] < 1 /\ requests' = [requests EXCEPT ![p] = @ + 1]
    BY <1>2, <2>1 DEF Request
  <2>5. Service!Try(p)
    BY <2>2, <2>3, <2>4 DEF Service!Try
  <2> QED BY <2>1, <2>5
<1>3. ASSUME NEW w \in Workers, Recv(w) \/ RecvBad(w) PROVE UNCHANGED Service!vars
  BY <1>3, SameStatus DEF Recv, RecvBad, Service!vars
<1>4. ASSUME NEW w \in Workers, PostOk(w) \/ PostErr(w)
      PROVE  \E p \in Pins : Service!Load(p) \/ Service!GiveUp(p)
  BY <1>4, PostRefines DEF PostOk, PostErr
<1>5. CASE PoolEnds
  BY <1>5, SameStatus DEF PoolEnds, Service!vars
<1>6. CASE UNCHANGED vars
  BY <1>6, SameStatus DEF vars, Service!vars
<1> QED BY <1>1, <1>2, <1>3, <1>4, <1>5, <1>6 DEF Next, Service!Next

(***************************************************************************)
(* The pool that posts each pin once implements the service the node sees, *)
(* with one try: no pin is requested twice or settled without a request,   *)
(* and one that goes down with its task is pending for ever.               *)
(***************************************************************************)
THEOREM Refinement == Spec => ImplementsWarmService
BY Invariance, InitRefines, StepRefines, PTL DEF Spec, ImplementsWarmService, Service!Spec
=============================================================================
