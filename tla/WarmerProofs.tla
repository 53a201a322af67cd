---------------------------- MODULE WarmerProofs ----------------------------
(***************************************************************************)
(* Theorems about Warmer, for any number of offers, tasks and retries and  *)
(* any channel.  The type invariant is not inductive by itself: a task     *)
(* that receives an item makes one more request for its URL, and that      *)
(* count stays in bounds only because it follows the item's try_num, which *)
(* in turn needs the URL to be in one place.  So the three parts are       *)
(* proved together.                                                        *)
(***************************************************************************)
EXTENDS Warmer, TLAPS, FiniteSetTheorems, FunctionTheorems

IInv == TypeOK /\ OneCopy /\ TriesAgree

LEMMA InitInv == Init => IInv
BY WarmerAssumption
   DEF Init, IInv, TypeOK, OneCopy, TriesAgree, InFlight, Queued, Held, Item

\* Offering a fresh URL, or dropping it, keeps the invariant.
LEMMA SendInv == ASSUME IInv, NEW u \in Urls, Send(u) PROVE IInv'
<1> USE WarmerAssumption DEF IInv, Send
<1>1. CASE HasRoom
  <2>1. queue' = Append(queue, [url |-> u, try_num |-> 0]) /\ outcome' = outcome
    BY <1>1
  <2>2. [url |-> u, try_num |-> 0] \in Item
    BY DEF Item
  <2>3. TypeOK'
    BY <1>1, <2>1, <2>2 DEF TypeOK, HasRoom
  <2>4. /\ Len(queue') = Len(queue) + 1
        /\ \A i \in 1 .. Len(queue) : queue'[i] = queue[i]
        /\ queue'[Len(queue) + 1] = [url |-> u, try_num |-> 0]
    BY <2>1, <2>2 DEF TypeOK
  <2>5. OneCopy'
    BY <2>1, <2>4 DEF TypeOK, OneCopy, Fresh, InFlight, Queued, Held
  <2>6. TriesAgree'
    BY <2>1, <2>4 DEF TypeOK, TriesAgree, Fresh
  <2> QED BY <2>3, <2>5, <2>6
<1>2. CASE ~ HasRoom
  <2>1. TypeOK'
    BY <1>2 DEF TypeOK
  <2>2. OneCopy'
    BY <1>2 DEF TypeOK, OneCopy, Fresh, InFlight, Queued, Held
  <2>3. TriesAgree'
    BY <1>2 DEF TypeOK, TriesAgree
  <2> QED BY <2>1, <2>2, <2>3
<1> QED BY <1>1, <1>2

\* A task takes the oldest item and makes one more request for its URL.
LEMMA RecvInv == ASSUME IInv, NEW w \in Workers, Recv(w) PROVE IInv'
<1> USE WarmerAssumption DEF IInv, Recv
<1> DEFINE u == Head(queue).url
<1>1. /\ queue \in Seq(Item) /\ Len(queue) > 0
      /\ Head(queue) = queue[1] /\ queue[1] \in Item /\ u \in Urls
      /\ queue' \in Seq(Item) /\ Len(queue') = Len(queue) - 1
      /\ \A i \in 1 .. Len(queue') : queue'[i] = queue[i + 1]
  <2>1. queue \in Seq(Item) /\ queue # <<>>
    BY DEF TypeOK
  <2>2. Len(queue) > 0 /\ Head(queue) = queue[1] /\ queue[1] \in Item
    BY <2>1
  <2>3. u \in Urls
    BY <2>2 DEF Item
  <2>4. /\ queue' \in Seq(Item) /\ Len(queue') = Len(queue) - 1
        /\ \A i \in 1 .. Len(queue') : queue'[i] = queue[i + 1]
    BY <2>1
  <2> QED BY <2>1, <2>2, <2>3, <2>4
<1>2. item[w] = NoItem
  BY DEF TypeOK
<1>3. attempts[u] = queue[1].try_num
  BY <1>1 DEF TriesAgree
<1>4. attempts' \in [Urls -> 0 .. NUM_RETRIES + 1]
  BY <1>1, <1>3 DEF TypeOK, Item
<1>5. item' \in [Workers -> Item \cup {NoItem}] /\ queue[1] # NoItem
  BY <1>1 DEF TypeOK
<1>6. TypeOK'
  BY <1>1, <1>4, <1>5 DEF TypeOK
<1>7. OneCopy'
  <2>1. \A i, j \in 1 .. Len(queue') : queue'[i].url = queue'[j].url => i = j
    BY <1>1 DEF OneCopy
  <2>2. \A v, x \in Workers :
           item'[v] # NoItem /\ item'[x] # NoItem /\ item'[v].url = item'[x].url => v = x
    BY <1>1, <1>5 DEF OneCopy, TypeOK
  <2>3. \A i \in 1 .. Len(queue'), v \in Workers :
           item'[v] # NoItem => queue'[i].url # item'[v].url
    BY <1>1, <1>5 DEF OneCopy, TypeOK
  <2>4. \A x \in Urls : InFlight(x)' => InFlight(x)
    BY <1>1, <1>5 DEF InFlight, Queued, Held, TypeOK
  <2>5. \A x \in Urls : outcome'[x] # "none" => ~ InFlight(x)'
    BY <2>4 DEF OneCopy
  <2> QED BY <2>1, <2>2, <2>3, <2>5 DEF OneCopy
<1>8. TriesAgree'
  <2>1. \A i \in 1 .. Len(queue') : queue'[i].url # u /\ queue'[i].url \in Urls
    <3> SUFFICES ASSUME NEW i \in 1 .. Len(queue')
                 PROVE  queue'[i].url # u /\ queue'[i].url \in Urls
      OBVIOUS
    <3>1. i + 1 \in 1 .. Len(queue) /\ 1 \in 1 .. Len(queue) /\ i + 1 # 1
      BY <1>1
    <3>2. queue[i + 1] \in Item /\ queue[i + 1].url # queue[1].url
      BY <1>1, <3>1 DEF OneCopy
    <3> QED BY <1>1, <3>2 DEF Item
  <2>2. \A i \in 1 .. Len(queue') : attempts'[queue'[i].url] = queue'[i].try_num
    BY <1>1, <2>1 DEF TriesAgree, TypeOK
  <2>3. \A v \in Workers \ {w} : item[v] # NoItem => item[v].url # u /\ item[v].url \in Urls
    BY <1>1 DEF OneCopy, TypeOK, Item
  <2>4. \A v \in Workers :
           /\ pc'[v] = "head" => attempts'[item'[v].url] = item'[v].try_num + 1
           /\ pc'[v] = "resend" => attempts'[item'[v].url] = item'[v].try_num
    BY <1>1, <1>3, <2>3 DEF TriesAgree, TypeOK
  <2>5. outcome[u] = "none"
    BY <1>1 DEF OneCopy, InFlight, Queued, TypeOK
  <2>6. \A x \in Urls : outcome'[x] = "failed" => attempts'[x] = NUM_RETRIES + 1
    BY <2>5, <1>1 DEF TriesAgree, TypeOK
  <2> QED BY <2>2, <2>4, <2>6 DEF TriesAgree
<1> QED BY <1>6, <1>7, <1>8

\* An item a task holds is an offer that is nowhere else and not settled.
LEMMA HeldItem ==
    ASSUME IInv, NEW w \in Workers, pc[w] # "recv"
    PROVE  /\ item[w] \in Item /\ item[w] # NoItem /\ item[w].url \in Urls
           /\ item[w].try_num \in 0 .. NUM_RETRIES
           /\ outcome[item[w].url] = "none"
           /\ \A v \in Workers \ {w} : item[v] # NoItem => item[v].url # item[w].url
           /\ \A i \in 1 .. Len(queue) : queue[i].url # item[w].url
BY WarmerAssumption DEF IInv, TypeOK, OneCopy, InFlight, Held, Item

LEMMA HeadOkInv == ASSUME IInv, NEW w \in Workers, HeadOk(w) PROVE IInv'
<1> USE WarmerAssumption DEF IInv, HeadOk
<1>1. TypeOK'
  BY HeldItem DEF TypeOK
<1>2. OneCopy'
  BY HeldItem DEF TypeOK, OneCopy, InFlight, Queued, Held
<1>3. TriesAgree'
  BY HeldItem DEF TypeOK, TriesAgree
<1> QED BY <1>1, <1>2, <1>3

\* A failed request gives the URL up or keeps it, one try further.
LEMMA HeadErrInv == ASSUME IInv, NEW w \in Workers, HeadErr(w) PROVE IInv'
<1> USE WarmerAssumption DEF IInv, HeadErr
<1> DEFINE u == item[w].url
           n == item[w].try_num + 1
<1>1. /\ u \in Urls /\ n \in 1 .. NUM_RETRIES + 1 /\ attempts[u] = n
      /\ [url |-> u, try_num |-> n - 1] = item[w]
  BY HeldItem DEF TriesAgree, Item
<1>2. CASE Exhausted(n)
  <2>1. /\ outcome' = [outcome EXCEPT ![u] = "failed"]
        /\ item' = [item EXCEPT ![w] = NoItem]
        /\ pc' = [pc EXCEPT ![w] = "recv"]
        /\ queue' = queue /\ attempts' = attempts
    BY <1>1, <1>2, HeldItem
  <2>2. n = NUM_RETRIES + 1
    BY <1>1, <1>2 DEF Exhausted
  <2>3. TypeOK'
    BY <1>1, <2>1, <2>2 DEF TypeOK
  <2>4. OneCopy'
    BY <1>1, <2>1, HeldItem DEF TypeOK, OneCopy, InFlight, Queued, Held
  <2>5. TriesAgree'
    BY <1>1, <2>1, <2>2, HeldItem DEF TypeOK, TriesAgree
  <2> QED BY <2>3, <2>4, <2>5
<1>3. CASE ~ Exhausted(n)
  <2>1. [url |-> u, try_num |-> n] \in Item
    BY <1>1, <1>3 DEF Item, Exhausted
  <2>2. TypeOK'
    BY <1>1, <1>3, <2>1 DEF TypeOK
  <2>3. /\ item' = [item EXCEPT ![w] = [url |-> u, try_num |-> n]]
        /\ queue' = queue /\ outcome' = outcome /\ attempts' = attempts
        /\ pc' = [pc EXCEPT ![w] = "resend"]
    BY <1>3
  <2>4. OneCopy'
    BY <2>1, <2>3, HeldItem DEF TypeOK, OneCopy, InFlight, Queued, Held
  <2>5. TriesAgree'
    BY <1>1, <2>1, <2>3, HeldItem DEF TypeOK, TriesAgree
  <2> QED BY <2>2, <2>4, <2>5
<1> QED BY <1>2, <1>3

\* The task gives its item back to the channel.
LEMMA ResendInv == ASSUME IInv, NEW w \in Workers, Resend(w) PROVE IInv'
<1> USE WarmerAssumption DEF IInv, Resend
<1>1. /\ queue' \in Seq(Item) /\ Len(queue') = Len(queue) + 1
      /\ \A i \in 1 .. Len(queue) : queue'[i] = queue[i]
      /\ queue'[Len(queue) + 1] = item[w]
  BY HeldItem DEF TypeOK
<1>2. TypeOK'
  BY <1>1 DEF TypeOK, HasRoom
<1>3. OneCopy'
  BY <1>1, HeldItem DEF TypeOK, OneCopy, InFlight, Queued, Held
<1>4. TriesAgree'
  BY <1>1, HeldItem DEF TypeOK, TriesAgree
<1> QED BY <1>2, <1>3, <1>4

LEMMA StepInv == IInv /\ [Next]_vars => IInv'
<1> SUFFICES ASSUME IInv, [Next]_vars PROVE IInv'
  OBVIOUS
<1>1. ASSUME NEW u \in Urls, Send(u) PROVE IInv'
  BY <1>1, SendInv
<1>2. ASSUME NEW w \in Workers, Recv(w) PROVE IInv'
  BY <1>2, RecvInv
<1>3. ASSUME NEW w \in Workers, HeadOk(w) PROVE IInv'
  BY <1>3, HeadOkInv
<1>4. ASSUME NEW w \in Workers, HeadErr(w) PROVE IInv'
  BY <1>4, HeadErrInv
<1>5. ASSUME NEW w \in Workers, Resend(w) PROVE IInv'
  BY <1>5, ResendInv
<1>6. CASE UNCHANGED vars
  BY <1>6 DEF vars, IInv, TypeOK, OneCopy, TriesAgree, InFlight, Queued, Held
<1> QED BY <1>1, <1>2, <1>3, <1>4, <1>5, <1>6 DEF Next

(***************************************************************************)
(* The inductive invariant holds in every state of the warmer.             *)
(***************************************************************************)
THEOREM Invariance == Spec => []IInv
BY InitInv, StepInv, PTL DEF Spec

(***************************************************************************)
(* Every variable has its type: the channel stays within QUEUE_SIZE, and   *)
(* no URL gets more than NUM_RETRIES + 1 requests (warmer.rs:53-87).       *)
(***************************************************************************)
THEOREM TypeCorrect == Spec => []TypeOK
BY Invariance, PTL DEF IInv

(***************************************************************************)
(* Retrying never duplicates an item: a URL is in one queue position or in *)
(* the hands of one task (warmer.rs:60-82).                                *)
(***************************************************************************)
THEOREM OneCopyCorrect == Spec => []OneCopy
BY Invariance, PTL DEF IInv

(***************************************************************************)
(* try_num is the number of requests made, across all retries.             *)
(***************************************************************************)
THEOREM TriesCorrect == Spec => []TriesAgree
BY Invariance, PTL DEF IInv
-----------------------------------------------------------------------------
(***************************************************************************)
(* The wedge.  When the pool is wedged, the channel and the tasks hold     *)
(* QUEUE_SIZE plus the pool's size items, and these are different URLs.    *)
(***************************************************************************)
LEMMA WedgedIsFull ==
    ASSUME IInv, Wedged
    PROVE  Cardinality(Urls) >= QUEUE_SIZE + Cardinality(Workers)
<1> USE WarmerAssumption
<1> DEFINE I == 1 .. QUEUE_SIZE
           Q == {queue[i].url : i \in I}
           H == {item[w].url : w \in Workers}
           f == [i \in I |-> queue[i].url]
           g == [w \in Workers |-> item[w].url]
<1>1. Len(queue) = QUEUE_SIZE
  BY DEF IInv, TypeOK, Wedged, HasRoom
<1>2. \A i \in I : queue[i] \in Item
  BY <1>1 DEF IInv, TypeOK
<1>3. \A w \in Workers : item[w] \in Item /\ item[w] # NoItem
  BY DEF IInv, TypeOK, Wedged
<1>4. IsFiniteSet(I) /\ Cardinality(I) = QUEUE_SIZE
  BY FS_Interval
<1>5. IsFiniteSet(Q) /\ Cardinality(Q) = QUEUE_SIZE
  <2>1. f \in Bijection(I, Q)
    <3>1. f \in [I -> Q] /\ \A q \in Q : \E i \in I : f[i] = q
      OBVIOUS
    <3>2. \A i, j \in I : f[i] = f[j] => i = j
      BY <1>1 DEF IInv, OneCopy
    <3> QED BY <3>1, <3>2, Fun_IsBij
  <2>2. ExistsBijection(I, Q)
    BY <2>1 DEF ExistsBijection
  <2> QED BY <2>2, <1>4, FS_Bijection
<1>6. IsFiniteSet(H) /\ Cardinality(H) = Cardinality(Workers)
  <2>1. g \in Bijection(Workers, H)
    <3>1. g \in [Workers -> H] /\ \A h \in H : \E w \in Workers : g[w] = h
      OBVIOUS
    <3>2. \A v, w \in Workers : g[v] = g[w] => v = w
      BY <1>3 DEF IInv, OneCopy
    <3> QED BY <3>1, <3>2, Fun_IsBij
  <2>2. ExistsBijection(Workers, H)
    BY <2>1 DEF ExistsBijection
  <2> QED BY <2>2, FS_Bijection
<1>7. Q \cap H = {}
  BY <1>1, <1>3 DEF IInv, OneCopy
<1>8. Cardinality(Q \cup H) = QUEUE_SIZE + Cardinality(Workers)
  <2>1. Cardinality(Q \cap H) = 0
    BY <1>7, FS_EmptySet
  <2>2. Cardinality(Q) \in Nat /\ Cardinality(H) \in Nat
    BY <1>5, <1>6, FS_CardinalityType
  <2> QED BY <1>5, <1>6, <2>1, <2>2, FS_Union
<1>9. Q \cup H \subseteq Urls
  BY <1>2, <1>3 DEF Item
<1>10. Cardinality(Q \cup H) <= Cardinality(Urls)
  BY <1>9, FS_Subset
<1> QED
  BY <1>8, <1>10, FS_CardinalityType

(***************************************************************************)
(* With fewer offers than the channel and the pool hold together, the pool *)
(* never waits on itself (warmer.rs:82); MCWarmerWedge shows that with one *)
(* more it can.                                                            *)
(***************************************************************************)
THEOREM NeverWedgedCorrect ==
    Cardinality(Urls) < QUEUE_SIZE + Cardinality(Workers) => (Spec => []NeverWedged)
<1> SUFFICES ASSUME Cardinality(Urls) < QUEUE_SIZE + Cardinality(Workers)
             PROVE  Spec => []NeverWedged
  OBVIOUS
<1>1. Cardinality(Urls) \in Nat /\ Cardinality(Workers) \in Nat
  BY WarmerAssumption, FS_CardinalityType
<1>2. IInv => NeverWedged
  BY <1>1, WedgedIsFull, WarmerAssumption DEF NeverWedged
<1> QED BY <1>2, Invariance, PTL
-----------------------------------------------------------------------------
(***************************************************************************)
(* The refinement.  A step that moves no URL in or out of the warmer and   *)
(* settles none leaves the service's status alone.                         *)
(***************************************************************************)
LEMMA SameStatus ==
    ASSUME outcome' = outcome, \A x \in Urls : InFlight(x)' <=> InFlight(x)
    PROVE  Status' = Status
BY DEF Status

LEMMA InitRefines == Init => Service!Init
BY WarmerAssumption DEF Init, Service!Init, Status, InFlight, Queued, Held

\* A step that changes one URL's status and no attempts.
LEMMA SettleStatus ==
    ASSUME NEW u \in Urls, NEW s \in {"loaded", "failed", "dropped"},
           outcome \in [Urls -> {"none", "dropped", "loaded", "failed"}],
           outcome' = [outcome EXCEPT ![u] = s],
           \A x \in Urls \ {u} : InFlight(x)' <=> InFlight(x)
    PROVE  Status' = [Status EXCEPT ![u] = s]
BY DEF Status

LEMMA StepRefines == IInv /\ IInv' /\ [Next]_vars => [Service!Next]_(Service!vars)
<1> SUFFICES ASSUME IInv, IInv', [Next]_vars
             PROVE  [Service!Next]_(Service!vars)
  OBVIOUS
<1> USE WarmerAssumption
<1>1. ASSUME NEW u \in Urls, Send(u) PROVE Service!Offer(u)
  <2>1. outcome[u] = "none" /\ ~ InFlight(u) /\ Status[u] = "new"
    BY <1>1 DEF Send, Fresh, Status
  <2>2. CASE HasRoom
    <3>1. /\ queue' = Append(queue, [url |-> u, try_num |-> 0])
          /\ outcome' = outcome /\ item' = item
      BY <1>1, <2>2 DEF Send
    <3>2. /\ Len(queue') = Len(queue) + 1
          /\ \A i \in 1 .. Len(queue) : queue'[i] = queue[i]
          /\ queue'[Len(queue) + 1] = [url |-> u, try_num |-> 0]
      BY <3>1 DEF IInv, TypeOK
    <3>3. InFlight(u)' /\ \A x \in Urls \ {u} : InFlight(x)' <=> InFlight(x)
      BY <3>1, <3>2 DEF InFlight, Queued, Held, IInv, TypeOK
    <3>4. Status' = [Status EXCEPT ![u] = "pending"]
      BY <2>1, <3>1, <3>3 DEF Status
    <3> QED BY <1>1, <2>1, <3>4 DEF Send, Service!Offer
  <2>3. CASE ~ HasRoom
    <3>1. /\ outcome' = [outcome EXCEPT ![u] = "dropped"]
          /\ \A x \in Urls : InFlight(x)' <=> InFlight(x)
      BY <1>1, <2>3 DEF Send, InFlight, Queued, Held
    <3>2. Status' = [Status EXCEPT ![u] = "dropped"]
      BY <3>1, SettleStatus DEF IInv, TypeOK
    <3> QED BY <1>1, <2>1, <3>2 DEF Send, Service!Offer
  <2> QED BY <2>2, <2>3
<1>2. ASSUME NEW w \in Workers, Recv(w) PROVE \E u \in Urls : Service!Try(u)
  <2> DEFINE u == Head(queue).url
  <2>1. queue \in Seq(Item) /\ queue # <<>>
    BY <1>2 DEF Recv, IInv, TypeOK
  <2>2. /\ Len(queue) > 0 /\ Head(queue) = queue[1] /\ queue[1] \in Item
        /\ Len(queue') = Len(queue) - 1
        /\ \A i \in 1 .. Len(queue') : queue'[i] = queue[i + 1]
    BY <1>2, <2>1 DEF Recv
  <2>3. u \in Urls /\ InFlight(u) /\ outcome[u] = "none"
    BY <2>2 DEF IInv, OneCopy, InFlight, Queued, Item
  <2>4. item[w] = NoItem /\ item' = [item EXCEPT ![w] = queue[1]] /\ queue[1] # NoItem
    BY <1>2, <2>2 DEF Recv, IInv, TypeOK
  <2>5. \A x \in Urls : InFlight(x)' <=> InFlight(x)
    <3>1. ASSUME NEW x \in Urls, Queued(x) PROVE InFlight(x)'
      <4>1. PICK i \in 1 .. Len(queue) : queue[i].url = x
        BY <3>1 DEF Queued
      <4>2. CASE i = 1
        BY <2>4, <4>1, <4>2 DEF InFlight, Held, IInv, TypeOK
      <4>3. CASE i # 1
        <5>1. i - 1 \in 1 .. Len(queue') /\ queue'[i - 1] = queue[i]
          BY <2>1, <2>2, <4>3
        <5> QED BY <4>1, <5>1 DEF InFlight, Queued
      <4> QED BY <4>2, <4>3
    <3>2. ASSUME NEW x \in Urls, Held(x) PROVE InFlight(x)'
      BY <2>4, <3>2 DEF InFlight, Held, IInv, TypeOK
    <3>3. ASSUME NEW x \in Urls, Queued(x)' PROVE InFlight(x)
      <4>1. PICK i \in 1 .. Len(queue') : queue'[i].url = x
        BY <3>3 DEF Queued
      <4>2. i + 1 \in 1 .. Len(queue) /\ queue[i + 1].url = x
        BY <2>1, <2>2, <4>1
      <4> QED BY <4>2 DEF InFlight, Queued
    <3>4. ASSUME NEW x \in Urls, Held(x)' PROVE InFlight(x)
      <4>1. PICK v \in Workers : item'[v] # NoItem /\ item'[v].url = x
        BY <3>4 DEF Held
      <4>2. CASE v = w
        BY <2>2, <2>4, <4>1, <4>2 DEF InFlight, Queued, IInv, TypeOK
      <4>3. CASE v # w
        BY <2>4, <4>1, <4>3 DEF InFlight, Held, IInv, TypeOK
      <4> QED BY <4>2, <4>3
    <3> QED BY <3>1, <3>2, <3>3, <3>4 DEF InFlight
  <2>6. Status' = Status
    BY <1>2, <2>5, SameStatus DEF Recv
  <2>7. attempts[u] < NUM_RETRIES + 1
    BY <2>2, <2>3 DEF IInv, TriesAgree, Item
  <2>8. Status[u] = "pending"
    BY <2>3 DEF Status
  <2> QED BY <1>2, <2>3, <2>6, <2>7, <2>8 DEF Recv, Service!Try
<1>3. ASSUME NEW w \in Workers, HeadOk(w) PROVE \E u \in Urls : Service!Load(u)
  <2> DEFINE u == item[w].url
  <2>1. pc[w] # "recv" /\ pc[w] = "head"
    BY <1>3 DEF HeadOk
  <2>2. /\ item[w] # NoItem /\ u \in Urls /\ outcome[u] = "none"
        /\ item[w].try_num \in 0 .. NUM_RETRIES
    BY <2>1, HeldItem
  <2>3. Status[u] = "pending" /\ attempts[u] > 0
    BY <2>1, <2>2 DEF Status, InFlight, Held, IInv, TriesAgree
  <2>4. \A x \in Urls \ {u} : InFlight(x)' <=> InFlight(x)
    BY <1>3, <2>2 DEF HeadOk, InFlight, Queued, Held, IInv, TypeOK
  <2>5. Status' = [Status EXCEPT ![u] = "loaded"]
    BY <1>3, <2>2, <2>4, SettleStatus DEF HeadOk, IInv, TypeOK
  <2> QED BY <1>3, <2>2, <2>3, <2>5 DEF HeadOk, Service!Load
<1>4. ASSUME NEW w \in Workers, HeadErr(w)
      PROVE  (\E u \in Urls : Service!GiveUp(u)) \/ UNCHANGED Service!vars
  <2> DEFINE u == item[w].url
             n == item[w].try_num + 1
  <2>1. pc[w] # "recv" /\ pc[w] = "head"
    BY <1>4 DEF HeadErr
  <2>2. /\ item[w] # NoItem /\ u \in Urls /\ outcome[u] = "none"
        /\ item[w].try_num \in 0 .. NUM_RETRIES
    BY <2>1, HeldItem
  <2>3. Status[u] = "pending" /\ attempts[u] = n
    BY <2>1, <2>2 DEF Status, InFlight, Held, IInv, TriesAgree
  <2>4. CASE Exhausted(n)
    <3>1. /\ outcome' = [outcome EXCEPT ![u] = "failed"]
          /\ item' = [item EXCEPT ![w] = NoItem]
          /\ queue' = queue /\ attempts' = attempts
      BY <1>4, <2>4 DEF HeadErr
    <3>2. \A x \in Urls \ {u} : InFlight(x)' <=> InFlight(x)
      BY <2>2, <3>1 DEF InFlight, Queued, Held, IInv, TypeOK
    <3>3. Status' = [Status EXCEPT ![u] = "failed"]
      BY <2>2, <3>1, <3>2, SettleStatus DEF IInv, TypeOK
    <3>4. n = NUM_RETRIES + 1
      BY <2>2, <2>4 DEF Exhausted
    <3> QED BY <2>2, <2>3, <3>1, <3>3, <3>4 DEF Service!GiveUp
  <2>5. CASE ~ Exhausted(n)
    <3>1. /\ outcome' = outcome /\ queue' = queue /\ attempts' = attempts
          /\ item' = [item EXCEPT ![w] = [url |-> u, try_num |-> n]]
      BY <1>4, <2>5 DEF HeadErr
    <3>2. [url |-> u, try_num |-> n] \in Item
      BY <2>2, <2>5 DEF Exhausted, Item
    <3>3. \A x \in Urls : InFlight(x)' <=> InFlight(x)
      BY <2>2, <3>1, <3>2 DEF InFlight, Queued, Held, IInv, TypeOK
    <3> QED BY <3>1, <3>3, SameStatus DEF Service!vars
  <2> QED BY <2>4, <2>5
<1>5. ASSUME NEW w \in Workers, Resend(w) PROVE UNCHANGED Service!vars
  <2>1. pc[w] # "recv"
    BY <1>5 DEF Resend
  <2>2. /\ item[w] # NoItem /\ item[w] \in Item
        /\ Len(queue') = Len(queue) + 1 /\ queue \in Seq(Item)
        /\ \A i \in 1 .. Len(queue) : queue'[i] = queue[i]
        /\ queue'[Len(queue) + 1] = item[w]
        /\ item' = [item EXCEPT ![w] = NoItem]
    BY <1>5, <2>1, HeldItem DEF Resend, IInv, TypeOK
  <2>3. \A x \in Urls : Queued(x)' <=> Queued(x) \/ x = item[w].url
    BY <2>2 DEF Queued
  <2>4. \A x \in Urls : Held(x) <=> Held(x)' \/ x = item[w].url
    BY <2>2 DEF Held, IInv, TypeOK
  <2>5. \A x \in Urls : InFlight(x)' <=> InFlight(x)
    BY <2>3, <2>4 DEF InFlight
  <2> QED BY <1>5, <2>5, SameStatus DEF Resend, Service!vars
<1>6. CASE UNCHANGED vars
  BY <1>6 DEF vars, Service!vars, Status, InFlight, Queued, Held
<1> QED
  BY <1>1, <1>2, <1>3, <1>4, <1>5, <1>6 DEF Next, Service!Next

(***************************************************************************)
(* The pool of tasks around one channel implements the service the node    *)
(* sees: every offer is dropped at the door, or pends until it is loaded   *)
(* or has been requested exactly NUM_RETRIES + 1 times.                    *)
(***************************************************************************)
THEOREM Refinement == Spec => ImplementsWarmService
BY Invariance, InitRefines, StepRefines, PTL DEF Spec, ImplementsWarmService, Service!Spec
=============================================================================
