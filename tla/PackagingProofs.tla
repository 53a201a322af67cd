--------------------------- MODULE PackagingProofs ---------------------------
(***************************************************************************)
(* Theorems about Packaging, for every length of the script, every number  *)
(* and length of segments, every base and every limit of the blocks.       *)
(*                                                                         *)
(* The inductive invariant, PackInv, says what was packaged: the script,   *)
(* cut once, and the first segments of the stream at the last publication. *)
(* The properties then follow from the operators alone.                    *)
(***************************************************************************)
EXTENDS Packaging, Recursion

-----------------------------------------------------------------------------
\* What is left of a number without its last digit, and that digit.
LEMMA Division ==
    ASSUME NEW a \in Nat, NEW b \in Nat, b >= 2
    PROVE  /\ a \div b \in Nat /\ a % b \in 0 .. b - 1
           /\ a = b * (a \div b) + (a % b)
           /\ a > 0 => a \div b < a
           /\ a < b => a \div b = 0
<1> DEFINE p == a \div b
           r == a % b
<1>1. p \in Nat /\ r \in 0 .. b - 1 /\ a = b * p + r
  OBVIOUS
<1> HIDE DEF p, r
<1>2. r \in Int /\ r >= 0 /\ r <= b - 1
  BY <1>1
<1>3. a > 0 => p < a
  <2> SUFFICES ASSUME a > 0, p >= a PROVE FALSE
    BY <1>1
  <2>1. PICK d \in Nat : p = a + d
    BY <1>1
  <2>2. PICK e \in Nat : b = e + 2
    OBVIOUS
  <2>3. b * p = e * p + 2 * p /\ e * p >= 0
    BY <1>1, <2>2
  <2> QED BY <1>1, <1>2, <2>1, <2>3
<1>4. a < b => p = 0
  <2> SUFFICES ASSUME a < b, p > 0 PROVE FALSE
    BY <1>1
  <2>1. PICK d \in Nat : p = d + 1
    BY <1>1
  <2>2. b * p = b * d + b /\ b * d >= 0
    BY <2>1
  <2> QED BY <1>1, <1>2, <2>2
<1> QED BY <1>1, <1>3, <1>4 DEF p, r

LEMMA DivisionKeepsOrder ==
    ASSUME NEW m \in Nat, NEW n \in Nat, NEW b \in Nat, b >= 2, m <= n
    PROVE  /\ m \div b <= n \div b
           /\ m < n /\ m \div b = n \div b => m % b < n % b
<1> DEFINE p == m \div b
           q == n \div b
           r == m % b
           s == n % b
<1>1. /\ p \in Nat /\ r \in 0 .. b - 1 /\ m = b * p + r
      /\ q \in Nat /\ s \in 0 .. b - 1 /\ n = b * q + s
  BY Division
<1> HIDE DEF p, q, r, s
<1>2. r \in Int /\ r >= 0 /\ r <= b - 1 /\ s \in Int /\ s >= 0 /\ s <= b - 1
  BY <1>1
<1>3. p <= q
  <2> SUFFICES ASSUME p >= q + 1 PROVE FALSE
    BY <1>1
  <2>1. PICK d \in Nat : p = q + 1 + d
    BY <1>1
  <2>2. b * p = b * q + b + b * d /\ b * d >= 0
    BY <1>1, <2>1
  <2> QED BY <1>1, <1>2, <2>2
<1>4. m < n /\ p = q => r < s
  BY <1>1, <1>2
<1> QED BY <1>3, <1>4 DEF p, q, r, s

-----------------------------------------------------------------------------
LEMMA BaseType == Base \in Nat /\ Base >= 2
BY PackagingAssumption

LEMMA Quotients ==
    ASSUME NEW n \in Nat
    PROVE  /\ Quotient(n) \in [Nat -> Nat] /\ Quotient(n)[0] = n
           /\ \A k \in Nat : Quotient(n)[k + 1] = Quotient(n)[k] \div Base
<1> DEFINE step == [v \in Nat |-> v \div Base]
           Is(f) == f = [k \in Nat |-> IF k = 0 THEN n ELSE f[k - 1] \div Base]
<1>1. step \in [Nat -> Nat] /\ \A v \in Nat : step[v] = v \div Base /\ v \div Base \in Nat
  BY BaseType, Division
<1> HIDE DEF step
<1>2. PICK f \in [Nat -> Nat] : \A k \in Nat : f[k] = IF k = 0 THEN n ELSE step[f[k - 1]]
  <2>1. step \in [Nat -> Nat]
    BY <1>1
  <2>2. PICK f : Repeats(f, Nat, n, step)
    BY <2>1, Endless
  <2> QED BY <2>2 DEF Repeats
<1>3. Is(f)
  <2>1. ASSUME NEW k \in Nat, k # 0 PROVE step[f[k - 1]] = f[k - 1] \div Base
    <3>1. k - 1 \in Nat
      BY <2>1
    <3> QED BY <1>1, <1>2, <3>1
  <2>2. \A k \in Nat : f[k] = IF k = 0 THEN n ELSE f[k - 1] \div Base
    BY <1>2, <2>1
  <2> QED BY <1>2, <2>2
<1> DEFINE q == Quotient(n)
<1>4. Is(q)
  <2>1. q = CHOOSE g : Is(g)
    BY DEF Quotient
  <2> HIDE DEF q, Is
  <2> QED BY <1>3, <2>1
<1> HIDE DEF q
<1>5. /\ q[0] = n
      /\ \A k \in Nat : q[k + 1] = q[k] \div Base
  <2>1. \A k \in Nat : q[k] = IF k = 0 THEN n ELSE q[k - 1] \div Base
    BY <1>4
  <2>2. ASSUME NEW k \in Nat PROVE q[k + 1] = q[k] \div Base
    <3>1. k + 1 \in Nat /\ k + 1 # 0 /\ (k + 1) - 1 = k
      OBVIOUS
    <3> QED BY <2>1, <3>1
  <2> QED BY <2>1, <2>2
<1>6. q \in [Nat -> Nat]
  <2> DEFINE A == {k \in Nat : q[k] \in Nat}
  <2>1. 0 \in A
    BY <1>5
  <2>2. \A k \in Nat : k \in A => k + 1 \in A
    <3> SUFFICES ASSUME NEW k \in Nat, q[k] \in Nat PROVE q[k + 1] \in Nat
      OBVIOUS
    <3> QED BY <1>1, <1>5
  <2>3. Nat \subseteq A
    <3> HIDE DEF A
    <3> QED BY <2>1, <2>2, Induction
  <2> QED BY <1>4, <2>3
<1> QED BY <1>5, <1>6 DEF q

\* Repeated division ends at 0, and stays there.
LEMMA QuotientsEnd ==
    ASSUME NEW n \in Nat
    PROVE  /\ Quotient(n)[n + 1] = 0
           /\ \A k \in Nat : Quotient(n)[k] = 0 => Quotient(n)[k + 1] = 0
<1> DEFINE q == Quotient(n)
<1>1. /\ q \in [Nat -> Nat] /\ q[0] = n
      /\ \A k \in Nat : q[k + 1] = q[k] \div Base
  BY Quotients
<1> HIDE DEF q
<1>2. ASSUME NEW k \in Nat
      PROVE  q[k] \in Nat /\ (q[k] = 0 => q[k + 1] = 0) /\ (q[k] > 0 => q[k + 1] < q[k])
  <2>1. q[k] \in Nat /\ q[k + 1] = q[k] \div Base
    BY <1>1
  <2> DEFINE a == q[k]
  <2>2. a \in Nat
    BY <2>1
  <2> HIDE DEF a
  <2>3. (a > 0 => a \div Base < a) /\ (a < Base => a \div Base = 0)
    BY <2>2, BaseType, Division
  <2>4. q[k + 1] = a \div Base /\ (a = 0 => a < Base)
    BY <2>1, BaseType DEF a
  <2> QED BY <2>2, <2>3, <2>4 DEF a
<1> DEFINE A == {k \in Nat : q[k] = 0 \/ q[k] <= n - k}
<1>3. 0 \in A
  BY <1>1
<1>4. \A k \in Nat : k \in A => k + 1 \in A
  <2> SUFFICES ASSUME NEW k \in Nat, q[k] = 0 \/ q[k] <= n - k
               PROVE  q[k + 1] = 0 \/ q[k + 1] <= n - (k + 1)
    OBVIOUS
  <2>1. q[k] \in Nat /\ q[k + 1] \in Nat
    BY <1>1
  <2> QED BY <1>2, <2>1
<1>5. n + 1 \in A /\ q[n + 1] \in Nat
  <2>1. Nat \subseteq A
    <3> HIDE DEF A
    <3> QED BY <1>3, <1>4, Induction
  <2> QED BY <1>1, <2>1
<1> QED BY <1>2, <1>5 DEF q

LEMMA QuotientsKeepOrder ==
    ASSUME NEW m \in Nat, NEW n \in Nat, m <= n
    PROVE  \A k \in Nat : Quotient(m)[k] <= Quotient(n)[k]
<1> DEFINE p == Quotient(m)
           q == Quotient(n)
           A == {k \in Nat : p[k] <= q[k]}
<1>1. /\ p \in [Nat -> Nat] /\ p[0] = m /\ \A k \in Nat : p[k + 1] = p[k] \div Base
      /\ q \in [Nat -> Nat] /\ q[0] = n /\ \A k \in Nat : q[k + 1] = q[k] \div Base
  BY Quotients
<1> HIDE DEF p, q
<1>2. 0 \in A
  BY <1>1
<1>3. \A k \in Nat : k \in A => k + 1 \in A
  <2> SUFFICES ASSUME NEW k \in Nat, p[k] <= q[k] PROVE p[k + 1] <= q[k + 1]
    OBVIOUS
  <2>1. p[k] \in Nat /\ q[k] \in Nat
    BY <1>1
  <2>2. p[k] \div Base <= q[k] \div Base
    BY <2>1, BaseType, DivisionKeepsOrder
  <2> QED BY <1>1, <2>2
<1>4. Nat \subseteq A
  <2> HIDE DEF A
  <2> QED BY <1>2, <1>3, Induction
<1> QED BY <1>4 DEF p, q

LEMMA DigitsCount ==
    ASSUME NEW n \in Nat
    PROVE  /\ Digits(n) \in Nat /\ Digits(n) >= 1
           /\ Quotient(n)[Digits(n)] = 0
           /\ \A j \in 1 .. Digits(n) - 1 : Quotient(n)[j] # 0
<1> DEFINE q == Quotient(n)
           T == {k \in 1 .. n + 1 : q[k] = 0}
           Counts(k) == q[k] = 0 /\ \A j \in 1 .. k - 1 : q[j] # 0
<1>1. T \subseteq Nat /\ T # {}
  <2>1. q[n + 1] = 0
    BY QuotientsEnd
  <2>2. n + 1 \in T
    BY <2>1
  <2> QED BY <2>2
<1>2. PICK k \in T : \A j \in T : k <= j
  <2> HIDE DEF T
  <2> QED BY <1>1, Least
<1>3. k \in 1 .. n + 1 /\ Counts(k)
  <2>1. k \in 1 .. n + 1 /\ q[k] = 0
    OBVIOUS
  <2>2. ASSUME NEW j \in 1 .. k - 1 PROVE q[j] # 0
    <3>1. j \in 1 .. n + 1 /\ ~ (k <= j)
      BY <2>1
    <3>2. j \notin T
      BY <1>2, <3>1
    <3> QED BY <3>1, <3>2
  <2> HIDE DEF q
  <2> QED BY <2>1, <2>2
<1> DEFINE d == Digits(n)
<1>4. d \in 1 .. n + 1 /\ Counts(d)
  <2>1. d = CHOOSE x \in 1 .. n + 1 : Counts(x)
    BY DEF Digits
  <2> HIDE DEF d, Counts
  <2> QED BY <1>3, <2>1
<1> HIDE DEF d, q
<1>5. d \in Nat /\ d >= 1
  BY <1>4
<1> QED BY <1>4, <1>5 DEF d, q

\* A name padded to the digits of the highest number of its stream.
Padded(n, highest) == SegmentName(n, Digits(highest))

LEMMA PaddedName ==
    ASSUME NEW highest \in Nat, NEW n \in 0 .. highest
    PROVE  /\ DOMAIN Padded(n, highest) = 1 .. Digits(highest) + 1
           /\ Len(Padded(n, highest)) = Digits(highest) + 1
           /\ \A j \in 2 .. Digits(highest) + 1 :
                 Padded(n, highest)[j] = Quotient(n)[Digits(highest) + 1 - j] % Base
<1> DEFINE w == Digits(highest)
           d == Digits(n)
           q == Quotient(n)
           f == [i \in 1 .. w |-> q[w - i] % Base]
<1>1. n \in Nat /\ n <= highest
  OBVIOUS
<1>2. w \in Nat /\ w >= 1 /\ Quotient(highest)[w] = 0
  BY DigitsCount
<1>3. d \in Nat /\ d >= 1 /\ \A j \in 1 .. d - 1 : q[j] # 0
  BY <1>1, DigitsCount
<1>4. q \in [Nat -> Nat]
  BY <1>1, Quotients
<1>5. q[w] <= Quotient(highest)[w]
  BY <1>1, <1>2, QuotientsKeepOrder
<1>6. f = [i \in 1 .. w |-> q[w - i] % Base]
  OBVIOUS
<1>7. Padded(n, highest) =
        <<"z">> \o [i \in 1 .. Max({w, d}) |-> q[Max({w, d}) - i] % Base]
  BY DEF Padded, SegmentName
<1> HIDE DEF w, d, q, f
<1>8. d <= w
  <2>1. q[w] = 0
    BY <1>2, <1>4, <1>5
  <2>2. w \notin 1 .. d - 1
    BY <1>3, <2>1
  <2> QED BY <1>2, <1>3, <2>2
<1>9. Max({w, d}) = w
  <2> DEFINE t == {w, d}
  <2>1. t \in SUBSET (0 .. w) /\ t # {} /\ w \in t /\ \A y \in t : y <= w
    BY <1>2, <1>3, <1>8
  <2> HIDE DEF t
  <2>2. Max(t) = w
    BY <1>2, <2>1, Greatest
  <2> QED BY <2>2 DEF t
<1>10. Padded(n, highest) = <<"z">> \o f
  BY <1>6, <1>7, <1>9
<1> DEFINE T == {"z"} \cup Nat
<1>11. f \in Seq(T) /\ Len(f) = w /\ \A i \in 1 .. w : f[i] = q[w - i] % Base
  <2>1. ASSUME NEW i \in 1 .. w PROVE q[w - i] % Base \in T
    <3>1. w - i \in Nat
      BY <1>2
    <3>2. q[w - i] \in Nat
      BY <1>4, <3>1
    <3>3. q[w - i] % Base \in 0 .. Base - 1
      BY <3>2, BaseType, Division
    <3> QED BY <3>3, BaseType
  <2>2. f \in [1 .. w -> T]
    BY <1>6, <2>1
  <2> HIDE DEF T
  <2> QED BY <1>2, <1>6, <2>2
<1> DEFINE name == <<"z">> \o f
<1>12. /\ name \in Seq(T) /\ Len(name) = w + 1
       /\ \A j \in 2 .. w + 1 : name[j] = f[j - 1]
  <2>1. <<"z">> \in Seq(T) /\ Len(<<"z">>) = 1
    OBVIOUS
  <2> HIDE DEF T
  <2> QED BY <1>2, <1>11, <2>1
<1> HIDE DEF name
<1>13. ASSUME NEW j \in 2 .. w + 1 PROVE name[j] = q[w + 1 - j] % Base
  <2>1. j - 1 \in 1 .. w /\ w - (j - 1) = w + 1 - j
    BY <1>2
  <2> QED BY <1>11, <1>12, <2>1
<1>14. DOMAIN name = 1 .. w + 1
  <2> HIDE DEF T
  <2> QED BY <1>12
<1> QED BY <1>10, <1>12, <1>13, <1>14 DEF name, w, q

\* Of two names, the first place where they differ is the place of the
\* highest quotient that differs.
LEMMA PaddedOrder ==
    ASSUME NEW highest \in Nat, NEW m \in 0 .. highest, NEW n \in 0 .. highest, m < n
    PROVE  /\ Before(Padded(m, highest), Padded(n, highest))
           /\ Padded(m, highest) # Padded(n, highest)
<1> DEFINE w == Digits(highest)
           p == Quotient(m)
           q == Quotient(n)
           s == Padded(m, highest)
           t == Padded(n, highest)
           Differ == {k \in 0 .. w : p[k] # q[k]}
<1>1. m \in Nat /\ n \in Nat /\ m <= n /\ m <= highest /\ n <= highest
  OBVIOUS
<1>2. /\ p \in [Nat -> Nat] /\ p[0] = m /\ \A k \in Nat : p[k + 1] = p[k] \div Base
      /\ q \in [Nat -> Nat] /\ q[0] = n /\ \A k \in Nat : q[k + 1] = q[k] \div Base
  BY <1>1, Quotients
<1>3. \A k \in Nat : p[k] <= q[k]
  BY <1>1, QuotientsKeepOrder
<1>4. w \in Nat /\ w >= 1 /\ p[w] = 0 /\ q[w] = 0
  <2>1. w \in Nat /\ w >= 1 /\ Quotient(highest)[w] = 0
    BY DigitsCount
  <2>2. p[w] <= Quotient(highest)[w] /\ q[w] <= Quotient(highest)[w]
    BY <1>1, <2>1, QuotientsKeepOrder
  <2>3. p[w] \in Nat /\ q[w] \in Nat
    BY <1>2, <2>1
  <2> QED BY <2>1, <2>2, <2>3
<1>5. /\ DOMAIN s = 1 .. w + 1 /\ DOMAIN t = 1 .. w + 1
      /\ \A j \in 2 .. w + 1 : s[j] = p[w + 1 - j] % Base /\ t[j] = q[w + 1 - j] % Base
  BY PaddedName
<1>6. PICK k \in Differ : \A j \in Differ : j <= k
  <2>1. Differ \in SUBSET (0 .. w)
    OBVIOUS
  <2>2. 0 \in Differ
    BY <1>2, <1>4
  <2> HIDE DEF Differ, w
  <2>3. Max(Differ) \in Differ /\ \A j \in Differ : j <= Max(Differ)
    BY <1>4, <2>1, <2>2, Greatest
  <2> QED BY <2>3
<1> HIDE DEF w, p, q, s, t
<1>7. k \in Nat /\ k < w /\ p[k] # q[k] /\ \A j \in k + 1 .. w : p[j] = q[j]
  <2>1. k \in Nat /\ k <= w /\ p[k] # q[k]
    BY <1>4
  <2>2. ASSUME NEW j \in k + 1 .. w PROVE p[j] = q[j]
    <3>1. j \in 0 .. w /\ ~ (j <= k)
      BY <1>4, <2>1
    <3>2. j \notin Differ
      BY <1>6, <3>1
    <3> QED BY <3>1, <3>2
  <2> HIDE DEF Differ
  <2> QED BY <1>4, <2>1, <2>2
<1>8. p[k] % Base < q[k] % Base /\ p[k] % Base \in Nat /\ q[k] % Base \in Nat
  <2> DEFINE a == p[k]
             b == q[k]
  <2>1. a \in Nat /\ b \in Nat /\ a < b
    <3>1. a \in Nat /\ b \in Nat
      BY <1>2, <1>7
    <3>2. a <= b /\ a # b
      BY <1>3, <1>7
    <3> HIDE DEF a, b
    <3> QED BY <3>1, <3>2
  <2>2. a \div Base = b \div Base
    <3>1. k + 1 \in k + 1 .. w
      BY <1>4, <1>7
    <3> QED BY <1>2, <1>7, <3>1
  <2> HIDE DEF a, b
  <2>3. a % Base < b % Base
    BY <2>1, <2>2, BaseType, DivisionKeepsOrder
  <2>4. a % Base \in 0 .. Base - 1 /\ b % Base \in 0 .. Base - 1
    BY <2>1, BaseType, Division
  <2>5. a % Base \in Nat /\ b % Base \in Nat
    BY <2>4, BaseType
  <2> QED BY <2>3, <2>5 DEF a, b
<1> DEFINE x == w + 1 - k
<1>9. x \in 2 .. w + 1 /\ w + 1 - x = k /\ x > 1
  BY <1>4, <1>7
<1>10. \A j \in 2 .. x - 1 : w + 1 - j \in k + 1 .. w /\ j \in 2 .. w + 1
  BY <1>4, <1>7
<1> HIDE DEF x
<1>11. s[x] = p[k] % Base /\ t[x] = q[k] % Base
  BY <1>5, <1>9
<1>12. s[x] < t[x] /\ s # t
  <2>1. s[x] # t[x]
    <3> DEFINE a == p[k] % Base
               b == q[k] % Base
    <3>1. a \in Nat /\ b \in Nat /\ a < b
      BY <1>8
    <3> HIDE DEF a, b
    <3>2. a # b
      BY <3>1
    <3> QED BY <1>11, <3>2 DEF a, b
  <2> QED BY <1>8, <1>11, <2>1
<1>13. \A j \in 2 .. x - 1 : s[j] = t[j]
  BY <1>5, <1>7, <1>10
<1>14. Before(s, t)
  <2>1. x \in DOMAIN s \cap DOMAIN t
    BY <1>4, <1>5, <1>9
  <2> QED BY <1>9, <1>12, <1>13, <2>1 DEF Before
<1> QED BY <1>12, <1>14 DEF s, t

-----------------------------------------------------------------------------
\* Segments are numbered from 0 in the order of the stream.
SegmentOf(number, bytes) ==
    [cid |-> RawBlock(<<"segment", bytes>>, bytes), bytes |-> bytes,
     duration |-> bytes, sequence |-> number]

Segments == {SegmentOf(number, bytes) : number \in 0 .. MaxSegments - 1, bytes \in SegmentLengths}

IsStream(blocks) ==
    blocks \in Seq(Segments) /\ \A i \in 1 .. Len(blocks) : blocks[i].sequence = i - 1

First(blocks, n) == [i \in 1 .. n |-> blocks[i]]

ScriptInv ==
    /\ \E n \in ScriptLengths : main_js = [i \in 1 .. n |-> i]
    /\ script = MultiRawBlockFile(main_js)

PublishedInv ==
    Published =>
        \E n \in 0 .. Len(container) :
            /\ hls = HLSContainer(First(container, n))
            /\ player = HLSPlayer(hls, script)

PackInv == ScriptInv /\ IsStream(container) /\ PublishedInv

LEMMA FirstOfStream ==
    ASSUME NEW blocks, IsStream(blocks), NEW n \in 0 .. Len(blocks)
    PROVE  /\ IsStream(First(blocks, n)) /\ Len(First(blocks, n)) = n
           /\ \A i \in 1 .. n : First(blocks, n)[i] = blocks[i]
<1>1. blocks \in Seq(Segments) /\ Len(blocks) \in Nat
      /\ \A i \in 1 .. Len(blocks) : blocks[i] \in Segments /\ blocks[i].sequence = i - 1
  BY DEF IsStream
<1>2. n \in Nat /\ \A i \in 1 .. n : i \in 1 .. Len(blocks)
  BY <1>1
<1> DEFINE f == First(blocks, n)
<1>3. f = [i \in 1 .. n |-> blocks[i]]
  BY DEF First
<1> HIDE DEF f
<1>4. f \in Seq(Segments) /\ Len(f) = n
  BY <1>1, <1>2, <1>3
<1>5. \A i \in 1 .. n : f[i] = blocks[i]
  BY <1>3
<1>6. IsStream(f)
  BY <1>1, <1>2, <1>4, <1>5 DEF IsStream
<1> QED BY <1>4, <1>5, <1>6 DEF f

\* A step packages the stream anew or leaves what was packaged alone.
LEMMA PackInvariance == Spec => []PackInv
<1>1. Init => PackInv
  <2> SUFFICES ASSUME Init PROVE PackInv
    OBVIOUS
  <2>1. ScriptInv
    BY DEF Init, ScriptInv
  <2>2. IsStream(container)
    <3>1. <<>> \in Seq(Segments) /\ Len(<<>>) = 0 /\ 1 .. 0 = {}
      OBVIOUS
    <3> QED BY <3>1 DEF Init, IsStream
  <2>3. PublishedInv
    BY DEF Init, PublishedInv, Published
  <2> QED BY <2>1, <2>2, <2>3 DEF PackInv
<1>2. PackInv /\ [Next]_vars => PackInv'
  <2> SUFFICES ASSUME PackInv, [Next]_vars PROVE PackInv'
    OBVIOUS
  <2>1. ASSUME UNCHANGED <<main_js, script, container, hls, player>> PROVE PackInv'
    BY <2>1 DEF PackInv, ScriptInv, PublishedInv, Published
  <2>2. CASE NewDist
    BY <2>1, <2>2 DEF NewDist
  <2>3. ASSUME NEW bytes \in SegmentLengths, Segment(bytes) PROVE PackInv'
    <3> DEFINE n == Len(container)
               new == SegmentOf(n, bytes)
    <3>1. /\ container' = Append(container, new) /\ n < MaxSegments
          /\ UNCHANGED <<main_js, script, hls, player>>
      BY <2>3 DEF Segment, SegmentOf
    <3>2. container \in Seq(Segments) /\ n \in Nat
          /\ \A i \in 1 .. n : container[i].sequence = i - 1
      BY DEF PackInv, IsStream
    <3>3. new \in Segments /\ new.sequence = n
      <4>1. n \in 0 .. MaxSegments - 1
        BY <3>1, <3>2, PackagingAssumption
      <4>2. new \in Segments
        BY <4>1 DEF Segments
      <4> QED BY <4>2 DEF SegmentOf
    <3> HIDE DEF new
    <3>4. /\ container' \in Seq(Segments) /\ Len(container') = n + 1
          /\ \A i \in 1 .. n : container'[i] = container[i]
          /\ container'[n + 1] = new
      BY <3>1, <3>2, <3>3, Appended
    <3>5. IsStream(container)'
      <4>1. ASSUME NEW i \in 1 .. n + 1 PROVE container'[i].sequence = i - 1
        <5>1. CASE i = n + 1
          BY <3>2, <3>3, <3>4, <5>1
        <5>2. CASE i # n + 1
          <6>1. i \in 1 .. n
            BY <3>2, <5>2
          <6> QED BY <3>2, <3>4, <6>1
        <5> QED BY <5>1, <5>2
      <4> QED BY <3>4, <4>1 DEF IsStream
    <3>6. PublishedInv'
      <4> SUFFICES ASSUME Published'
                   PROVE  \E k \in 0 .. Len(container') :
                             /\ hls' = HLSContainer(First(container', k))
                             /\ player' = HLSPlayer(hls', script')
        BY DEF PublishedInv
      <4>1. PICK k \in 0 .. n :
               hls = HLSContainer(First(container, k)) /\ player = HLSPlayer(hls, script)
        BY <3>1 DEF PackInv, PublishedInv, Published
      <4>2. First(container', k) = First(container, k)
        <5>1. \A i \in 1 .. k : i \in 1 .. n
          BY <3>2
        <5> QED BY <3>4, <5>1 DEF First
      <4>3. k \in 0 .. Len(container')
        BY <3>2, <3>4
      <4> QED BY <3>1, <4>1, <4>2, <4>3
    <3>7. ScriptInv'
      BY <3>1 DEF PackInv, ScriptInv
    <3> QED BY <3>5, <3>6, <3>7 DEF PackInv
  <2>4. CASE Publish
    <3>1. UNCHANGED <<main_js, script, container>>
      BY <2>4 DEF Publish
    <3>2. CASE UNCHANGED <<hls, player>>
      BY <2>1, <3>1, <3>2
    <3>3. CASE hls' = HLSContainer(container) /\ player' = HLSPlayer(hls', script)
      <4>1. container \in Seq(Segments)
        BY DEF PackInv, IsStream
      <4>2. First(container, Len(container)) = container
        BY <4>1 DEF First
      <4>3. Len(container) \in 0 .. Len(container)
        BY <4>1
      <4>4. PublishedInv'
        BY <3>1, <3>3, <4>2, <4>3 DEF PublishedInv
      <4> QED BY <3>1, <4>4 DEF PackInv, ScriptInv
    <3>4. \/ UNCHANGED <<hls, player>>
          \/ hls' = HLSContainer(container) /\ player' = HLSPlayer(hls', script)
      BY <2>4 DEF Publish
    <3> QED BY <3>2, <3>3, <3>4
  <2>5. CASE UNCHANGED vars
    BY <2>1, <2>5 DEF vars
  <2> QED BY <2>2, <2>3, <2>4, <2>5 DEF Next
<1> QED BY <1>1, <1>2, PTL DEF Spec

-----------------------------------------------------------------------------
\* What HLSContainer makes of a stream whose highest number is given.
Packaged(h, blocks, highest) ==
    /\ highest \in Nat /\ \A i \in 1 .. Len(blocks) : i - 1 \in 0 .. highest
    /\ h.playlist = Playlist([i \in 1 .. Len(blocks) |-> Padded(i - 1, highest)], blocks)
    /\ h.directory.bytes = NodeBytes + LinkBytes * (Len(blocks) + 1)
    /\ DOMAIN h.directory.links = 1 .. Len(blocks) + 1
    /\ h.directory.links[1] =
          [name |-> <<"index.m3u8">>, cid |-> h.playlist, size |-> h.playlist.bytes]
    /\ \A i \in 1 .. Len(blocks) :
          h.directory.links[i + 1] =
             [name |-> Padded(i - 1, highest), cid |-> blocks[i].cid, size |-> blocks[i].bytes]

LEMMA SegmentShape ==
    ASSUME NEW blocks, IsStream(blocks), NEW i \in 1 .. Len(blocks)
    PROVE  /\ blocks[i].bytes \in Nat
           /\ blocks[i].cid = RawBlock(<<"segment", blocks[i].bytes>>, blocks[i].bytes)
<1>1. blocks[i] \in Segments
  BY DEF IsStream
<1>2. PICK number \in 0 .. MaxSegments - 1, bytes \in SegmentLengths :
        blocks[i] = SegmentOf(number, bytes)
  BY <1>1 DEF Segments
<1>3. bytes \in Nat
  BY PackagingAssumption
<1> QED BY <1>2, <1>3 DEF SegmentOf

LEMMA ContainerShape ==
    ASSUME NEW blocks, IsStream(blocks)
    PROVE  \E highest : Packaged(HLSContainer(blocks), blocks, highest)
<1> DEFINE n == Len(blocks)
           T == {0} \cup {blocks[i].sequence : i \in DOMAIN blocks}
           highest == Max(T)
           names == [i \in 1 .. n |-> Padded(i - 1, highest)]
           playlist == Playlist(names, blocks)
           first == [name |-> <<"index.m3u8">>, cid |-> playlist, size |-> playlist.bytes]
           links == [i \in 1 .. n |->
                       [name |-> names[i], cid |-> blocks[i].cid, size |-> blocks[i].bytes]]
           h == HLSContainer(blocks)
<1>1. n \in Nat /\ DOMAIN blocks = 1 .. n /\ \A i \in 1 .. n : blocks[i].sequence = i - 1
  BY DEF IsStream
<1> HIDE DEF n
<1>2. highest \in Nat /\ \A i \in 1 .. n : i - 1 \in 0 .. highest
  <2>1. T \in SUBSET (0 .. n) /\ T # {}
    BY <1>1
  <2> HIDE DEF T
  <2>2. highest \in T /\ \A y \in T : y <= highest
    BY <1>1, <2>1, Greatest
  <2> HIDE DEF highest
  <2>3. highest \in Nat
    BY <1>1, <2>1, <2>2
  <2>4. ASSUME NEW i \in 1 .. n PROVE i - 1 \in 0 .. highest
    <3>1. i - 1 \in T
      BY <1>1 DEF T
    <3>2. i - 1 <= highest
      BY <2>2, <3>1
    <3> QED BY <1>1, <2>3, <3>2
  <2> QED BY <2>3, <2>4
<1>3. Map(LAMBDA segment : SegmentName(segment.sequence, Digits(highest)), blocks) = names
  <2>1. \A i \in 1 .. n : SegmentName(blocks[i].sequence, Digits(highest)) = names[i]
    BY <1>1 DEF Padded
  <2> HIDE DEF highest
  <2> QED BY <1>1, <2>1 DEF Map, Padded
<1>4. h = [playlist |-> playlist, directory |-> DirectoryBlock(<<first>> \o links),
           sequence |-> Len(blocks)]
  BY <1>1, <1>3 DEF HLSContainer, PlaylistFirst, Link
<1> HIDE DEF h, T, highest, names, playlist
<1> DEFINE S == {first} \cup {links[i] : i \in 1 .. n}
           all == <<first>> \o links
<1>5. <<first>> \in Seq(S) /\ Len(<<first>>) = 1 /\ links \in Seq(S) /\ Len(links) = n
  <2>1. links \in [1 .. n -> S]
    OBVIOUS
  <2> HIDE DEF links
  <2>2. <<first>> \in Seq(S) /\ Len(<<first>>) = 1
    OBVIOUS
  <2> HIDE DEF S
  <2>3. links \in Seq(S) /\ Len(links) = n
    BY <1>1, <2>1
  <2> QED BY <2>2, <2>3
<1> HIDE DEF S, first
<1>6. /\ Len(all) = n + 1 /\ DOMAIN all = 1 .. n + 1 /\ all[1] = first
      /\ \A i \in 1 .. n : all[i + 1] = links[i]
  <2> HIDE DEF links
  <2> QED BY <1>1, <1>5
<1>7. \A i \in 1 .. n :
        all[i + 1] = [name |-> Padded(i - 1, highest), cid |-> blocks[i].cid,
                      size |-> blocks[i].bytes]
  <2> HIDE DEF all
  <2> QED BY <1>6 DEF names
<1> HIDE DEF all, links
<1>8. h.playlist = playlist /\ h.directory.links = all
      /\ h.directory.bytes = NodeBytes + LinkBytes * (n + 1)
  BY <1>4, <1>6 DEF DirectoryBlock, Block, all
<1>9. Packaged(h, blocks, highest)
  BY <1>2, <1>6, <1>7, <1>8 DEF Packaged, n, names, playlist, first
<1> QED BY <1>9 DEF h

LEMMA PublishedShape ==
    ASSUME PackInv, Published
    PROVE  \E blocks, highest :
              /\ IsStream(blocks) /\ Packaged(hls, blocks, highest)
              /\ Len(blocks) \in Nat /\ Len(blocks) <= Len(container)
              /\ \A i \in 1 .. Len(blocks) : blocks[i] = container[i]
              /\ player = HLSPlayer(hls, script)
<1>1. PICK n \in 0 .. Len(container) :
        hls = HLSContainer(First(container, n)) /\ player = HLSPlayer(hls, script)
  BY DEF PackInv, PublishedInv
<1> DEFINE blocks == First(container, n)
<1>2. /\ IsStream(blocks) /\ Len(blocks) = n
      /\ \A i \in 1 .. n : blocks[i] = container[i]
  BY FirstOfStream DEF PackInv
<1> HIDE DEF blocks
<1>3. PICK highest : Packaged(hls, blocks, highest)
  <2>1. hls = HLSContainer(blocks)
    BY <1>1 DEF blocks
  <2> QED BY <1>2, <2>1, ContainerShape
<1>4. Len(container) \in Nat
  BY DEF PackInv, IsStream
<1> QED BY <1>1, <1>2, <1>3, <1>4

LEMMA EntryShape ==
    ASSUME NEW h, NEW blocks, NEW highest, Packaged(h, blocks, highest)
    PROVE  h.playlist.content[2] =
             [i \in 1 .. Len(blocks) |->
                [uri |-> Padded(i - 1, highest), duration |-> blocks[i].duration]]
<1> DEFINE names == [i \in 1 .. Len(blocks) |-> Padded(i - 1, highest)]
<1>1. h.playlist = Playlist(names, blocks)
  BY DEF Packaged
<1>2. DOMAIN names = 1 .. Len(blocks)
      /\ \A i \in 1 .. Len(blocks) : names[i] = Padded(i - 1, highest)
  OBVIOUS
<1> HIDE DEF names
<1> QED BY <1>1, <1>2 DEF Playlist, RawBlock, Block

(***************************************************************************)
(* In every state the names a playlist lists are in ascending order, for   *)
(* any base and any number of segments: HLSContainer::new pads each number *)
(* to the digits of the highest one.                                       *)
(***************************************************************************)
THEOREM NamesInPlayOrderCorrect == Spec => []NamesInPlayOrder
<1>1. PackInv => NamesInPlayOrder
  <2> SUFFICES ASSUME PackInv, Published,
                      NEW i \in DOMAIN Entries, NEW j \in DOMAIN Entries, i < j
               PROVE  Before(Entries[i].uri, Entries[j].uri)
    BY DEF NamesInPlayOrder
  <2>1. PICK blocks, highest :
           Packaged(hls, blocks, highest) /\ Len(blocks) \in Nat
    BY PublishedShape
  <2>2. Entries = [k \in 1 .. Len(blocks) |->
                     [uri |-> Padded(k - 1, highest), duration |-> blocks[k].duration]]
    BY <2>1, EntryShape DEF Entries
  <2>3. i \in 1 .. Len(blocks) /\ j \in 1 .. Len(blocks)
    BY <2>2
  <2>4. /\ highest \in Nat /\ i - 1 \in 0 .. highest /\ j - 1 \in 0 .. highest
        /\ i - 1 < j - 1
    BY <2>1, <2>3 DEF Packaged
  <2>5. Before(Padded(i - 1, highest), Padded(j - 1, highest))
    BY <2>4, PaddedOrder
  <2> QED BY <2>2, <2>3, <2>5
<1> QED BY <1>1, PackInvariance, PTL

LEMMA LinkShape ==
    ASSUME NEW h, NEW blocks, NEW highest, Packaged(h, blocks, highest)
    PROVE  /\ h.directory.links[1].name = <<"index.m3u8">>
           /\ h.directory.links[1].cid = h.playlist
           /\ h.directory.links[1].size = h.playlist.bytes
           /\ \A i \in 1 .. Len(blocks) :
                 /\ h.directory.links[i + 1].name = Padded(i - 1, highest)
                 /\ h.directory.links[i + 1].cid = blocks[i].cid
                 /\ h.directory.links[i + 1].size = blocks[i].bytes
<1> DEFINE links == h.directory.links
<1>1. links[1] = [name |-> <<"index.m3u8">>, cid |-> h.playlist, size |-> h.playlist.bytes]
  BY DEF Packaged
<1>2. ASSUME NEW i \in 1 .. Len(blocks)
      PROVE  links[i + 1] = [name |-> Padded(i - 1, highest), cid |-> blocks[i].cid,
                             size |-> blocks[i].bytes]
  BY DEF Packaged
<1> HIDE DEF links
<1>3. ASSUME NEW i \in 1 .. Len(blocks)
      PROVE  /\ links[i + 1].name = Padded(i - 1, highest)
             /\ links[i + 1].cid = blocks[i].cid
             /\ links[i + 1].size = blocks[i].bytes
  <2> DEFINE l == links[i + 1]
             name == Padded(i - 1, highest)
  <2>1. l = [name |-> name, cid |-> blocks[i].cid, size |-> blocks[i].bytes]
    BY <1>2
  <2> HIDE DEF l, name
  <2>2. l.name = name /\ l.cid = blocks[i].cid /\ l.size = blocks[i].bytes
    BY <2>1
  <2> QED BY <2>2 DEF l, name
<1>4. /\ links[1].name = <<"index.m3u8">> /\ links[1].cid = h.playlist
      /\ links[1].size = h.playlist.bytes
  BY <1>1
<1> QED BY <1>3, <1>4 DEF links

\* No two files of a directory have one name.
LEMMA NamesDiffer ==
    ASSUME NEW h, NEW blocks, NEW highest, Packaged(h, blocks, highest), Len(blocks) \in Nat
    PROVE  /\ \A i \in 1 .. Len(blocks) : Named(h.directory, Padded(i - 1, highest)) = {i + 1}
           /\ Named(h.directory, <<"index.m3u8">>) = {1}
<1> DEFINE n == Len(blocks)
           links == h.directory.links
<1>1. /\ highest \in Nat /\ \A i \in 1 .. n : i - 1 \in 0 .. highest
      /\ DOMAIN links = 1 .. n + 1 /\ links[1].name = <<"index.m3u8">>
      /\ \A i \in 1 .. n : links[i + 1].name = Padded(i - 1, highest)
  <2>1. /\ highest \in Nat /\ \A i \in 1 .. n : i - 1 \in 0 .. highest
        /\ DOMAIN links = 1 .. n + 1
    BY DEF Packaged
  <2> QED BY <2>1, LinkShape
<1>2. n \in Nat
  OBVIOUS
<1> HIDE DEF n, links
<1>3. ASSUME NEW i \in 1 .. n PROVE Padded(i - 1, highest) # <<"index.m3u8">>
  <2>1. i - 1 \in 0 .. highest
    BY <1>1
  <2>2. Digits(highest) \in Nat /\ Digits(highest) >= 1
    BY <1>1, DigitsCount
  <2>3. DOMAIN Padded(i - 1, highest) = 1 .. Digits(highest) + 1
    BY <1>1, <2>1, PaddedName
  <2>4. 2 \in DOMAIN Padded(i - 1, highest) /\ 2 \notin DOMAIN <<"index.m3u8">>
    BY <2>2, <2>3
  <2> QED BY <2>4
<1>4. ASSUME NEW i \in 1 .. n, NEW j \in 1 .. n, i # j
      PROVE  Padded(i - 1, highest) # Padded(j - 1, highest)
  <2>1. i - 1 \in 0 .. highest /\ j - 1 \in 0 .. highest
    BY <1>1
  <2>2. CASE i < j
    <3>1. i - 1 < j - 1
      BY <1>2, <2>2
    <3> QED BY <1>1, <2>1, <3>1, PaddedOrder
  <2>3. CASE j < i
    <3>1. j - 1 < i - 1
      BY <1>2, <2>3
    <3> QED BY <1>1, <2>1, <3>1, PaddedOrder
  <2> QED BY <1>2, <1>4, <2>2, <2>3
<1>5. \A k \in 1 .. n + 1 : k = 1 \/ (k - 1 \in 1 .. n /\ (k - 1) + 1 = k)
  BY <1>2
<1>6. ASSUME NEW i \in 1 .. n PROVE Named(h.directory, Padded(i - 1, highest)) = {i + 1}
  <2>1. i + 1 \in 1 .. n + 1 /\ links[i + 1].name = Padded(i - 1, highest)
    BY <1>1, <1>2
  <2>2. ASSUME NEW k \in 1 .. n + 1, links[k].name = Padded(i - 1, highest)
        PROVE  k = i + 1
    <3>1. k # 1
      BY <1>1, <1>3, <2>2
    <3>2. k - 1 \in 1 .. n /\ (k - 1) + 1 = k
      BY <1>5, <3>1
    <3>3. links[k].name = Padded((k - 1) - 1, highest)
      BY <1>1, <3>2
    <3>4. k - 1 = i
      BY <1>4, <2>2, <3>2, <3>3
    <3> QED BY <3>2, <3>4
  <2> QED BY <1>1, <2>1, <2>2 DEF Named, links
<1>7. Named(h.directory, <<"index.m3u8">>) = {1}
  <2>1. 1 \in 1 .. n + 1
    BY <1>2
  <2>2. ASSUME NEW k \in 1 .. n + 1, k # 1 PROVE links[k].name # <<"index.m3u8">>
    <3>1. k - 1 \in 1 .. n /\ (k - 1) + 1 = k
      BY <1>5, <2>2
    <3>2. links[k].name = Padded((k - 1) - 1, highest)
      BY <1>1, <3>1
    <3> QED BY <1>3, <3>1, <3>2
  <2> QED BY <1>1, <2>1, <2>2 DEF Named, links
<1> QED BY <1>6, <1>7 DEF n

(***************************************************************************)
(* In every state an entry of the playlist names one file of its own       *)
(* directory, that file is the segment at its place in the stream, and the *)
(* directory holds nothing else but the playlist (HLSContainer::new).      *)
(***************************************************************************)
THEOREM PlaylistResolvesCorrect == Spec => []PlaylistResolves
<1>1. ASSUME PackInv, Published PROVE PlaylistResolves
  <2>1. PICK blocks, highest :
           /\ Packaged(hls, blocks, highest) /\ Len(blocks) \in Nat
           /\ \A i \in 1 .. Len(blocks) : blocks[i] = container[i]
    BY <1>1, PublishedShape
  <2> DEFINE n == Len(blocks)
             entries == Entries
             files == [i \in DOMAIN entries |-> Named(hls.directory, entries[i].uri)]
  <2>2. n \in Nat
    BY <2>1
  <2>3. entries = [k \in 1 .. n |->
                     [uri |-> Padded(k - 1, highest), duration |-> blocks[k].duration]]
    BY <2>1, EntryShape DEF Entries
  <2>4. /\ \A i \in 1 .. n : Named(hls.directory, Padded(i - 1, highest)) = {i + 1}
        /\ Named(hls.directory, <<"index.m3u8">>) = {1}
    BY <2>1, NamesDiffer
  <2>5. /\ DOMAIN hls.directory.links = 1 .. n + 1
        /\ hls.directory.links[1].cid = hls.playlist
        /\ \A i \in 1 .. n : hls.directory.links[i + 1].cid = container[i].cid
    <3>1. DOMAIN hls.directory.links = 1 .. n + 1
      BY <2>1 DEF Packaged
    <3>2. /\ hls.directory.links[1].cid = hls.playlist
          /\ \A i \in 1 .. n : hls.directory.links[i + 1].cid = blocks[i].cid
      BY <2>1, LinkShape
    <3> QED BY <2>1, <3>1, <3>2
  <2>6. DOMAIN entries = 1 .. n /\ \A i \in 1 .. n :
           files[i] = {i + 1} /\ entries[i].duration = container[i].duration
    BY <2>1, <2>3, <2>4
  <2>7. files = [i \in 1 .. n |-> {i + 1}]
    BY <2>3, <2>4
  <2> HIDE DEF n, entries
  <2>8. 1 .. n + 1 = {1} \cup UNION {files[i] : i \in DOMAIN entries}
    <3>1. ASSUME NEW k \in 1 .. n + 1, k # 1
          PROVE  k \in UNION {files[i] : i \in DOMAIN entries}
      <4>1. k - 1 \in 1 .. n /\ (k - 1) + 1 = k
        BY <2>2, <3>1
      <4>2. k \in files[k - 1]
        BY <2>7, <4>1
      <4> HIDE DEF files
      <4> QED BY <2>6, <4>1, <4>2
    <3>2. 1 \in 1 .. n + 1 /\ \A i \in 1 .. n : i + 1 \in 1 .. n + 1
      BY <2>2
    <3>3. \A i \in DOMAIN entries : files[i] \subseteq 1 .. n + 1
      BY <2>6, <2>7, <3>2
    <3> HIDE DEF files
    <3> QED BY <3>1, <3>2, <3>3
  <2> HIDE DEF files
  <2>9. \A i \in DOMAIN entries : \E k \in files[i] :
           /\ files[i] = {k}
           /\ hls.directory.links[k].cid = container[i].cid
           /\ entries[i].duration = container[i].duration
    BY <2>5, <2>6
  <2>10. \E k \in Named(hls.directory, <<"index.m3u8">>) :
            /\ hls.directory.links[k].cid = hls.playlist
            /\ DOMAIN hls.directory.links = {k} \cup UNION {files[i] : i \in DOMAIN entries}
    BY <2>4, <2>5, <2>8
  <2> QED BY <2>9, <2>10 DEF PlaylistResolves, entries, files
<1>2. PackInv => PlaylistResolves
  BY <1>1 DEF PlaylistResolves
<1> QED BY <1>2, PackInvariance, PTL

-----------------------------------------------------------------------------
\* q cuts b into count pieces, which end at the given places.
Cuts(q, b, count, ends) ==
    /\ count \in Nat
    /\ q = [i \in 1 .. count |-> SubSeq(b, ends[i - 1] + 1, ends[i])]
    /\ ends \in [0 .. count -> 0 .. Len(b)] /\ ends[0] = 0 /\ ends[count] = Len(b)
    /\ \A i \in 1 .. count : ends[i - 1] <= ends[i]
    /\ \A i \in 1 .. count - 1 : ends[i] = ends[i - 1] + BLOCK_MAX_BYTES

LEMMA TimesKeepsOrder ==
    ASSUME NEW i \in Nat, NEW j \in Nat, NEW m \in Nat, i <= j
    PROVE  i * m \in Nat /\ i * m <= j * m
<1>1. PICK d \in Nat : j = i + d
  OBVIOUS
<1>2. j * m = i * m + d * m /\ d * m >= 0
  BY <1>1
<1> QED BY <1>2

LEMMA Ceiling ==
    ASSUME NEW length \in Nat, NEW m \in Nat, m > 0,
           NEW c, c = (length + m - 1) \div m
    PROVE  /\ c \in Nat /\ length <= c * m
           /\ c > 0 => (c - 1) * m < length
<1> DEFINE a == length + m - 1
           r == a % m
<1>1. a \in Nat /\ c = a \div m
  OBVIOUS
<1> HIDE DEF a
<1>2. c \in Nat /\ r \in 0 .. m - 1 /\ a = m * c + r
  BY <1>1
<1> HIDE DEF r
<1>3. r \in Int /\ r >= 0 /\ r <= m - 1
  BY <1>2
<1>4. length + m - 1 = c * m + r
  BY <1>2, <1>3 DEF a
<1>5. c > 0 => c * m = (c - 1) * m + m
  BY <1>2
<1>6. c * m \in Int /\ (c - 1) * m \in Int
  BY <1>2
<1> DEFINE x == c * m
           y == (c - 1) * m
<1>7. /\ length + m - 1 = x + r /\ x \in Int /\ y \in Int
      /\ c > 0 => x = y + m
  BY <1>4, <1>5, <1>6
<1> HIDE DEF x, y
<1>8. length <= x /\ (c > 0 => y < length)
  BY <1>3, <1>7
<1> QED BY <1>2, <1>8 DEF x, y

LEMMA ChunksCut ==
    ASSUME NEW T, NEW b \in Seq(T)
    PROVE  \E count, ends : Cuts(Chunks(b), b, count, ends)
<1> DEFINE m == BLOCK_MAX_BYTES
           n == Len(b)
           count == (n + m - 1) \div m
           ends == [i \in 0 .. count |-> IF i = count THEN n ELSE i * m]
<1>1. m \in Nat /\ m > 0 /\ n \in Nat
  BY PackagingAssumption
<1>2. Chunks(b) = [i \in 1 .. count |-> SubSeq(b, (i - 1) * m + 1, Min({i * m, n}))]
  BY DEF Chunks
<1> HIDE DEF m, n
<1>3. count \in Nat /\ n <= count * m /\ (count > 0 => (count - 1) * m < n)
  BY <1>1, Ceiling
<1> HIDE DEF count
<1>4. ends[count] = n /\ \A i \in 0 .. count - 1 : ends[i] = i * m
  BY <1>3
<1>5. ends[0] = 0
  <2>1. CASE count = 0
    <3>1. count * m = 0
      BY <1>1, <2>1
    <3> QED BY <1>1, <1>3, <1>4, <2>1, <3>1
  <2>2. CASE count # 0
    <3>1. 0 \in 0 .. count - 1 /\ 0 * m = 0
      BY <1>1, <1>3, <2>2
    <3> QED BY <1>4, <3>1
  <2> QED BY <2>1, <2>2
<1>6. ASSUME NEW i \in 0 .. count - 1 PROVE i * m \in Nat /\ i * m < n
  <2>1. i \in Nat /\ count - 1 \in Nat /\ i <= count - 1
    BY <1>3
  <2> DEFINE x == i * m
             y == (count - 1) * m
  <2>2. x \in Nat /\ x <= y /\ y \in Nat
    BY <1>1, <2>1, TimesKeepsOrder
  <2>3. y < n
    BY <1>3, <2>1
  <2> HIDE DEF x, y
  <2>4. x < n
    BY <1>1, <2>2, <2>3
  <2> QED BY <2>2, <2>4 DEF x
<1>7. ends \in [0 .. count -> 0 .. n]
  <2>1. ASSUME NEW i \in 0 .. count PROVE (IF i = count THEN n ELSE i * m) \in 0 .. n
    <3>1. CASE i = count
      BY <1>1, <3>1
    <3>2. CASE i # count
      <4>1. i \in 0 .. count - 1
        BY <1>3, <3>2
      <4> QED BY <1>1, <1>6, <3>2, <4>1
    <3> QED BY <3>1, <3>2
  <2> QED BY <2>1
<1> HIDE DEF ends
<1>8. ASSUME NEW i \in 1 .. count
      PROVE  /\ ends[i - 1] = (i - 1) * m /\ ends[i - 1] <= ends[i]
             /\ ends[i] = Min({i * m, n})
             /\ i # count => ends[i] = ends[i - 1] + m
  <2> DEFINE x == i * m
             y == (i - 1) * m
  <2>1. i - 1 \in 0 .. count - 1 /\ i - 1 \in Nat /\ i \in Nat
    BY <1>3
  <2>2. ends[i - 1] = y /\ y \in Nat /\ y < n
    BY <1>4, <1>6, <2>1
  <2>3. x = y + m /\ x \in Nat
    BY <1>1, <2>1
  <2>4. CASE i = count
    <3>1. n <= x /\ ends[i] = n
      BY <1>3, <1>4, <2>4
    <3> HIDE DEF x, y
    <3>2. Min({x, n}) = n
      BY <1>1, <2>3, <3>1 DEF Min
    <3>3. ends[i] = Min({x, n}) /\ ends[i - 1] <= ends[i] /\ ends[i - 1] = y
      BY <1>1, <2>2, <3>1, <3>2
    <3> QED BY <2>4, <3>3 DEF x, y
  <2>5. CASE i # count
    <3>1. i \in 0 .. count - 1
      BY <1>3, <2>5
    <3>2. x < n /\ ends[i] = x
      BY <1>4, <1>6, <3>1
    <3> HIDE DEF x, y
    <3>3. Min({x, n}) = x
      BY <1>1, <2>3, <3>2 DEF Min
    <3>4. /\ ends[i] = Min({x, n}) /\ ends[i - 1] <= ends[i] /\ ends[i - 1] = y
          /\ ends[i] = ends[i - 1] + m
      BY <1>1, <2>2, <2>3, <3>2, <3>3
    <3> QED BY <3>4 DEF x, y
  <2> QED BY <2>4, <2>5
<1>9. Cuts(Chunks(b), b, count, ends)
  <2>1. Chunks(b) = [i \in 1 .. count |-> SubSeq(b, ends[i - 1] + 1, ends[i])]
    BY <1>2, <1>8
  <2>2. \A i \in 1 .. count : ends[i - 1] <= ends[i]
    BY <1>8
  <2>3. ASSUME NEW i \in 1 .. count - 1 PROVE ends[i] = ends[i - 1] + m
    <3>1. i \in 1 .. count /\ i # count
      BY <1>3
    <3> QED BY <1>8, <3>1
  <2> QED BY <1>3, <1>4, <1>5, <1>7, <2>1, <2>2, <2>3 DEF Cuts, n, m
<1> QED BY <1>9

\* Pieces put together again are the whole, and so are their lengths.
LEMMA PiecesRejoin ==
    ASSUME NEW T, NEW b \in Seq(T), NEW q, NEW count, NEW ends, Cuts(q, b, count, ends)
    PROVE  /\ q \in Seq(Seq(T)) /\ Len(q) = count
           /\ \A i \in 1 .. count : Len(q[i]) = ends[i] - ends[i - 1]
           /\ FlattenSeq(q) = b
           /\ Sum([i \in 1 .. count |-> Len(q[i])]) = Len(b)
<1> DEFINE piece(i) == SubSeq(b, ends[i - 1] + 1, ends[i])
           lengths(k) == [i \in 1 .. k |-> Len(q[i])]
<1>1. /\ count \in Nat /\ q = [i \in 1 .. count |-> piece(i)]
      /\ ends \in [0 .. count -> 0 .. Len(b)] /\ ends[0] = 0 /\ ends[count] = Len(b)
      /\ \A i \in 1 .. count : ends[i - 1] <= ends[i]
  BY DEF Cuts
<1>2. Len(b) \in Nat
  OBVIOUS
<1>3. ASSUME NEW i \in 1 .. count
      PROVE  /\ ends[i - 1] \in Nat /\ ends[i] \in Nat /\ ends[i - 1] <= ends[i]
             /\ ends[i] <= Len(b)
  <2>1. i \in 0 .. count /\ i - 1 \in 0 .. count
    BY <1>1
  <2>2. ends[i] \in 0 .. Len(b) /\ ends[i - 1] \in 0 .. Len(b)
    BY <1>1, <2>1
  <2> QED BY <1>1, <1>2, <2>2
<1>4. ASSUME NEW i \in 1 .. count
      PROVE  /\ q[i] \in Seq(T) /\ Len(q[i]) = ends[i] - ends[i - 1]
             /\ \A j \in 1 .. Len(q[i]) : q[i][j] = b[ends[i - 1] + j]
  <2> DEFINE lo == ends[i - 1]
             hi == ends[i]
  <2>1. lo \in Nat /\ hi \in Nat /\ lo <= hi /\ hi <= Len(b)
    BY <1>3
  <2>2. q[i] = SubSeq(b, lo + 1, hi)
    BY <1>1
  <2> HIDE DEF lo, hi
  <2>3. q[i] = [j \in 1 .. hi - lo |-> b[lo + j]]
    BY <2>1, <2>2
  <2>4. \A j \in 1 .. hi - lo : lo + j \in 1 .. Len(b)
    BY <2>1
  <2>5. hi - lo \in Nat
    BY <2>1
  <2>6. q[i] \in Seq(T) /\ Len(q[i]) = hi - lo
        /\ \A j \in 1 .. hi - lo : q[i][j] = b[lo + j]
    BY <2>3, <2>4, <2>5
  <2> QED BY <2>6 DEF lo, hi
<1> HIDE DEF piece
<1>5. q \in Seq(Seq(T)) /\ Len(q) = count
  <2>1. \A i \in 1 .. count : piece(i) = q[i]
    BY <1>1
  <2>2. q \in [1 .. count -> Seq(T)]
    BY <1>1, <1>4, <2>1
  <2> QED BY <1>1, <2>2
<1> DEFINE A == {k \in Int : /\ FlattenSeq(First(q, k)) = First(b, ends[k])
                             /\ Sum(lengths(k)) = ends[k]}
<1>6. 0 \in A
  <2>1. First(q, 0) = <<>> /\ First(b, 0) = <<>> /\ lengths(0) = <<>>
    BY DEF First
  <2>2. FlattenSeq(<<>>) = <<>>
    BY DEF FlattenSeq
  <2> QED BY <1>1, <2>1, <2>2, SumEmpty
<1>7. ASSUME NEW k \in 0 .. count - 1, k \in A PROVE k + 1 \in A
  <2>1. /\ k + 1 \in 1 .. count /\ (k + 1) - 1 = k /\ k \in Nat
        /\ \A i \in 1 .. k + 1 : i \in 1 .. count
        /\ \A i \in 1 .. k : i \in 1 .. count
    BY <1>1
  <2> DEFINE x == q[k + 1]
             s == First(q, k)
             lo == ends[k]
             hi == ends[k + 1]
  <2>2. /\ x \in Seq(T) /\ Len(x) = hi - lo /\ \A j \in 1 .. hi - lo : x[j] = b[lo + j]
        /\ lo \in Nat /\ hi \in Nat /\ lo <= hi /\ hi <= Len(b)
    BY <1>3, <1>4, <2>1
  <2>3. s \in Seq(Seq(T)) /\ Len(s) = k /\ \A i \in 1 .. k : s[i] = q[i]
    <3>1. \A i \in 1 .. k : q[i] \in Seq(T)
      BY <1>4, <2>1
    <3>2. s = [i \in 1 .. k |-> q[i]]
      BY DEF First
    <3> HIDE DEF s
    <3> QED BY <2>1, <3>1, <3>2
  <2>4. FlattenSeq(s) = First(b, lo) /\ Sum(lengths(k)) = lo
    BY <1>7
  <2>5. First(q, k + 1) = Append(s, x)
    <3> DEFINE u == First(q, k + 1)
               v == Append(s, x)
    <3>1. u \in Seq(Seq(T)) /\ Len(u) = k + 1 /\ \A i \in 1 .. k + 1 : u[i] = q[i]
      <4>1. \A i \in 1 .. k + 1 : q[i] \in Seq(T)
        BY <1>4, <2>1
      <4>2. u = [i \in 1 .. k + 1 |-> q[i]]
        BY DEF First
      <4> HIDE DEF u
      <4> QED BY <2>1, <4>1, <4>2
    <3> HIDE DEF s, x
    <3>2. /\ v \in Seq(Seq(T)) /\ Len(v) = k + 1 /\ \A i \in 1 .. k : v[i] = s[i]
          /\ v[k + 1] = x
      BY <2>2, <2>3, Appended
    <3>3. \A i \in 1 .. k + 1 : i \in 1 .. k \/ i = k + 1
      BY <2>1
    <3>4. \A i \in 1 .. k + 1 : u[i] = v[i]
      BY <2>3, <3>1, <3>2, <3>3 DEF x
    <3> HIDE DEF u, v
    <3>5. u = v
      BY <3>1, <3>2, <3>4, SameSeq
    <3> QED BY <3>5 DEF u, v
  <2>6. lengths(k + 1) = Append(lengths(k), Len(x)) /\ lengths(k) \in Seq(Int) /\ Len(x) \in Int
    <3> DEFINE u == lengths(k)
               w == lengths(k + 1)
               v == Append(u, Len(x))
    <3>1. \A i \in 1 .. k + 1 : Len(q[i]) \in Int
      BY <1>4, <2>1
    <3>2. u \in Seq(Int) /\ Len(u) = k /\ \A i \in 1 .. k : u[i] = Len(q[i])
      BY <2>1, <3>1
    <3>3. w \in Seq(Int) /\ Len(w) = k + 1 /\ \A i \in 1 .. k + 1 : w[i] = Len(q[i])
      BY <2>1, <3>1
    <3>4. Len(x) \in Int
      BY <2>2
    <3> HIDE DEF u, w
    <3>5. /\ v \in Seq(Int) /\ Len(v) = k + 1 /\ \A i \in 1 .. k : v[i] = u[i]
          /\ v[k + 1] = Len(x)
      BY <3>2, <3>4, Appended
    <3>6. \A i \in 1 .. k + 1 : i \in 1 .. k \/ i = k + 1
      BY <2>1
    <3>7. \A i \in 1 .. k + 1 : w[i] = v[i]
      BY <3>2, <3>3, <3>5, <3>6
    <3> HIDE DEF v, x
    <3>8. w = v
      BY <3>3, <3>5, <3>7, SameSeq
    <3> QED BY <3>2, <3>4, <3>8 DEF u, v, w
  <2>7. First(b, lo) \o x = First(b, hi)
    <3> DEFINE u == First(b, lo)
               w == First(b, hi)
               v == u \o x
    <3>1. \A i \in 1 .. hi : b[i] \in T
      BY <2>2
    <3>2. u \in Seq(T) /\ Len(u) = lo /\ \A i \in 1 .. lo : u[i] = b[i]
      <4>1. \A i \in 1 .. lo : b[i] \in T
        BY <2>2
      <4>2. u = [i \in 1 .. lo |-> b[i]]
        BY DEF First
      <4> HIDE DEF u, lo, hi, x
      <4> QED BY <2>2, <4>1, <4>2
    <3>3. w \in Seq(T) /\ Len(w) = hi /\ \A i \in 1 .. hi : w[i] = b[i]
      <4>1. w = [i \in 1 .. hi |-> b[i]]
        BY DEF First
      <4> HIDE DEF w, lo, hi, x
      <4> QED BY <2>2, <3>1, <4>1
    <3> HIDE DEF u, w, lo, hi, x
    <3>4. /\ v \in Seq(T) /\ Len(v) = hi
          /\ \A i \in 1 .. hi : v[i] = IF i <= lo THEN u[i] ELSE x[i - lo]
      BY <2>2, <3>2
    <3>5. ASSUME NEW i \in 1 .. hi PROVE w[i] = v[i]
      <4>1. CASE i <= lo
        <5>1. i \in 1 .. lo
          BY <2>2, <4>1
        <5> QED BY <3>2, <3>3, <3>4, <4>1, <5>1
      <4>2. CASE ~ (i <= lo)
        <5>1. i - lo \in 1 .. hi - lo /\ lo + (i - lo) = i
          BY <2>2, <4>2
        <5>2. x[i - lo] = b[i]
          BY <2>2, <5>1
        <5> QED BY <3>3, <3>4, <4>2, <5>2
      <4> QED BY <4>1, <4>2
    <3> HIDE DEF v
    <3>6. w = v
      BY <3>3, <3>4, <3>5, SameSeq
    <3> QED BY <3>6 DEF u, v, w
  <2>8. FlattenSeq(First(q, k + 1)) = First(b, hi)
    <3> HIDE DEF s, x, lo, hi
    <3>1. FlattenSeq(Append(s, x)) = FlattenSeq(s) \o x
      BY <2>2, <2>3, FlattenAppend
    <3> QED BY <2>4, <2>5, <2>7, <3>1
  <2>9. Sum(lengths(k + 1)) = hi
    <3> HIDE DEF s, x, lo, hi, lengths
    <3>1. Sum(Append(lengths(k), Len(x))) = Sum(lengths(k)) + Len(x)
      BY <2>6, SumAppend
    <3>2. Sum(lengths(k + 1)) = Sum(Append(lengths(k), Len(x)))
      BY <2>6
    <3>3. Sum(lengths(k + 1)) = lo + (hi - lo)
      BY <2>2, <2>4, <3>1, <3>2
    <3> QED BY <2>2, <3>3
  <2>10. k + 1 \in Int
    BY <2>1
  <2> HIDE DEF lengths
  <2> QED BY <2>8, <2>9, <2>10
<1>8. count \in A
  <2>1. 0 \in Int /\ count \in Int /\ count \in 0 .. count
    BY <1>1
  <2>2. 0 .. count \subseteq A
    <3> HIDE DEF A
    <3> QED BY <1>6, <1>7, <2>1, Upward
  <2> HIDE DEF A
  <2> QED BY <2>1, <2>2
<1>9. First(q, count) = q /\ First(b, Len(b)) = b
  <2>1. q = [i \in 1 .. count |-> q[i]]
    BY <1>1
  <2>2. b = [i \in 1 .. Len(b) |-> b[i]]
    OBVIOUS
  <2> QED BY <2>1, <2>2 DEF First
<1>10. FlattenSeq(q) = b /\ Sum(lengths(count)) = Len(b)
  <2> HIDE DEF lengths
  <2>1. FlattenSeq(First(q, count)) = First(b, ends[count]) /\ Sum(lengths(count)) = ends[count]
    BY <1>8
  <2> QED BY <1>1, <1>9, <2>1
<1> QED BY <1>4, <1>5, <1>10

\* What MultiRawBlockFile makes of a file cut into the pieces of q.
Written(f, q, count) ==
    LET sizes == [i \in 1 .. count |-> Len(q[i])] IN
    /\ f.parts = [i \in 1 .. count |-> RawBlock(<<"data", q[i]>>, Len(q[i]))]
    /\ f.root.content = <<"file", sizes, Sum(sizes)>>
    /\ f.root.links =
          [i \in 1 .. count |-> [name |-> <<"">>, cid |-> f.parts[i], size |-> Len(q[i])]]
    /\ f.root.bytes = NodeBytes + LinkBytes * count

LEMMA ScriptShape ==
    ASSUME NEW T, NEW b \in Seq(T), NEW count, NEW ends, Cuts(Chunks(b), b, count, ends)
    PROVE  Written(MultiRawBlockFile(b), Chunks(b), count)
<1> DEFINE q == Chunks(b)
           f == MultiRawBlockFile(b)
           parts == [i \in 1 .. count |-> RawBlock(<<"data", q[i]>>, Len(q[i]))]
           sizes == [i \in 1 .. count |-> Len(q[i])]
           links == [i \in 1 .. count |->
                       [name |-> <<"">>, cid |-> parts[i], size |-> Len(q[i])]]
<1>1. count \in Nat /\ DOMAIN q = 1 .. count
  BY DEF Cuts
<1> HIDE DEF q
<1>2. Map(LAMBDA chunk : RawBlock(<<"data", chunk>>, Len(chunk)), q) = parts
  BY <1>1 DEF Map
<1>3. \A i \in 1 .. count : parts[i].bytes = Len(q[i])
  BY DEF RawBlock, Block
<1>4. DOMAIN parts = 1 .. count
  OBVIOUS
<1>5. Map(LAMBDA part : part.bytes, parts) = sizes
  <2> HIDE DEF parts
  <2> QED BY <1>3, <1>4 DEF Map
<1>6. Map(LAMBDA part : Link(<<"">>, part, part.bytes), parts) = links
  <2> HIDE DEF parts
  <2> QED BY <1>3, <1>4 DEF Map, Link
<1>7. Len(parts) = count
  BY <1>1
<1>8. f = [parts |-> parts,
           root |-> Block(<<"file", sizes, Total(sizes)>>, links, NodeBytes + LinkBytes * count)]
  <2>1. f = [parts |-> Map(LAMBDA chunk : RawBlock(<<"data", chunk>>, Len(chunk)), q),
             root |-> LET p == Map(LAMBDA chunk : RawBlock(<<"data", chunk>>, Len(chunk)), q)
                          s == Map(LAMBDA part : part.bytes, p) IN
                      Block(<<"file", s, Total(s)>>,
                            Map(LAMBDA part : Link(<<"">>, part, part.bytes), p),
                            NodeBytes + LinkBytes * Len(p))]
    BY DEF MultiRawBlockFile, q
  <2> HIDE DEF parts, sizes, links, f
  <2> QED BY <1>2, <1>5, <1>6, <1>7, <2>1
<1> HIDE DEF parts, sizes, links, f
<1>9. f.parts = parts /\ f.root = Block(<<"file", sizes, Total(sizes)>>, links,
                                       NodeBytes + LinkBytes * count)
  BY <1>8
<1>10. /\ f.root.content = <<"file", sizes, Sum(sizes)>> /\ f.root.links = links
       /\ f.root.bytes = NodeBytes + LinkBytes * count
  <2>1. Total(sizes) = Sum(sizes)
    BY DEF Total, Sum
  <2> DEFINE root == f.root
             content == <<"file", sizes, Total(sizes)>>
             bytes == NodeBytes + LinkBytes * count
  <2>2. root = [content |-> content, links |-> links, bytes |-> bytes]
    BY <1>9 DEF Block
  <2> HIDE DEF root, content, bytes
  <2>3. root.content = content /\ root.links = links /\ root.bytes = bytes
    BY <2>2
  <2> QED BY <2>1, <2>3 DEF root, content, bytes
<1> QED BY <1>9, <1>10 DEF Written, parts, sizes, links, f, q

(***************************************************************************)
(* In every state the parts of main.js, in link order, are the file that   *)
(* was cut, its announced lengths are theirs, and all but the last are     *)
(* full, for any length of the file and any limit of a block               *)
(* (MultiRawBlockFile::from_bytes).                                        *)
(***************************************************************************)
THEOREM ScriptReadsBackCorrect == Spec => []ScriptReadsBack
<1>1. PackInv => ScriptReadsBack
  <2> SUFFICES ASSUME PackInv PROVE ScriptReadsBack
    OBVIOUS
  <2>1. PICK n \in ScriptLengths : /\ main_js = [i \in 1 .. n |-> i]
                                   /\ script = MultiRawBlockFile([i \in 1 .. n |-> i])
    BY DEF PackInv, ScriptInv
  <2> DEFINE b == [i \in 1 .. n |-> i]
             q == Chunks(b)
             links == script.root.links
  <2>2. n \in Nat
    BY PackagingAssumption
  <2>3. b \in Seq(Nat) /\ Len(b) = n
    BY <2>2
  <2> HIDE DEF b
  <2>4. PICK count, ends : Cuts(q, b, count, ends)
    BY <2>3, ChunksCut
  <2>5. /\ FlattenSeq(q) = b /\ Sum([i \in 1 .. count |-> Len(q[i])]) = Len(b)
        /\ \A i \in 1 .. count : Len(q[i]) = ends[i] - ends[i - 1]
    BY <2>3, <2>4, PiecesRejoin
  <2>6. Written(script, q, count)
    BY <2>1, <2>3, <2>4, ScriptShape DEF b
  <2>7. /\ count \in Nat /\ q = [i \in 1 .. count |-> q[i]]
        /\ ends \in [0 .. count -> 0 .. Len(b)]
        /\ \A i \in 1 .. count - 1 : ends[i] = ends[i - 1] + BLOCK_MAX_BYTES
    BY <2>4 DEF Cuts
  <2> HIDE DEF q
  <2>8. /\ DOMAIN links = 1 .. count
        /\ \A i \in 1 .. count : /\ links[i].cid.content[2] = q[i]
                                 /\ links[i].cid.bytes = Len(q[i])
    <3>1. links = [i \in 1 .. count |->
                     [name |-> <<"">>, cid |-> script.parts[i], size |-> Len(q[i])]]
      BY <2>6 DEF Written
    <3>2. ASSUME NEW i \in 1 .. count
          PROVE  script.parts[i] = RawBlock(<<"data", q[i]>>, Len(q[i]))
      BY <2>6, <3>2 DEF Written
    <3> HIDE DEF links
    <3>3. ASSUME NEW i \in 1 .. count
          PROVE  links[i].cid = RawBlock(<<"data", q[i]>>, Len(q[i]))
      BY <3>1, <3>2
    <3>4. DOMAIN links = 1 .. count
      BY <3>1
    <3>5. ASSUME NEW i \in 1 .. count
          PROVE  links[i].cid.content[2] = q[i] /\ links[i].cid.bytes = Len(q[i])
      <4> DEFINE part == links[i].cid
                 content == <<"data", q[i]>>
      <4>1. part = [content |-> content, links |-> <<>>, bytes |-> Len(q[i])]
        BY <3>3 DEF RawBlock, Block
      <4>2. content[2] = q[i]
        OBVIOUS
      <4> HIDE DEF part, content
      <4>3. part.content = content /\ part.bytes = Len(q[i])
        BY <4>1
      <4> QED BY <4>2, <4>3 DEF part
    <3> QED BY <3>4, <3>5
  <2>9. script.root.content = <<"file", [i \in 1 .. count |-> Len(q[i])], n>>
    BY <2>3, <2>5, <2>6 DEF Written
  <2> HIDE DEF links
  <2>10. Map(LAMBDA link : link.cid.content[2], links) = q
    BY <2>7, <2>8 DEF Map
  <2>11. Map(LAMBDA link : link.cid.bytes, links) = [i \in 1 .. count |-> Len(q[i])]
    BY <2>8 DEF Map
  <2>12. \A i \in 1 .. Len(links) - 1 : links[i].cid.bytes = BLOCK_MAX_BYTES
    <3>1. Len(links) = count
      <4>1. links = [i \in 1 .. count |->
                       [name |-> <<"">>, cid |-> script.parts[i], size |-> Len(q[i])]]
        BY <2>6 DEF Written, links
      <4>2. Len([i \in 1 .. count |->
                   [name |-> <<"">>, cid |-> script.parts[i], size |-> Len(q[i])]]) = count
        BY <2>7
      <4> QED BY <4>1, <4>2
    <3>2. ASSUME NEW i \in 1 .. count - 1 PROVE Len(q[i]) = BLOCK_MAX_BYTES
      <4>1. i \in 1 .. count /\ i - 1 \in 0 .. count
        BY <2>7
      <4>2. ends[i - 1] \in Int /\ BLOCK_MAX_BYTES \in Int
        BY <2>7, <4>1, PackagingAssumption
      <4> QED BY <2>5, <2>7, <4>1, <4>2
    <3>3. \A i \in 1 .. count - 1 : i \in 1 .. count
      BY <2>7
    <3> QED BY <2>8, <3>1, <3>2, <3>3
  <2>13. FlattenSeq(Map(LAMBDA link : link.cid.content[2], links)) = [i \in 1 .. n |-> i]
    BY <2>5, <2>10 DEF b
  <2>14. Len([i \in 1 .. n |-> i]) = n
    BY <2>2
  <2> DEFINE bytes == FlattenSeq(Map(LAMBDA link : link.cid.content[2], links))
             sizes == Map(LAMBDA link : link.cid.bytes, links)
             content == script.root.content
  <2>15. bytes = main_js /\ Len(bytes) = n
    BY <2>1, <2>13, <2>14
  <2>16. content[3] = n /\ content[2] = sizes
    BY <2>9, <2>11
  <2>17. ScriptReadsBack <=>
           /\ bytes = main_js
           /\ content[3] = Len(bytes)
           /\ content[2] = sizes
           /\ \A i \in 1 .. Len(links) - 1 : links[i].cid.bytes = BLOCK_MAX_BYTES
    BY DEF ScriptReadsBack, links
  <2> HIDE DEF bytes, sizes, content
  <2> QED BY <2>12, <2>15, <2>16, <2>17
<1> QED BY <1>1, PackInvariance, PTL

-----------------------------------------------------------------------------
LEMMA NodeLength == \A n \in Nat : NodeBytes + LinkBytes * n \in Nat
<1>1. NodeBytes \in Nat /\ LinkBytes \in Nat
  BY PackagingAssumption
<1> QED BY <1>1

\* What HLSPlayer makes of a container and a script.
PlayerOf(p, h, f) ==
    /\ p.html = RawBlock(<<"html", h.directory, f.root>>, HtmlBytes)
    /\ p.directory.bytes = NodeBytes + LinkBytes * 3
    /\ p.directory.links =
          <<[name |-> <<"index.html">>, cid |-> p.html, size |-> p.html.bytes],
            [name |-> <<"video">>, cid |-> h.directory, size |-> DirectorySize(h.directory)],
            [name |-> <<"main.js">>, cid |-> f.root, size |-> ScriptSize(f)]>>

LEMMA PlayerShape == ASSUME NEW h, NEW f PROVE PlayerOf(HLSPlayer(h, f), h, f)
<1> DEFINE p == HLSPlayer(h, f)
           html == RawBlock(<<"html", h.directory, f.root>>, HtmlBytes)
           links == <<[name |-> <<"index.html">>, cid |-> html, size |-> html.bytes],
                      [name |-> <<"video">>, cid |-> h.directory,
                       size |-> DirectorySize(h.directory)],
                      [name |-> <<"main.js">>, cid |-> f.root, size |-> ScriptSize(f)]>>
           directory == DirectoryBlock(links)
<1>1. p = [html |-> html, sequence |-> h.sequence, directory |-> directory]
  BY DEF HLSPlayer, Link
<1>2. Len(links) = 3
  OBVIOUS
<1>3. directory = [content |-> <<"directory">>, links |-> links,
                   bytes |-> NodeBytes + LinkBytes * 3]
  <2>1. directory = [content |-> <<"directory">>, links |-> links,
                     bytes |-> NodeBytes + LinkBytes * Len(links)]
    BY DEF DirectoryBlock, Block
  <2> HIDE DEF links, directory
  <2> QED BY <1>2, <2>1
<1> HIDE DEF p, links, directory
<1>4. p.html = html /\ p.directory = directory
  <2> HIDE DEF html
  <2> QED BY <1>1
<1>5. p.directory.links = links /\ p.directory.bytes = NodeBytes + LinkBytes * 3
  <2> DEFINE bytes == NodeBytes + LinkBytes * 3
  <2>1. directory = [content |-> <<"directory">>, links |-> links, bytes |-> bytes]
    BY <1>3
  <2> HIDE DEF bytes
  <2>2. directory.links = links /\ directory.bytes = bytes
    BY <2>1
  <2> QED BY <1>4, <2>2 DEF bytes
<1> HIDE DEF html
<1>6. p.directory.links =
        <<[name |-> <<"index.html">>, cid |-> p.html, size |-> p.html.bytes],
          [name |-> <<"video">>, cid |-> h.directory, size |-> DirectorySize(h.directory)],
          [name |-> <<"main.js">>, cid |-> f.root, size |-> ScriptSize(f)]>>
  BY <1>4, <1>5 DEF links
<1>7. p.html = RawBlock(<<"html", h.directory, f.root>>, HtmlBytes)
  BY <1>4 DEF html
<1>8. PlayerOf(p, h, f)
  BY <1>5, <1>6, <1>7 DEF PlayerOf
<1> QED BY <1>8 DEF p

LEMMA PlayerLinks ==
    ASSUME NEW p, NEW h, NEW f, PlayerOf(p, h, f)
    PROVE  /\ DOMAIN p.directory.links = 1 .. 3
           /\ p.directory.links[1].name = <<"index.html">>
           /\ p.directory.links[1].cid = p.html /\ p.directory.links[1].size = p.html.bytes
           /\ p.directory.links[2].name = <<"video">>
           /\ p.directory.links[2].cid = h.directory
           /\ p.directory.links[2].size = DirectorySize(h.directory)
           /\ p.directory.links[3].name = <<"main.js">>
           /\ p.directory.links[3].cid = f.root /\ p.directory.links[3].size = ScriptSize(f)
<1> DEFINE links == p.directory.links
           a == [name |-> <<"index.html">>, cid |-> p.html, size |-> p.html.bytes]
           b == [name |-> <<"video">>, cid |-> h.directory, size |-> DirectorySize(h.directory)]
           c == [name |-> <<"main.js">>, cid |-> f.root, size |-> ScriptSize(f)]
<1>1. links = <<a, b, c>>
  BY DEF PlayerOf
<1>2. /\ a.name = <<"index.html">> /\ a.cid = p.html /\ a.size = p.html.bytes
      /\ b.name = <<"video">> /\ b.cid = h.directory /\ b.size = DirectorySize(h.directory)
      /\ c.name = <<"main.js">> /\ c.cid = f.root /\ c.size = ScriptSize(f)
  OBVIOUS
<1> HIDE DEF links, a, b, c
<1>3. DOMAIN links = 1 .. 3 /\ links[1] = a /\ links[2] = b /\ links[3] = c
  BY <1>1
<1> QED BY <1>2, <1>3 DEF links

\* The blocks of a publication, with the links each has to another.
Parts == ToSet(script.parts)
Stream == {container[i].cid : i \in DOMAIN container}

Linked ==
    /\ Held = {player.html, player.directory, hls.playlist, hls.directory, script.root}
                \cup Parts \cup Stream
    /\ \A block \in {player.html, hls.playlist} \cup Parts \cup Stream :
          block.links = <<>> /\ block.bytes \in Nat
    /\ {hls.directory.bytes, script.root.bytes, player.directory.bytes} \subseteq Nat
    /\ \E n \in Nat : DOMAIN hls.directory.links = 1 .. n
    /\ \A i \in DOMAIN hls.directory.links :
          /\ hls.directory.links[i].cid \in {hls.playlist} \cup Stream
          /\ hls.directory.links[i].size = hls.directory.links[i].cid.bytes
    /\ \E n \in Nat : DOMAIN script.root.links = 1 .. n
    /\ DOMAIN script.parts = DOMAIN script.root.links
    /\ \A i \in DOMAIN script.root.links :
          /\ script.parts[i] \in Parts
          /\ script.root.links[i].cid = script.parts[i]
          /\ script.root.links[i].size = script.parts[i].bytes
    /\ PlayerOf(player, hls, script)

LEMMA PublishedLinks == ASSUME PackInv, Published PROVE Linked
<1>1. PICK blocks, highest :
         /\ IsStream(blocks) /\ Packaged(hls, blocks, highest)
         /\ Len(blocks) \in Nat /\ Len(blocks) <= Len(container)
         /\ \A i \in 1 .. Len(blocks) : blocks[i] = container[i]
         /\ player = HLSPlayer(hls, script)
  BY PublishedShape
<1> DEFINE n == Len(blocks)
           d == hls.directory
<1>2. IsStream(container) /\ DOMAIN container = 1 .. Len(container) /\ Len(container) \in Nat
  BY DEF PackInv, IsStream
<1>3. PlayerOf(player, hls, script)
  BY <1>1, PlayerShape
<1>4. PICK k \in ScriptLengths : script = MultiRawBlockFile([i \in 1 .. k |-> i])
  BY DEF PackInv, ScriptInv
<1> DEFINE b == [i \in 1 .. k |-> i]
           q == Chunks(b)
<1>5. b \in Seq(Nat)
  BY PackagingAssumption
<1> HIDE DEF b
<1>6. PICK count, ends : Cuts(q, b, count, ends)
  BY <1>5, ChunksCut
<1>7. Written(script, q, count)
  BY <1>4, <1>5, <1>6, ScriptShape DEF b
<1>8. count \in Nat /\ q \in Seq(Seq(Nat)) /\ Len(q) = count
  <2>1. count \in Nat
    BY <1>6 DEF Cuts
  <2> HIDE DEF q
  <2>2. /\ q \in Seq(Seq(Nat)) /\ Len(q) = count
        /\ \A i \in 1 .. count : Len(q[i]) = ends[i] - ends[i - 1]
        /\ FlattenSeq(q) = b
        /\ Sum([i \in 1 .. count |-> Len(q[i])]) = Len(b)
    BY <1>5, <1>6, PiecesRejoin
  <2> QED BY <2>1, <2>2
<1>9. \A i \in 1 .. count : Len(q[i]) \in Nat
  BY <1>8
<1> HIDE DEF q
<1>10. /\ DOMAIN script.parts = 1 .. count
       /\ \A i \in 1 .. count : /\ script.parts[i].links = <<>>
                                /\ script.parts[i].bytes = Len(q[i])
  <2> DEFINE parts == script.parts
  <2>1. parts = [i \in 1 .. count |-> RawBlock(<<"data", q[i]>>, Len(q[i]))]
    BY <1>7 DEF Written
  <2> HIDE DEF parts
  <2>2. ASSUME NEW i \in 1 .. count PROVE parts[i].links = <<>> /\ parts[i].bytes = Len(q[i])
    BY <2>1 DEF RawBlock, Block
  <2> QED BY <2>1, <2>2 DEF parts
<1>11. /\ DOMAIN script.root.links = 1 .. count
       /\ \A i \in 1 .. count : /\ script.root.links[i].cid = script.parts[i]
                                /\ script.root.links[i].size = script.parts[i].bytes
  <2> DEFINE links == script.root.links
  <2>1. links = [i \in 1 .. count |->
                   [name |-> <<"">>, cid |-> script.parts[i], size |-> Len(q[i])]]
    BY <1>7 DEF Written
  <2> HIDE DEF links
  <2>2. ASSUME NEW i \in 1 .. count
        PROVE  links[i].cid = script.parts[i] /\ links[i].size = script.parts[i].bytes
    BY <1>10, <2>1
  <2>3. DOMAIN links = 1 .. count
    BY <2>1
  <2> QED BY <2>2, <2>3 DEF links
<1>12. script.root.bytes \in Nat
  <2>1. script.root.bytes = NodeBytes + LinkBytes * count
    BY <1>7 DEF Written
  <2> QED BY <1>8, <2>1, NodeLength
<1>13. ASSUME NEW block \in Parts PROVE block.links = <<>> /\ block.bytes \in Nat
  <2>1. PICK i \in DOMAIN script.parts : block = script.parts[i]
    BY DEF Parts, ToSet
  <2> QED BY <1>9, <1>10, <2>1
<1>14. ASSUME NEW block \in Stream PROVE block.links = <<>> /\ block.bytes \in Nat
  <2>1. PICK i \in 1 .. Len(container) : block = container[i].cid
    BY <1>2 DEF Stream
  <2>2. /\ container[i].bytes \in Nat
        /\ block = RawBlock(<<"segment", container[i].bytes>>, container[i].bytes)
    BY <1>2, <2>1, SegmentShape
  <2> QED BY <2>2 DEF RawBlock, Block
<1>15. player.html.links = <<>> /\ player.html.bytes \in Nat
  BY <1>3, PackagingAssumption DEF PlayerOf, RawBlock, Block
<1>16. hls.playlist.links = <<>> /\ hls.playlist.bytes \in Nat
  <2> DEFINE names == [i \in 1 .. n |-> Padded(i - 1, highest)]
  <2>1. hls.playlist = Playlist(names, blocks)
    BY <1>1 DEF Packaged
  <2>2. Len(names) = n
    BY <1>1
  <2> HIDE DEF names, n
  <2>3. n \in Nat
    BY <1>1 DEF n
  <2>4. PlaylistBytes + EntryBytes * n \in Nat
    BY <2>3, PackagingAssumption
  <2> QED BY <2>1, <2>2, <2>4 DEF Playlist, RawBlock, Block
<1>17. DOMAIN d.links = 1 .. n + 1 /\ d.bytes = NodeBytes + LinkBytes * (n + 1)
  BY <1>1 DEF Packaged
<1>18. player.directory.bytes \in Nat /\ d.bytes \in Nat
  <2>1. player.directory.bytes = NodeBytes + LinkBytes * 3
    BY <1>3 DEF PlayerOf
  <2>2. n + 1 \in Nat
    BY <1>1
  <2> HIDE DEF d, n
  <2>3. d.bytes \in Nat
    BY <1>17, <2>2, NodeLength
  <2>4. 3 \in Nat
    OBVIOUS
  <2>5. player.directory.bytes \in Nat
    BY <2>1, <2>4, NodeLength
  <2> QED BY <2>3, <2>5
<1>19. ASSUME NEW i \in 1 .. n + 1
       PROVE  d.links[i].cid \in {hls.playlist} \cup Stream /\ d.links[i].size = d.links[i].cid.bytes
  <2>1. CASE i = 1
    BY <1>1, <2>1, LinkShape
  <2>2. CASE i # 1
    <3>1. i - 1 \in 1 .. n /\ (i - 1) + 1 = i /\ i - 1 \in 1 .. Len(container)
      BY <1>1, <1>2, <2>2
    <3>2. /\ d.links[i].cid = blocks[i - 1].cid /\ d.links[i].size = blocks[i - 1].bytes
          /\ blocks[i - 1] = container[i - 1]
      BY <1>1, <3>1, LinkShape
    <3>3. blocks[i - 1].cid \in Stream
      BY <1>2, <3>1, <3>2 DEF Stream
    <3>4. blocks[i - 1].cid =
            RawBlock(<<"segment", blocks[i - 1].bytes>>, blocks[i - 1].bytes)
      BY <1>1, <3>1, SegmentShape
    <3>5. blocks[i - 1].cid.bytes = blocks[i - 1].bytes
      BY <3>4 DEF RawBlock, Block
    <3> QED BY <3>2, <3>3, <3>5
  <2> QED BY <2>1, <2>2
<1>20. Held = {player.html, player.directory, hls.playlist, hls.directory, script.root}
               \cup Parts \cup Stream
  BY DEF Held, PlayerBlocks, HLSBlocks, ScriptBlocks, Parts, Stream
<1>21. n + 1 \in Nat
  BY <1>1
<1>22. \A i \in 1 .. count : script.parts[i] \in Parts
  BY <1>10 DEF Parts, ToSet
<1> QED
  BY <1>3, <1>8, <1>10, <1>11, <1>12, <1>13, <1>14, <1>15, <1>16, <1>17, <1>18, <1>19, <1>20,
     <1>21, <1>22 DEF Linked

(***************************************************************************)
(* In every state whoever holds the player's cid can fetch everything: the *)
(* blocks handed to the node are closed under links, and the page names    *)
(* the video and the script of its own directory (HLSPlayer::from_hls).    *)
(***************************************************************************)
THEOREM PlayerCompleteCorrect == Spec => []PlayerComplete
<1>1. ASSUME PackInv, Published PROVE PlayerComplete
  <2> DEFINE d == player.directory
             target(name) == {d.links[i].cid : i \in Named(d, name)}
  <2>1. Linked
    BY <1>1, PublishedLinks
  <2>2. PlayerOf(player, hls, script)
    BY <2>1 DEF Linked
  <2>3. /\ DOMAIN d.links = 1 .. 3
        /\ d.links[1].name = <<"index.html">> /\ d.links[1].cid = player.html
        /\ d.links[2].name = <<"video">> /\ d.links[2].cid = hls.directory
        /\ d.links[3].name = <<"main.js">> /\ d.links[3].cid = script.root
    BY <2>2, PlayerLinks
  <2>4. /\ Held = {player.html, player.directory, hls.playlist, hls.directory, script.root}
                     \cup Parts \cup Stream
        /\ \A block \in {player.html, hls.playlist} \cup Parts \cup Stream : block.links = <<>>
        /\ \A i \in DOMAIN hls.directory.links :
              hls.directory.links[i].cid \in {hls.playlist} \cup Stream
        /\ \A i \in DOMAIN script.root.links : script.root.links[i].cid \in Parts
    BY <2>1 DEF Linked
  <2>5. ASSUME NEW block \in Held, NEW i \in DOMAIN block.links
        PROVE  block.links[i].cid \in Held
    <3>1. CASE block = player.directory
      <4>1. i = 1 \/ i = 2 \/ i = 3
        BY <2>3, <3>1
      <4> QED BY <2>3, <2>4, <3>1, <4>1
    <3>2. CASE block = hls.directory
      BY <2>4, <3>2
    <3>3. CASE block = script.root
      BY <2>4, <3>3
    <3>4. CASE block \in {player.html, hls.playlist} \cup Parts \cup Stream
      BY <2>4, <3>4
    <3> HIDE DEF d
    <3> QED BY <2>4, <3>1, <3>2, <3>3, <3>4
  <2>6. /\ Named(d, <<"index.html">>) = {1}
        /\ Named(d, <<"video">>) = {2}
        /\ Named(d, <<"main.js">>) = {3}
    <3>1. <<"index.html">> # <<"video">> /\ <<"index.html">> # <<"main.js">>
          /\ <<"video">> # <<"main.js">>
      OBVIOUS
    <3>2. 1 .. 3 = {1, 2, 3}
      OBVIOUS
    <3> HIDE DEF d
    <3> QED BY <2>3, <3>1, <3>2 DEF Named
  <2>7. player.html.content[2] = hls.directory /\ player.html.content[3] = script.root
    BY <2>2 DEF PlayerOf, RawBlock, Block
  <2>8. /\ target(<<"index.html">>) = {player.html}
        /\ target(<<"video">>) = {player.html.content[2]}
        /\ target(<<"main.js">>) = {player.html.content[3]}
    <3> HIDE DEF d
    <3> QED BY <2>3, <2>6, <2>7
  <2>9. player.directory \in Held
    BY <2>4
  <2> QED BY <2>5, <2>8, <2>9 DEF PlayerComplete
<1>2. PackInv => PlayerComplete
  BY <1>1 DEF PlayerComplete
<1> QED BY <1>2, PackInvariance, PTL

-----------------------------------------------------------------------------
\* The sizes below the links of a block, and with the block itself.
Below(size, block) == [i \in DOMAIN block.links |-> size[block.links[i].cid]]
Weigh(size, block) == block.bytes + Sum(Below(size, block))

IsSize(size) == size = [block \in Held |-> Weigh(size, block)]

LEMMA FlatWeighs ==
    ASSUME NEW size, NEW block, block.links = <<>>, block.bytes \in Nat
    PROVE  Weigh(size, block) = block.bytes
<1>1. Below(size, block) = <<>>
  BY DEF Below
<1> QED BY <1>1, SumEmpty DEF Weigh

\* Links reach down three levels: weighing twice more changes nothing.
LEMMA SizeExists == ASSUME Linked PROVE \E size : IsSize(size)
<1> DEFINE Flat == {player.html, hls.playlist} \cup Parts \cup Stream
           none == [block \in Held |-> block.bytes]
           once == [block \in Held |-> Weigh(none, block)]
           twice == [block \in Held |-> Weigh(once, block)]
           thrice == [block \in Held |-> Weigh(twice, block)]
           Agree(f, g, block) == \A i \in DOMAIN block.links :
                                    f[block.links[i].cid] = g[block.links[i].cid]
<1>1. /\ Held = Flat \cup {player.directory, hls.directory, script.root}
      /\ \A block \in Flat : block.links = <<>> /\ block.bytes \in Nat
      /\ \A i \in DOMAIN hls.directory.links : hls.directory.links[i].cid \in Flat
      /\ \A i \in DOMAIN script.root.links : script.root.links[i].cid \in Flat
  BY DEF Linked
<1>2. \A i \in DOMAIN player.directory.links :
         player.directory.links[i].cid \in Flat \cup {hls.directory, script.root}
  <2>1. PlayerOf(player, hls, script)
    BY DEF Linked
  <2>2. /\ DOMAIN player.directory.links = 1 .. 3
        /\ player.directory.links[1].cid = player.html
        /\ player.directory.links[2].cid = hls.directory
        /\ player.directory.links[3].cid = script.root
    BY <2>1, PlayerLinks
  <2>3. \A i \in 1 .. 3 : i = 1 \/ i = 2 \/ i = 3
    OBVIOUS
  <2> QED BY <2>2, <2>3
<1> HIDE DEF Flat
<1>3. ASSUME NEW f, NEW g, NEW block, Agree(f, g, block) PROVE Weigh(f, block) = Weigh(g, block)
  <2>1. Below(f, block) = Below(g, block)
    BY <1>3 DEF Below
  <2> QED BY <2>1 DEF Weigh
<1>4. ASSUME NEW block \in Flat
      PROVE  none[block] = block.bytes /\ once[block] = block.bytes
             /\ twice[block] = block.bytes /\ thrice[block] = block.bytes
  <2>1. block \in Held
    BY <1>1
  <2>2. \A f : Weigh(f, block) = block.bytes
    BY <1>1, FlatWeighs
  <2> QED BY <2>1, <2>2
<1>5. ASSUME NEW block \in {hls.directory, script.root}
      PROVE  once[block] = twice[block] /\ twice[block] = thrice[block]
  <2>1. block \in Held
    BY <1>1
  <2>2. Agree(none, once, block) /\ Agree(once, twice, block)
    <3> HIDE DEF none, once, twice, thrice
    <3> QED BY <1>1, <1>4, <1>5
  <2>3. Weigh(none, block) = Weigh(once, block) /\ Weigh(once, block) = Weigh(twice, block)
    <3> HIDE DEF none, once, twice, thrice, Agree
    <3> QED BY <1>3, <2>2
  <2>4. once[block] = Weigh(none, block) /\ twice[block] = Weigh(once, block)
        /\ thrice[block] = Weigh(twice, block)
    BY <2>1
  <2> HIDE DEF none, once, twice, thrice
  <2> QED BY <2>3, <2>4
<1>6. twice[player.directory] = thrice[player.directory]
  <2> DEFINE block == player.directory
  <2>1. block \in Held
    BY <1>1
  <2>2. Agree(once, twice, block)
    <3> HIDE DEF none, once, twice, thrice
    <3> QED BY <1>2, <1>4, <1>5
  <2>3. Weigh(once, block) = Weigh(twice, block)
    <3> HIDE DEF none, once, twice, thrice, Agree
    <3> QED BY <1>3, <2>2
  <2>4. twice[block] = Weigh(once, block) /\ thrice[block] = Weigh(twice, block)
    BY <2>1
  <2> HIDE DEF none, once, twice, thrice
  <2> QED BY <2>3, <2>4
<1>7. \A block \in Held : twice[block] = thrice[block]
  <2> HIDE DEF none, once, twice, thrice
  <2> QED BY <1>1, <1>4, <1>5, <1>6
<1>8. IsSize(twice)
  <2>1. twice = [block \in Held |-> twice[block]]
    OBVIOUS
  <2>2. \A block \in Held : thrice[block] = Weigh(twice, block)
    OBVIOUS
  <2> HIDE DEF none, once, twice, thrice
  <2> QED BY <1>7, <2>1, <2>2 DEF IsSize
<1> QED BY <1>8

\* A block whose links state the sizes of what they link states its own.
LEMMA StatedSize ==
    ASSUME NEW size, NEW block, block.bytes \in Nat,
           NEW n \in Nat, DOMAIN block.links = 1 .. n,
           \A i \in 1 .. n : /\ block.links[i].size = size[block.links[i].cid]
                           /\ block.links[i].size \in Int
    PROVE  DirectorySize(block) = Weigh(size, block) /\ DirectorySize(block) \in Int
<1> DEFINE sizes == [i \in 1 .. n |-> block.links[i].size]
<1>1. Map(LAMBDA link : link.size, block.links) = sizes
  BY DEF Map
<1>2. Below(size, block) = sizes
  BY DEF Below
<1>3. sizes \in Seq(Int)
  OBVIOUS
<1> HIDE DEF sizes
<1>4. Sum(sizes) \in Int
  BY <1>3, SumAppend
<1>5. DirectorySize(block) = Sum(sizes) + block.bytes
  BY <1>1 DEF DirectorySize, Total, Sum
<1>6. Weigh(size, block) = block.bytes + Sum(sizes)
  BY <1>2 DEF Weigh
<1> DEFINE s == Sum(sizes)
           b == block.bytes
<1>7. s \in Int /\ b \in Nat
  BY <1>4
<1> HIDE DEF s, b
<1>8. s + b = b + s /\ s + b \in Int
  BY <1>7
<1> QED BY <1>5, <1>6, <1>8 DEF s, b

(***************************************************************************)
(* In every state a link states the bytes below it, counted as often as    *)
(* they are linked, over all three levels of packages, and so does the     *)
(* size logged for the player (Package::total_size).                       *)
(***************************************************************************)
THEOREM SizesExactCorrect == Spec => []SizesExact
<1>1. ASSUME PackInv, Published PROVE SizesExact
  <2> DEFINE size == CHOOSE size : IsSize(size)
  <2>1. Linked
    BY <1>1, PublishedLinks
  <2>2. IsSize(size)
    BY <2>1, SizeExists
  <2>3. SizesExact <=>
           /\ \A block \in Held : \A i \in DOMAIN block.links :
                 block.links[i].size = size[block.links[i].cid]
           /\ DirectorySize(player.directory) = size[player.directory]
    BY <1>1 DEF SizesExact, IsSize, Weigh, Below, Map, Total, Sum
  <2> HIDE DEF size
  <2>4. \A block \in Held : size[block] = Weigh(size, block)
    <3>1. size = [block \in Held |-> Weigh(size, block)]
      BY <2>2 DEF IsSize
    <3> QED BY <3>1
  <2>5. /\ Held = {player.html, player.directory, hls.playlist, hls.directory, script.root}
                     \cup Parts \cup Stream
        /\ \A block \in {player.html, hls.playlist} \cup Parts \cup Stream :
              block.links = <<>> /\ block.bytes \in Nat
        /\ {hls.directory.bytes, script.root.bytes, player.directory.bytes} \subseteq Nat
    BY <2>1 DEF Linked
  <2>6. \A block \in {player.html, hls.playlist} \cup Parts \cup Stream :
           size[block] = block.bytes
    BY <2>4, <2>5, FlatWeighs
  <2>7. ASSUME NEW i \in DOMAIN hls.directory.links
        PROVE  /\ hls.directory.links[i].size = size[hls.directory.links[i].cid]
               /\ hls.directory.links[i].size \in Int
    <3>1. /\ hls.directory.links[i].cid \in {hls.playlist} \cup Stream
          /\ hls.directory.links[i].size = hls.directory.links[i].cid.bytes
      BY <2>1 DEF Linked
    <3> QED BY <2>5, <2>6, <3>1
  <2>8. DirectorySize(hls.directory) = size[hls.directory] /\ DirectorySize(hls.directory) \in Int
    <3> DEFINE block == hls.directory
    <3>1. PICK n \in Nat : DOMAIN block.links = 1 .. n
      BY <2>1 DEF Linked
    <3>2. /\ block.bytes \in Nat /\ block \in Held
          /\ \A i \in 1 .. n : /\ block.links[i].size = size[block.links[i].cid]
                              /\ block.links[i].size \in Int
      BY <2>5, <2>7, <3>1
    <3> HIDE DEF block
    <3>3. DirectorySize(block) = Weigh(size, block) /\ DirectorySize(block) \in Int
      BY <3>1, <3>2, StatedSize
    <3>4. DirectorySize(block) = size[block] /\ DirectorySize(block) \in Int
      BY <2>4, <3>2, <3>3
    <3> QED BY <3>4 DEF block
  <2>9. ASSUME NEW i \in DOMAIN script.root.links
        PROVE  /\ script.root.links[i].size = size[script.root.links[i].cid]
               /\ script.root.links[i].size \in Int
               /\ script.root.links[i].size = script.parts[i].bytes
    <3>1. /\ script.parts[i] \in Parts
          /\ script.root.links[i].cid = script.parts[i]
          /\ script.root.links[i].size = script.parts[i].bytes
      BY <2>1 DEF Linked
    <3> QED BY <2>5, <2>6, <3>1
  <2>10. ScriptSize(script) = size[script.root] /\ ScriptSize(script) \in Int
    <3> DEFINE block == script.root
    <3>1. PICK n \in Nat : DOMAIN block.links = 1 .. n
      BY <2>1 DEF Linked
    <3>2. DOMAIN script.parts = 1 .. n
      BY <2>1, <3>1 DEF Linked
    <3>3. /\ block.bytes \in Nat /\ block \in Held
          /\ \A i \in 1 .. n : /\ block.links[i].size = size[block.links[i].cid]
                              /\ block.links[i].size \in Int
                              /\ block.links[i].size = script.parts[i].bytes
      BY <2>5, <2>9, <3>1
    <3>4. ScriptSize(script) = DirectorySize(block)
      <4>1. Map(LAMBDA part : part.bytes, script.parts) =
               [i \in 1 .. n |-> script.parts[i].bytes]
        BY <3>2 DEF Map
      <4>2. Map(LAMBDA link : link.size, block.links) = [i \in 1 .. n |-> block.links[i].size]
        BY <3>1 DEF Map
      <4>3. [i \in 1 .. n |-> script.parts[i].bytes] = [i \in 1 .. n |-> block.links[i].size]
        BY <3>3
      <4> QED BY <4>1, <4>2, <4>3 DEF ScriptSize, DirectorySize
    <3> HIDE DEF block
    <3>5. DirectorySize(block) = Weigh(size, block) /\ DirectorySize(block) \in Int
      BY <3>1, <3>3, StatedSize
    <3>6. DirectorySize(block) = size[block] /\ DirectorySize(block) \in Int
      BY <2>4, <3>3, <3>5
    <3> QED BY <3>4, <3>6 DEF block
  <2> DEFINE d == player.directory
  <2>11. DOMAIN d.links = 1 .. 3 /\ \A i \in 1 .. 3 :
            d.links[i].size = size[d.links[i].cid] /\ d.links[i].size \in Int
    <3>1. PlayerOf(player, hls, script)
      BY <2>1 DEF Linked
    <3>2. /\ DOMAIN d.links = 1 .. 3
          /\ d.links[1].cid = player.html /\ d.links[1].size = player.html.bytes
          /\ d.links[2].cid = hls.directory /\ d.links[2].size = DirectorySize(hls.directory)
          /\ d.links[3].cid = script.root /\ d.links[3].size = ScriptSize(script)
      BY <3>1, PlayerLinks
    <3>3. \A i \in 1 .. 3 : i = 1 \/ i = 2 \/ i = 3
      OBVIOUS
    <3>4. size[player.html] = player.html.bytes /\ player.html.bytes \in Int
      BY <2>5, <2>6
    <3> HIDE DEF d
    <3> QED BY <2>8, <2>10, <3>2, <3>3, <3>4
  <2>12. DirectorySize(d) = size[d]
    <3>1. d.bytes \in Nat /\ d \in Held /\ 3 \in Nat
      BY <2>5
    <3> HIDE DEF d
    <3>2. DirectorySize(d) = Weigh(size, d)
      BY <2>11, <3>1, StatedSize
    <3> QED BY <2>4, <3>1, <3>2
  <2>13. ASSUME NEW block \in Held, NEW i \in DOMAIN block.links
         PROVE  block.links[i].size = size[block.links[i].cid]
    <3>1. CASE block = d
      BY <2>11, <3>1
    <3>2. CASE block = hls.directory
      BY <2>7, <3>2
    <3>3. CASE block = script.root
      BY <2>9, <3>3
    <3>4. CASE block \in {player.html, hls.playlist} \cup Parts \cup Stream
      BY <2>5, <3>4
    <3> QED BY <2>5, <3>1, <3>2, <3>3, <3>4
  <2> QED BY <2>3, <2>12, <2>13
<1>2. PackInv => SizesExact
  BY <1>1 DEF SizesExact
<1> QED BY <1>2, PackInvariance, PTL
=============================================================================
