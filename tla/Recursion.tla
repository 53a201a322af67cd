------------------------------ MODULE Recursion ------------------------------
(***************************************************************************)
(* Induction over natural numbers, stated with sets so that every prover   *)
(* can use it, and functions defined by recursion over an interval.        *)
(*                                                                         *)
(* To TLAPS, f[i \in S] == ... is some f that satisfies the equation, if   *)
(* there is one: a proof about such a function first shows, with Recursive, *)
(* that there is.                                                          *)
(***************************************************************************)
EXTENDS Integers, Sequences, SequencesExt, FiniteSetTheorems, TLAPS

\* If n were missing, the successor would map the part of A below n into
\* itself without 0: more pigeons than holes.
LEMMA Induction ==
    ASSUME NEW A, 0 \in A, \A n \in Nat : n \in A => n + 1 \in A
    PROVE  Nat \subseteq A
<1> SUFFICES ASSUME NEW n \in Nat, n \notin A PROVE FALSE
  OBVIOUS
<1> DEFINE B == {x \in 0 .. n : x \in A}
           f == [x \in B |-> x + 1]
<1>1. IsFiniteSet(B)
  <2>1. IsFiniteSet(0 .. n)
    BY FS_Interval
  <2> QED BY <2>1, FS_Subset
<1>2. 0 \in B
  OBVIOUS
<1>3. IsFiniteSet(B \ {0}) /\ Cardinality(B \ {0}) = Cardinality(B) - 1
  BY <1>1, <1>2, FS_RemoveElement
<1>4. Cardinality(B \ {0}) < Cardinality(B)
  BY <1>1, <1>3, FS_CardinalityType
<1>5. f \in [B -> B \ {0}]
  OBVIOUS
<1>6. \E x, y \in B : x # y /\ f[x] = f[y]
  <2> HIDE DEF B, f
  <2> QED BY <1>1, <1>3, <1>4, <1>5, FS_PigeonHole
<1>7. \A x, y \in B : f[x] = f[y] => x = y
  OBVIOUS
<1> QED BY <1>6, <1>7

\* Induction from one number up to another.
LEMMA Upward ==
    ASSUME NEW A, NEW lo \in Int, NEW hi \in Int, lo \in A,
           \A i \in lo .. hi - 1 : i \in A => i + 1 \in A
    PROVE  lo .. hi \subseteq A
<1> DEFINE B == {n \in Nat : lo + n <= hi => lo + n \in A}
<1>1. 0 \in B
  OBVIOUS
<1>2. \A n \in Nat : n \in B => n + 1 \in B
  <2> SUFFICES ASSUME NEW n \in Nat, lo + n <= hi => lo + n \in A, lo + (n + 1) <= hi
               PROVE  lo + (n + 1) \in A
    OBVIOUS
  <2>1. lo + n \in lo .. hi - 1 /\ lo + n \in A
    OBVIOUS
  <2> QED BY <2>1
<1>3. Nat \subseteq B
  <2> HIDE DEF B
  <2> QED BY <1>1, <1>2, Induction
<1> SUFFICES ASSUME NEW i \in lo .. hi PROVE i \in A
  OBVIOUS
<1>4. i - lo \in B
  BY <1>3
<1> QED BY <1>4

\* The least of a set of numbers.
LEMMA Least ==
    ASSUME NEW T, T \subseteq Nat, T # {}
    PROVE  \E x \in T : \A y \in T : x <= y
<1> SUFFICES ASSUME \A x \in T : \E y \in T : ~ (x <= y) PROVE FALSE
  OBVIOUS
<1> DEFINE B == {n \in Nat : \A y \in T : n <= y}
<1>1. 0 \in B
  OBVIOUS
<1>2. ASSUME NEW n \in Nat, n \in B PROVE n + 1 \in B
  <2>1. n \notin T
    BY <1>2
  <2> QED BY <1>2, <2>1
<1>3. Nat \subseteq B
  <2> HIDE DEF B
  <2> QED BY <1>1, <1>2, Induction
<1>4. PICK y \in T : TRUE
  OBVIOUS
<1>5. y + 1 \in B
  BY <1>3, <1>4
<1> QED BY <1>4, <1>5

\* f starts from base at lo and goes on by steps, up to hi.
Computes(f, S, base, step, lo, hi) ==
    /\ f \in [lo .. hi -> S]
    /\ \A i \in lo .. hi : f[i] = IF i = lo THEN base ELSE step[i][f[i - 1]]

StepsIn(step, D, S) == \A x \in D, s \in S : step[x][s] \in S

LEMMA Recursive ==
    ASSUME NEW S, NEW base \in S, NEW step, NEW lo \in Int, NEW hi \in Int,
           StepsIn(step, lo .. hi, S)
    PROVE  \E f : Computes(f, S, base, step, lo, hi)
<1> USE DEF StepsIn, Computes
<1> DEFINE Upto(f, k) == Computes(f, S, base, step, lo, k)
           A == {k \in Int : \E f : Upto(f, k)}
<1>1. lo \in A
  <2>1. Upto([i \in lo .. lo |-> base], lo)
    OBVIOUS
  <2> QED BY <2>1
<1>2. ASSUME NEW k \in lo .. hi - 1, k \in A PROVE k + 1 \in A
  <2>1. PICK f : Upto(f, k)
    BY <1>2
  <2> DEFINE g == [i \in lo .. k + 1 |-> IF i = k + 1 THEN step[k + 1][f[k]] ELSE f[i]]
  <2>2. f[k] \in S /\ k + 1 \in lo .. hi
    BY <2>1
  <2>3. step[k + 1][f[k]] \in S
    BY <2>2
  <2>4. g \in [lo .. k + 1 -> S]
    BY <2>1, <2>3
  <2>5. ASSUME NEW i \in lo .. k + 1
        PROVE  g[i] = IF i = lo THEN base ELSE step[i][g[i - 1]]
    <3>1. CASE i = k + 1
      BY <3>1, <2>1
    <3>2. CASE i # k + 1
      <4>1. i \in lo .. k /\ (i # lo => i - 1 \in lo .. k)
        BY <3>2
      <4>2. g[i] = f[i] /\ (i # lo => g[i - 1] = f[i - 1])
        BY <4>1
      <4> QED BY <2>1, <4>1, <4>2
    <3> QED BY <3>1, <3>2
  <2>6. Upto(g, k + 1)
    BY <2>4, <2>5
  <2> HIDE DEF g
  <2> QED BY <2>6
<1>3. CASE lo <= hi
  <2>1. lo .. hi \subseteq A
    <3> HIDE DEF A
    <3> QED BY <1>1, <1>2, Upward
  <2>2. hi \in A
    <3> HIDE DEF A
    <3> QED BY <1>3, <2>1
  <2> HIDE DEF Computes
  <2> QED BY <2>2
<1>4. CASE lo > hi
  <2> DEFINE f == [i \in lo .. hi |-> base]
  <2>1. f \in [lo .. hi -> S]
    OBVIOUS
  <2>2. \A i \in lo .. hi : FALSE
    BY <1>4
  <2>3. Computes(f, S, base, step, lo, hi)
    BY <2>1, <2>2
  <2> HIDE DEF f, Computes
  <2> QED BY <2>3
<1> QED BY <1>3, <1>4

Repeats(f, S, base, step) ==
    f \in [Nat -> S] /\ \A k \in Nat : f[k] = IF k = 0 THEN base ELSE step[f[k - 1]]

\* A recursion over all natural numbers: at k, the function that computes up
\* to k. Any two such functions agree where both are defined.
LEMMA Endless ==
    ASSUME NEW S, NEW base \in S, NEW step \in [S -> S]
    PROVE  \E f : Repeats(f, S, base, step)
<1> DEFINE steps == [k \in Nat |-> step]
           Upto(g, k) == Computes(g, S, base, steps, 0, k)
           upto == [k \in Nat |-> CHOOSE g : Upto(g, k)]
           f == [k \in Nat |-> upto[k][k]]
<1>1. ASSUME NEW k \in Nat PROVE Upto(upto[k], k)
  <2>1. StepsIn(steps, 0 .. k, S) /\ 0 \in Int /\ k \in Int
    BY DEF StepsIn
  <2>2. \E g : Upto(g, k)
    BY <2>1, Recursive
  <2> HIDE DEF Upto
  <2> QED BY <2>2
<1> HIDE DEF upto
<1>2. ASSUME NEW k \in Nat
      PROVE  /\ upto[k] \in [0 .. k -> S]
             /\ \A i \in 0 .. k : upto[k][i] = IF i = 0 THEN base ELSE step[upto[k][i - 1]]
  BY <1>1 DEF Computes
<1>3. ASSUME NEW k \in Nat PROVE upto[k + 1][k] = upto[k][k]
  <2> DEFINE A == {i \in Int : upto[k + 1][i] = upto[k][i]}
  <2>1. 0 \in A
    BY <1>2
  <2>2. \A i \in 0 .. k - 1 : i \in A => i + 1 \in A
    <3> SUFFICES ASSUME NEW i \in 0 .. k - 1, upto[k + 1][i] = upto[k][i]
                 PROVE  upto[k + 1][i + 1] = upto[k][i + 1]
      OBVIOUS
    <3>1. i + 1 \in 0 .. k /\ i + 1 \in 0 .. k + 1 /\ i + 1 # 0 /\ (i + 1) - 1 = i
      OBVIOUS
    <3> QED BY <1>2, <3>1
  <2>3. 0 \in Int /\ k \in Int
    OBVIOUS
  <2>4. 0 .. k \subseteq A
    <3> HIDE DEF A
    <3> QED BY <2>1, <2>2, <2>3, Upward
  <2> QED BY <2>4
<1>4. f \in [Nat -> S]
  BY <1>2
<1>5. ASSUME NEW k \in Nat PROVE f[k] = IF k = 0 THEN base ELSE step[f[k - 1]]
  <2>1. CASE k = 0
    BY <1>2, <2>1
  <2>2. CASE k # 0
    <3>1. k - 1 \in Nat /\ (k - 1) + 1 = k
      BY <2>2
    <3>2. upto[k][k] = step[upto[k][k - 1]] /\ upto[k][k - 1] = upto[k - 1][k - 1]
      BY <1>2, <1>3, <2>2, <3>1
    <3> QED BY <2>2, <3>1, <3>2
  <2> QED BY <2>1, <2>2
<1> HIDE DEF f
<1>6. Repeats(f, S, base, step)
  BY <1>4, <1>5 DEF Repeats
<1> QED BY <1>6

-----------------------------------------------------------------------------
\* What holds of a set when it holds of the set without any one element
\* holds of every finite set.
LEMMA Downward ==
    ASSUME NEW D, IsFiniteSet(D), NEW A,
           \A t \in SUBSET D : (\A x \in t : t \ {x} \in A) => t \in A
    PROVE  SUBSET D \subseteq A
<1> DEFINE B == {n \in Nat : \A t \in SUBSET D : Cardinality(t) <= n => t \in A}
<1>1. ASSUME NEW t \in SUBSET D
      PROVE  IsFiniteSet(t) /\ Cardinality(t) \in Nat
  BY FS_Subset, FS_CardinalityType
<1>2. 0 \in B
  <2> SUFFICES ASSUME NEW t \in SUBSET D, Cardinality(t) <= 0 PROVE t \in A
    OBVIOUS
  <2>1. Cardinality(t) = 0
    BY <1>1
  <2>2. t = {}
    BY <1>1, <2>1, FS_EmptySet
  <2> QED BY <2>2
<1>3. ASSUME NEW n \in Nat, n \in B PROVE n + 1 \in B
  <2> SUFFICES ASSUME NEW t \in SUBSET D, Cardinality(t) <= n + 1 PROVE t \in A
    OBVIOUS
  <2>1. ASSUME NEW x \in t PROVE t \ {x} \in A
    <3>1. IsFiniteSet(t) /\ Cardinality(t) \in Nat
      BY <1>1
    <3>2. Cardinality(t \ {x}) = Cardinality(t) - 1
      BY <3>1, FS_RemoveElement
    <3> QED BY <1>3, <3>1, <3>2
  <2> QED BY <2>1
<1>4. Nat \subseteq B
  <2> HIDE DEF B
  <2> QED BY <1>2, <1>3, Induction
<1>5. Cardinality(D) \in B /\ Cardinality(D) \in Nat
  BY <1>1, <1>4
<1> QED BY <1>1, <1>5, FS_Subset

\* f folds every subset of D, taking elements in the order of choice.
FoldsBy(f, S, base, choice, step, D) ==
    /\ f \in [SUBSET D -> S]
    /\ \A t \in SUBSET D :
          f[t] = IF t = {} THEN base ELSE step[choice[t]][f[t \ {choice[t]}]]

ChoosesIn(choice, D) == \A t \in SUBSET D : t # {} => choice[t] \in t

LEMMA Foldable ==
    ASSUME NEW D, IsFiniteSet(D), NEW S, NEW base \in S, NEW choice, NEW step,
           ChoosesIn(choice, D), StepsIn(step, D, S)
    PROVE  \E f : FoldsBy(f, S, base, choice, step, D)
<1> USE DEF StepsIn, ChoosesIn
<1> DEFINE Small(n) == {t \in SUBSET D : Cardinality(t) <= n}
           Upto(f, n) ==
              /\ f \in [Small(n) -> S]
              /\ \A t \in Small(n) :
                    f[t] = IF t = {} THEN base ELSE step[choice[t]][f[t \ {choice[t]}]]
           A == {n \in Nat : \E f : Upto(f, n)}
<1>1. ASSUME NEW t \in SUBSET D
      PROVE  /\ IsFiniteSet(t) /\ Cardinality(t) \in Nat
             /\ \A x \in t : t \ {x} \in SUBSET D /\ Cardinality(t \ {x}) = Cardinality(t) - 1
             /\ Cardinality(t) = 0 <=> t = {}
  <2>1. IsFiniteSet(t)
    BY FS_Subset
  <2>2. Cardinality(t) \in Nat
    BY <2>1, FS_CardinalityType
  <2>3. ASSUME NEW x \in t
        PROVE  t \ {x} \in SUBSET D /\ Cardinality(t \ {x}) = Cardinality(t) - 1
    BY <2>1, FS_RemoveElement
  <2>4. Cardinality(t) = 0 <=> t = {}
    BY <2>1, FS_EmptySet
  <2> QED BY <2>1, <2>2, <2>3, <2>4
<1>2. 0 \in A
  <2> DEFINE f == [t \in Small(0) |-> base]
  <2>1. \A t \in Small(0) : t = {}
    BY <1>1
  <2>2. f \in [Small(0) -> S]
    OBVIOUS
  <2>3. Upto(f, 0)
    <3> HIDE DEF Small
    <3> QED BY <2>1, <2>2
  <2> HIDE DEF f
  <2> QED BY <2>3
<1>3. ASSUME NEW n \in Nat, n \in A PROVE n + 1 \in A
  <2>1. PICK f : Upto(f, n)
    BY <1>3
  <2> DEFINE g == [t \in Small(n + 1) |->
                     IF t = {} THEN base ELSE step[choice[t]][f[t \ {choice[t]}]]]
  <2>2. ASSUME NEW t \in Small(n + 1), t # {}
        PROVE  t \ {choice[t]} \in Small(n) /\ choice[t] \in D
    BY <1>1, <2>2
  <2>3. ASSUME NEW t \in Small(n) PROVE t \in Small(n + 1) /\ g[t] = f[t]
    <3>1. t \in Small(n + 1)
      BY <1>1, <2>3
    <3> HIDE DEF Small
    <3> QED BY <2>1, <2>3, <3>1
  <2>4. g \in [Small(n + 1) -> S]
    <3>1. ASSUME NEW t \in Small(n + 1), t # {}
          PROVE  step[choice[t]][f[t \ {choice[t]}]] \in S
      <4>1. t \ {choice[t]} \in Small(n) /\ choice[t] \in D
        BY <2>2, <3>1
      <4>2. f[t \ {choice[t]}] \in S
        <5> HIDE DEF Small
        <5> QED BY <2>1, <4>1
      <4> QED BY <4>1, <4>2
    <3> HIDE DEF Small
    <3> QED BY <3>1
  <2>5. ASSUME NEW t \in Small(n + 1)
        PROVE  g[t] = IF t = {} THEN base ELSE step[choice[t]][g[t \ {choice[t]}]]
    <3>1. CASE t = {}
      BY <3>1
    <3>2. CASE t # {}
      <4>1. g[t \ {choice[t]}] = f[t \ {choice[t]}]
        <5> HIDE DEF g, Small
        <5> QED BY <2>2, <2>3, <3>2
      <4> QED BY <3>2, <4>1
    <3> QED BY <3>1, <3>2
  <2>6. Upto(g, n + 1)
    <3> HIDE DEF g, Small
    <3> QED BY <2>4, <2>5
  <2>7. \E h : Upto(h, n + 1)
    <3> HIDE DEF Small, g
    <3> QED BY <2>6
  <2>8. n + 1 \in Nat
    OBVIOUS
  <2> HIDE DEF Upto
  <2> QED BY <2>7, <2>8
<1>4. Nat \subseteq A
  <2> HIDE DEF A
  <2> QED BY <1>2, <1>3, Induction
<1>5. PICK f : Upto(f, Cardinality(D))
  BY <1>1, <1>4
<1>6. Small(Cardinality(D)) = SUBSET D
  BY FS_Subset
<1>7. /\ f \in [SUBSET D -> S]
      /\ \A t \in SUBSET D :
            f[t] = IF t = {} THEN base ELSE step[choice[t]][f[t \ {choice[t]}]]
  <2> HIDE DEF Small
  <2> QED BY <1>5, <1>6
<1> QED BY <1>7 DEF FoldsBy

-----------------------------------------------------------------------------
\* The same facts for the operators of the community modules.
LEMMA SameSeq ==
    ASSUME NEW S, NEW s \in Seq(S), NEW t \in Seq(S), Len(s) = Len(t),
           \A i \in 1 .. Len(s) : s[i] = t[i]
    PROVE  s = t
<1>1. s = [i \in 1 .. Len(s) |-> s[i]] /\ t = [i \in 1 .. Len(t) |-> t[i]]
  OBVIOUS
<1> QED BY <1>1

LEMMA Appended ==
    ASSUME NEW T, NEW s \in Seq(T), NEW x \in T
    PROVE  /\ Append(s, x) \in Seq(T) /\ Len(Append(s, x)) = Len(s) + 1
           /\ Append(s, x) # <<>>
           /\ \A i \in 1 .. Len(s) : Append(s, x)[i] = s[i]
           /\ Append(s, x)[Len(s) + 1] = x
OBVIOUS

LEMMA ConcatAppend ==
    ASSUME NEW T, NEW s \in Seq(T), NEW t \in Seq(T), NEW x \in T
    PROVE  s \o Append(t, x) = Append(s \o t, x)
<1> DEFINE u == Append(t, x)
           st == s \o t
           l == s \o u
           r == Append(st, x)
<1>1. /\ u \in Seq(T) /\ Len(u) = Len(t) + 1 /\ u[Len(t) + 1] = x
      /\ \A i \in 1 .. Len(t) : u[i] = t[i]
  BY Appended
<1>2. /\ st \in Seq(T) /\ Len(st) = Len(s) + Len(t)
      /\ \A i \in 1 .. Len(st) : st[i] = IF i <= Len(s) THEN s[i] ELSE t[i - Len(s)]
  OBVIOUS
<1>3. /\ r \in Seq(T) /\ Len(r) = Len(st) + 1 /\ r[Len(st) + 1] = x
      /\ \A i \in 1 .. Len(st) : r[i] = st[i]
  BY <1>2, Appended
<1> HIDE DEF u, st, r
<1>4. /\ l \in Seq(T) /\ Len(l) = Len(s) + Len(u)
      /\ \A i \in 1 .. Len(l) : l[i] = IF i <= Len(s) THEN s[i] ELSE u[i - Len(s)]
  BY <1>1
<1> HIDE DEF l
<1>5. Len(s) \in Nat /\ Len(t) \in Nat /\ Len(l) = Len(r)
  BY <1>1, <1>2, <1>3, <1>4
<1>6. ASSUME NEW i \in 1 .. Len(l) PROVE l[i] = r[i]
  <2> USE <1>5
  <2>1. CASE i <= Len(s)
    <3>1. i \in 1 .. Len(st)
      BY <1>2, <2>1
    <3> QED BY <1>2, <1>3, <1>4, <2>1, <3>1
  <2>2. CASE i > Len(s) /\ i <= Len(s) + Len(t)
    <3>1. i - Len(s) \in 1 .. Len(t) /\ i \in 1 .. Len(st)
      BY <1>2, <1>5, <2>2
    <3> QED BY <1>1, <1>2, <1>3, <1>4, <1>5, <2>2, <3>1
  <2>3. CASE i = Len(s) + Len(t) + 1
    <3>1. i - Len(s) = Len(t) + 1 /\ i = Len(st) + 1 /\ ~ (i <= Len(s))
      BY <1>2, <1>5, <2>3
    <3> QED BY <1>1, <1>3, <1>4, <3>1
  <2>4. i \in Int /\ i <= Len(s) + Len(t) + 1
    BY <1>1, <1>4
  <2> QED BY <2>1, <2>2, <2>3, <2>4
<1>7. l = r
  BY <1>3, <1>4, <1>5, <1>6, SameSeq
<1> QED BY <1>7 DEF l, r, u, st

\* The greatest of a set of numbers that has a bound.
LEMMA Greatest ==
    ASSUME NEW n \in Nat, NEW t \in SUBSET (0 .. n), t # {}
    PROVE  /\ Max(t) \in t /\ \A y \in t : y <= Max(t)
           /\ \A x \in t : (\A y \in t : y <= x) => Max(t) = x
<1> DEFINE U == {m \in Nat : n - m \in t}
<1>1. U \subseteq Nat /\ U # {}
  <2>1. PICK y \in t : TRUE
    OBVIOUS
  <2>2. y \in 0 .. n
    OBVIOUS
  <2>3. n - y \in Nat /\ n - (n - y) = y
    BY <2>2
  <2>4. n - y \in U
    BY <2>1, <2>3
  <2> QED BY <2>4
<1>2. PICK u \in U : \A v \in U : u <= v
  <2> HIDE DEF U
  <2> QED BY <1>1, Least
<1> DEFINE x == n - u
<1>3. ASSUME NEW y \in t PROVE y <= x
  <2>1. y \in 0 .. n /\ n - y \in Nat /\ n - (n - y) = y
    OBVIOUS
  <2>2. n - y \in U
    BY <1>3, <2>1
  <2> QED BY <1>2, <2>1, <2>2
<1>4. x \in t
  BY <1>2
<1> HIDE DEF x
<1>5. Max(t) \in t /\ \A y \in t : Max(t) >= y
  <2>1. \A y \in t : x >= y
    BY <1>3
  <2> QED BY <1>4, <2>1 DEF Max
<1>6. \A y \in t : y \in Int
  OBVIOUS
<1>7. \A y \in t : y <= Max(t)
  BY <1>5, <1>6
<1>8. ASSUME NEW z \in t, \A y \in t : y <= z PROVE Max(t) = z
  <2>1. Max(t) <= z /\ z <= Max(t) /\ z \in Int /\ Max(t) \in Int
    BY <1>5, <1>6, <1>7, <1>8
  <2> HIDE DEF U
  <2> QED BY <2>1
<1> QED BY <1>5, <1>7, <1>8

LEMMA Flattened ==
    ASSUME NEW T, NEW q \in Seq(Seq(T)), q # <<>>
    PROVE  \E f \in [1 .. Len(q) -> Seq(T)] :
              /\ f[1] = q[1]
              /\ \A i \in 2 .. Len(q) : f[i] = f[i - 1] \o q[i]
              /\ FlattenSeq(q) = f[Len(q)]
<1> DEFINE S == Seq(T)
           n == Len(q)
           step == [i \in 1 .. n |-> [v \in S |-> v \o q[i]]]
           Is(f) == f = [i \in 1 .. n |-> IF i = 1 THEN q[i] ELSE f[i - 1] \o q[i]]
<1>1. n \in Nat /\ n > 0 /\ \A i \in 1 .. n : q[i] \in S
  OBVIOUS
<1>2. \A i \in 1 .. n, v \in S : step[i][v] = v \o q[i]
  OBVIOUS
<1>3. \A i \in 1 .. n, v \in S : v \o q[i] \in S
  BY <1>1
<1>4. FlattenSeq(q) = (CHOOSE f : Is(f))[n]
  BY <1>1 DEF FlattenSeq
<1> HIDE DEF S, n, step
<1>5. PICK f \in [1 .. n -> S] : \A i \in 1 .. n :
         f[i] = IF i = 1 THEN q[1] ELSE step[i][f[i - 1]]
  <2>1. StepsIn(step, 1 .. n, S)
    BY <1>2, <1>3 DEF StepsIn
  <2>2. q[1] \in S /\ 1 \in Int /\ n \in Int
    BY <1>1
  <2>3. PICK f : Computes(f, S, q[1], step, 1, n)
    BY <2>1, <2>2, Recursive
  <2> QED BY <2>3 DEF Computes
<1>6. Is(f)
  <2>1. ASSUME NEW i \in 1 .. n, i # 1 PROVE step[i][f[i - 1]] = f[i - 1] \o q[i]
    <3>1. i - 1 \in 1 .. n
      BY <1>1, <2>1
    <3>2. f[i - 1] \in S
      BY <1>5, <3>1
    <3> QED BY <1>2, <3>2
  <2>2. f = [i \in 1 .. n |-> f[i]]
    BY <1>5
  <2>3. \A i \in 1 .. n : f[i] = IF i = 1 THEN q[i] ELSE f[i - 1] \o q[i]
    BY <1>5, <2>1
  <2> QED BY <2>2, <2>3
<1>7. PICK g : Is(g) /\ FlattenSeq(q) = g[n]
  <2> HIDE DEF Is
  <2> QED BY <1>4, <1>6
<1>8. /\ g[1] = q[1]
      /\ \A i \in 2 .. n : g[i] = g[i - 1] \o q[i]
  <2>1. g = [i \in 1 .. n |-> IF i = 1 THEN q[i] ELSE g[i - 1] \o q[i]]
    BY <1>7
  <2>2. \A i \in 1 .. n : g[i] = IF i = 1 THEN q[i] ELSE g[i - 1] \o q[i]
    BY <2>1
  <2>3. ASSUME NEW i \in 2 .. n PROVE g[i] = g[i - 1] \o q[i]
    <3>1. i \in 1 .. n /\ i # 1
      BY <1>1
    <3> QED BY <2>2, <3>1
  <2>4. g[1] = q[1]
    BY <1>1, <2>2
  <2> QED BY <2>3, <2>4
<1> DEFINE A == {i \in Int : g[i] \in S}
<1>9. 1 .. n \subseteq A
  <2>1. 1 \in A
    BY <1>1, <1>8
  <2>2. \A i \in 1 .. n - 1 : i \in A => i + 1 \in A
    <3> SUFFICES ASSUME NEW i \in 1 .. n - 1, g[i] \in S PROVE g[i + 1] \in S
      OBVIOUS
    <3>1. i + 1 \in 2 .. n /\ i + 1 \in 1 .. n /\ (i + 1) - 1 = i
      BY <1>1
    <3>2. g[i + 1] = g[i] \o q[i + 1]
      BY <1>8, <3>1
    <3> QED BY <1>3, <3>1, <3>2
  <2>3. 1 \in Int /\ n \in Int
    BY <1>1
  <2> HIDE DEF A
  <2> QED BY <2>1, <2>2, <2>3, Upward
<1>10. g \in [1 .. n -> S]
  BY <1>7, <1>9
<1> QED BY <1>7, <1>8, <1>10 DEF n, S

LEMMA FlattenAppend ==
    ASSUME NEW T, NEW s \in Seq(Seq(T)), NEW x \in Seq(T)
    PROVE  /\ FlattenSeq(s) \in Seq(T)
           /\ FlattenSeq(Append(s, x)) = FlattenSeq(s) \o x
<1> DEFINE y == Append(s, x)
           n == Len(s)
<1>1. /\ y \in Seq(Seq(T)) /\ y # <<>> /\ Len(y) = n + 1 /\ n \in Nat
      /\ \A i \in 1 .. n : y[i] = s[i]
      /\ y[n + 1] = x
  BY Appended
<1> HIDE DEF y
<1>2. PICK g \in [1 .. n + 1 -> Seq(T)] :
         /\ g[1] = y[1]
         /\ \A i \in 2 .. n + 1 : g[i] = g[i - 1] \o y[i]
         /\ FlattenSeq(y) = g[n + 1]
  <2>1. \E g \in [1 .. Len(y) -> Seq(T)] :
           /\ g[1] = y[1]
           /\ \A i \in 2 .. Len(y) : g[i] = g[i - 1] \o y[i]
           /\ FlattenSeq(y) = g[Len(y)]
    BY <1>1, Flattened
  <2> QED BY <1>1, <2>1
<1>3. CASE s = <<>>
  <2>1. FlattenSeq(s) = <<>>
    BY <1>3 DEF FlattenSeq
  <2>2. FlattenSeq(y) = x
    BY <1>1, <1>2, <1>3
  <2>3. <<>> \o x = x /\ <<>> \in Seq(T)
    OBVIOUS
  <2> QED BY <2>1, <2>2, <2>3 DEF y
<1>4. CASE s # <<>>
  <2>1. PICK f \in [1 .. n -> Seq(T)] :
           /\ f[1] = s[1]
           /\ \A i \in 2 .. n : f[i] = f[i - 1] \o s[i]
           /\ FlattenSeq(s) = f[n]
    BY <1>4, Flattened
  <2>2. n >= 1
    BY <1>4
  <2> HIDE DEF n
  <2> DEFINE A == {i \in Int : g[i] = f[i]}
  <2>3. 1 .. n \subseteq A
    <3>1. 1 \in A
      BY <1>1, <1>2, <2>1, <2>2
    <3>2. \A i \in 1 .. n - 1 : i \in A => i + 1 \in A
      <4> SUFFICES ASSUME NEW i \in 1 .. n - 1, g[i] = f[i] PROVE g[i + 1] = f[i + 1]
        OBVIOUS
      <4>1. i + 1 \in 2 .. n /\ i + 1 \in 2 .. n + 1 /\ (i + 1) - 1 = i /\ i + 1 \in 1 .. n
        BY <1>1
      <4>2. g[i + 1] = g[i] \o y[i + 1] /\ f[i + 1] = f[i] \o s[i + 1]
        BY <1>2, <2>1, <4>1
      <4> QED BY <1>1, <4>1, <4>2
    <3>3. 1 \in Int /\ n \in Int
      BY <1>1
    <3> HIDE DEF A
    <3> QED BY <3>1, <3>2, <3>3, Upward
  <2>4. n + 1 \in 2 .. n + 1 /\ (n + 1) - 1 = n /\ n \in 1 .. n
    BY <1>1, <2>2
  <2>5. g[n + 1] = g[n] \o x /\ g[n] = f[n] /\ f[n] \in Seq(T)
    BY <1>1, <1>2, <2>1, <2>3, <2>4
  <2> QED BY <1>2, <2>1, <2>5 DEF y
<1> QED BY <1>3, <1>4

\* A sum of numbers, which the library adds up in an unknown order.
Sum(s) == FoldSeq(+, 0, s)

SumsUp(f, s) ==
    /\ f \in [SUBSET (1 .. Len(s)) -> Int]
    /\ f[{}] = 0
    /\ \A t \in SUBSET (1 .. Len(s)) : \A x \in t : f[t] = s[x] + f[t \ {x}]

LEMMA Summed ==
    ASSUME NEW s \in Seq(Int)
    PROVE  \E f : SumsUp(f, s) /\ Sum(s) = f[1 .. Len(s)]
<1> DEFINE D == 1 .. Len(s)
           choice == [t \in SUBSET D |-> CHOOSE x \in t : TRUE]
           step == [x \in D |-> [v \in Int |-> s[x] + v]]
           Is(f) == f = [t \in SUBSET D |->
                           IF t = {} THEN 0
                           ELSE LET x == CHOOSE x \in t : TRUE IN s[x] + f[t \ {x}]]
<1>1. IsFiniteSet(D) /\ D = DOMAIN s /\ \A x \in D : s[x] \in Int
  <2>1. Len(s) \in Nat
    OBVIOUS
  <2> QED BY <2>1, FS_Interval
<1>2. Sum(s) = (CHOOSE f : Is(f))[D]
  BY <1>1 DEF Sum, FoldSeq, FoldFunction, FoldFunctionOnSet, MapThenFoldSet
<1>3. \A t \in SUBSET D : choice[t] = CHOOSE x \in t : TRUE
  OBVIOUS
<1>4. \A x \in D, v \in Int : step[x][v] = s[x] + v
  OBVIOUS
<1> HIDE DEF D, choice, step
<1>5. \A t \in SUBSET D : t # {} => choice[t] \in t /\ choice[t] \in D
  BY <1>3
<1>6. PICK g : FoldsBy(g, Int, 0, choice, step, D)
  <2>1. ChoosesIn(choice, D)
    BY <1>5 DEF ChoosesIn
  <2>2. StepsIn(step, D, Int)
    <3> SUFFICES ASSUME NEW x \in D, NEW v \in Int PROVE step[x][v] \in Int
      BY DEF StepsIn
    <3>1. step[x][v] = s[x] + v /\ s[x] \in Int
      BY <1>1, <1>4
    <3> QED BY <3>1
  <2>3. IsFiniteSet(D) /\ 0 \in Int
    BY <1>1
  <2> QED BY <2>1, <2>2, <2>3, Foldable
<1>7. Is(g)
  <2>1. \A t \in SUBSET D : g[t] = IF t = {} THEN 0 ELSE s[choice[t]] + g[t \ {choice[t]}]
    BY <1>4, <1>5, <1>6 DEF FoldsBy
  <2>2. g = [t \in SUBSET D |-> g[t]]
    BY <1>6 DEF FoldsBy
  <2> QED BY <1>3, <2>1, <2>2
<1>8. PICK f : Is(f) /\ Sum(s) = f[D]
  <2> HIDE DEF Is
  <2> QED BY <1>2, <1>7
<1>9. /\ f[{}] = 0
      /\ \A t \in SUBSET D : t # {} => f[t] = s[choice[t]] + f[t \ {choice[t]}]
  BY <1>3, <1>8
<1>10. \A t \in SUBSET D : f[t] \in Int
  <2> DEFINE A == {t \in SUBSET D : f[t] \in Int}
  <2>1. ASSUME NEW t \in SUBSET D, \A x \in t : t \ {x} \in A PROVE f[t] \in Int
    <3>1. CASE t = {}
      BY <1>9, <3>1
    <3>2. CASE t # {}
      <4>1. choice[t] \in t /\ choice[t] \in D /\ f[t] = s[choice[t]] + f[t \ {choice[t]}]
        BY <1>5, <1>9, <3>2
      <4>2. f[t \ {choice[t]}] \in Int /\ s[choice[t]] \in Int
        BY <1>1, <2>1, <4>1
      <4> QED BY <4>1, <4>2
    <3> QED BY <3>1, <3>2
  <2>2. \A t \in SUBSET D : (\A x \in t : t \ {x} \in A) => t \in A
    BY <2>1
  <2>3. IsFiniteSet(D)
    BY <1>1
  <2>4. SUBSET D \subseteq A
    <3> HIDE DEF A
    <3> QED BY <2>2, <2>3, Downward
  <2> QED BY <2>4
<1> DEFINE A == {t \in SUBSET D : \A x \in t : f[t] = s[x] + f[t \ {x}]}
<1>11. SUBSET D \subseteq A
  <2>1. ASSUME NEW t \in SUBSET D, \A x \in t : t \ {x} \in A, NEW x \in t
        PROVE  f[t] = s[x] + f[t \ {x}]
    <3> DEFINE c == choice[t]
    <3>1. c \in t /\ c \in D /\ f[t] = s[c] + f[t \ {c}]
      BY <1>5, <1>9
    <3> HIDE DEF c
    <3>2. CASE x = c
      BY <3>1, <3>2
    <3>3. CASE x # c
      <4>1. f[t \ {c}] = s[x] + f[(t \ {c}) \ {x}]
        BY <2>1, <3>1, <3>3
      <4>2. f[t \ {x}] = s[c] + f[(t \ {c}) \ {x}]
        <5>1. f[t \ {x}] = s[c] + f[(t \ {x}) \ {c}]
          BY <2>1, <3>1, <3>3
        <5>2. (t \ {x}) \ {c} = (t \ {c}) \ {x}
          OBVIOUS
        <5> QED BY <5>1, <5>2
      <4>3. f[(t \ {c}) \ {x}] \in Int /\ s[x] \in Int /\ s[c] \in Int
        BY <1>1, <1>10, <3>1
      <4> DEFINE rest == f[(t \ {c}) \ {x}]
      <4>4. f[t] = s[c] + (s[x] + rest) /\ f[t \ {x}] = s[c] + rest
        BY <3>1, <4>1, <4>2
      <4> HIDE DEF rest
      <4>5. rest \in Int
        BY <4>3 DEF rest
      <4> QED BY <4>3, <4>4, <4>5
    <3> QED BY <3>2, <3>3
  <2>2. \A t \in SUBSET D : (\A x \in t : t \ {x} \in A) => t \in A
    BY <2>1
  <2>3. IsFiniteSet(D)
    BY <1>1
  <2> HIDE DEF A
  <2> QED BY <2>2, <2>3, Downward
<1>12. f \in [SUBSET D -> Int]
  BY <1>8, <1>10
<1>13. SumsUp(f, s)
  BY <1>9, <1>11, <1>12 DEF SumsUp, D
<1> QED BY <1>8, <1>13 DEF D

LEMMA SumAppend ==
    ASSUME NEW s \in Seq(Int), NEW n \in Int
    PROVE  Sum(s) \in Int /\ Sum(Append(s, n)) = Sum(s) + n
<1> DEFINE y == Append(s, n)
           k == Len(s)
           D == 1 .. k
<1>1. /\ y \in Seq(Int) /\ Len(y) = k + 1 /\ k \in Nat
      /\ \A i \in D : y[i] = s[i]
      /\ y[k + 1] = n
  BY Appended
<1> HIDE DEF y
<1>2. PICK f : SumsUp(f, s) /\ Sum(s) = f[D]
  BY Summed
<1>3. PICK g : SumsUp(g, y) /\ Sum(y) = g[1 .. k + 1]
  BY <1>1, Summed
<1>4. f \in [SUBSET D -> Int] /\ f[{}] = 0 /\ g[{}] = 0
  BY <1>2, <1>3 DEF SumsUp
<1>5. IsFiniteSet(D)
  BY <1>1, FS_Interval
<1>6. ASSUME NEW t \in SUBSET D, NEW x \in t
      PROVE  f[t] = s[x] + f[t \ {x}] /\ g[t] = s[x] + g[t \ {x}]
  <2>1. t \in SUBSET (1 .. Len(y)) /\ y[x] = s[x]
    BY <1>1
  <2> QED BY <1>2, <1>3, <2>1 DEF SumsUp
<1> DEFINE A == {t \in SUBSET D : f[t] = g[t]}
<1>7. \A t \in SUBSET D : (\A x \in t : t \ {x} \in A) => t \in A
  <2> SUFFICES ASSUME NEW t \in SUBSET D, \A x \in t : t \ {x} \in A PROVE f[t] = g[t]
    OBVIOUS
  <2>1. CASE t = {}
    BY <1>4, <2>1
  <2>2. ASSUME NEW x \in t PROVE f[t] = g[t]
    BY <1>6, <2>2
  <2> QED BY <2>1, <2>2
<1>8. SUBSET D \subseteq A
  <2> HIDE DEF A, D
  <2> QED BY <1>5, <1>7, Downward
<1>9. g[1 .. k + 1] = n + g[D]
  <2> DEFINE whole == 1 .. k + 1
  <2>1. whole \ {k + 1} = D /\ k + 1 \in whole /\ whole = 1 .. Len(y)
    BY <1>1
  <2> HIDE DEF whole, D
  <2>2. whole \in SUBSET (1 .. Len(y))
    BY <2>1
  <2>3. g[whole] = y[k + 1] + g[whole \ {k + 1}]
    BY <1>3, <2>1, <2>2 DEF SumsUp
  <2>4. g[whole] = n + g[D]
    BY <1>1, <2>1, <2>3
  <2> QED BY <2>4 DEF whole
<1>10. f[D] = g[D] /\ f[D] \in Int
  <2> HIDE DEF D
  <2> QED BY <1>4, <1>8
<1> QED BY <1>2, <1>3, <1>9, <1>10 DEF y

LEMMA SumEmpty == Sum(<<>>) = 0
<1>1. <<>> \in Seq(Int) /\ Len(<<>>) = 0 /\ 1 .. 0 = {}
  OBVIOUS
<1>2. PICK f : SumsUp(f, <<>>) /\ Sum(<<>>) = f[1 .. Len(<<>>)]
  BY <1>1, Summed
<1> QED BY <1>1, <1>2 DEF SumsUp
=============================================================================
