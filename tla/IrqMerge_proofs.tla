--------------------------- MODULE IrqMerge_proofs ---------------------------
(***************************************************************************)
(* The merging of interrupts does what its predictor does, clock by clock, *)
(* and every interrupt that waits for its time is signalled within the     *)
(* tolerance, for any number of queues, units of time and thresholds.      *)
(***************************************************************************)
EXTENDS IrqMerge, EngineLemmas, WellFoundedInduction

(***************************************************************************)
(* The interrupts on their way out: what eng_out_ff gains at its end and   *)
(* loses at its head.                                                      *)
(***************************************************************************)
\* What a word of eng_out_ff may be.
Words == [g : Groups, lanes : SUBSET Lanes]

\* The queues of one word.
OfWord(w) == InOrder({w.g} \X w.lanes)

\* Groups and lanes are numbers, finitely many.
LEMMA SizesAreNat ==
  ASSUME Sizes
  PROVE  /\ NG \in Nat \ {0} /\ NL \in Nat \ {0} /\ TimeMod \in Nat \ {0}
         /\ CntMod \in Nat /\ CntMod > 1 /\ CLK_CYCLE \in Nat /\ CLK_CYCLE > 1
         /\ Groups \subseteq Nat /\ Lanes \subseteq Nat /\ IsFiniteSet(Lanes)
<1>1. NG \in Nat \ {0} /\ NL \in Nat \ {0} /\ TimeMod \in Nat \ {0}
  BY DEF Sizes
<1>2. CntMod \in Nat /\ CntMod > 1 /\ CLK_CYCLE \in Nat /\ CLK_CYCLE > 1
  BY DEF Sizes
<1>3. IsFiniteSet(Lanes)
  <2>1. 0 \in Int /\ NL - 1 \in Int
    BY <1>1
  <2> QED BY <2>1, FS_Interval DEF Lanes
<1> QED BY <1>1, <1>2, <1>3 DEF Groups, Lanes

\* A set of numbers that is not empty has a lowest one.
LEMMA LowestIs ==
  ASSUME NEW S \in SUBSET Nat, S # {}
  PROVE  \E x \in S : \A y \in S : x <= y
<1> DEFINE R == {ss \in Nat \X Nat : ss[1] < ss[2]}
<1>1. IsWellFoundedOn(R, Nat)
  BY NatLessThanWellFounded DEF OpToRel
<1>2. PICK x \in S : \A y \in S : ~(<<y, x>> \in R)
  <2> HIDE DEF R
  <2> QED BY <1>1, WFMin
<1>3. ASSUME NEW y \in S PROVE x <= y
  <2>1. ~(y < x)
    BY <1>2
  <2> QED BY <2>1
<1> QED BY <1>3

\* The lane of a word that is handed out first.
LEMMA FirstLaneIs ==
  ASSUME Sizes, NEW w \in Words, w.lanes # {}
  PROVE  FirstLane(w) \in w.lanes /\ \A k \in w.lanes : FirstLane(w) <= k
<1>1. w.lanes \in SUBSET Nat
  BY SizesAreNat DEF Words
<1> QED BY <1>1, LowestIs DEF FirstLane

\* The places of the interrupts in a sequence of words.
LEMMA PendingType ==
  ASSUME Sizes, NEW s \in Seq(Words)
  PROVE  /\ Pending(s) \in SUBSET (Nat \X Nat) /\ IsFiniteSet(Pending(s))
         /\ \A i \in 1 .. Len(s), l \in Lanes : <<i, l>> \in Pending(s) <=> l \in s[i].lanes
         /\ \A p \in Pending(s) : /\ p = <<p[1], p[2]>> /\ p[1] \in 1 .. Len(s)
                                  /\ p[2] \in s[p[1]].lanes /\ p[2] \in Lanes
<1>1. Len(s) \in Nat /\ DOMAIN s = 1 .. Len(s)
  BY LenProperties
<1>2. Lanes \subseteq Nat /\ IsFiniteSet(Lanes)
  BY SizesAreNat
<1>3. Pending(s) \in SUBSET ((1 .. Len(s)) \X Lanes)
  BY <1>1 DEF Pending
<1>4. IsFiniteSet((1 .. Len(s)) \X Lanes)
  <2>1. IsFiniteSet(1 .. Len(s))
    <3>1. 1 \in Int /\ Len(s) \in Int
      BY <1>1
    <3> QED BY <3>1, FS_Interval
  <2> QED BY <1>2, <2>1, FS_Product
<1>5. IsFiniteSet(Pending(s))
  BY <1>3, <1>4, FS_Subset
<1>6. Pending(s) \in SUBSET (Nat \X Nat)
  <2>1. (1 .. Len(s)) \X Lanes \subseteq Nat \X Nat
    <3>1. 1 .. Len(s) \subseteq Nat
      BY <1>1
    <3> QED BY <1>2, <3>1
  <2> QED BY <1>3, <2>1
<1> QED BY <1>1, <1>5, <1>6 DEF Pending

\* The queue of the interrupt at place p.
At(s, p) == <<s[p[1]].g, p[2]>>

\* A sequence of words stands for a sequence of queues.
LEMMA QueuesType ==
  ASSUME Sizes, NEW s \in Seq(Words)
  PROVE  /\ QueuesOf(s) \in Seq(Nat \X Nat) /\ Len(QueuesOf(s)) = Cardinality(Pending(s))
         /\ \A k \in 1 .. Cardinality(Pending(s)) : QueuesOf(s)[k] = At(s, InOrder(Pending(s))[k])
<1> DEFINE o == InOrder(Pending(s))
           n == Cardinality(Pending(s))
<1>1. /\ n \in Nat /\ DOMAIN o = 1 .. n /\ \A k \in 1 .. n : o[k] \in Pending(s)
  BY PendingType, InOrderPlace
<1>2. QueuesOf(s) = [k \in 1 .. n |-> At(s, o[k])]
  <2>1. QueuesOf(s) = [k \in DOMAIN o |-> <<s[o[k][1]].g, o[k][2]>>]
    BY DEF QueuesOf
  <2> QED BY <1>1, <2>1 DEF At
<1>3. ASSUME NEW p \in Pending(s) PROVE At(s, p) \in Nat \X Nat
  <2>1. p[1] \in 1 .. Len(s) /\ p[2] \in Lanes
    BY PendingType
  <2>2. s[p[1]] \in Words
    BY <2>1, ElementOfSeq
  <2> QED BY <2>1, <2>2, SizesAreNat DEF At, Words
<1> HIDE DEF o, n
<1>4. QueuesOf(s) \in [1 .. n -> Nat \X Nat]
  BY <1>1, <1>2, <1>3
<1>5. QueuesOf(s) \in Seq(Nat \X Nat) /\ Len(QueuesOf(s)) = n
  BY <1>1, <1>4, SeqDef, LenProperties
<1> QED BY <1>2, <1>5 DEF o, n

\* The queues of a word are finitely many.
LEMMA WordType ==
  ASSUME Sizes, NEW w \in Words
  PROVE  /\ {w.g} \X w.lanes \in SUBSET (Nat \X Nat) /\ IsFiniteSet({w.g} \X w.lanes)
         /\ OfWord(w) \in Seq(Nat \X Nat)
<1>1. w.g \in Nat /\ w.lanes \in SUBSET Lanes
  BY SizesAreNat DEF Words
<1>2. IsFiniteSet({w.g} \X w.lanes)
  BY <1>1, SizesAreNat, FS_Subset, FS_Singleton, FS_Product
<1>3. {w.g} \X w.lanes \in SUBSET (Nat \X Nat)
  BY <1>1, SizesAreNat
<1>4. OfWord(w) \in Seq({w.g} \X w.lanes)
  BY <1>2, <1>3, InOrderPlace DEF OfWord
<1> QED BY <1>2, <1>3, <1>4, SeqMonotonic

\* A concatenation, by the lengths of its parts.
LEMMA ConcatParts ==
  ASSUME NEW A, NEW x \in Seq(A), NEW y \in Seq(A), NEW m, NEW c, Len(x) = m, Len(y) = c
  PROVE  /\ m \in Nat /\ c \in Nat
         /\ x \o y \in Seq(A) /\ Len(x \o y) = m + c
         /\ \A k \in 1 .. m + c : (x \o y)[k] = IF k <= m THEN x[k] ELSE y[k - m]
  BY ConcatProperties, LenProperties

\* A word that is appended brings its queues behind the others.
LEMMA QueuesAppend ==
  ASSUME Sizes, NEW s \in Seq(Words), NEW w \in Words
  PROVE  QueuesOf(Append(s, w)) = QueuesOf(s) \o OfWord(w)
<1> DEFINE a == Append(s, w)
           n == Len(s) + 1
           P == Pending(s)
           T == {n} \X w.lanes
           V == {w.g} \X w.lanes
           f == [p \in T |-> <<w.g, p[2]>>]
           m == Cardinality(P)
           c == Cardinality(T)
<1>1. /\ Len(s) \in Nat /\ a \in Seq(Words) /\ Len(a) = n
      /\ \A i \in 1 .. Len(s) : a[i] = s[i]
      /\ a[n] = w
  BY LenProperties, AppendProperties
<1>2. w.g \in Nat /\ w.lanes \in SUBSET Lanes /\ Lanes \subseteq Nat /\ IsFiniteSet(w.lanes)
  BY SizesAreNat, FS_Subset DEF Words
<1>3. T \in SUBSET (Nat \X Nat) /\ IsFiniteSet(T)
  <2>1. IsFiniteSet({n})
    BY FS_Singleton
  <2> QED BY <1>1, <1>2, <2>1, FS_Product
<1>4. P \in SUBSET (Nat \X Nat) /\ IsFiniteSet(P)
  BY PendingType
<1>5. Pending(a) = P \cup T
  <2>1. DOMAIN a = 1 .. n /\ DOMAIN s = 1 .. Len(s)
    BY <1>1, LenProperties
  <2>2. 1 .. n = (1 .. Len(s)) \cup {n} /\ n \notin 1 .. Len(s)
    BY <1>1
  <2>3. Pending(a) = {p \in (1 .. n) \X Lanes : p[2] \in a[p[1]].lanes}
    BY <2>1 DEF Pending
  <2>4. P = {p \in (1 .. Len(s)) \X Lanes : p[2] \in s[p[1]].lanes}
    BY <2>1 DEF Pending
  <2> HIDE DEF a, n, P
  <2> QED BY <1>1, <1>2, <2>2, <2>3, <2>4
<1>6. InOrder(Pending(a)) = InOrder(P) \o InOrder(T)
  <2>1. \A p \in P, r \in T : Before(p, r)
    <3> TAKE p \in P, r \in T
    <3>1. p[1] \in 1 .. Len(s) /\ r[1] = n
      BY PendingType
    <3> QED BY <1>1, <3>1 DEF Before
  <2> HIDE DEF P, T, a
  <2> QED BY <1>3, <1>4, <1>5, <2>1, InOrderAppend
<1>7. /\ IsFiniteSet(V) /\ Cardinality(V) = c
      /\ \A k \in 1 .. c : InOrder(V)[k] = f[InOrder(T)[k]]
  <2>1. f \in [T -> V] /\ \A p, r \in T : f[p] = f[r] => p = r
    OBVIOUS
  <2>2. \A v \in V : \E p \in T : f[p] = v
    <3> TAKE v \in V
    <3>1. <<n, v[2]>> \in T /\ f[<<n, v[2]>>] = v
      OBVIOUS
    <3> QED BY <3>1
  <2>3. \A p, r \in T : Before(p, r) <=> Before(f[p], f[r])
    <3> TAKE p \in T, r \in T
    <3>1. p[1] = n /\ r[1] = n /\ f[p] = <<w.g, p[2]>> /\ f[r] = <<w.g, r[2]>>
      OBVIOUS
    <3> QED BY <1>1, <1>2, <3>1 DEF Before
  <2>4. V \in SUBSET (Nat \X Nat)
    BY <1>2
  <2> HIDE DEF f, T, V
  <2>5. f \in Bijection(T, V)
    BY <2>1, <2>2, Fun_IsBij
  <2> QED BY <1>3, <2>3, <2>4, <2>5, InOrderMap
<1>8. /\ m \in Nat /\ c \in Nat
      /\ Len(InOrder(P)) = m /\ InOrder(P) \in Seq(Nat \X Nat)
      /\ Len(InOrder(T)) = c /\ InOrder(T) \in Seq(Nat \X Nat)
      /\ Len(InOrder(V)) = c /\ InOrder(V) \in Seq(Nat \X Nat)
      /\ \A k \in 1 .. m : InOrder(P)[k] \in P
      /\ \A k \in 1 .. c : InOrder(T)[k] \in T
  <2>1. V \in SUBSET (Nat \X Nat)
    BY <1>2
  <2> HIDE DEF P, T, V
  <2> QED BY <1>3, <1>4, <1>7, <2>1, InOrderPlace, SeqMonotonic
<1>14. /\ Len(InOrder(P) \o InOrder(T)) = m + c
       /\ \A k \in 1 .. m + c : (InOrder(P) \o InOrder(T))[k] =
            IF k <= m THEN InOrder(P)[k] ELSE InOrder(T)[k - m]
  <2> DEFINE x == InOrder(P)
             y == InOrder(T)
  <2>1. x \in Seq(Nat \X Nat) /\ y \in Seq(Nat \X Nat) /\ Len(x) = m /\ Len(y) = c
    BY <1>8
  <2>2. /\ Len(x \o y) = m + c
        /\ \A k \in 1 .. m + c : (x \o y)[k] = IF k <= m THEN x[k] ELSE y[k - m]
    <3> HIDE DEF x, y, m, c
    <3> QED BY <2>1, ConcatParts
  <2> QED BY <2>2
<1>9. Cardinality(Pending(a)) = m + c
  <2>1. Pending(a) \in SUBSET (Nat \X Nat) /\ IsFiniteSet(Pending(a))
    BY <1>1, PendingType
  <2>2. Len(InOrder(Pending(a))) = Cardinality(Pending(a))
    BY <2>1, InOrderPlace
  <2> HIDE DEF P, T, a, m, c
  <2> QED BY <1>6, <1>14, <2>2
<1>10. ASSUME NEW k \in 1 .. m + c
       PROVE  QueuesOf(a)[k] = IF k <= m THEN QueuesOf(s)[k] ELSE InOrder(V)[k - m]
  <2> DEFINE o == InOrder(Pending(a))
  <2>1. QueuesOf(a)[k] = <<a[o[k][1]].g, o[k][2]>>
    BY <1>1, <1>9, QueuesType DEF At
  <2>2. o[k] = IF k <= m THEN InOrder(P)[k] ELSE InOrder(T)[k - m]
    <3> HIDE DEF P, T, a, m, c
    <3> QED BY <1>6, <1>14
  <2>3. CASE k <= m
    <3>1. k \in 1 .. m
      BY <1>8, <2>3
    <3>2. InOrder(P)[k] \in P /\ InOrder(P)[k][1] \in 1 .. Len(s)
      BY <1>8, <3>1, PendingType
    <3>3. QueuesOf(s)[k] = <<s[InOrder(P)[k][1]].g, InOrder(P)[k][2]>>
      BY <3>1, QueuesType DEF At
    <3> HIDE DEF P, o, a, m
    <3> QED BY <1>1, <2>1, <2>2, <2>3, <3>2, <3>3
  <2>4. CASE k > m
    <3>1. k - m \in 1 .. c
      <4> HIDE DEF m, c
      <4> QED BY <1>8, <2>4
    <3>2. o[k] = InOrder(T)[k - m] /\ o[k] \in T
      <4> HIDE DEF m, c, o, T
      <4> QED BY <1>8, <2>2, <2>4, <3>1
    <3>3. o[k][1] = n /\ a[o[k][1]] = w
      BY <1>1, <3>2
    <3>4. InOrder(V)[k - m] = <<w.g, o[k][2]>>
      <4>1. f[o[k]] = <<w.g, o[k][2]>>
        BY <3>2
      <4> HIDE DEF f, o, T, V, m, c
      <4> QED BY <1>7, <3>1, <3>2, <4>1
    <3>5. ~(k <= m)
      <4> HIDE DEF m, c
      <4> QED BY <1>8, <2>4
    <3> HIDE DEF o, a, m, c, V
    <3> QED BY <2>1, <3>3, <3>4, <3>5
  <2> HIDE DEF m, c
  <2> QED BY <1>8, <2>3, <2>4
<1>11. /\ QueuesOf(a) \in Seq(Nat \X Nat) /\ Len(QueuesOf(a)) = m + c
       /\ QueuesOf(s) \in Seq(Nat \X Nat) /\ Len(QueuesOf(s)) = m
  BY <1>1, <1>9, QueuesType
<1> HIDE DEF V, m, c, a
<1>12. /\ QueuesOf(s) \o InOrder(V) \in Seq(Nat \X Nat) /\ Len(QueuesOf(s) \o InOrder(V)) = m + c
       /\ \A k \in 1 .. m + c : (QueuesOf(s) \o InOrder(V))[k] =
            IF k <= m THEN QueuesOf(s)[k] ELSE InOrder(V)[k - m]
  <2> DEFINE x == QueuesOf(s)
             y == InOrder(V)
  <2>1. x \in Seq(Nat \X Nat) /\ y \in Seq(Nat \X Nat) /\ Len(x) = m /\ Len(y) = c
    BY <1>8, <1>11
  <2>2. /\ x \o y \in Seq(Nat \X Nat) /\ Len(x \o y) = m + c
        /\ \A k \in 1 .. m + c : (x \o y)[k] = IF k <= m THEN x[k] ELSE y[k - m]
    <3> HIDE DEF x, y
    <3> QED BY <2>1, ConcatParts
  <2> QED BY <2>2
<1>13. QueuesOf(a) = QueuesOf(s) \o InOrder(V)
  <2> DEFINE x == QueuesOf(a)
             y == QueuesOf(s) \o InOrder(V)
  <2>1. x \in Seq(Nat \X Nat) /\ y \in Seq(Nat \X Nat) /\ Len(x) = m + c /\ Len(y) = m + c
    BY <1>11, <1>12
  <2>2. \A k \in 1 .. m + c : x[k] = y[k]
    BY <1>10, <1>12
  <2> HIDE DEF x, y
  <2>3. x = y
    BY <2>1, <2>2, SeqEqual
  <2> QED BY <2>3 DEF x, y
<1> QED BY <1>13 DEF V, a, OfWord

\* No queue in no interrupt.
LEMMA OfNoLanes ==
  ASSUME Sizes, NEW w \in Words, w.lanes = {}
  PROVE  OfWord(w) = <<>>
<1>1. {w.g} \X w.lanes = {}
  OBVIOUS
<1>2. {} \in SUBSET (Nat \X Nat) /\ IsFiniteSet({}) /\ Cardinality({}) = 0
  BY FS_EmptySet
<1>3. Len(InOrder({})) = 0 /\ InOrder({}) \in Seq({})
  BY <1>2, InOrderPlace
<1> QED BY <1>1, <1>3, EmptySeq DEF OfWord

\* An element and what follows it.
LEMMA Followed ==
  ASSUME NEW E, NEW w \in E, NEW t \in Seq(E)
  PROVE  /\ <<w>> \o t \in Seq(E) /\ Len(<<w>> \o t) = Len(t) + 1 /\ Len(t) \in Nat
         /\ (<<w>> \o t)[1] = w
         /\ \A i \in 1 .. Len(t) : (<<w>> \o t)[i + 1] = t[i]
<1> DEFINE v == <<w>>
<1>1. v \in Seq(E) /\ Len(v) = 1 /\ v[1] = w
  OBVIOUS
<1>2. Len(t) \in Nat
  BY LenProperties
<1> HIDE DEF v
<1>3. /\ v \o t \in Seq(E) /\ Len(v \o t) = Len(v) + Len(t)
      /\ \A i \in 1 .. Len(v) + Len(t) : (v \o t)[i] = IF i <= Len(v) THEN v[i] ELSE t[i - Len(v)]
  BY <1>1, ConcatProperties
<1>4. ASSUME NEW i \in 1 .. Len(t) PROVE (v \o t)[i + 1] = t[i]
  <2>1. i + 1 \in 1 .. 1 + Len(t) /\ ~(i + 1 <= 1) /\ (i + 1) - 1 = i
    BY <1>2
  <2> QED BY <1>1, <1>3, <2>1
<1>5. (v \o t)[1] = w
  BY <1>1, <1>2, <1>3
<1>6. /\ v \o t \in Seq(E) /\ Len(v \o t) = Len(t) + 1
      /\ \A i \in 1 .. Len(t) : (v \o t)[i + 1] = t[i]
  BY <1>1, <1>2, <1>3, <1>4
<1> QED BY <1>2, <1>5, <1>6 DEF v

\* The first interrupt of a word is the first of all.
LEMMA QueuesFirst ==
  ASSUME Sizes, NEW w \in Words, w.lanes # {}, NEW t \in Seq(Words),
         NEW v \in Words, v.g = w.g, v.lanes = w.lanes \ {FirstLane(w)}
  PROVE  QueuesOf(<<w>> \o t) = <<<<w.g, FirstLane(w)>>>> \o QueuesOf(<<v>> \o t)
<1> DEFINE l == FirstLane(w)
           a == <<w>> \o t
           b == <<v>> \o t
           A == Pending(a)
           B == Pending(b)
           x == <<1, l>>
           c == Cardinality(B)
<1>1. v \in Words /\ v.g = w.g /\ v.lanes = w.lanes \ {l} /\ l \in Lanes
      /\ l \in w.lanes /\ \A k \in w.lanes : l <= k
  BY FirstLaneIs DEF Words
<1> HIDE DEF l
<1>2. /\ a \in Seq(Words) /\ Len(a) = Len(t) + 1 /\ Len(t) \in Nat
      /\ a[1] = w /\ \A i \in 1 .. Len(t) : a[i + 1] = t[i]
  BY Followed
<1>3. /\ b \in Seq(Words) /\ Len(b) = Len(t) + 1
      /\ b[1] = v /\ \A i \in 1 .. Len(t) : b[i + 1] = t[i]
  BY <1>1, Followed
<1>4. ASSUME NEW i \in 1 .. Len(t) + 1, i # 1 PROVE a[i] = b[i]
  <2>1. i - 1 \in 1 .. Len(t) /\ (i - 1) + 1 = i
    BY <1>2, <1>4
  <2> HIDE DEF a, b
  <2> QED BY <1>2, <1>3, <2>1
<1>5. ASSUME NEW i \in 1 .. Len(t) + 1 PROVE a[i].g = b[i].g
  BY <1>1, <1>2, <1>3, <1>4
<1>6. /\ A \in SUBSET (Nat \X Nat) /\ IsFiniteSet(A) /\ B \in SUBSET (Nat \X Nat) /\ IsFiniteSet(B)
      /\ {x} \in SUBSET (Nat \X Nat) /\ IsFiniteSet({x}) /\ Cardinality({x}) = 1
  <2>1. A \in SUBSET (Nat \X Nat) /\ IsFiniteSet(A) /\ B \in SUBSET (Nat \X Nat) /\ IsFiniteSet(B)
    BY <1>2, <1>3, PendingType
  <2>2. l \in Nat /\ x \in Nat \X Nat
    BY <1>1, SizesAreNat
  <2>3. IsFiniteSet({x}) /\ Cardinality({x}) = 1
    BY FS_Singleton
  <2> HIDE DEF A, B, x
  <2> QED BY <2>1, <2>2, <2>3
<1>7. A = {x} \cup B
  <2>1. DOMAIN a = 1 .. Len(t) + 1 /\ DOMAIN b = 1 .. Len(t) + 1
    BY <1>2, <1>3, LenProperties
  <2>2. A = {p \in (1 .. Len(t) + 1) \X Lanes : p[2] \in a[p[1]].lanes}
    BY <2>1 DEF Pending
  <2>3. B = {p \in (1 .. Len(t) + 1) \X Lanes : p[2] \in b[p[1]].lanes}
    BY <2>1 DEF Pending
  <2>4. 1 \in 1 .. Len(t) + 1
    BY <1>2
  <2>5. ASSUME NEW p \in (1 .. Len(t) + 1) \X Lanes
        PROVE  p[2] \in a[p[1]].lanes <=> p = x \/ p[2] \in b[p[1]].lanes
    <3>1. CASE p[1] = 1
      <4>1. p = x <=> p[2] = l
        BY <3>1
      <4> HIDE DEF a, b
      <4> QED BY <1>1, <1>2, <1>3, <3>1, <4>1
    <3>2. CASE p[1] # 1
      BY <1>4, <3>2
    <3> QED BY <3>1, <3>2
  <2> HIDE DEF a, b, A, B
  <2> QED BY <1>1, <2>2, <2>3, <2>4, <2>5
<1>8. InOrder(A) = InOrder({x}) \o InOrder(B)
  <2>1. ASSUME NEW p \in B PROVE Before(x, p)
    <3>1. p[1] \in 1 .. Len(t) + 1 /\ p[2] \in b[p[1]].lanes /\ p[2] \in Lanes
      BY <1>3, PendingType
    <3>2. CASE p[1] = 1
      <4>1. p[2] \in w.lanes /\ p[2] # l
        BY <1>1, <1>3, <3>1, <3>2
      <4>2. l <= p[2] /\ l \in Nat /\ p[2] \in Nat
        BY <1>1, <3>1, <4>1, SizesAreNat
      <4> QED BY <3>2, <4>1, <4>2 DEF Before
    <3>3. CASE p[1] # 1
      BY <1>2, <3>1, <3>3 DEF Before
    <3> QED BY <3>2, <3>3
  <2> DEFINE X == {x}
  <2>2. X \in SUBSET (Nat \X Nat) /\ IsFiniteSet(X) /\ \A p \in X, r \in B : Before(p, r)
    BY <1>6, <2>1
  <2>3. InOrder(X \cup B) = InOrder(X) \o InOrder(B)
    <3> HIDE DEF B, X
    <3> QED BY <1>6, <2>2, InOrderAppend
  <2> HIDE DEF A, B, x
  <2> QED BY <1>7, <2>3
<1>9. InOrder({x}) = <<x>>
  <2>1. /\ InOrder({x}) \in Seq({x}) /\ Len(InOrder({x})) = 1
        /\ \A k \in 1 .. 1 : InOrder({x})[k] \in {x}
    <3> HIDE DEF x
    <3> QED BY <1>6, InOrderPlace
  <2> HIDE DEF x
  <2> QED BY <2>1
<1>10. c \in Nat /\ InOrder(B) \in Seq(Nat \X Nat) /\ Len(InOrder(B)) = c
  <2> HIDE DEF B
  <2> QED BY <1>6, InOrderPlace, SeqMonotonic
<1>11. <<x>> \in Seq(Nat \X Nat) /\ Len(<<x>>) = 1 /\ <<x>>[1] = x
  BY <1>6
<1>12. /\ Len(InOrder(A)) = c + 1 /\ InOrder(A)[1] = x
       /\ \A k \in 1 .. c : InOrder(A)[k + 1] = InOrder(B)[k]
  <2> DEFINE r == InOrder(B)
  <2>1. x \in Nat \X Nat /\ r \in Seq(Nat \X Nat) /\ Len(r) = c
    BY <1>6, <1>10
  <2>2. InOrder(A) = <<x>> \o r
    BY <1>8, <1>9
  <2> HIDE DEF A, x, c, r
  <2>3. Len(InOrder(A)) = c + 1 /\ InOrder(A)[1] = x /\ \A k \in 1 .. c : InOrder(A)[k + 1] = r[k]
    <3>1. /\ Len(<<x>> \o r) = c + 1 /\ (<<x>> \o r)[1] = x
          /\ \A k \in 1 .. c : (<<x>> \o r)[k + 1] = r[k]
      BY <2>1, Followed
    <3> QED BY <2>2, <3>1
  <2> QED BY <2>3 DEF r
<1>13. /\ QueuesOf(a) \in Seq(Nat \X Nat) /\ Len(QueuesOf(a)) = c + 1
       /\ QueuesOf(b) \in Seq(Nat \X Nat) /\ Len(QueuesOf(b)) = c
       /\ Cardinality(A) = c + 1
  <2>1. Cardinality(A) = c + 1
    <3>1. Len(InOrder(A)) = Cardinality(A)
      <4> HIDE DEF A
      <4> QED BY <1>6, InOrderPlace
    <3> QED BY <1>12, <3>1
  <2> QED BY <1>2, <1>3, <2>1, QueuesType
<1> DEFINE y == <<<<w.g, l>>>>
           z == QueuesOf(b)
<1>14. /\ y \o z \in Seq(Nat \X Nat) /\ Len(y \o z) = c + 1 /\ (y \o z)[1] = <<w.g, l>>
       /\ \A k \in 1 .. c : (y \o z)[k + 1] = z[k]
  <2>1. <<w.g, l>> \in Nat \X Nat
    BY <1>1, SizesAreNat DEF Words
  <2>2. z \in Seq(Nat \X Nat) /\ Len(z) = c
    BY <1>13
  <2> HIDE DEF z, c
  <2> QED BY <2>1, <2>2, Followed
<1>15. ASSUME NEW k \in 1 .. c + 1
       PROVE  QueuesOf(a)[k] = (y \o z)[k]
  <2>1. QueuesOf(a)[k] = At(a, InOrder(A)[k])
    BY <1>2, <1>13, QueuesType
  <2>2. CASE k = 1
    <3>1. At(a, x) = <<w.g, l>>
      BY <1>2 DEF At
    <3> HIDE DEF y, z, a, A, x
    <3> QED BY <1>12, <1>14, <2>1, <2>2, <3>1
  <2>3. CASE k # 1
    <3> DEFINE j == k - 1
    <3>1. j \in 1 .. c /\ j + 1 = k
      <4> HIDE DEF c
      <4> QED BY <1>10, <2>3
    <3>2. InOrder(A)[k] = InOrder(B)[j]
      <4> HIDE DEF A, B, c, j
      <4> QED BY <1>12, <3>1
    <3>3. z[j] = At(b, InOrder(B)[j])
      <4> HIDE DEF j
      <4> QED BY <1>3, <3>1, QueuesType
    <3>4. InOrder(B)[j] \in B
      <4> HIDE DEF B, j
      <4> QED BY <1>6, <3>1, InOrderPlace DEF c
    <3>5. At(a, InOrder(B)[j]) = At(b, InOrder(B)[j])
      <4>1. InOrder(B)[j][1] \in 1 .. Len(t) + 1
        BY <1>3, <3>4, PendingType
      <4> HIDE DEF a, b, B, j
      <4> QED BY <1>5, <4>1 DEF At
    <3>6. (y \o z)[k] = z[j]
      <4> HIDE DEF y, z, c, j
      <4> QED BY <1>14, <3>1
    <3> HIDE DEF y, z, a, b, A, B, j
    <3> QED BY <2>1, <3>2, <3>3, <3>5, <3>6
  <2> QED BY <2>2, <2>3
<1>16. QueuesOf(a) = y \o z
  <2> DEFINE u == QueuesOf(a)
             rest == y \o z
  <2>1. u \in Seq(Nat \X Nat) /\ rest \in Seq(Nat \X Nat) /\ Len(u) = c + 1 /\ Len(rest) = c + 1
    BY <1>13, <1>14
  <2>2. \A k \in 1 .. c + 1 : u[k] = rest[k]
    BY <1>15
  <2> HIDE DEF u, rest, c
  <2>3. u = rest
    BY <2>1, <2>2, SeqEqual
  <2> QED BY <2>3 DEF u, rest
<1> QED BY <1>16 DEF y, z, a, b, l

\* A word without interrupts counts for nothing.
LEMMA QueuesRest ==
  ASSUME Sizes, NEW w \in Words, NEW t \in Seq(Words), w.lanes = {}
  PROVE  QueuesOf(<<w>> \o t) = QueuesOf(t)
<1> DEFINE a == <<w>> \o t
           A == Pending(a)
           P == Pending(t)
           f == [p \in P |-> <<p[1] + 1, p[2]>>]
           n == Cardinality(P)
<1>1. /\ a \in Seq(Words) /\ Len(a) = Len(t) + 1 /\ Len(t) \in Nat
      /\ a[1] = w /\ \A i \in 1 .. Len(t) : a[i + 1] = t[i]
  BY Followed
<1>2. /\ A \in SUBSET (Nat \X Nat) /\ IsFiniteSet(A) /\ P \in SUBSET (Nat \X Nat) /\ IsFiniteSet(P)
  BY <1>1, PendingType
<1>3. \A p \in P : p = <<p[1], p[2]>> /\ p[1] \in 1 .. Len(t) /\ p[2] \in t[p[1]].lanes /\ p[2] \in Lanes
  BY PendingType
<1>4. ASSUME NEW p \in P PROVE f[p] = <<p[1] + 1, p[2]>> /\ f[p] \in A
  <2>1. p[1] + 1 \in 1 .. Len(a) /\ a[p[1] + 1] = t[p[1]]
    <3> HIDE DEF a, P
    <3> QED BY <1>1, <1>3
  <2>2. <<p[1] + 1, p[2]>> \in A
    <3> HIDE DEF a, P
    <3> QED BY <1>1, <1>3, <2>1, PendingType
  <2> QED BY <2>2
<1>5. f \in Bijection(P, A)
  <2>1. f \in [P -> A]
    BY <1>4
  <2>2. ASSUME NEW p \in P, NEW r \in P, f[p] = f[r] PROVE p = r
    <3>1. p[1] + 1 = r[1] + 1 /\ p[2] = r[2]
      BY <2>2
    <3>2. p[1] \in Int /\ r[1] \in Int
      BY <1>3
    <3>3. p[1] = r[1]
      BY <3>1, <3>2
    <3> HIDE DEF P
    <3> QED BY <1>3, <3>1, <3>3
  <2>3. ASSUME NEW q \in A PROVE \E p \in P : f[p] = q
    <3>1. /\ q = <<q[1], q[2]>> /\ q[1] \in 1 .. Len(t) + 1
          /\ q[2] \in a[q[1]].lanes /\ q[2] \in Lanes
      <4> HIDE DEF a
      <4> QED BY <1>1, PendingType
    <3>2. q[1] # 1
      <4> HIDE DEF a, A
      <4> QED BY <1>1, <3>1
    <3> DEFINE i == q[1] - 1
    <3>3. i \in 1 .. Len(t) /\ i + 1 = q[1]
      <4> HIDE DEF a, A
      <4> QED BY <1>1, <3>1, <3>2
    <3>4. q[2] \in t[i].lanes
      <4> HIDE DEF a, A, i
      <4> QED BY <1>1, <3>1, <3>3
    <3>5. <<i, q[2]>> \in P
      <4> HIDE DEF a, A, i
      <4> QED BY <3>1, <3>3, <3>4, PendingType
    <3>6. f[<<i, q[2]>>] = <<i + 1, q[2]>>
      <4> HIDE DEF A, i, P
      <4> QED BY <3>5
    <3> HIDE DEF P, f, i, A
    <3> QED BY <3>1, <3>3, <3>5, <3>6
  <2> HIDE DEF f, P, A
  <2> QED BY <2>1, <2>2, <2>3, Fun_IsBij
<1>6. \A p, r \in P : Before(p, r) <=> Before(f[p], f[r])
  <2> TAKE p \in P, r \in P
  <2>1. p[1] \in Int /\ r[1] \in Int
    BY <1>3
  <2>2. f[p][1] = p[1] + 1 /\ f[r][1] = r[1] + 1 /\ f[p][2] = p[2] /\ f[r][2] = r[2]
    BY <1>4
  <2> HIDE DEF f, P
  <2> QED BY <2>1, <2>2 DEF Before
<1>7. Cardinality(A) = n /\ \A k \in 1 .. n : InOrder(A)[k] = f[InOrder(P)[k]]
  <2> HIDE DEF f, P, A
  <2> QED BY <1>2, <1>5, <1>6, InOrderMap
<1>8. ASSUME NEW k \in 1 .. n PROVE QueuesOf(a)[k] = QueuesOf(t)[k]
  <2> DEFINE p == InOrder(P)[k]
  <2>1. p \in P
    <3> HIDE DEF P
    <3> QED BY <1>2, InOrderPlace DEF n
  <2>2. QueuesOf(a)[k] = At(a, f[p])
    <3>1. QueuesOf(a)[k] = At(a, InOrder(A)[k])
      BY <1>1, <1>7, QueuesType
    <3> HIDE DEF f, P, A, a, n
    <3> QED BY <1>7, <3>1
  <2>3. QueuesOf(t)[k] = At(t, p)
    BY QueuesType
  <2>4. f[p] = <<p[1] + 1, p[2]>>
    <3> HIDE DEF p
    <3> QED BY <1>4, <2>1
  <2>5. a[p[1] + 1] = t[p[1]]
    <3> HIDE DEF p, a, P
    <3> QED BY <1>1, <1>3, <2>1
  <2> HIDE DEF a, p, f
  <2> QED BY <2>2, <2>3, <2>4, <2>5 DEF At
<1>9. /\ QueuesOf(a) \in Seq(Nat \X Nat) /\ Len(QueuesOf(a)) = n
      /\ QueuesOf(t) \in Seq(Nat \X Nat) /\ Len(QueuesOf(t)) = n
  BY <1>1, <1>7, QueuesType
<1> HIDE DEF a, n
<1>10. QueuesOf(a) = QueuesOf(t)
  BY <1>8, <1>9, SeqEqual
<1> QED BY <1>10 DEF a

-----------------------------------------------------------------------------
(***************************************************************************)
(* Types.                                                                  *)
(***************************************************************************)
\* What the table holds for a queue.
Entry == [en : BOOLEAN, at : 0 .. 3, cnt : 0 .. CntMod - 1]

\* The arithmetic of the entries stays in its range.
LEMMA UnitType ==
  ASSUME Sizes, NEW q \in Groups \X Lanes, NEW t \in Nat
  PROVE  Unit(q, t) \in 0 .. 3 /\ Due(q, t) \in 0 .. 3
<1>1. 2 ^ Time[q] \in Nat \ {0}
  BY DEF Sizes
<1> DEFINE p == 2 ^ Time[q]
<1>2. p \in Nat \ {0}
  BY <1>1
<1>3. t \div p \in Int
  <2> HIDE DEF p
  <2> QED BY <1>2
<1>4. Unit(q, t) = (t \div p) % 4
  BY DEF Unit
<1> HIDE DEF p
<1>5. Unit(q, t) \in 0 .. 3
  BY <1>3, <1>4
<1> QED BY <1>5 DEF Due

\* What stage 2 sees and writes are entries.
LEMMA EntryType ==
  ASSUME Sizes, TypeOK, NEW l \in Lanes
  PROVE  Sees(l) \in Entry /\ Writes(l) \in Entry
<1>1. Sees(l) \in Entry
  BY DEF Sees, TypeOK, Word, Entry
<1>2. Off \in Entry
  BY SizesAreNat DEF Off, Entry
<1>3. CntMod \in Nat \ {0} /\ CntMod > 1
  BY SizesAreNat
<1>4. [Sees(l) EXCEPT !.cnt = (@ + 1) % CntMod] \in Entry
  <2>1. Sees(l).cnt \in Nat
    BY <1>1 DEF Entry
  <2>2. (Sees(l).cnt + 1) % CntMod \in 0 .. CntMod - 1
    BY <1>3, <2>1
  <2> QED BY <1>1, <2>2 DEF Entry
<1>5. Due(<<s2.g, l>>, s2.ts) \in 0 .. 3
  <2>1. s2.g \in Groups /\ s2.ts \in Nat
    BY SizesAreNat DEF TypeOK
  <2> QED BY <2>1, UnitType
<1>6. [en |-> TRUE, at |-> Due(<<s2.g, l>>, s2.ts), cnt |-> 1] \in Entry
  BY <1>3, <1>5 DEF Entry
<1> QED BY <1>1, <1>2, <1>4, <1>6 DEF Writes

\* A word loses its first lane, and goes with its last one.
LEMMA HandedOutType ==
  ASSUME Sizes, NEW rdy \in BOOLEAN, ff \in Seq([g : Groups, lanes : (SUBSET Lanes) \ {{}}])
  PROVE  HandedOut(rdy) \in Seq([g : Groups, lanes : (SUBSET Lanes) \ {{}}])
<1> DEFINE E == [g : Groups, lanes : (SUBSET Lanes) \ {{}}]
           w == Head(ff)
           left == w.lanes \ {FirstLane(w)}
<1>1. CASE ~rdy \/ ff = <<>>
  BY <1>1 DEF HandedOut
<1>2. CASE rdy /\ ff # <<>>
  <2> HIDE DEF E
  <2>1. w \in E /\ Tail(ff) \in Seq(E)
    BY <1>2, HeadTailProperties DEF E
  <2>2. left # {} => [w EXCEPT !.lanes = left] \in E
    <3> HIDE DEF w
    <3> QED BY <2>1 DEF E
  <2>3. left # {} => <<[w EXCEPT !.lanes = left]>> \o Tail(ff) \in Seq(E)
    <3> DEFINE x == [w EXCEPT !.lanes = left]
    <3> HIDE DEF x
    <3> QED BY <2>1, <2>2, Followed DEF x
  <2>4. HandedOut(rdy) = IF left = {} THEN Tail(ff) ELSE <<[w EXCEPT !.lanes = left]>> \o Tail(ff)
    BY <1>2 DEF HandedOut
  <2> HIDE DEF left, w
  <2> QED BY <2>1, <2>3, <2>4 DEF E
<1> QED BY <1>1, <1>2

LEMMA TypeStep ==
  ASSUME Sizes, TypeOK, NEW asked \in Asks, NEW rdy \in BOOLEAN, Clock(asked, rdy)
  PROVE  TypeOK'
<1>1. cyc' \in 0 .. CLK_CYCLE - 1 /\ ts' \in 0 .. TimeMod - 1 /\ imp' \in BOOLEAN
  <2>1. CLK_CYCLE \in Nat \ {0} /\ TimeMod \in Nat \ {0} /\ cyc \in Nat /\ ts \in Nat
    BY SizesAreNat DEF TypeOK
  <2>2. (cyc + 1) % CLK_CYCLE \in 0 .. CLK_CYCLE - 1 /\ (ts + 1) % TimeMod \in 0 .. TimeMod - 1
    BY <2>1
  <2> QED BY <2>2 DEF Clock, TimeTicks, TypeOK
<1>2. scan' \in 0 .. NG /\ flag' \in 0 .. 1
  BY SizesAreNat DEF Clock, ScanSteps, TypeOK
<1>3. s1' \in [flag : 0 .. 1, g : Groups, lanes : SUBSET Lanes]
  <2>1. NoOp \in [flag : 0 .. 1, g : Groups, lanes : SUBSET Lanes]
    BY SizesAreNat DEF NoOp, Groups
  <2>2. scan # NG => scan \in Groups
    BY SizesAreNat DEF TypeOK, Groups
  <2>3. ASSUME asked # {}
        PROVE  [flag |-> 1, g |-> (CHOOSE q \in asked : TRUE)[1], lanes |-> {(CHOOSE q \in asked : TRUE)[2]}]
                 \in [flag : 0 .. 1, g : Groups, lanes : SUBSET Lanes]
    <3>1. PICK q \in Live : asked = {q}
      BY <2>3 DEF Asks
    <3>2. (CHOOSE x \in asked : TRUE) = q
      BY <3>1
    <3>3. q[1] \in Groups /\ q[2] \in Lanes
      BY DEF Sizes
    <3>4. q[1] \in Groups /\ {q[2]} \in SUBSET Lanes
      BY <3>3
    <3> HIDE DEF Asks, TypeOK
    <3>5. [flag |-> 1, g |-> q[1], lanes |-> {q[2]}] \in [flag : 0 .. 1, g : Groups, lanes : SUBSET Lanes]
      BY <3>4
    <3> QED BY <3>2, <3>5
  <2> QED BY <2>1, <2>2, <2>3 DEF Clock, Stage0
<1>4. s2' \in [flag : 0 .. 1, g : Groups, lanes : SUBSET Lanes, ts : 0 .. TimeMod - 1]
  BY DEF Clock, TypeOK
<1>5. OffWord \in Word
  BY SizesAreNat DEF OffWord, Off, Word
<1>6. rsp' \in Word /\ info' \in [Groups -> Word]
  BY <1>5 DEF Clock, RamReads, RamWrites, TypeOK
<1>7. s3' \in [g : Groups, lanes : SUBSET Lanes, word : Word]
  <2>1. [l \in Lanes |-> Writes(l)] \in Word
    BY EntryType DEF Word, Entry
  <2>2. s3' = IF s2.lanes = {} THEN [g |-> 0, lanes |-> {}, word |-> OffWord]
              ELSE [g |-> s2.g, lanes |-> s2.lanes, word |-> [l \in Lanes |-> Writes(l)]]
    BY DEF Clock, Stage2
  <2>3. 0 \in Groups /\ s2.g \in Groups /\ s2.lanes \in SUBSET Lanes
    BY SizesAreNat DEF Groups, TypeOK
  <2> HIDE DEF TypeOK
  <2> QED BY <1>5, <2>1, <2>2, <2>3
<1>8. eo' \in [g : Groups, lanes : SUBSET Lanes]
  <2>1. eo' = IF Fires = {} THEN [g |-> 0, lanes |-> {}] ELSE [g |-> s2.g, lanes |-> Fires]
    BY DEF Clock, Stage2
  <2>2. 0 \in Groups /\ s2.g \in Groups /\ Fires \in SUBSET Lanes
    BY SizesAreNat DEF Groups, TypeOK, Fires
  <2> QED BY <2>1, <2>2
<1>9. ff' \in Seq([g : Groups, lanes : (SUBSET Lanes) \ {{}}])
  <2> DEFINE E == [g : Groups, lanes : (SUBSET Lanes) \ {{}}]
             x == HandedOut(rdy)
             y == IF eo.lanes = {} THEN <<>> ELSE <<eo>>
  <2>1. x \in Seq(E)
    BY HandedOutType DEF TypeOK
  <2>2. eo.lanes # {} => eo \in E
    BY DEF TypeOK
  <2>3. y \in Seq(E)
    <3> HIDE DEF E
    <3> QED BY <2>2
  <2>4. ff' = x \o y
    BY DEF Clock
  <2> HIDE DEF E, x, y
  <2>5. ff' \in Seq(E)
    BY <2>1, <2>3, <2>4, ConcatProperties
  <2> QED BY <2>5 DEF E
<1>10. age' \in [Live -> 0 .. TimeMod]
  <2> DEFINE tick == IF s2.ts' = s2.ts THEN 0 ELSE 1
             f(q) == IF ~Waits(q)'.en THEN 0 ELSE IF ~Waits(q).en THEN tick
                     ELSE IF age[q] = TimeMod THEN TimeMod ELSE age[q] + tick
  <2>1. age' = [q \in Live |-> f(q)]
    BY DEF Clock, Ages
  <2>2. ASSUME NEW q \in Live PROVE f(q) \in 0 .. TimeMod
    <3>1. TimeMod \in Nat \ {0} /\ age[q] \in 0 .. TimeMod /\ tick \in 0 .. 1
      BY SizesAreNat DEF TypeOK
    <3> HIDE DEF tick
    <3> QED BY <3>1
  <2> HIDE DEF f
  <2> QED BY <2>1, <2>2
<1> QED BY <1>1, <1>2, <1>3, <1>4, <1>6, <1>7, <1>8, <1>9, <1>10 DEF TypeOK

(***************************************************************************)
(* The registers of the pipeline, the RAM and the FIFO keep their widths,  *)
(* for any number of groups and lanes.                                     *)
(***************************************************************************)
THEOREM TypeCorrect ==
  ASSUME Sizes
  PROVE  Spec => []TypeOK
<1>1. Init => TypeOK
  <2>1. OffWord \in Word
    BY SizesAreNat DEF OffWord, Off, Word
  <2>2. 0 \in Groups /\ 0 \in 0 .. TimeMod - 1 /\ 0 \in 0 .. NG /\ 0 \in 0 .. TimeMod /\ 1 \in 0 .. CLK_CYCLE - 1
    BY SizesAreNat DEF Groups
  <2>3. <<>> \in Seq([g : Groups, lanes : (SUBSET Lanes) \ {{}}])
    BY EmptySeq
  <2> SUFFICES ASSUME Init PROVE TypeOK
    OBVIOUS
  <2>4. cyc = 1 /\ ts = 0 /\ imp = FALSE /\ scan = 0 /\ flag = 1 /\ ff = <<>>
    BY DEF Init
  <2>5. /\ s1 = [flag |-> 0, g |-> 0, lanes |-> {}] /\ s2 = [flag |-> 0, g |-> 0, lanes |-> {}, ts |-> 0]
        /\ s3 = [g |-> 0, lanes |-> {}, word |-> OffWord] /\ eo = [g |-> 0, lanes |-> {}]
    BY DEF Init, NoOp
  <2>6. rsp = OffWord /\ info = [g \in Groups |-> OffWord] /\ age = [q \in Live |-> 0]
    BY DEF Init
  <2>7. /\ s1 \in [flag : 0 .. 1, g : Groups, lanes : SUBSET Lanes]
        /\ s2 \in [flag : 0 .. 1, g : Groups, lanes : SUBSET Lanes, ts : 0 .. TimeMod - 1]
        /\ s3 \in [g : Groups, lanes : SUBSET Lanes, word : Word] /\ eo \in [g : Groups, lanes : SUBSET Lanes]
    BY <2>1, <2>2, <2>5
  <2>8. rsp \in Word /\ info \in [Groups -> Word] /\ age \in [Live -> 0 .. TimeMod]
    BY <2>1, <2>2, <2>6
  <2>9. ff \in Seq([g : Groups, lanes : (SUBSET Lanes) \ {{}}])
    BY <2>3, <2>4
  <2>10. cyc \in 0 .. CLK_CYCLE - 1 /\ ts \in 0 .. TimeMod - 1 /\ scan \in 0 .. NG
    BY <2>2, <2>4
  <2>11. flag \in 0 .. 1
    BY <2>4
  <2>12. imp \in BOOLEAN
    BY <2>4
  <2> QED BY <2>7, <2>8, <2>9, <2>10, <2>11, <2>12 DEF TypeOK
<1>2. TypeOK /\ [Next]_vars => TypeOK'
  <2> SUFFICES ASSUME TypeOK, [Next]_vars PROVE TypeOK'
    OBVIOUS
  <2>1. CASE Next
    BY <2>1, TypeStep DEF Next
  <2>2. CASE UNCHANGED vars
    BY <2>2 DEF vars, TypeOK
  <2> QED BY <2>1, <2>2
<1> QED BY <1>1, <1>2, PTL DEF Spec

-----------------------------------------------------------------------------
(***************************************************************************)
(* The pipeline: what stage 2 sees of a lane is what the table holds once  *)
(* the write under way is counted in.                                      *)
(***************************************************************************)
\* A stage holds one lane for an interrupt, and all of them or none for the scan.
OneOrAll(s) == IF s.flag = 1 THEN \E l \in Lanes : s.lanes = {l} ELSE s.lanes \in {{}, Lanes}

\* The answer of the RAM is what it still holds, and the write under way carries
\* the lanes that it does not change as the RAM has them.
PipeInv ==
  /\ s2.lanes # {} => rsp = info[s2.g]
  /\ s3.lanes # {} => \A l \in Lanes \ s3.lanes : s3.word[l] = info[s3.g][l]
  /\ OneOrAll(s1) /\ OneOrAll(s2)
  /\ ts \in {s2.ts, (s2.ts + 1) % TimeMod}

\* The forwarding is complete.
LEMMA SeesWaits ==
  ASSUME Sizes, TypeOK, PipeInv, s2.lanes # {}, NEW l \in Lanes
  PROVE  Sees(l) = Waits(<<s2.g, l>>)
<1>1. rsp = info[s2.g]
  BY DEF PipeInv
<1>2. CASE s3.lanes # {} /\ s3.g = s2.g
  <2>1. l \notin s3.lanes => s3.word[l] = rsp[l]
    BY <1>1, <1>2 DEF PipeInv
  <2> QED BY <1>2, <2>1 DEF Sees, Waits
<1>3. CASE ~(s3.lanes # {} /\ s3.g = s2.g)
  BY <1>1, <1>3 DEF Sees, Waits
<1> QED BY <1>2, <1>3

\* A clock changes what stage 2 writes and nothing else.
LEMMA NextWaits ==
  ASSUME Sizes, TypeOK, NEW asked \in Asks, NEW rdy \in BOOLEAN, Clock(asked, rdy),
         NEW q \in Groups \X Lanes
  PROVE  Waits(q)' = IF s2.lanes # {} /\ s2.g = q[1] THEN Writes(q[2]) ELSE Waits(q)
<1>1. q[1] \in Groups /\ q[2] \in Lanes
  OBVIOUS
<1>2. info' = IF s3.lanes = {} THEN info ELSE [info EXCEPT ![s3.g] = s3.word]
  BY DEF Clock, RamWrites
<1>3. info'[q[1]] = IF s3.lanes # {} /\ s3.g = q[1] THEN s3.word ELSE info[q[1]]
  BY <1>1, <1>2 DEF TypeOK
<1>4. s3' = IF s2.lanes = {} THEN [g |-> 0, lanes |-> {}, word |-> OffWord]
            ELSE [g |-> s2.g, lanes |-> s2.lanes, word |-> [l \in Lanes |-> Writes(l)]]
  BY DEF Clock, Stage2
<1>5. CASE s2.lanes = {}
  <2>1. s3'.lanes = {}
    BY <1>4, <1>5
  <2> QED BY <1>3, <1>5, <2>1 DEF Waits
<1>6. CASE s2.lanes # {}
  <2>1. s3'.lanes # {} /\ s3'.g = s2.g /\ s3'.word[q[2]] = Writes(q[2])
    BY <1>1, <1>4, <1>6
  <2> QED BY <1>3, <1>6, <2>1 DEF Waits
<1> QED BY <1>5, <1>6

\* Lanes that stage 2 does not work on are written back as they are.
LEMMA WritesBack ==
  ASSUME Sizes, TypeOK, PipeInv, s2.lanes # {}, NEW l \in Lanes \ s2.lanes
  PROVE  Writes(l) = Waits(<<s2.g, l>>)
<1>1. l \notin Fires
  BY DEF Fires
<1>2. Writes(l) = Sees(l)
  BY <1>1 DEF Writes
<1> QED BY <1>2, SeesWaits

LEMMA PipeStep ==
  ASSUME Sizes, TypeOK, PipeInv, NEW asked \in Asks, NEW rdy \in BOOLEAN, Clock(asked, rdy)
  PROVE  PipeInv'
<1>1. s2' = [flag |-> s1.flag, g |-> s1.g, lanes |-> s1.lanes, ts |-> ts]
  BY DEF Clock
<1>2. info' = IF s3.lanes = {} THEN info ELSE [info EXCEPT ![s3.g] = s3.word]
  BY DEF Clock, RamWrites
<1>3. (s2.lanes # {} => rsp = info[s2.g])'
  <2>1. s1.lanes # {} => rsp' = IF s3.lanes # {} /\ s3.g = s1.g THEN s3.word ELSE info[s1.g]
    BY DEF Clock, RamReads
  <2>2. s1.g \in Groups
    BY DEF TypeOK
  <2>3. info'[s1.g] = IF s3.lanes # {} /\ s3.g = s1.g THEN s3.word ELSE info[s1.g]
    BY <1>2, <2>2 DEF TypeOK
  <2> QED BY <1>1, <2>1, <2>3
<1>4. (s3.lanes # {} => \A l \in Lanes \ s3.lanes : s3.word[l] = info[s3.g][l])'
  <2>1. s3' = IF s2.lanes = {} THEN [g |-> 0, lanes |-> {}, word |-> OffWord]
              ELSE [g |-> s2.g, lanes |-> s2.lanes, word |-> [l \in Lanes |-> Writes(l)]]
    BY DEF Clock, Stage2
  <2>2. CASE s2.lanes = {}
    BY <2>1, <2>2
  <2>3. CASE s2.lanes # {}
    <3>1. ASSUME NEW l \in Lanes \ s2.lanes PROVE Writes(l) = info'[s2.g][l]
      <4>1. s2.g \in Groups
        BY DEF TypeOK
      <4>2. info'[s2.g] = IF s3.lanes # {} /\ s3.g = s2.g THEN s3.word ELSE info[s2.g]
        BY <1>2, <4>1 DEF TypeOK
      <4>3. Writes(l) = Waits(<<s2.g, l>>)
        BY <2>3, WritesBack
      <4> QED BY <4>2, <4>3 DEF Waits
    <3> QED BY <2>1, <2>3, <3>1
  <2> QED BY <2>2, <2>3
<1>5. OneOrAll(s1)'
  <2>1. s1' = Stage0(asked)
    BY DEF Clock
  <2>2. CASE Stage0(asked) = NoOp
    BY <2>1, <2>2 DEF OneOrAll, NoOp
  <2>3. CASE Stage0(asked) # NoOp /\ flag = 0
    BY <2>1, <2>3 DEF OneOrAll, Stage0
  <2>4. CASE Stage0(asked) # NoOp /\ flag # 0
    <3>1. PICK q \in Live : asked = {q}
      BY <2>4 DEF Asks, Stage0
    <3>2. (CHOOSE x \in asked : TRUE) = q
      BY <3>1
    <3>3. s1' = [flag |-> 1, g |-> q[1], lanes |-> {q[2]}]
      BY <2>1, <2>4, <3>2 DEF Stage0
    <3>4. q[2] \in Lanes
      BY DEF Sizes
    <3> QED BY <3>3, <3>4 DEF OneOrAll
  <2> QED BY <2>2, <2>3, <2>4
<1>6. OneOrAll(s2)'
  <2>1. OneOrAll(s1)
    BY DEF PipeInv
  <2> QED BY <1>1, <2>1 DEF OneOrAll
<1>7. (ts \in {s2.ts, (s2.ts + 1) % TimeMod})'
  BY <1>1 DEF Clock, TimeTicks
<1> QED BY <1>3, <1>4, <1>5, <1>6, <1>7 DEF PipeInv

LEMMA PipeHolds ==
  ASSUME Sizes
  PROVE  Spec => []PipeInv
<1>1. Init => PipeInv
  BY DEF Init, PipeInv, OneOrAll, NoOp
<1>2. TypeOK /\ PipeInv /\ [Next]_vars => PipeInv'
  <2> SUFFICES ASSUME TypeOK, PipeInv, [Next]_vars PROVE PipeInv'
    OBVIOUS
  <2>1. CASE Next
    BY <2>1, PipeStep DEF Next
  <2>2. CASE UNCHANGED vars
    BY <2>2 DEF vars, PipeInv, OneOrAll
  <2> QED BY <2>1, <2>2
<1> QED BY <1>1, <1>2, TypeCorrect, PTL DEF Spec

-----------------------------------------------------------------------------
(***************************************************************************)
(* The refinement: the table with the write under way counted in, and the  *)
(* interrupts on their way out, take the steps of the predictor.           *)
(***************************************************************************)
\* What is handed out is the first interrupt of all.
LEMMA QueuesHandedOut ==
  ASSUME Sizes, TypeOK, NEW rdy \in BOOLEAN
  PROVE  /\ HandedOut(rdy) \in Seq(Words) /\ ff \in Seq(Words)
         /\ \/ QueuesOf(HandedOut(rdy)) = QueuesOf(ff)
            \/ QueuesOf(ff) # <<>> /\ QueuesOf(HandedOut(rdy)) = Tail(QueuesOf(ff))
<1> DEFINE E == [g : Groups, lanes : (SUBSET Lanes) \ {{}}]
           w == Head(ff)
           t == Tail(ff)
           l == FirstLane(w)
           v == [w EXCEPT !.lanes = w.lanes \ {l}]
           h == HandedOut(rdy)
<1>1. E \subseteq Words
  BY DEF Words
<1>2. ff \in Seq(E)
  BY DEF TypeOK
<1>3. h \in Seq(E)
  BY <1>2, HandedOutType
<1>4. h \in Seq(Words) /\ ff \in Seq(Words)
  <2> HIDE DEF E, h
  <2> QED BY <1>1, <1>2, <1>3, SeqMonotonic
<1>5. CASE ~rdy \/ ff = <<>>
  BY <1>4, <1>5 DEF HandedOut
<1>6. CASE rdy /\ ff # <<>>
  <2>1. w \in E /\ t \in Seq(Words)
    <3>1. w \in E /\ t \in Seq(E)
      <4> HIDE DEF E
      <4> QED BY <1>2, <1>6, HeadTailProperties
    <3> HIDE DEF E, w, t
    <3> QED BY <1>1, <3>1, SeqMonotonic
  <2>2. w \in Words /\ w.lanes # {}
    <3> HIDE DEF w
    <3> QED BY <2>1 DEF Words
  <2>3. ff = <<w>> \o t
    <3> HIDE DEF E
    <3> QED BY <1>2, <1>6
  <2>5. v \in Words /\ v.g = w.g /\ v.lanes = w.lanes \ {l}
    <3> HIDE DEF w, l
    <3> QED BY <2>2 DEF Words
  <2>6. QueuesOf(<<w>> \o t) = <<<<w.g, l>>>> \o QueuesOf(<<v>> \o t)
    <3> HIDE DEF w, t, v
    <3> QED BY <2>1, <2>2, <2>5, QueuesFirst
  <2>7. QueuesOf(<<v>> \o t) = QueuesOf(h)
    <3>1. h = IF v.lanes = {} THEN t ELSE <<v>> \o t
      <4>1. h = IF w.lanes \ {l} = {} THEN t ELSE <<v>> \o t
        BY <1>6 DEF HandedOut
      <4> HIDE DEF h, w, l, v, t
      <4> QED BY <2>5, <4>1
    <3>2. v.lanes = {} => QueuesOf(<<v>> \o t) = QueuesOf(t)
      <4> HIDE DEF v, t
      <4> QED BY <2>1, <2>5, QueuesRest
    <3> HIDE DEF h, v, t
    <3> QED BY <3>1, <3>2
  <2> DEFINE x == <<w.g, l>>
             z == QueuesOf(h)
  <2>8. x \in Nat \X Nat /\ z \in Seq(Nat \X Nat)
    <3>1. w.g \in Nat /\ l \in Nat
      <4> HIDE DEF w
      <4> QED BY <2>2, FirstLaneIs, SizesAreNat DEF Words
    <3>2. z \in Seq(Nat \X Nat)
      <4> HIDE DEF h
      <4> QED BY <1>4, QueuesType
    <3> HIDE DEF w, l, h
    <3> QED BY <3>1, <3>2
  <2>9. QueuesOf(ff) = <<x>> \o z
    <3> HIDE DEF w, l, h, t, v
    <3> QED BY <2>3, <2>6, <2>7
  <2>10. <<x>> \o z # <<>> /\ Tail(<<x>> \o z) = z
    <3> HIDE DEF x, z
    <3>1. /\ <<x>> \o z \in Seq(Nat \X Nat) /\ Len(<<x>> \o z) = Len(z) + 1 /\ Len(z) \in Nat
          /\ \A i \in 1 .. Len(z) : (<<x>> \o z)[i + 1] = z[i]
      BY <2>8, Followed
    <3> DEFINE y == <<x>> \o z
    <3>2. y # <<>>
      BY <3>1
    <3> HIDE DEF y
    <3>3. y \in Seq(Nat \X Nat) /\ Len(y) = Len(z) + 1 /\ \A i \in 1 .. Len(z) : y[i + 1] = z[i]
      BY <3>1 DEF y
    <3>4. Tail(y) \in Seq(Nat \X Nat) /\ Len(Tail(y)) = Len(z) /\ \A i \in 1 .. Len(z) : Tail(y)[i] = z[i]
      BY <3>1, <3>2, <3>3, HeadTailProperties
    <3>5. Tail(y) = z
      BY <2>8, <3>4, SeqEqual
    <3> QED BY <3>2, <3>5 DEF y
  <2> HIDE DEF x
  <2> QED BY <1>4, <2>9, <2>10
<1> QED BY <1>5, <1>6

\* The head of a concatenation is the head of its first part.
LEMMA TailOfConcat ==
  ASSUME NEW E, NEW x \in Seq(E), NEW y \in Seq(E), x # <<>>
  PROVE  x \o y # <<>> /\ Tail(x) \o y = Tail(x \o y)
<1>1. /\ x \o y \in Seq(E) /\ Len(x \o y) = Len(x) + Len(y)
      /\ \A i \in 1 .. Len(x) + Len(y) : (x \o y)[i] = IF i <= Len(x) THEN x[i] ELSE y[i - Len(x)]
  BY ConcatProperties
<1>2. Len(x) \in Nat \ {0} /\ Len(y) \in Nat
  BY EmptySeq, LenProperties
<1>3. x \o y # <<>>
  BY <1>1, <1>2
<1>4. Tail(x) \in Seq(E) /\ Len(Tail(x)) = Len(x) - 1 /\ \A i \in 1 .. Len(Tail(x)) : Tail(x)[i] = x[i + 1]
  BY HeadTailProperties
<1> DEFINE a == x \o y
           b == Tail(x) \o y
           c == Tail(a)
           n == Len(x) + Len(y) - 1
<1>5. c \in Seq(E) /\ Len(c) = n /\ \A i \in 1 .. n : c[i] = a[i + 1]
  <2> HIDE DEF a
  <2>1. a \in Seq(E) /\ a # <<>> /\ Len(a) = Len(x) + Len(y)
    BY <1>1, <1>3 DEF a
  <2> QED BY <2>1, HeadTailProperties
<1>6. /\ b \in Seq(E) /\ Len(b) = n
      /\ \A i \in 1 .. n : b[i] = IF i <= Len(x) - 1 THEN x[i + 1] ELSE y[i - (Len(x) - 1)]
  <2> DEFINE r == Tail(x)
  <2>1. r \in Seq(E) /\ Len(r) = Len(x) - 1 /\ \A i \in 1 .. Len(x) - 1 : r[i] = x[i + 1]
    BY <1>4
  <2> HIDE DEF r
  <2>2. /\ r \o y \in Seq(E) /\ Len(r \o y) = Len(r) + Len(y)
        /\ \A i \in 1 .. Len(r) + Len(y) : (r \o y)[i] = IF i <= Len(r) THEN r[i] ELSE y[i - Len(r)]
    BY <2>1, ConcatProperties
  <2>3. \A i \in 1 .. n : i <= Len(x) - 1 => i \in 1 .. Len(x) - 1
    BY <1>2
  <2>4. Len(r) + Len(y) = n
    BY <1>2, <2>1
  <2>5. /\ r \o y \in Seq(E) /\ Len(r \o y) = n
        /\ \A i \in 1 .. n : (r \o y)[i] = IF i <= Len(x) - 1 THEN x[i + 1] ELSE y[i - (Len(x) - 1)]
    BY <2>1, <2>2, <2>3, <2>4
  <2> QED BY <2>5 DEF r
<1>7. ASSUME NEW i \in 1 .. n PROVE b[i] = c[i]
  <2>1. i + 1 \in 1 .. Len(x) + Len(y) /\ (i + 1 <= Len(x) <=> i <= Len(x) - 1)
        /\ (i + 1) - Len(x) = i - (Len(x) - 1)
    BY <1>2
  <2>2. a[i + 1] = IF i <= Len(x) - 1 THEN x[i + 1] ELSE y[i - (Len(x) - 1)]
    BY <1>1, <2>1
  <2> HIDE DEF a, b, c
  <2> QED BY <1>5, <1>6, <2>2
<1>8. b = c
  <2> HIDE DEF b, c, n
  <2> QED BY <1>5, <1>6, <1>7, SeqEqual
<1> QED BY <1>3, <1>8

LEMMA PromisedStep ==
  ASSUME Sizes, TypeOK, TypeOK', NEW asked \in Asks, NEW rdy \in BOOLEAN, Clock(asked, rdy)
  PROVE  \/ Promised' = Promised \o OfWord(eo')
         \/ Promised # <<>> /\ Promised' = Tail(Promised) \o OfWord(eo')
<1> DEFINE h == HandedOut(rdy)
           a == QueuesOf(ff)
           b == QueuesOf(h)
           x == OfWord(eo)
           y == OfWord(eo')
<1>1. /\ h \in Seq(Words) /\ ff \in Seq(Words)
      /\ b = a \/ (a # <<>> /\ b = Tail(a))
  BY QueuesHandedOut
<1>2. eo \in Words /\ eo' \in Words
  BY DEF TypeOK, Words
<1>3. /\ a \in Seq(Nat \X Nat) /\ b \in Seq(Nat \X Nat)
      /\ x \in Seq(Nat \X Nat) /\ y \in Seq(Nat \X Nat)
  <2> HIDE DEF h
  <2> QED BY <1>1, <1>2, QueuesType, WordType
<1>4. Promised = a \o x
  BY <1>1, <1>2, QueuesAppend DEF Promised
<1>5. ff' \in Seq(Words) /\ QueuesOf(ff') = b \o x
  <2>1. ff' = h \o (IF eo.lanes = {} THEN <<>> ELSE <<eo>>)
    BY DEF Clock
  <2>2. CASE eo.lanes = {}
    <3>1. ff' = h
      <4> HIDE DEF h
      <4> QED BY <1>1, <2>1, <2>2, ConcatEmptySeq
    <3>2. x = <<>>
      BY <1>2, <2>2, OfNoLanes
    <3>3. b \o <<>> = b
      <4> HIDE DEF b
      <4> QED BY <1>3, ConcatEmptySeq
    <3> HIDE DEF h, x
    <3> QED BY <1>1, <3>1, <3>2, <3>3
  <2>3. CASE eo.lanes # {}
    <3>1. ff' = Append(h, eo)
      <4> HIDE DEF h
      <4> QED BY <1>1, <1>2, <2>1, <2>3
    <3> HIDE DEF h
    <3>2. Append(h, eo) \in Seq(Words)
      BY <1>1, <1>2, AppendProperties
    <3> QED BY <1>1, <1>2, <3>1, <3>2, QueuesAppend
  <2> QED BY <2>2, <2>3
<1>6. Promised' = (b \o x) \o y
  <2>1. Promised' = QueuesOf(Append(ff', eo'))
    BY DEF Promised
  <2> HIDE DEF b, x
  <2> QED BY <1>2, <1>5, <2>1, QueuesAppend
<1> HIDE DEF a, b, x, y
<1>7. CASE b = a
  BY <1>4, <1>6, <1>7 DEF y
<1>8. CASE a # <<>> /\ b = Tail(a)
  <2>1. a \o x # <<>> /\ b \o x = Tail(a \o x)
    BY <1>3, <1>8, TailOfConcat
  <2>2. Promised # <<>> /\ Promised' = Tail(Promised) \o y
    BY <1>4, <1>6, <2>1
  <2> QED BY <2>2 DEF y
<1> QED BY <1>1, <1>7, <1>8 DEF a, b

\* The table of the predictor under the mapping.
Table == [q \in Groups \X Lanes |-> Waits(q)]

\* The predictor reads time and orders queues as the device does.
LEMMA PredictOps ==
  ASSUME NEW S, NEW q, NEW t
  PROVE  /\ Predict!InOrder(S) = InOrder(S)
         /\ Predict!Unit(q, t) = Unit(q, t) /\ Predict!Due(q, t) = Due(q, t)
<1>1. Predict!InOrder(S) = InOrder(S)
  <2>1. \A T : Predict!Cardinality(T) = Cardinality(T)
    BY DEF Predict!Cardinality, Cardinality
  <2>2. \A p : Predict!Lower(S, p) = Lower(S, p)
    BY DEF Predict!Lower, Lower, Predict!Before, Before
  <2> QED BY <2>1, <2>2 DEF Predict!InOrder, InOrder
<1>2. Predict!Unit(q, t) = Unit(q, t)
  BY DEF Predict!Unit, Unit
<1> QED BY <1>1, <1>2 DEF Predict!Due, Due

LEMMA RefinesInit ==
  ASSUME Sizes, Init
  PROVE  Predict!PInit
<1>1. /\ s2.ts = 0 /\ ff = <<>> /\ eo = [g |-> 0, lanes |-> {}]
      /\ s3.lanes = {} /\ info = [g \in Groups |-> OffWord]
  BY DEF Init
<1>2. Promised = <<>>
  <2>1. eo \in Words /\ eo.lanes = {} /\ ff \in Seq(Words)
    BY <1>1, SizesAreNat, EmptySeq DEF Words, Groups
  <2>2. Promised = QueuesOf(ff) \o <<>>
    BY <2>1, QueuesAppend, OfNoLanes DEF Promised
  <2>3. QueuesOf(ff) \in Seq(Nat \X Nat) /\ Len(QueuesOf(ff)) = 0
    <3>1. Pending(ff) = {}
      BY <1>1 DEF Pending
    <3> QED BY <2>1, <3>1, QueuesType, FS_EmptySet
  <2> QED BY <2>2, <2>3, EmptySeq, ConcatEmptySeq
<1>3. Table = [q \in Groups \X Lanes |-> Off]
  <2>1. \A q \in Groups \X Lanes : Waits(q) = Off
    BY <1>1 DEF Waits, OffWord
  <2> QED BY <2>1 DEF Table
<1> QED BY <1>1, <1>2, <1>3 DEF Predict!PInit, Table, Predict!Queues, Predict!Groups, Predict!Lanes,
      Predict!Off, Off, Groups, Lanes

\* The queues of a group that are signalled as one word.
LEMMA OfFires ==
  ASSUME Sizes, TypeOK, NEW asked \in Asks, NEW rdy \in BOOLEAN, Clock(asked, rdy)
  PROVE  OfWord(eo') = InOrder({s2.g} \X Fires)
<1>1. eo' = IF Fires = {} THEN [g |-> 0, lanes |-> {}] ELSE [g |-> s2.g, lanes |-> Fires]
  BY DEF Clock, Stage2
<1>2. CASE Fires = {}
  <2>1. {eo'.g} \X eo'.lanes = {} /\ {s2.g} \X Fires = {}
    BY <1>1, <1>2
  <2> QED BY <2>1 DEF OfWord
<1>3. CASE Fires # {}
  BY <1>1, <1>3 DEF OfWord
<1> QED BY <1>2, <1>3

\* A single queue in order.
LEMMA OfOne ==
  ASSUME NEW g \in Nat, NEW l \in Nat
  PROVE  InOrder({g} \X {l}) = <<<<g, l>>>>
<1> DEFINE x == <<g, l>>
           S == {g} \X {l}
<1>1. S = {x} /\ S \in SUBSET (Nat \X Nat)
  OBVIOUS
<1>2. IsFiniteSet(S) /\ Cardinality(S) = 1
  <2> HIDE DEF S, x
  <2> QED BY <1>1, FS_Singleton
<1>3. InOrder(S) \in Seq(S) /\ Len(InOrder(S)) = 1 /\ InOrder(S)[1] \in S
  <2> HIDE DEF S
  <2>1. 1 \in 1 .. Cardinality(S)
    BY <1>2
  <2> QED BY <1>1, <1>2, <2>1, InOrderPlace
<1> HIDE DEF S, x
<1>4. InOrder(S) = <<x>>
  BY <1>1, <1>3
<1> QED BY <1>4 DEF S, x

\* No lane is signalled: nothing is added to what is promised.
LEMMA OfNone ==
  ASSUME NEW g
  PROVE  InOrder({g} \X {}) = <<>>
<1> DEFINE S == {g} \X {}
           o == InOrder(S)
<1>1. S = {} /\ S \in SUBSET (Nat \X Nat) /\ IsFiniteSet(S) /\ Cardinality(S) = 0
  BY FS_EmptySet
<1>2. o \in Seq(S) /\ Len(o) = 0
  <2> HIDE DEF S
  <2> QED BY <1>1, InOrderPlace
<1> HIDE DEF o
<1>3. o = <<>>
  BY <1>2
<1> QED BY <1>3 DEF o

\* What a clock means to the table: the lanes of stage 2 take what it writes.
LEMMA TableStep ==
  ASSUME Sizes, TypeOK, PipeInv, NEW asked \in Asks, NEW rdy \in BOOLEAN, Clock(asked, rdy)
  PROVE  /\ Table' = [q \in Groups \X Lanes |-> Waits(q)']
         /\ \A q \in Groups \X Lanes :
              Waits(q)' = IF q[1] = s2.g /\ q[2] \in s2.lanes THEN Writes(q[2]) ELSE Table[q]
         /\ \A l \in s2.lanes : <<s2.g, l>> \in Groups \X Lanes /\ Table[<<s2.g, l>>] = Sees(l)
<1>1. s2.g \in Groups /\ s2.lanes \in SUBSET Lanes
  BY DEF TypeOK
<1>2. Table' = [q \in Groups \X Lanes |-> Waits(q)']
  BY DEF Table
<1>3. ASSUME NEW q \in Groups \X Lanes
      PROVE  Waits(q)' = IF q[1] = s2.g /\ q[2] \in s2.lanes THEN Writes(q[2]) ELSE Table[q]
  <2>1. Table[q] = Waits(q)
    BY <1>3 DEF Table
  <2>2. Waits(q)' = IF s2.lanes # {} /\ s2.g = q[1] THEN Writes(q[2]) ELSE Waits(q)
    BY <1>3, NextWaits
  <2>3. CASE s2.lanes # {} /\ s2.g = q[1] /\ q[2] \notin s2.lanes
    <3>1. q[2] \in Lanes \ s2.lanes /\ q = <<s2.g, q[2]>>
      BY <1>3, <2>3
    <3>2. Writes(q[2]) = Waits(<<s2.g, q[2]>>)
      BY <2>3, <3>1, WritesBack
    <3>3. Writes(q[2]) = Waits(q)
      BY <3>1, <3>2
    <3> QED BY <2>1, <2>2, <2>3, <3>3
  <2>4. CASE s2.lanes = {} \/ s2.g # q[1] \/ q[2] \in s2.lanes
    BY <2>1, <2>2, <2>4
  <2> QED BY <2>3, <2>4
<1>4. ASSUME NEW l \in s2.lanes
      PROVE  <<s2.g, l>> \in Groups \X Lanes /\ Table[<<s2.g, l>>] = Sees(l)
  <2>1. l \in Lanes /\ <<s2.g, l>> \in Groups \X Lanes
    BY <1>1, <1>4
  <2>2. Sees(l) = Waits(<<s2.g, l>>)
    BY <1>4, <2>1, SeesWaits
  <2> QED BY <2>1, <2>2 DEF Table
<1> QED BY <1>2, <1>3, <1>4

\* Every clock is a step of the predictor.
LEMMA RefinesStep ==
  ASSUME Sizes, TypeOK, TypeOK', PipeInv, NEW asked \in Asks, NEW rdy \in BOOLEAN, Clock(asked, rdy)
  PROVE  Predict!PNext
<1> DEFINE g == s2.g
<1>1. g \in Groups /\ s2.lanes \in SUBSET Lanes /\ s2.flag \in 0 .. 1 /\ Fires \in SUBSET s2.lanes
  BY DEF TypeOK, Fires
<1>2. Predict!HandsOut(InOrder({g} \X Fires))
  <2> DEFINE fired == InOrder({g} \X Fires)
  <2>1. OfWord(eo') = fired
    BY OfFires
  <2>2. \/ Promised' = Promised \o fired
        \/ Promised # <<>> /\ Promised' = Tail(Promised) \o fired
    <3> HIDE DEF fired
    <3> QED BY <2>1, PromisedStep
  <2> HIDE DEF fired
  <2>3. Predict!HandsOut(fired)
    BY <2>2 DEF Predict!HandsOut
  <2> QED BY <2>3 DEF fired
<1>3. s2'.ts \in {s2.ts, (s2.ts + 1) % TimeMod}
  BY DEF Clock, PipeInv
<1>4. Predict!Queues = Groups \X Lanes /\ Predict!Groups = Groups /\ Predict!Lanes = Lanes /\ Predict!Off = Off
  BY DEF Predict!Queues, Predict!Groups, Predict!Lanes, Groups, Lanes, Predict!Off, Off
<1>5. /\ Table' = [q \in Groups \X Lanes |-> Waits(q)']
      /\ \A q \in Groups \X Lanes :
           Waits(q)' = IF q[1] = g /\ q[2] \in s2.lanes THEN Writes(q[2]) ELSE Table[q]
      /\ \A l \in s2.lanes : <<g, l>> \in Groups \X Lanes /\ Table[<<g, l>>] = Sees(l)
  BY TableStep
<1>6. CASE s2.lanes = {}
  <2>1. Fires = {}
    BY <1>1, <1>6
  <2>2. Table' = Table
    BY <1>5, <1>6 DEF Table
  <2>3. Predict!Idle
    BY <1>2, <2>1, <2>2, OfNone DEF Predict!Idle, Table
  <2> QED BY <1>3, <2>3 DEF Predict!PNext
<1>7. CASE s2.lanes # {} /\ s2.flag = 1
  <2>1. PICK l \in Lanes : s2.lanes = {l}
    BY <1>7 DEF PipeInv, OneOrAll
  <2> DEFINE q == <<g, l>>
             w == Sees(l)
             v == Writes(l)
  <2>2. q \in Groups \X Lanes /\ Table[q] = w
    BY <1>5, <2>1
  <2>3. Table' = [Table EXCEPT ![q] = v]
    <3>1. \A r \in Groups \X Lanes : r[1] = g /\ r[2] \in s2.lanes <=> r = q
      BY <1>1, <2>1
    <3>2. q[2] = l
      OBVIOUS
    <3> HIDE DEF q
    <3>3. \A r \in Groups \X Lanes : Waits(r)' = IF r = q THEN v ELSE Table[r]
      BY <1>5, <3>1, <3>2
    <3> HIDE DEF v
    <3> QED BY <1>5, <2>2, <3>3 DEF Table
  <2>4. ~TimeUp(l)
    BY <1>7 DEF TimeUp
  <2>5. CASE Full(l)
    <3>1. Fires = {l}
      BY <2>1, <2>5 DEF Fires
    <3>2. v = Off
      <4>1. l \in Fires
        BY <3>1
      <4> HIDE DEF w
      <4> QED BY <4>1 DEF Writes
    <3>3. InOrder({g} \X Fires) = <<q>>
      <4>1. g \in Nat /\ l \in Nat
        BY <1>1, SizesAreNat
      <4> QED BY <3>1, <4>1, OfOne
    <3>4. Thr[q] # 0 /\ (w.cnt + 1) % CntMod = Thr[q]
      BY <2>5 DEF Full
    <3>5. Table' = [Table EXCEPT ![q] = Off]
      BY <2>3, <3>2
    <3>6. Predict!HandsOut(<<q>>)
      BY <1>2, <3>3
    <3>7. Predict!Reaches(q)
      <4> HIDE DEF q, w
      <4> QED BY <1>4, <2>2, <3>4, <3>5, <3>6 DEF Predict!Reaches, Table
    <3>8. q \in Predict!Queues
      BY <1>4, <2>2
    <3> HIDE DEF q
    <3>9. \E p \in Predict!Queues : Predict!Reaches(p) \/ Predict!Merges(p)
      BY <3>7, <3>8
    <3> QED BY <1>3, <3>9 DEF Predict!PNext
  <2>6. CASE ~Full(l)
    <3>1. Fires = {}
      BY <2>1, <2>4, <2>6 DEF Fires
    <3>2. v = IF w.en THEN [w EXCEPT !.cnt = (w.cnt + 1) % CntMod]
                      ELSE [en |-> TRUE, at |-> Due(q, s2.ts), cnt |-> 1]
      BY <1>7, <2>1, <3>1 DEF Writes
    <3>3. Thr[q] = 0 \/ (w.cnt + 1) % CntMod # Thr[q]
      BY <1>7, <2>6 DEF Full
    <3>4. Predict!HandsOut(<<>>)
      BY <1>2, <3>1, OfNone
    <3>5. Due(q, s2.ts) = Predict!Due(q, s2.ts)
      BY PredictOps
    <3> HIDE DEF v, w
    <3>6. Predict!Merges(q)
      <4> HIDE DEF q
      <4> QED BY <2>2, <2>3, <3>2, <3>3, <3>4, <3>5 DEF Predict!Merges, Table
    <3>7. q \in Predict!Queues
      BY <1>4, <2>2
    <3> HIDE DEF q
    <3>8. \E p \in Predict!Queues : Predict!Reaches(p) \/ Predict!Merges(p)
      BY <3>6, <3>7
    <3> QED BY <1>3, <3>8 DEF Predict!PNext
  <2> QED BY <2>5, <2>6
<1>8. CASE s2.lanes # {} /\ s2.flag = 0
  <2>1. s2.lanes = Lanes
    BY <1>8 DEF PipeInv, OneOrAll
  <2>2. \A l \in Lanes : l \in Fires <=> /\ Table[<<g, l>>].en
                                         /\ Table[<<g, l>>].at = Predict!Unit(<<g, l>>, s2.ts)
    BY <1>5, <1>8, <2>1, PredictOps DEF Fires, Full, TimeUp
  <2>3. Predict!Expired(g) = Fires
    BY <1>1, <1>4, <2>2 DEF Predict!Expired, Table
  <2>4. \A q \in Groups \X Lanes :
          Waits(q)' = IF q[1] = g /\ q[2] \in Fires THEN Predict!Off ELSE Table[q]
    <3>1. ASSUME NEW q \in Groups \X Lanes
          PROVE  Waits(q)' = IF q[1] = g /\ q[2] \in Fires THEN Predict!Off ELSE Table[q]
      <4>1. CASE q[1] = g
        <5>1. q[2] \in Lanes /\ q = <<g, q[2]>>
          BY <4>1
        <5>2. Waits(q)' = Writes(q[2])
          BY <1>5, <2>1, <4>1, <5>1
        <5>3. Writes(q[2]) = IF q[2] \in Fires THEN Off ELSE Sees(q[2])
          BY <1>8 DEF Writes
        <5>4. Sees(q[2]) = Table[q]
          BY <1>5, <2>1, <5>1
        <5> QED BY <1>4, <4>1, <5>2, <5>3, <5>4
      <4>2. CASE q[1] # g
        BY <1>5, <4>2
      <4> QED BY <4>1, <4>2
    <3> QED BY <3>1
  <2>5. Table' = [q \in Predict!Queues |->
                    IF q[1] = g /\ q[2] \in Predict!Expired(g) THEN Predict!Off ELSE Table[q]]
    BY <1>4, <1>5, <2>3, <2>4
  <2>6. Predict!HandsOut(Predict!InOrder({g} \X Predict!Expired(g)))
    BY <1>2, <2>3, PredictOps
  <2>7. Predict!Scans(g)
    BY <2>5, <2>6 DEF Predict!Scans, Table
  <2>8. \E h \in Predict!Groups : Predict!Scans(h)
    BY <1>1, <1>4, <2>7
  <2> QED BY <1>3, <2>8 DEF Predict!PNext
<1> QED BY <1>1, <1>6, <1>7, <1>8

(***************************************************************************)
(* virtio_irq_merge_core implements the predictor of its bench: an         *)
(* interrupt asked for is merged or signalled as if there were no          *)
(* pipeline, and what is signalled comes out once and in order, for any    *)
(* number of groups and lanes, any thresholds and any time                 *)
(* (virtio_irq_merge_core_eng.sv:127).                                     *)
(***************************************************************************)
THEOREM PredictorHolds ==
  ASSUME Sizes
  PROVE  Spec => PredictorAgrees
<1>1. Init => Predict!PInit
  BY RefinesInit
<1>2. TypeOK /\ TypeOK' /\ PipeInv /\ [Next]_vars => [Predict!PNext]_<<Table, Promised, s2.ts>>
  <2> SUFFICES ASSUME TypeOK, TypeOK', PipeInv, [Next]_vars
               PROVE  [Predict!PNext]_<<Table, Promised, s2.ts>>
    OBVIOUS
  <2>1. CASE Next
    BY <2>1, RefinesStep DEF Next
  <2>2. CASE UNCHANGED vars
    BY <2>2 DEF vars, Table, Waits, Promised, QueuesOf, Pending
  <2> QED BY <2>1, <2>2
<1> QED BY <1>1, <1>2, TypeCorrect, PipeHolds, PTL DEF Spec, PredictorAgrees, Predict!PSpec, Table

-----------------------------------------------------------------------------
(* How long an interrupt waits. *)

\* The scan is at group g.
Scanning(s, g) == s.flag = 0 /\ s.lanes # {} /\ s.g = g

\* Only a tick moves the time stamp of stage 2; the scan keeps pace with the clock
\* and is over when the next tick comes.
ClockInv ==
  /\ imp <=> cyc = 0
  /\ ts = IF cyc = 0 THEN (s2.ts + 1) % TimeMod ELSE s2.ts
  /\ cyc # 0 => scan = NG \/ 2 * scan + (1 - flag) >= cyc - 1
  /\ cyc = 0 => scan = NG /\ \A g \in Groups : ~Scanning(s1, g)

LEMMA ClockHolds ==
  ASSUME Sizes, Timing
  PROVE  Spec => []ClockInv
<1>1. Init => ClockInv
  <2> SUFFICES ASSUME Init PROVE ClockInv
    OBVIOUS
  <2>1. cyc = 1 /\ imp = FALSE /\ ts = 0 /\ s2.ts = 0 /\ scan = 0 /\ flag = 1
    BY DEF Init
  <2> QED BY <2>1 DEF ClockInv
<1>2. TypeOK /\ ClockInv /\ [Next]_vars => ClockInv'
  <2> SUFFICES ASSUME TypeOK, ClockInv, [Next]_vars PROVE ClockInv'
    OBVIOUS
  <2>1. CASE UNCHANGED vars
    BY <2>1 DEF vars, ClockInv, Scanning
  <2>2. CASE Next
    <3>1. PICK asked \in Asks, rdy \in BOOLEAN : Clock(asked, rdy)
      BY <2>2 DEF Next
    <3>2. /\ NG \in Nat \ {0} /\ CLK_CYCLE \in Nat \ {0} /\ 2 * NG + 2 <= CLK_CYCLE
          /\ cyc \in 0 .. CLK_CYCLE - 1 /\ scan \in 0 .. NG /\ flag \in 0 .. 1
      BY SizesAreNat DEF Timing, TypeOK
    <3>3. /\ cyc' = (cyc + 1) % CLK_CYCLE
          /\ ts' = (IF cyc = CLK_CYCLE - 1 THEN (ts + 1) % TimeMod ELSE ts)
          /\ imp' = (cyc = CLK_CYCLE - 1)
          /\ scan' = (IF imp THEN 0 ELSE IF scan # NG /\ flag = 0 THEN scan + 1 ELSE scan)
          /\ flag' = 1 - flag /\ s1' = Stage0(asked) /\ s2'.ts = ts
      BY <3>1 DEF Clock, TimeTicks, ScanSteps
    <3>4. cyc' = IF cyc = CLK_CYCLE - 1 THEN 0 ELSE cyc + 1
      <4>1. cyc + 1 \in Int
        BY <3>2
      <4>2. CASE cyc = CLK_CYCLE - 1
        <5>1. CLK_CYCLE % CLK_CYCLE = CLK_CYCLE - CLK_CYCLE
          BY <3>2, ModHigh
        <5> QED BY <3>2, <3>3, <4>2, <5>1
      <4>3. CASE cyc # CLK_CYCLE - 1
        <5>1. (cyc + 1) % CLK_CYCLE = cyc + 1
          BY <3>2, <4>1, <4>3, ModLow
        <5> QED BY <3>3, <4>3, <5>1
      <4> QED BY <4>2, <4>3
    <3>5. (imp <=> cyc = 0)' /\ (ts = IF cyc = 0 THEN (s2.ts + 1) % TimeMod ELSE s2.ts)'
      <4>1. cyc' = 0 <=> cyc = CLK_CYCLE - 1
        BY <3>2, <3>4
      <4>2. (imp <=> cyc = 0)'
        BY <3>3, <4>1
      <4>3. (ts = IF cyc = 0 THEN (s2.ts + 1) % TimeMod ELSE s2.ts)'
        BY <3>3, <4>1
      <4> QED BY <4>2, <4>3
    <3>6. (cyc # 0 => scan = NG \/ 2 * scan + (1 - flag) >= cyc - 1)'
      <4>1. CASE cyc = 0
        BY <3>2, <3>3, <3>4, <4>1 DEF ClockInv
      <4>2. CASE cyc # 0 /\ scan # NG /\ flag = 0
        BY <3>2, <3>3, <3>4, <4>2 DEF ClockInv
      <4>3. CASE cyc # 0 /\ ~(scan # NG /\ flag = 0)
        BY <3>2, <3>3, <3>4, <4>3 DEF ClockInv
      <4> QED BY <4>1, <4>2, <4>3
    <3>7. ASSUME cyc' = 0 PROVE scan' = NG /\ \A g \in Groups : ~Scanning(s1', g)
      <4>1. cyc = CLK_CYCLE - 1 /\ cyc # 0 /\ scan = NG
        BY <3>2, <3>4, <3>7 DEF ClockInv
      <4>2. scan' = NG
        BY <3>3, <4>1 DEF ClockInv
      <4>3. s1'.flag = 1 \/ s1'.lanes = {}
        BY <3>2, <3>3, <4>1 DEF Stage0, NoOp
      <4> QED BY <4>2, <4>3 DEF Scanning
    <3>8. (\A g \in Groups : ~Scanning(s1, g))' <=> \A g \in Groups : ~Scanning(s1', g)
      BY DEF Scanning, Groups
    <3> QED BY <3>5, <3>6, <3>7, <3>8 DEF ClockInv
  <2> QED BY <2>1, <2>2
<1> QED BY <1>1, <1>2, TypeCorrect, PTL DEF Spec

\* A tick either stays in the unit or is the first of the next one.
LEMMA Tick ==
  ASSUME NEW P \in Nat \ {0}, NEW M \in Nat \ {0}, M % (4 * P) = 0, NEW t \in 0 .. M - 1
  PROVE  LET next == (t + 1) % M
         IN \/ /\ t % P < P - 1 /\ next % P = (t % P) + 1
               /\ (next \div P) % 4 = (t \div P) % 4
            \/ /\ t % P = P - 1 /\ next % P = 0
               /\ (next \div P) % 4 = ((t \div P) + 1) % 4
<1> DEFINE r == t % P
           d == t \div P
           K == M \div (4 * P)
           next == (t + 1) % M
<1>1. r \in 0 .. P - 1 /\ d \in Int /\ t = P * d + r /\ t \in Int /\ t + 1 \in Int
  BY DivMod
<1>2. K \in Int /\ M = P * (4 * K)
  <2>1. 4 * P \in Nat \ {0}
    OBVIOUS
  <2>2. K \in Int /\ M = (4 * P) * K
    <3> DEFINE Q == 4 * P
    <3>1. Q \in Nat \ {0} /\ M \in Int /\ M % Q = 0
      BY <2>1
    <3> HIDE DEF Q
    <3>2. M \div Q \in Int /\ M = Q * (M \div Q)
      BY <3>1, DivMod
    <3> QED BY <3>2 DEF Q
  <2> HIDE DEF K
  <2> QED BY <2>2
<1> HIDE DEF r, d, K
<1>3. CASE t + 1 < M
  <2>1. next = t + 1
    BY <1>3, <1>1, ModLow
  <2> HIDE DEF next
  <2>2. CASE r < P - 1
    <3>1. next = P * d + (r + 1) /\ r + 1 \in 0 .. P - 1
      BY <1>1, <2>1, <2>2
    <3>2. next % P = r + 1 /\ next \div P = d
      BY <1>1, <3>1, ModUnique, DivUnique
    <3> QED BY <2>2, <3>2 DEF r, d, next
  <2>3. CASE r = P - 1
    <3>1. next = P * (d + 1) + 0 /\ 0 \in 0 .. P - 1 /\ d + 1 \in Int
      BY <1>1, <2>1, <2>3
    <3>2. next % P = 0 /\ next \div P = d + 1
      BY <3>1, ModUnique, DivUnique
    <3> QED BY <2>3, <3>2 DEF r, d, next
  <2> QED BY <1>1, <2>2, <2>3
<1>4. CASE t + 1 = M
  <2>1. next = 0
    <3>1. M = M * 1 + 0 /\ 0 \in 0 .. M - 1
      OBVIOUS
    <3>2. (M * 1 + 0) % M = 0
      BY <3>1, ModUnique
    <3> QED BY <1>4, <3>1, <3>2
  <2>2. t = P * (4 * K - 1) + (P - 1) /\ 4 * K - 1 \in Int /\ P - 1 \in 0 .. P - 1
    BY <1>1, <1>2, <1>4
  <2>3. r = P - 1 /\ d = 4 * K - 1
    BY <2>2, ModUnique, DivUnique DEF r, d
  <2>4. 0 % P = 0 /\ 0 \div P = 0
    <3>1. 0 = P * 0 + 0 /\ 0 \in 0 .. P - 1
      OBVIOUS
    <3> QED BY <3>1, ModUnique, DivUnique
  <2>5. (d + 1) % 4 = 0
    BY <1>2, <2>3
  <2> HIDE DEF next
  <2> QED BY <2>1, <2>3, <2>4, <2>5 DEF r, d, next
<1> QED BY <1>1, <1>3, <1>4

\* The units that queue q still waits, and the ticks of them that are left.
UnitsLeft(q) == (Waits(q).at + 4 - Unit(q, s2.ts)) % 4
Left(q) == UnitsLeft(q) * 2 ^ Time[q] - (s2.ts % 2 ^ Time[q])

\* The scan of this tick has not been through stage 2 for group g.
ToScan(g) == scan <= g \/ Scanning(s1, g) \/ Scanning(s2, g)

(***************************************************************************)
(* What has been waited and what is left add up to more than two units and *)
(* at most three; when nothing is left a unit has just begun and the scan  *)
(* is still to come.                                                       *)
(***************************************************************************)
AgeOK(q) ==
  /\ Waits(q).en => /\ 2 * 2 ^ Time[q] < age[q] + Left(q)
                    /\ age[q] + Left(q) <= 3 * 2 ^ Time[q]
  /\ Waits(q).en /\ UnitsLeft(q) = 0 => s2.ts % 2 ^ Time[q] = 0 /\ ToScan(q[1])
  /\ ~Waits(q).en => age[q] = 0
AgeInv == \A q \in Live : AgeOK(q)

\* The lanes of a clock: what happens to a queue that waits.
LEMMA StaysOrStarts ==
  ASSUME Sizes, TypeOK, PipeInv, NEW asked \in Asks, NEW rdy \in BOOLEAN, Clock(asked, rdy),
         NEW q \in Groups \X Lanes
  PROVE  \/ ~Waits(q)'.en
         \/ /\ Waits(q).en /\ Waits(q)'.en /\ Waits(q)'.at = Waits(q).at
            /\ ~(Scanning(s2, q[1]) /\ Waits(q).at = Unit(q, s2.ts))
         \/ ~Waits(q).en /\ Waits(q)'.en /\ Waits(q)'.at = Due(q, s2.ts)
<1> DEFINE l == q[2]
           w == Waits(q)
           v == Waits(q)'
<1>1. q = <<q[1], l>> /\ l \in Lanes
  OBVIOUS
<1>2. v = IF s2.lanes # {} /\ s2.g = q[1] THEN Writes(l) ELSE w
  BY NextWaits
<1>3. w \in [en : BOOLEAN, at : 0 .. 3, cnt : 0 .. CntMod - 1]
  BY DEF TypeOK, Word, Waits
<1>4. CASE ~(s2.lanes # {} /\ s2.g = q[1])
  <2>1. ~Scanning(s2, q[1]) /\ v = w
    BY <1>2, <1>4 DEF Scanning
  <2> HIDE DEF w, v
  <2>2. v.en => w.en /\ v.at = w.at
    BY <2>1
  <2> QED BY <2>1, <2>2 DEF w, v
<1>5. CASE s2.lanes # {} /\ s2.g = q[1]
  <2>1. v = Writes(l) /\ Sees(l) = w /\ q = <<s2.g, l>>
    BY <1>1, <1>2, <1>5, SeesWaits
  <2> HIDE DEF w, v, l
  <2>2. CASE l \in Fires
    <3>1. ~v.en
      BY <2>1, <2>2 DEF Writes, Off
    <3> QED BY <3>1 DEF v
  <2>3. CASE l \notin Fires
    <3>1. ~(Scanning(s2, q[1]) /\ w.en /\ w.at = Unit(q, s2.ts))
      <4> SUFFICES ASSUME Scanning(s2, q[1]), w.en, w.at = Unit(q, s2.ts) PROVE FALSE
        OBVIOUS
      <4>1. s2.lanes = Lanes /\ s2.flag = 0
        BY DEF Scanning, PipeInv, OneOrAll
      <4>2. TimeUp(l)
        BY <2>1, <4>1 DEF TimeUp
      <4> QED BY <1>1, <2>3, <4>1, <4>2 DEF Fires
    <3>2. CASE l \notin s2.lanes \/ s2.flag = 0
      <4>1. v = w
        BY <2>1, <2>3, <3>2 DEF Writes
      <4> QED BY <3>1, <4>1 DEF w, v
    <3>3. CASE ~(l \notin s2.lanes \/ s2.flag = 0) /\ w.en
      <4>1. v = [w EXCEPT !.cnt = (w.cnt + 1) % CntMod]
        BY <2>1, <2>3, <3>3 DEF Writes
      <4>2. v.en /\ v.at = w.at
        BY <1>3, <3>3, <4>1
      <4> QED BY <3>1, <3>3, <4>2 DEF w, v
    <3>4. CASE ~(l \notin s2.lanes \/ s2.flag = 0) /\ ~w.en
      <4>1. v = [en |-> TRUE, at |-> Due(q, s2.ts), cnt |-> 1]
        BY <2>1, <2>3, <3>4 DEF Writes
      <4>2. v.en /\ v.at = Due(q, s2.ts)
        BY <4>1
      <4> QED BY <3>4, <4>2 DEF w, v
    <3> QED BY <3>2, <3>3, <3>4
  <2> QED BY <2>2, <2>3
<1> QED BY <1>4, <1>5

\* Waiting as numbers: unit u of queue q, a time at which it ends, what is left.
LEMMA WaitType ==
  ASSUME Sizes, TypeOK, NEW q \in Groups \X Lanes
  PROVE  /\ Waits(q).at \in 0 .. 3 /\ Waits(q).en \in BOOLEAN
         /\ Unit(q, s2.ts) \in 0 .. 3 /\ s2.ts \in 0 .. TimeMod - 1
         /\ 2 ^ Time[q] \in Nat \ {0} /\ s2.ts % 2 ^ Time[q] \in 0 .. 2 ^ Time[q] - 1
<1>1. Waits(q) \in [en : BOOLEAN, at : 0 .. 3, cnt : 0 .. CntMod - 1]
  BY DEF TypeOK, Word, Waits
<1>2. s2.ts \in 0 .. TimeMod - 1 /\ 2 ^ Time[q] \in Nat \ {0} /\ s2.ts \in Int
  BY SizesAreNat DEF TypeOK, Sizes
<1> DEFINE P == 2 ^ Time[q]
<1> HIDE DEF P
<1>3. P \in Nat \ {0}
  BY <1>2 DEF P
<1>4. s2.ts % P \in 0 .. P - 1 /\ s2.ts \div P \in Int
  BY <1>2, <1>3, DivMod
<1>5. (s2.ts \div P) % 4 \in 0 .. 3
  BY <1>4
<1> QED BY <1>1, <1>2, <1>4, <1>5 DEF P, Unit

\* The units left are a number below 4; another unit is one fewer.
LEMMA UnitsGo ==
  ASSUME NEW a \in 0 .. 3, NEW u \in 0 .. 3
  PROVE  /\ (a + 4 - u) % 4 \in 0 .. 3
         /\ (u + 1) % 4 \in 0 .. 3 /\ (u + 3) % 4 \in 0 .. 3
         /\ (a + 4 - u) % 4 # 0 => (a + 4 - ((u + 1) % 4)) % 4 = ((a + 4 - u) % 4) - 1
         /\ a = u <=> (a + 4 - u) % 4 = 0
         /\ (((u + 3) % 4) + 4 - u) % 4 = 3
         /\ (((u + 3) % 4) + 4 - ((u + 1) % 4)) % 4 = 2
<1>1. /\ u \in {0, 1, 2, 3} /\ a \in {0, 1, 2, 3}
  OBVIOUS
<1> QED BY <1>1

\* A product with 1, 2 or 3.
LEMMA SmallTimes ==
  ASSUME NEW P \in Nat, NEW n \in 0 .. 3
  PROVE  /\ n * P \in Nat
         /\ n = 0 => n * P = 0
         /\ n # 0 => n * P >= P /\ n * P = (n - 1) * P + P
         /\ n = 3 => n * P = 3 * P
         /\ n = 2 => n * P = 2 * P
<1>1. n \in {0, 1, 2, 3}
  OBVIOUS
<1> QED BY <1>1

LEMMA AgeStep ==
  ASSUME Sizes, Timing, TypeOK, TypeOK', PipeInv, ClockInv, NEW asked \in Asks, NEW rdy \in BOOLEAN,
         Clock(asked, rdy), NEW q \in Live, AgeOK(q)
  PROVE  AgeOK(q)'
<1> DEFINE P == 2 ^ Time[q]
           t == s2.ts
           t1 == s2'.ts
           u == Unit(q, t)
           u1 == Unit(q, t1)
           w == Waits(q)
           v == Waits(q)'
           x == (w.at + 4 - u) % 4
           y == (v.at + 4 - u1) % 4
           a == age[q]
           b == age'[q]
<1>1. q \in Groups \X Lanes /\ TimeMod % (4 * P) = 0 /\ TimeMod \in Nat \ {0}
  BY SizesAreNat DEF Sizes, Timing
<1>2. /\ w.at \in 0 .. 3 /\ v.at \in 0 .. 3 /\ w.en \in BOOLEAN /\ v.en \in BOOLEAN
      /\ u \in 0 .. 3 /\ u1 \in 0 .. 3 /\ P \in Nat \ {0}
      /\ t \in 0 .. TimeMod - 1 /\ t1 \in 0 .. TimeMod - 1 /\ t % P \in 0 .. P - 1 /\ t1 % P \in 0 .. P - 1
  <2>1. (Unit(q, s2.ts))' = u1 /\ (s2.ts)' = t1
    BY DEF Unit
  <2>2. /\ w.at \in 0 .. 3 /\ w.en \in BOOLEAN /\ u \in 0 .. 3
        /\ P \in Nat \ {0} /\ t \in 0 .. TimeMod - 1 /\ t % P \in 0 .. P - 1
    BY <1>1, WaitType
  <2>3. v \in [en : BOOLEAN, at : 0 .. 3, cnt : 0 .. CntMod - 1]
    BY <1>1 DEF TypeOK, Word, Waits
  <2>4. t1 \in 0 .. TimeMod - 1 /\ t1 \in Int
    BY <1>1 DEF TypeOK
  <2>5. t1 % P \in 0 .. P - 1 /\ t1 \div P \in Int
    <3>1. P \in Nat \ {0}
      BY <2>2
    <3> HIDE DEF P, t1
    <3> QED BY <2>4, <3>1, DivMod
  <2>6. u1 \in 0 .. 3
    BY <2>5 DEF Unit
  <2> QED BY <2>2, <2>3, <2>4, <2>5, <2>6
<1>3. t1 = IF cyc = 0 THEN (t + 1) % TimeMod ELSE t
  BY DEF Clock, ClockInv
<1>4. /\ AgeOK(q) <=> /\ w.en => 2 * P < a + (x * P - (t % P)) /\ a + (x * P - (t % P)) <= 3 * P
                      /\ w.en /\ x = 0 => t % P = 0 /\ ToScan(q[1])
                      /\ ~w.en => a = 0
      /\ AgeOK(q)' <=> /\ v.en => 2 * P < b + (y * P - (t1 % P)) /\ b + (y * P - (t1 % P)) <= 3 * P
                       /\ v.en /\ y = 0 => t1 % P = 0 /\ ToScan(q[1])'
                       /\ ~v.en => b = 0
  BY DEF AgeOK, Left, UnitsLeft, Unit
<1>5. /\ a \in 0 .. TimeMod
      /\ b = IF ~v.en THEN 0
             ELSE IF ~w.en THEN (IF t1 = t THEN 0 ELSE 1)
             ELSE IF a = TimeMod THEN TimeMod ELSE a + (IF t1 = t THEN 0 ELSE 1)
  BY DEF TypeOK, Clock, Ages
<1>6. /\ x \in 0 .. 3 /\ (u + 1) % 4 \in 0 .. 3
      /\ x # 0 => (w.at + 4 - ((u + 1) % 4)) % 4 = x - 1
      /\ w.at = u <=> x = 0
  BY <1>2, UnitsGo
<1>7. y \in 0 .. 3
  BY <1>2, UnitsGo
<1>8. t1 = t <=> cyc # 0
  <2>1. 4 * P <= TimeMod
    <3> DEFINE Q == 4 * P
    <3>1. Q \in Nat \ {0} /\ TimeMod % Q = 0 /\ TimeMod \in Int /\ 0 <= TimeMod
      BY <1>1, <1>2
    <3> HIDE DEF Q
    <3>2. ~(TimeMod < Q)
      BY <1>1, <3>1, ModLow
    <3> QED BY <1>1, <1>2, <3>2 DEF Q
  <2>2. t + 1 = TimeMod => (t + 1) % TimeMod = 0
    <3>1. TimeMod \in Int /\ TimeMod - TimeMod < TimeMod /\ TimeMod <= TimeMod
      BY <1>1
    <3>2. TimeMod % TimeMod = TimeMod - TimeMod
      BY <1>1, <3>1, ModHigh
    <3> QED BY <1>1, <3>2
  <2>3. t + 1 < TimeMod => (t + 1) % TimeMod = t + 1
    BY <1>1, <1>2, ModLow
  <2> HIDE DEF P, t1, t
  <2> QED BY <1>1, <1>2, <1>3, <2>1, <2>2, <2>3
<1>9. w.en => a # TimeMod
  <2> SUFFICES ASSUME w.en, a = TimeMod PROVE FALSE
    OBVIOUS
  <2>1. 4 * P <= TimeMod
    <3> DEFINE Q == 4 * P
    <3>1. Q \in Nat \ {0} /\ TimeMod % Q = 0 /\ TimeMod \in Int /\ 0 <= TimeMod
      BY <1>1, <1>2
    <3> HIDE DEF Q
    <3>2. ~(TimeMod < Q)
      BY <1>1, <3>1, ModLow
    <3> QED BY <1>1, <1>2, <3>2 DEF Q
  <2>2. a + (x * P - (t % P)) <= 3 * P
    BY <1>4
  <2>3. x * P \in Nat
    BY <1>2, <1>6, SmallTimes
  <2> DEFINE X == x * P
             r == t % P
  <2> HIDE DEF P, x, a, X, r
  <2>4. X \in Nat /\ a + (X - r) <= 3 * P /\ r \in 0 .. P - 1 /\ P \in Nat \ {0} /\ a \in 0 .. TimeMod
    BY <1>2, <1>5, <2>2, <2>3 DEF X, r
  <2> QED BY <1>1, <2>1, <2>4
<1>10. cyc # 0 /\ ToScan(q[1]) /\ ~Scanning(s2, q[1]) => ToScan(q[1])'
  <2> SUFFICES ASSUME cyc # 0, ToScan(q[1]), ~Scanning(s2, q[1]) PROVE ToScan(q[1])'
    OBVIOUS
  <2>1. /\ scan' = (IF scan # NG /\ flag = 0 THEN scan + 1 ELSE scan)
        /\ s1' = Stage0(asked) /\ s2' = [flag |-> s1.flag, g |-> s1.g, lanes |-> s1.lanes, ts |-> ts]
    BY DEF Clock, ScanSteps, ClockInv
  <2>2. q[1] \in Nat /\ q[1] < NG /\ scan \in Nat /\ NG \in Nat /\ Lanes # {}
    <3>1. 0 \in Lanes
      BY SizesAreNat DEF Lanes
    <3>2. scan \in 0 .. NG
      BY DEF TypeOK
    <3> QED BY <1>1, <3>1, <3>2, SizesAreNat DEF Groups
  <2>3. ToScan(q[1])' <=> scan' <= q[1] \/ Scanning(s1', q[1]) \/ Scanning(s2', q[1])
    BY DEF ToScan, Scanning
  <2>4. CASE Scanning(s1, q[1])
    BY <2>1, <2>3, <2>4 DEF Scanning
  <2>5. CASE scan <= q[1] /\ scan # NG /\ flag = 0
    <3>1. s1' = [flag |-> 0, g |-> scan, lanes |-> Lanes]
      BY <2>1, <2>5 DEF Stage0
    <3>2. CASE scan = q[1]
      BY <2>2, <2>3, <3>1, <3>2 DEF Scanning
    <3>3. CASE scan < q[1]
      BY <2>1, <2>2, <2>3, <2>5, <3>3
    <3> QED BY <2>2, <2>5, <3>2, <3>3
  <2>6. CASE scan <= q[1] /\ ~(scan # NG /\ flag = 0)
    BY <2>1, <2>3, <2>6
  <2> QED BY <2>4, <2>5, <2>6 DEF ToScan
<1>11. cyc = 0 => ToScan(q[1])' /\ (ToScan(q[1]) => Scanning(s2, q[1]))
  <2> SUFFICES ASSUME cyc = 0 PROVE ToScan(q[1])' /\ (ToScan(q[1]) => Scanning(s2, q[1]))
    OBVIOUS
  <2>1. q[1] \in Groups /\ q[1] \in Nat /\ NG \in Nat /\ q[1] < NG
    BY <1>1, SizesAreNat DEF Groups
  <2>2. scan' = 0 /\ scan = NG /\ ~Scanning(s1, q[1])
    BY <2>1 DEF Clock, ScanSteps, ClockInv
  <2> QED BY <2>1, <2>2 DEF ToScan
<1>12. \/ ~v.en
       \/ w.en /\ v.en /\ v.at = w.at /\ ~(Scanning(s2, q[1]) /\ w.at = u)
       \/ ~w.en /\ v.en /\ v.at = Due(q, t)
  BY <1>1, StaysOrStarts
<1>13. /\ x * P \in Nat
       /\ x # 0 => x * P >= P /\ x * P = (x - 1) * P + P
       /\ y * P \in Nat
       /\ y = 0 => y * P = 0
       /\ y = 3 => y * P = 3 * P
       /\ y = 2 => y * P = 2 * P
  BY <1>2, <1>6, <1>7, SmallTimes
<1>14. cyc = 0 => \/ /\ t % P < P - 1 /\ t1 % P = (t % P) + 1 /\ u1 = u
                  \/ /\ t % P = P - 1 /\ t1 % P = 0 /\ u1 = (u + 1) % 4
  <2> SUFFICES ASSUME cyc = 0
               PROVE  \/ /\ t % P < P - 1 /\ t1 % P = (t % P) + 1 /\ u1 = u
                      \/ /\ t % P = P - 1 /\ t1 % P = 0 /\ u1 = (u + 1) % 4
    OBVIOUS
  <2>1. t1 = (t + 1) % TimeMod
    BY <1>3
  <2>2. u = (t \div P) % 4 /\ u1 = (t1 \div P) % 4
    BY DEF Unit
  <2>3. t \div P \in Int
    <3> HIDE DEF P, t
    <3> QED BY <1>2, DivMod
  <2>4. (((t \div P) % 4) + 1) % 4 = ((t \div P) + 1) % 4
    <3> DEFINE d == t \div P
    <3> HIDE DEF d
    <3>1. d \in Int
      BY <2>3 DEF d
    <3>2. ((d % 4) + 1) % 4 = (d + 1) % 4
      BY <3>1
    <3> QED BY <3>2 DEF d
  <2> HIDE DEF P, t, t1, u, u1
  <2>5. \/ /\ t % P < P - 1 /\ t1 % P = (t % P) + 1
           /\ (t1 \div P) % 4 = (t \div P) % 4
        \/ /\ t % P = P - 1 /\ t1 % P = 0
           /\ (t1 \div P) % 4 = ((t \div P) + 1) % 4
    BY <1>1, <1>2, <2>1, Tick
  <2> QED BY <2>2, <2>4, <2>5
<1>15. CASE ~v.en
  <2>1. b = 0
    BY <1>5, <1>15
  <2> HIDE DEF P, t, t1, u, u1, w, v, x, y, a, b
  <2> QED BY <1>4, <1>15, <2>1
<1> DEFINE X == x * P
           Y == y * P
           r == t % P
           r1 == t1 % P
<1>16. CASE w.en /\ v.en /\ v.at = w.at /\ ~(Scanning(s2, q[1]) /\ w.at = u)
  <2>1. /\ 2 * P < a + (X - r) /\ a + (X - r) <= 3 * P
        /\ x = 0 => r = 0 /\ ToScan(q[1]) /\ ~Scanning(s2, q[1])
    BY <1>4, <1>6, <1>16
  <2>2. CASE cyc # 0
    <3>1. t1 = t /\ u1 = u
      BY <1>8, <2>2
    <3>2. b = a + 0
      BY <1>5, <1>9, <1>16, <3>1
    <3>3. b = a
      BY <1>5, <3>2
    <3>4. y = x
      BY <1>16, <3>1
    <3> HIDE DEF P, t, t1, u, u1, w, v, x, y, a, b
    <3> QED BY <1>4, <1>10, <1>16, <2>1, <2>2, <3>1, <3>3, <3>4
  <2>3. CASE cyc = 0
    <3>1. x # 0 /\ t1 # t
      BY <1>8, <1>11, <2>1, <2>3
    <3>2. b = a + 1
      BY <1>5, <1>9, <1>16, <3>1
    <3>3. X \in Nat /\ X >= P /\ X = (x - 1) * P + P
      BY <1>13, <3>1
    <3>4. CASE r < P - 1 /\ r1 = r + 1 /\ u1 = u
      <4>1. y = x /\ Y = X
        BY <1>16, <3>4
      <4> HIDE DEF P, t, t1, u, u1, w, v, x, a, b, r, r1, X, Y
      <4>2. 2 * P < b + (Y - r1) /\ b + (Y - r1) <= 3 * P
        BY <1>2, <1>5, <2>1, <3>2, <3>3, <3>4, <4>1 DEF r, r1
      <4> HIDE DEF y
      <4> QED BY <1>4, <1>16, <3>1, <4>1, <4>2 DEF r1, Y
    <3>5. CASE r = P - 1 /\ r1 = 0 /\ u1 = (u + 1) % 4
      <4>1. y = x - 1
        BY <1>6, <1>16, <3>1, <3>5
      <4>2. Y = X - P
        BY <1>2, <1>13, <3>3, <4>1
      <4> HIDE DEF P, t, t1, u, u1, w, v, x, y, a, b, r, r1, X, Y
      <4>3. 2 * P < b + (Y - r1) /\ b + (Y - r1) <= 3 * P
        BY <1>2, <1>5, <2>1, <3>2, <3>3, <3>5, <4>2
      <4> QED BY <1>4, <1>11, <1>16, <2>3, <3>5, <4>3 DEF r1, Y
    <3> QED BY <1>14, <2>3, <3>4, <3>5
  <2> QED BY <2>2, <2>3
<1>17. CASE ~w.en /\ v.en /\ v.at = Due(q, t)
  <2>1. v.at = (u + 3) % 4
    BY <1>17 DEF Due
  <2>2. b = IF t1 = t THEN 0 ELSE 1
    BY <1>5, <1>17
  <2>3. CASE cyc # 0
    <3>1. t1 = t /\ u1 = u /\ b = 0
      BY <1>8, <2>2, <2>3
    <3>2. y = 3 /\ Y = 3 * P
      BY <1>2, <1>13, <2>1, <3>1, UnitsGo
    <3> HIDE DEF P, t, t1, u, u1, w, v, x, y, a, b, r, r1, X, Y
    <3>3. 2 * P < b + (Y - r1) /\ b + (Y - r1) <= 3 * P
      BY <1>2, <3>1, <3>2 DEF r1
    <3> QED BY <1>4, <1>17, <3>2, <3>3 DEF r1, Y
  <2>4. CASE cyc = 0
    <3>1. b = 1
      BY <1>8, <2>2, <2>4
    <3>2. CASE r < P - 1 /\ r1 = r + 1 /\ u1 = u
      <4>1. y = 3 /\ Y = 3 * P
        BY <1>2, <1>13, <2>1, <3>2, UnitsGo
      <4> HIDE DEF P, t, t1, u, u1, w, v, x, y, a, b, r, r1, X, Y
      <4>2. 2 * P < b + (Y - r1) /\ b + (Y - r1) <= 3 * P
        BY <1>2, <3>1, <3>2, <4>1 DEF r, r1
      <4> QED BY <1>4, <1>17, <4>1, <4>2 DEF r1, Y
    <3>3. CASE r = P - 1 /\ r1 = 0 /\ u1 = (u + 1) % 4
      <4>1. y = 2 /\ Y = 2 * P
        BY <1>2, <1>13, <2>1, <3>3, UnitsGo
      <4> HIDE DEF P, t, t1, u, u1, w, v, x, y, a, b, r, r1, X, Y
      <4>2. 2 * P < b + (Y - r1) /\ b + (Y - r1) <= 3 * P
        BY <1>2, <3>1, <3>3, <4>1
      <4> QED BY <1>4, <1>17, <4>1, <4>2 DEF r1, Y
    <3> QED BY <1>14, <2>4, <3>2, <3>3
  <2> QED BY <2>3, <2>4
<1> QED BY <1>12, <1>15, <1>16, <1>17

LEMMA AgeHolds ==
  ASSUME Sizes, Timing
  PROVE  Spec => []AgeInv
<1>1. Init => AgeInv
  <2> SUFFICES ASSUME Init, NEW q \in Live PROVE AgeOK(q)
    BY DEF AgeInv
  <2>1. q \in Groups \X Lanes
    BY DEF Sizes
  <2>2. Waits(q) = Off /\ age[q] = 0
    BY <2>1 DEF Init, Waits, OffWord
  <2> QED BY <2>2 DEF AgeOK, Off
<1>2. TypeOK /\ TypeOK' /\ PipeInv /\ ClockInv /\ AgeInv /\ [Next]_vars => AgeInv'
  <2> SUFFICES ASSUME TypeOK, TypeOK', PipeInv, ClockInv, AgeInv, [Next]_vars, NEW q \in Live
               PROVE  AgeOK(q)'
    BY DEF AgeInv
  <2>1. AgeOK(q)
    BY DEF AgeInv
  <2>2. CASE Next
    BY <2>1, <2>2, AgeStep DEF Next
  <2>3. CASE UNCHANGED vars
    BY <2>1, <2>3 DEF vars, AgeOK, Left, UnitsLeft, Unit, Waits, ToScan, Scanning
  <2> QED BY <2>2, <2>3
<1> QED BY <1>1, <1>2, TypeCorrect, PipeHolds, ClockHolds, PTL DEF Spec

\* Nobody waits longer than three units.
LEMMA AgeBound ==
  ASSUME Sizes, TypeOK, AgeInv, NEW q \in Live
  PROVE  age[q] <= 3 * 2 ^ Time[q]
<1> DEFINE P == 2 ^ Time[q]
           x == UnitsLeft(q)
           r == s2.ts % P
           a == age[q]
           X == x * P
<1>1. q \in Groups \X Lanes /\ a \in Nat /\ AgeOK(q)
  BY SizesAreNat DEF Sizes, TypeOK, AgeInv
<1>2. /\ Waits(q).at \in 0 .. 3 /\ Unit(q, s2.ts) \in 0 .. 3
      /\ P \in Nat \ {0} /\ r \in 0 .. P - 1
  BY <1>1, WaitType
<1>3. x \in 0 .. 3
  BY <1>2, UnitsGo DEF UnitsLeft
<1>4. X \in Nat /\ (x # 0 => X >= P)
  BY <1>2, <1>3, SmallTimes
<1>5. Waits(q).en => a + (X - r) <= 3 * P /\ (x = 0 => r = 0)
  BY <1>1 DEF AgeOK, Left
<1>6. ~Waits(q).en => a = 0
  BY <1>1 DEF AgeOK
<1> HIDE DEF P, x, r, a, X
<1>7. CASE Waits(q).en
  BY <1>1, <1>2, <1>4, <1>5, <1>7 DEF a, P
<1>8. CASE ~Waits(q).en
  BY <1>1, <1>2, <1>6, <1>8 DEF a, P
<1> QED BY <1>7, <1>8

(***************************************************************************)
(* An interrupt that waits is signalled in the third unit of time after it *)
(* began to wait and at its first scan, for any number of queues and any   *)
(* units of time (virtio_irq_merge_core_eng.sv:104): a scan is over before *)
(* the next tick, since a tick lasts at least two clocks for each group.   *)
(***************************************************************************)
THEOREM ToleranceHolds ==
  ASSUME Sizes, Timing
  PROVE  Spec => InTolerance
<1> DEFINE Step == \A q \in Live :
             /\ q[1] = s2.g /\ q[2] \in Fires /\ s2.flag = 0 => age[q] > 2 * 2 ^ Time[q]
             /\ age'[q] <= 3 * 2 ^ Time[q]
           Bounded == \A q \in Live : age[q] <= 3 * 2 ^ Time[q]
<1>1. TypeOK /\ TypeOK' /\ PipeInv /\ AgeInv /\ Bounded' => Step
  <2> SUFFICES ASSUME TypeOK, TypeOK', PipeInv, AgeInv, Bounded', NEW q \in Live
               PROVE  /\ q[1] = s2.g /\ q[2] \in Fires /\ s2.flag = 0 => age[q] > 2 * 2 ^ Time[q]
                      /\ age'[q] <= 3 * 2 ^ Time[q]
    OBVIOUS
  <2> DEFINE P == 2 ^ Time[q]
  <2>1. q \in Groups \X Lanes /\ P \in Nat \ {0} /\ age[q] \in Nat /\ age'[q] \in Nat
    BY SizesAreNat DEF Sizes, TypeOK
  <2>2. ASSUME q[1] = s2.g, q[2] \in Fires, s2.flag = 0 PROVE age[q] > 2 * P
    <3>1. q = <<s2.g, q[2]>> /\ q[2] \in Lanes /\ s2.lanes # {} /\ TimeUp(q[2])
      BY <2>1, <2>2 DEF Fires, Full
    <3>2. Sees(q[2]) = Waits(q)
      BY <3>1, SeesWaits
    <3>3. Waits(q).en /\ Waits(q).at = Unit(q, s2.ts)
      BY <3>1, <3>2 DEF TimeUp
    <3>4. Waits(q).at \in 0 .. 3 /\ Unit(q, s2.ts) \in 0 .. 3
      BY <2>1, WaitType
    <3>5. UnitsLeft(q) = 0
      BY <3>3, <3>4, UnitsGo DEF UnitsLeft
    <3>6. s2.ts % P = 0 /\ 2 * P < age[q] + Left(q)
      BY <3>3, <3>5 DEF AgeInv, AgeOK
    <3>7. Left(q) = 0
      <4> HIDE DEF P
      <4> QED BY <2>1, <3>5, <3>6 DEF Left, P
    <3> HIDE DEF P
    <3> QED BY <2>1, <3>6, <3>7
  <2>3. age'[q] <= 3 * P
    BY <2>1
  <2> QED BY <2>2, <2>3
<1>2. TypeOK /\ AgeInv => Bounded
  BY AgeBound
<1> QED BY <1>1, <1>2, TypeCorrect, PipeHolds, AgeHolds, PTL DEF Spec, InTolerance
=============================================================================
