---------------------------- MODULE EngineLemmas ----------------------------
(***************************************************************************)
(* Lemmas that the proofs about several engines share: the arithmetic of   *)
(* indices and time stamps that wrap, how many entries of a FIFO belong to *)
(* a set, the order in which pairs are handed out, queues in a row, and    *)
(* packets cut into beats.                                                 *)
(***************************************************************************)
EXTENDS Integers, Sequences, FiniteSets, QueueOrder,
        FiniteSetTheorems, FunctionTheorems, SequenceTheorems, TLAPS

\* What division and remainder are.
LEMMA DivMod ==
  ASSUME NEW x \in Int, NEW m \in Nat \ {0}
  PROVE  /\ x % m \in 0 .. m - 1
         /\ x \div m \in Int
         /\ x = m * (x \div m) + (x % m)
  OBVIOUS

\* A multiple is not below the modulus.
LEMMA MulBig ==
  ASSUME NEW m \in Nat \ {0}, NEW n \in Int, n >= 1
  PROVE  m * n >= m
  OBVIOUS

\* Quotient and remainder are unique.
LEMMA ModUnique ==
  ASSUME NEW m \in Nat \ {0}, NEW k \in Int, NEW r \in 0 .. m - 1
  PROVE  (m * k + r) % m = r
<1> DEFINE x == m * k + r
           d == k - (x \div m)
<1>1. x \in Int
  OBVIOUS
<1>2. /\ x % m \in 0 .. m - 1 /\ x \div m \in Int /\ x = m * (x \div m) + (x % m)
  BY <1>1, DivMod
<1>3. d \in Int /\ m * d = (x % m) - r
  BY <1>2
<1>4. ~ (d >= 1)
  BY <1>2, <1>3, MulBig
<1>5. ~ (-d >= 1)
  <2>1. m * (-d) = r - (x % m)
    BY <1>2, <1>3
  <2> QED BY <1>2, <1>3, <2>1, MulBig
<1>6. d = 0
  BY <1>3, <1>4, <1>5
<1> QED BY <1>2, <1>3, <1>6

\* Quotients by the same number are the same number.
LEMMA DivUnique ==
  ASSUME NEW m \in Nat \ {0}, NEW k \in Int, NEW r \in 0 .. m - 1
  PROVE  (m * k + r) \div m = k
<1> DEFINE x == m * k + r
           d == k - (x \div m)
<1>1. x \in Int
  OBVIOUS
<1>2. x \div m \in Int /\ x = m * (x \div m) + (x % m) /\ x % m = r
  BY <1>1, DivMod, ModUnique
<1>3. d \in Int /\ m * d = 0
  BY <1>2
<1>4. ~ (d >= 1)
  BY <1>3, MulBig
<1>5. ~ (-d >= 1)
  <2>1. m * (-d) = 0
    BY <1>3
  <2> QED BY <1>3, <2>1, MulBig
<1>6. d = 0
  BY <1>3, <1>4, <1>5
<1> QED BY <1>2, <1>6

\* No turn,
LEMMA ModLow ==
  ASSUME NEW m \in Nat \ {0}, NEW x \in Int, 0 <= x, x < m
  PROVE  x % m = x
<1>1. x = m * 0 + x /\ x \in 0 .. m - 1
  OBVIOUS
<1>2. (m * 0 + x) % m = x
  BY <1>1, ModUnique
<1> QED BY <1>1, <1>2

\* One turn down,
LEMMA ModHigh ==
  ASSUME NEW m \in Nat \ {0}, NEW x \in Int, m <= x, x - m < m
  PROVE  x % m = x - m
<1>1. x = m * 1 + (x - m) /\ x - m \in 0 .. m - 1
  OBVIOUS
<1>2. (m * 1 + (x - m)) % m = x - m
  BY <1>1, ModUnique
<1> QED BY <1>1, <1>2

\* and one turn up.
LEMMA ModNeg ==
  ASSUME NEW m \in Nat \ {0}, NEW x \in Int, x < 0, 0 <= x + m
  PROVE  x % m = x + m
<1>1. x = m * (-1) + (x + m) /\ x + m \in 0 .. m - 1
  OBVIOUS
<1>2. (m * (-1) + (x + m)) % m = x + m
  BY <1>1, ModUnique
<1> QED BY <1>1, <1>2

\* A remainder by a multiple of d keeps the remainder by d.
LEMMA ModOfMod ==
  ASSUME NEW m \in Nat \ {0}, NEW d \in Nat \ {0}, m % d = 0, NEW x \in Int
  PROVE  (x % m) % d = x % d
<1> DEFINE r == x % m
           k == m \div d
<1>1. m = d * k /\ k \in Int
  BY DivMod
<1>2. r \in 0 .. m - 1 /\ x \div m \in Int /\ x = m * (x \div m) + r
  BY DivMod
<1>3. r % d \in 0 .. d - 1 /\ r \div d \in Int /\ r = d * (r \div d) + (r % d)
  BY <1>2, DivMod
<1>4. x = d * (k * (x \div m) + (r \div d)) + (r % d)
  <2>1. ASSUME NEW a \in Int, NEW b \in Int, NEW c \in Int
        PROVE  (d * k) * a + (d * b + c) = d * (k * a + b) + c
    BY <1>1
  <2>2. x = (d * k) * (x \div m) + (d * (r \div d) + (r % d))
    BY <1>1, <1>2, <1>3
  <2>3. r % d \in Int
    BY <1>3
  <2> HIDE DEF r, k
  <2> QED BY <1>2, <1>3, <2>1, <2>2, <2>3
<1>5. k * (x \div m) + (r \div d) \in Int
  BY <1>1, <1>2, <1>3
<1>6. (d * (k * (x \div m) + (r \div d)) + (r % d)) % d = r % d
  BY <1>3, <1>5, ModUnique
<1> QED BY <1>4, <1>6

\* Numbers less than d apart have different remainders by d.
LEMMA ModApart ==
  ASSUME NEW d \in Nat \ {0}, NEW x \in Int, NEW y \in Int, x < y, y - x < d
  PROVE  x % d # y % d
<1>1. /\ x \div d \in Int /\ x = d * (x \div d) + (x % d)
      /\ y \div d \in Int /\ y = d * (y \div d) + (y % d)
      /\ x % d \in Int
  BY DivMod
<1>2. SUFFICES ASSUME x % d = y % d PROVE FALSE
  OBVIOUS
<1>3. d * ((y \div d) - (x \div d)) = y - x /\ (y \div d) - (x \div d) \in Int
  BY <1>1, <1>2
<1>4. CASE (y \div d) - (x \div d) >= 1
  BY <1>3, <1>4, MulBig
<1>5. CASE (y \div d) - (x \div d) <= 0
  <2>1. d * ((y \div d) - (x \div d)) <= 0
    BY <1>3, <1>5
  <2> QED BY <1>3, <2>1
<1> QED BY <1>3, <1>4, <1>5

\* What is added to a remainder and stays below d.
LEMMA ModAdd ==
  ASSUME NEW d \in Nat \ {0}, NEW x \in Int, NEW n \in Nat, (x % d) + n < d
  PROVE  (x + n) % d = (x % d) + n
<1>1. x \div d \in Int /\ x = d * (x \div d) + (x % d) /\ x % d \in 0 .. d - 1
  BY DivMod
<1>2. x + n = d * (x \div d) + ((x % d) + n) /\ (x % d) + n \in 0 .. d - 1
  BY <1>1
<1>3. (d * (x \div d) + ((x % d) + n)) % d = (x % d) + n
  BY <1>1, <1>2, ModUnique
<1> QED BY <1>2, <1>3

-----------------------------------------------------------------------------
\* The entries of a FIFO that belong to a set, by their places, and their number.
Places(s, T) == {i \in DOMAIN s : s[i] \in T}
Count(s, T) == Cardinality(Places(s, T))

\* The places of a FIFO are finitely many.
LEMMA CountType ==
  ASSUME NEW S, NEW s \in Seq(S), NEW T
  PROVE  IsFiniteSet(Places(s, T)) /\ Count(s, T) \in Nat
<1>1. IsFiniteSet(1 .. Len(s))
  <2>1. 1 \in Int /\ Len(s) \in Int
    BY LenProperties
  <2> QED BY <2>1, FS_Interval
<1>2. Places(s, T) \in SUBSET (1 .. Len(s))
  BY LenProperties DEF Places
<1>3. IsFiniteSet(Places(s, T))
  BY <1>1, <1>2, FS_Subset
<1> QED BY <1>3, FS_CardinalityType DEF Count

\* An empty FIFO holds none.
LEMMA CountEmpty ==
  ASSUME NEW T
  PROVE  Count(<<>>, T) = 0
<1>1. Places(<<>>, T) = {}
  BY DEF Places
<1> QED BY <1>1, FS_EmptySet DEF Count

\* None means none.
LEMMA CountZero ==
  ASSUME NEW S, NEW s \in Seq(S), NEW T
  PROVE  Count(s, T) = 0 <=> \A i \in DOMAIN s : s[i] \notin T
<1>1. Count(s, T) = 0 <=> Places(s, T) = {}
  BY CountType, FS_EmptySet DEF Count
<1> QED BY <1>1 DEF Places

\* A push counts if the new entry belongs to the set,
LEMMA CountAppend ==
  ASSUME NEW S, NEW s \in Seq(S), NEW T, NEW x \in S
  PROVE  Count(Append(s, x), T) = Count(s, T) + (IF x \in T THEN 1 ELSE 0)
<1> DEFINE n == Len(s) + 1
<1>1. /\ Append(s, x) \in Seq(S) /\ Len(Append(s, x)) = n /\ Len(s) \in Nat
      /\ \A i \in 1 .. Len(s) : Append(s, x)[i] = s[i]
      /\ Append(s, x)[n] = x
      /\ DOMAIN s = 1 .. Len(s) /\ DOMAIN Append(s, x) = 1 .. n
  BY AppendProperties, LenProperties
<1>2. n \notin Places(s, T)
  BY <1>1 DEF Places
<1>3. Places(Append(s, x), T) = Places(s, T) \cup (IF x \in T THEN {n} ELSE {})
  BY <1>1 DEF Places
<1>4. CASE x \in T
  <2>1. Places(Append(s, x), T) = Places(s, T) \cup {n}
    BY <1>3, <1>4
  <2> QED BY <2>1, <1>2, <1>4, CountType, FS_AddElement DEF Count
<1>5. CASE x \notin T
  <2>1. Places(Append(s, x), T) = Places(s, T)
    BY <1>3, <1>5
  <2> QED BY <2>1, <1>5, CountType DEF Count
<1> QED BY <1>4, <1>5

\* and a pop if the head did.
LEMMA CountTail ==
  ASSUME NEW S, NEW s \in Seq(S), NEW T, s # <<>>
  PROVE  Count(Tail(s), T) = Count(s, T) - (IF Head(s) \in T THEN 1 ELSE 0)
<1>1. /\ Tail(s) \in Seq(S) /\ Len(Tail(s)) = Len(s) - 1 /\ Len(s) \in Nat \ {0}
      /\ \A i \in 1 .. Len(Tail(s)) : Tail(s)[i] = s[i + 1]
      /\ Head(s) = s[1]
      /\ DOMAIN s = 1 .. Len(s) /\ DOMAIN Tail(s) = 1 .. Len(Tail(s))
  OBVIOUS
<1> DEFINE D == Places(Tail(s), T)
           R == Places(s, T) \ {1}
           f == [i \in D |-> i + 1]
<1>2. f \in Bijection(D, R)
  <2>1. \A i \in D : i \in Int /\ i + 1 \in R
    BY <1>1 DEF Places
  <2>2. f \in [D -> R] /\ \A i, j \in D : f[i] = f[j] => i = j
    BY <2>1
  <2>3. \A k \in R : k - 1 \in D /\ f[k - 1] = k
    BY <1>1 DEF Places
  <2>4. \A k \in R : \E i \in D : f[i] = k
    BY <2>3
  <2> HIDE DEF f, D, R
  <2> QED BY <2>2, <2>4, Fun_IsBij
<1>3. IsFiniteSet(D)
  BY <1>1, CountType
<1>4. ExistsBijection(D, R)
  BY <1>2 DEF ExistsBijection
<1>5. Cardinality(R) = Cardinality(D)
  BY <1>3, <1>4, FS_Bijection
<1>6. Cardinality(R) = Count(s, T) - (IF 1 \in Places(s, T) THEN 1 ELSE 0)
  <2>1. IsFiniteSet(Places(s, T)) /\ Count(s, T) \in Nat
    BY CountType
  <2>2. Cardinality(R) = IF 1 \in Places(s, T) THEN Cardinality(Places(s, T)) - 1
                                               ELSE Cardinality(Places(s, T))
    BY <2>1, FS_RemoveElement
  <2> QED BY <2>1, <2>2 DEF Count
<1>7. 1 \in Places(s, T) <=> Head(s) \in T
  BY <1>1 DEF Places
<1> QED BY <1>5, <1>6, <1>7 DEF Count

-----------------------------------------------------------------------------
(***************************************************************************)
(* A set of pairs in its order: the queues of a word of interrupts, the    *)
(* packets whose last beat is on the wires.                                *)
(***************************************************************************)
\* What comes before a pair of S is a part of S without that pair.
LEMMA LowerType ==
  ASSUME NEW S \in SUBSET (Nat \X Nat), IsFiniteSet(S), NEW p \in S
  PROVE  /\ IsFiniteSet(Lower(S, p)) /\ Cardinality(Lower(S, p)) \in 0 .. Cardinality(S) - 1
<1>1. Lower(S, p) \in SUBSET (S \ {p})
  BY DEF Lower, Before
<1>2. IsFiniteSet(S \ {p}) /\ Cardinality(S \ {p}) = Cardinality(S) - 1
  BY FS_RemoveElement
<1>3. IsFiniteSet(Lower(S, p)) /\ Cardinality(Lower(S, p)) <= Cardinality(S \ {p})
  BY <1>1, <1>2, FS_Subset
<1>4. Cardinality(Lower(S, p)) \in Nat /\ Cardinality(S) \in Nat
  BY <1>3, FS_CardinalityType
<1> QED BY <1>2, <1>3, <1>4

\* A pair has more before it than any pair before it has,
LEMMA LowerGrows ==
  ASSUME NEW S \in SUBSET (Nat \X Nat), IsFiniteSet(S), NEW p \in S, NEW r \in S, Before(p, r)
  PROVE  Cardinality(Lower(S, p)) < Cardinality(Lower(S, r))
<1>1. IsFiniteSet(Lower(S, p)) /\ IsFiniteSet(Lower(S, r))
  BY LowerType
<1>2. Lower(S, p) \in SUBSET (Lower(S, r) \ {p}) /\ p \in Lower(S, r)
  <2>1. ~Before(p, p)
    BY DEF Before
  <2>2. ASSUME NEW x \in S, Before(x, p) PROVE Before(x, r)
    <3>1. x \in Nat \X Nat /\ p \in Nat \X Nat /\ r \in Nat \X Nat
      OBVIOUS
    <3> QED BY <2>2, <3>1 DEF Before
  <2> QED BY <2>1, <2>2 DEF Lower
<1>3. IsFiniteSet(Lower(S, r) \ {p}) /\ Cardinality(Lower(S, r) \ {p}) = Cardinality(Lower(S, r)) - 1
  BY <1>1, <1>2, FS_RemoveElement
<1>4. Cardinality(Lower(S, p)) <= Cardinality(Lower(S, r) \ {p})
  BY <1>2, <1>3, FS_Subset
<1>5. Cardinality(Lower(S, p)) \in Nat /\ Cardinality(Lower(S, r)) \in Nat
  BY <1>1, FS_CardinalityType
<1> QED BY <1>3, <1>4, <1>5

\* so its place tells a pair.
LEMMA LowerTells ==
  ASSUME NEW S \in SUBSET (Nat \X Nat), IsFiniteSet(S), NEW p \in S, NEW r \in S,
         Cardinality(Lower(S, p)) = Cardinality(Lower(S, r))
  PROVE  p = r
<1>1. p \in Nat \X Nat /\ r \in Nat \X Nat
  OBVIOUS
<1>2. Before(p, r) \/ Before(r, p) \/ p = r
  BY <1>1 DEF Before
<1>3. Cardinality(Lower(S, p)) \in Int
  BY LowerType
<1> QED BY <1>2, <1>3, LowerGrows

\* Every place is taken: InOrder hands out each pair at the place that it has.
LEMMA InOrderPlace ==
  ASSUME NEW S \in SUBSET (Nat \X Nat), IsFiniteSet(S)
  PROVE  /\ Cardinality(S) \in Nat
         /\ InOrder(S) \in Seq(S) /\ Len(InOrder(S)) = Cardinality(S)
         /\ DOMAIN InOrder(S) = 1 .. Cardinality(S)
         /\ \A k \in 1 .. Cardinality(S) :
              InOrder(S)[k] \in S /\ Cardinality(Lower(S, InOrder(S)[k])) = k - 1
         /\ \A k \in 1 .. Cardinality(S), p \in S :
              Cardinality(Lower(S, p)) = k - 1 => InOrder(S)[k] = p
<1> DEFINE n == Cardinality(S)
           f == [p \in S |-> Cardinality(Lower(S, p))]
<1>1. n \in Nat
  BY FS_CardinalityType
<1>2. f \in Injection(S, 0 .. n - 1)
  <2>1. f \in [S -> 0 .. n - 1]
    BY LowerType
  <2>2. \A p, r \in S : f[p] = f[r] => p = r
    BY LowerTells
  <2> HIDE DEF f
  <2> QED BY <2>1, <2>2, Fun_IsInj
<1>3. IsFiniteSet(0 .. n - 1) /\ Cardinality(0 .. n - 1) = n
  <2> HIDE DEF n
  <2>1. 0 \in Int /\ n - 1 \in Int
    BY <1>1
  <2>2. Cardinality(0 .. n - 1) = IF 0 > n - 1 THEN 0 ELSE (n - 1) - 0 + 1
    BY <2>1, FS_Interval
  <2> QED BY <1>1, <2>1, <2>2, FS_Interval
<1>4. f \in Surjection(S, 0 .. n - 1)
  <2> HIDE DEF f
  <2> QED BY <1>1, <1>2, <1>3, FS_Injection
<1>5. ASSUME NEW k \in 1 .. n
      PROVE  \E p \in S : Cardinality(Lower(S, p)) = k - 1
  <2>1. k - 1 \in 0 .. n - 1
    BY <1>1
  <2>2. \E p \in S : f[p] = k - 1
    <3> HIDE DEF f
    <3> QED BY <2>1, <1>4 DEF Surjection
  <2> QED BY <2>2
<1>6. \A k \in 1 .. n : InOrder(S)[k] \in S /\ Cardinality(Lower(S, InOrder(S)[k])) = k - 1
  <2> TAKE k \in 1 .. n
  <2>1. InOrder(S)[k] = CHOOSE p \in S : Cardinality(Lower(S, p)) = k - 1
    BY DEF InOrder
  <2> QED BY <2>1, <1>5
<1>7. \A k \in 1 .. n, p \in S : Cardinality(Lower(S, p)) = k - 1 => InOrder(S)[k] = p
  BY <1>6, LowerTells
<1>8. DOMAIN InOrder(S) = 1 .. n /\ InOrder(S) = [k \in 1 .. n |-> InOrder(S)[k]]
  BY DEF InOrder
<1>9. InOrder(S) \in Seq(S) /\ Len(InOrder(S)) = n
  <2>1. InOrder(S) \in [1 .. n -> S]
    BY <1>6, <1>8
  <2> QED BY <1>1, <2>1, SeqDef, LenProperties
<1> QED BY <1>1, <1>6, <1>7, <1>8, <1>9

\* What comes after all others is handed out after them.
LEMMA InOrderAppend ==
  ASSUME NEW S \in SUBSET (Nat \X Nat), IsFiniteSet(S), NEW T \in SUBSET (Nat \X Nat), IsFiniteSet(T),
         \A p \in S, r \in T : Before(p, r)
  PROVE  InOrder(S \cup T) = InOrder(S) \o InOrder(T)
<1> DEFINE m == Cardinality(S)
           n == Cardinality(T)
           U == S \cup T
<1>1. m \in Nat /\ n \in Nat
  BY FS_CardinalityType
<1>2. U \in SUBSET (Nat \X Nat) /\ IsFiniteSet(U) /\ Cardinality(U) = m + n
  <2>1. S \cap T = {}
    BY DEF Before
  <2> QED BY <1>1, <2>1, FS_Union, FS_EmptySet
<1>3. \A p \in S, r \in T : ~Before(r, p)
  BY DEF Before
<1>4. ASSUME NEW k \in 1 .. m
      PROVE  InOrder(U)[k] = InOrder(S)[k]
  <2>1. InOrder(S)[k] \in S /\ Cardinality(Lower(S, InOrder(S)[k])) = k - 1
    BY InOrderPlace
  <2>2. Lower(U, InOrder(S)[k]) = Lower(S, InOrder(S)[k])
    BY <1>3, <2>1 DEF Lower
  <2>3. k \in 1 .. Cardinality(U)
    BY <1>1, <1>2
  <2> HIDE DEF U
  <2>4. InOrder(S)[k] \in U
    BY <2>1 DEF U
  <2> QED BY <1>2, <2>1, <2>2, <2>3, <2>4, InOrderPlace
<1>5. ASSUME NEW k \in 1 .. n
      PROVE  InOrder(U)[m + k] = InOrder(T)[k]
  <2>1. InOrder(T)[k] \in T /\ Cardinality(Lower(T, InOrder(T)[k])) = k - 1
    BY InOrderPlace
  <2>2. Lower(U, InOrder(T)[k]) = S \cup Lower(T, InOrder(T)[k])
    BY <2>1 DEF Lower
  <2>3. S \cap Lower(T, InOrder(T)[k]) = {}
    BY <1>3 DEF Lower, Before
  <2>4. IsFiniteSet(Lower(T, InOrder(T)[k]))
    BY <2>1, LowerType
  <2>5. Cardinality(Lower(U, InOrder(T)[k])) = m + k - 1
    <3>1. Cardinality(S \cup Lower(T, InOrder(T)[k])) = m + (k - 1) - 0
      BY <2>1, <2>3, <2>4, FS_Union, FS_EmptySet
    <3> HIDE DEF m, n, U
    <3> QED BY <1>1, <2>2, <3>1
  <2> DEFINE j == m + k
             p == InOrder(T)[k]
  <2>6. j \in 1 .. Cardinality(U) /\ Cardinality(Lower(U, p)) = j - 1
    <3> HIDE DEF U, m, n
    <3> QED BY <1>1, <1>2, <2>5
  <2>7. p \in U
    BY <2>1
  <2>8. InOrder(U)[j] = p
    <3> HIDE DEF U, j, p
    <3> QED BY <1>2, <2>6, <2>7, InOrderPlace
  <2> QED BY <2>8
<1>6. /\ InOrder(S) \in Seq(Nat \X Nat) /\ Len(InOrder(S)) = m
      /\ InOrder(T) \in Seq(Nat \X Nat) /\ Len(InOrder(T)) = n
      /\ InOrder(U) \in Seq(Nat \X Nat) /\ Len(InOrder(U)) = m + n
  <2>1. \A A \in SUBSET (Nat \X Nat) : Seq(A) \subseteq Seq(Nat \X Nat)
    OBVIOUS
  <2> HIDE DEF U
  <2> QED BY <1>2, <2>1, InOrderPlace
<1>7. ASSUME NEW i \in 1 .. m + n
      PROVE  InOrder(U)[i] = IF i <= m THEN InOrder(S)[i] ELSE InOrder(T)[i - m]
  <2> HIDE DEF m, n, U
  <2>1. CASE i <= m
    <3>1. i \in 1 .. m
      BY <1>1, <2>1
    <3> QED BY <1>4, <2>1, <3>1
  <2>2. CASE i > m
    <3>1. i - m \in 1 .. n /\ m + (i - m) = i
      BY <1>1, <2>2
    <3> QED BY <1>1, <1>5, <2>2, <3>1
  <2> QED BY <1>1, <2>1, <2>2
<1>8. /\ InOrder(S) \o InOrder(T) \in Seq(Nat \X Nat) /\ Len(InOrder(S) \o InOrder(T)) = m + n
      /\ \A i \in 1 .. m + n : (InOrder(S) \o InOrder(T))[i] =
           IF i <= m THEN InOrder(S)[i] ELSE InOrder(T)[i - m]
  <2> HIDE DEF m, n
  <2> QED BY <1>6, ConcatProperties
<1> HIDE DEF U, m, n
<1>9. InOrder(U) = InOrder(S) \o InOrder(T)
  BY <1>1, <1>6, <1>7, <1>8, SeqEqual
<1> QED BY <1>9 DEF U

\* The order of a set carries over to another that is ordered alike.
LEMMA InOrderMap ==
  ASSUME NEW S \in SUBSET (Nat \X Nat), IsFiniteSet(S), NEW T \in SUBSET (Nat \X Nat),
         NEW f \in Bijection(S, T), \A p, r \in S : Before(p, r) <=> Before(f[p], f[r])
  PROVE  /\ IsFiniteSet(T) /\ Cardinality(T) = Cardinality(S)
         /\ \A k \in 1 .. Cardinality(S) : InOrder(T)[k] = f[InOrder(S)[k]]
<1>0. /\ f \in [S -> T] /\ \A p, r \in S : f[p] = f[r] => p = r
      /\ \A t \in T : \E p \in S : f[p] = t
  BY DEF Bijection, Injection, Surjection, IsInjective
<1>1. IsFiniteSet(T) /\ Cardinality(T) = Cardinality(S)
  <2>1. ExistsBijection(S, T)
    BY DEF ExistsBijection
  <2> QED BY <2>1, FS_Bijection
<1>2. ASSUME NEW k \in 1 .. Cardinality(S)
      PROVE  InOrder(T)[k] = f[InOrder(S)[k]]
  <2> DEFINE p == InOrder(S)[k]
             L == Lower(S, p)
             M == Lower(T, f[p])
             h == [x \in L |-> f[x]]
  <2>1. p \in S /\ Cardinality(L) = k - 1 /\ IsFiniteSet(L)
    BY InOrderPlace, LowerType
  <2>2. h \in Bijection(L, M)
    <3>1. \A x \in L : f[x] \in M
      BY <1>0, <2>1 DEF Lower
    <3>2. h \in [L -> M] /\ \A x, y \in L : h[x] = h[y] => x = y
      BY <1>0, <3>1 DEF Lower
    <3>3. \A t \in M : \E x \in L : h[x] = t
      <4> TAKE t \in M
      <4>1. t \in T /\ Before(t, f[p])
        BY DEF Lower
      <4>2. PICK x \in S : f[x] = t
        BY <1>0, <4>1
      <4>3. x \in L
        BY <2>1, <4>1, <4>2 DEF Lower
      <4> QED BY <4>2, <4>3
    <3> HIDE DEF h, L, M
    <3> QED BY <3>2, <3>3, Fun_IsBij
  <2>3. Cardinality(M) = k - 1
    <3>1. ExistsBijection(L, M)
      BY <2>2 DEF ExistsBijection
    <3> QED BY <2>1, <3>1, FS_Bijection
  <2>4. f[p] \in T
    BY <1>0, <2>1
  <2> QED BY <1>1, <2>3, <2>4, InOrderPlace
<1> QED BY <1>1, <1>2

-----------------------------------------------------------------------------
(***************************************************************************)
(* Queues, alone and in a row.                                             *)
(***************************************************************************)

\* A queue when something is taken from it, and when something is put into it.
LEMMA Taken ==
  ASSUME NEW S, NEW q \in Seq(S), q # <<>>
  PROVE  Head(q) \in S /\ Tail(q) \in Seq(S) /\ Len(q) \in Nat /\ Len(Tail(q)) = Len(q) - 1
  BY HeadTailProperties

LEMMA Given ==
  ASSUME NEW S, NEW q \in Seq(S), NEW e \in S
  PROVE  Append(q, e) \in Seq(S) /\ Len(q) \in Nat /\ Len(Append(q, e)) = Len(q) + 1
  BY AppendProperties

LEMMA Moved ==
  ASSUME NEW S, NEW q \in Seq(S), NEW r \in Seq(S)
  PROVE  /\ q \o r \in Seq(S) /\ Len(q) \in Nat /\ Len(r) \in Nat /\ Len(q \o r) = Len(q) + Len(r)
         /\ <<>> \in Seq(S) /\ Len(<<>>) = 0
  BY ConcatProperties

\* A sequence is its first item and the rest.
LEMMA FirstOf ==
  ASSUME NEW S, NEW z \in Seq(S), z # <<>>
  PROVE  /\ Head(z) \in S /\ Tail(z) \in Seq(S) /\ <<Head(z)>> \in Seq(S) /\ <<Head(z)>> \o Tail(z) = z
<1>1. Len(z) \in Nat \ {0} /\ Head(z) \in S /\ Tail(z) \in Seq(S) /\ <<Head(z)>> \in Seq(S)
  OBVIOUS
<1>2. 1 \in 1 .. Len(z) /\ Len(z) \in 1 .. Len(z) /\ 2 = 1 + 1
  BY <1>1
<1>3. SubSeq(z, 1, Len(z)) = <<z[1]>> \o SubSeq(z, 2, Len(z))
  BY <1>2, SubSeqRecursiveFirst
<1>4. SubSeq(z, 1, Len(z)) = z
  BY SubSeqFull
<1>5. Tail(z) = SubSeq(z, 2, Len(z)) /\ Head(z) = z[1]
  BY TailIsSubSeq
<1> QED BY <1>1, <1>3, <1>4, <1>5

LEMMA FirstTaken ==
  ASSUME NEW S, NEW e \in S, NEW z \in Seq(S)
  PROVE  LET s == <<e>> \o z IN s # <<>> /\ Head(s) = e /\ Tail(s) = z
<1> DEFINE s == <<e>> \o z
           t == Tail(s)
<1>1. <<e>> \in Seq(S) /\ Len(<<e>>) = 1 /\ <<e>>[1] = e
  OBVIOUS
<1>2. /\ s \in Seq(S) /\ Len(s) = 1 + Len(z) /\ Len(z) \in Nat
      /\ \A i \in 1 .. 1 + Len(z) : s[i] = IF i <= 1 THEN <<e>>[i] ELSE z[i - 1]
  BY <1>1, ConcatProperties
<1> HIDE DEF s
<1>3. s # <<>> /\ Head(s) = e
  BY <1>1, <1>2
<1>4. t \in Seq(S) /\ Len(t) = Len(z) /\ \A i \in 1 .. Len(z) : t[i] = s[i + 1]
  BY <1>2, <1>3, HeadTailProperties
<1>5. \A i \in 1 .. Len(t) : t[i] = z[i]
  <2> SUFFICES ASSUME NEW i \in 1 .. Len(z) PROVE t[i] = z[i]
    BY <1>4
  <2> DEFINE j == i + 1
  <2>1. j \in 1 .. 1 + Len(z) /\ ~(j <= 1) /\ j - 1 = i
    BY <1>2
  <2>2. t[i] = s[j]
    BY <1>4
  <2> HIDE DEF j, t
  <2> QED BY <1>2, <2>1, <2>2
<1> HIDE DEF t
<1>6. t = z
  BY <1>4, <1>5, SeqEqual
<1> QED BY <1>3, <1>6 DEF t, s

LEMMA SeqAssoc ==
  ASSUME NEW S, NEW p \in Seq(S), NEW q \in Seq(S), NEW r \in Seq(S)
  PROVE  (p \o q) \o r = p \o (q \o r) /\ p \o q \in Seq(S)
  BY SMTT(40), ConcatAssociative, ConcatProperties

\* What is taken from two queues in a row is taken from the first,
LEMMA TakeFirst ==
  ASSUME NEW S, NEW x \in Seq(S), NEW y \in Seq(S), x # <<>>
  PROVE  x \o y \in Seq(S) /\ x \o y # <<>> /\ Head(x \o y) = Head(x) /\ Tail(x \o y) = Tail(x) \o y
<1> DEFINE e == Head(x)
           t == Tail(x)
           r == t \o y
<1>1. e \in S /\ t \in Seq(S) /\ <<e>> \in Seq(S)
  BY FirstOf
<1>2. <<e>> \o t = x
  BY FirstOf
<1> HIDE DEF e, t
<1>3. r \in Seq(S)
  BY <1>1, SeqAssoc
<1>4. (<<e>> \o t) \o y = <<e>> \o r /\ x \o y \in Seq(S)
  BY <1>1, SeqAssoc, SMTT(40)
<1> HIDE DEF r
<1>5. <<e>> \o r # <<>> /\ Head(<<e>> \o r) = e /\ Tail(<<e>> \o r) = r
  BY <1>1, <1>3, FirstTaken
<1> QED BY <1>2, <1>4, <1>5 DEF e, t, r

\* the first of the second moves on to the first,
LEMMA MoveOn ==
  ASSUME NEW S, NEW x \in Seq(S), NEW y \in Seq(S), y # <<>>
  PROVE  /\ Append(x, Head(y)) \in Seq(S) /\ Tail(y) \in Seq(S)
         /\ Append(x, Head(y)) \o Tail(y) = x \o y
<1> DEFINE e == <<Head(y)>>
           t == Tail(y)
<1>1. e \in Seq(S) /\ t \in Seq(S) /\ Append(x, Head(y)) \in Seq(S)
  BY FirstOf, AppendProperties
<1>2. e \o t = y /\ Append(x, Head(y)) = x \o e
  BY FirstOf, AppendIsConcat
<1> HIDE DEF e, t
<1>3. (x \o e) \o t = x \o (e \o t)
  BY <1>1, SeqAssoc, SMTT(40)
<1> QED BY <1>1, <1>2, <1>3 DEF t

\* and what is put into the second, free or not, comes after all.
LEMMA PutLast ==
  ASSUME NEW S, NEW z \in Seq(S), NEW e \in S
  PROVE  z \o <<e>> = Append(z, e) /\ z \o <<>> = z /\ <<>> \o z = z
  BY ConcatEmptySeq, AppendIsConcat

LEMMA PutAfter ==
  ASSUME NEW S, NEW x \in Seq(S), NEW y \in Seq(S), NEW e \in S
  PROVE  Append(y, e) \in Seq(S) /\ x \o Append(y, e) = Append(x \o y, e)
<1> DEFINE o == <<e>>
           z == x \o y
<1>1. o \in Seq(S) /\ Append(y, e) = y \o o /\ Append(y, e) \in Seq(S)
  BY AppendIsConcat, AppendProperties
<1> HIDE DEF o
<1>2. (x \o y) \o o = x \o (y \o o) /\ x \o y \in Seq(S)
  BY <1>1, SeqAssoc, SMTT(40)
<1>3. z \in Seq(S)
  BY <1>2
<1> HIDE DEF z
<1>4. Append(z, e) = z \o o
  BY <1>3, AppendIsConcat DEF o
<1> QED BY <1>1, <1>2, <1>4 DEF z

-----------------------------------------------------------------------------
(***************************************************************************)
(* Packets that travel beat by beat.                                       *)
(***************************************************************************)

\* The k-th beat of a packet.
BeatOf(b, k, p) ==
  /\ b.tag = p.tag /\ (b.sop <=> k = 1) /\ (b.eop <=> k = p.len)
  /\ "len" \in DOMAIN b => b.len = p.len

\* The i-th of the beats s is the pos[i]-th beat of the packet c[own[i]].
Layout(l, s, c, pos, own) ==
  /\ s = <<>> => c = <<>> /\ l = 0
  /\ s # <<>> => own[1] = 1 /\ pos[1] = l + 1 /\ own[Len(s)] = Len(c) /\ pos[Len(s)] = c[Len(c)].len
  /\ \A i \in 1 .. Len(s) :
       own[i] \in 1 .. Len(c) /\ pos[i] \in 1 .. c[own[i]].len /\ BeatOf(s[i], pos[i], c[own[i]])
  /\ \A i \in 1 .. Len(s) - 1 :
       IF pos[i] = c[own[i]].len THEN own[i + 1] = own[i] + 1 /\ pos[i + 1] = 1
       ELSE own[i + 1] = own[i] /\ pos[i + 1] = pos[i] + 1
  /\ \A i, j \in 1 .. Len(s) : i <= j => own[i] <= own[j]

\* s is the packets c beat by beat, but for the first l beats of the first one.
InBeats(l, s, c) == \E pos, own \in [1 .. Len(s) -> Nat] : Layout(l, s, c, pos, own)

LEMMA BeatsNone == InBeats(0, <<>>, <<>>)
<1> DEFINE f == [i \in 1 .. Len(<<>>) |-> 0]
<1>1. Len(<<>>) = 0
  OBVIOUS
<1>2. f \in [1 .. Len(<<>>) -> Nat] /\ Layout(0, <<>>, <<>>, f, f)
  BY <1>1 DEF Layout
<1> HIDE DEF f
<1> QED BY <1>2 DEF InBeats

\* A packet more,
LEMMA BeatsMore ==
  ASSUME NEW S, NEW P, \A p \in P : p.len \in Nat \ {0}, NEW l \in Nat,
         NEW s \in Seq(S), NEW c \in Seq(P), InBeats(l, s, c),
         NEW p \in P, NEW b \in Seq(S), Len(b) = p.len, \A i \in 1 .. p.len : BeatOf(b[i], i, p)
  PROVE  InBeats(l, s \o b, Append(c, p))
<1> DEFINE n == Len(s)
           m == p.len
           t == s \o b
           d == Append(c, p)
           k == Len(c)
<1>1. PICK pos \in [1 .. n -> Nat], own \in [1 .. n -> Nat] : Layout(l, s, c, pos, own)
  BY DEF InBeats
<1>2. n \in Nat /\ m \in Nat \ {0} /\ k \in Nat
  OBVIOUS
<1>3. /\ Len(t) = n + m
      /\ \A i \in 1 .. n + m : t[i] = IF i <= n THEN s[i] ELSE b[i - n]
  BY ConcatProperties
<1>4. Len(d) = k + 1 /\ d[k + 1] = p /\ \A j \in 1 .. k : d[j] = c[j]
  BY AppendProperties
<1>5. \A j \in 1 .. k : c[j].len \in Nat \ {0}
  OBVIOUS
<1> DEFINE pos2 == [i \in 1 .. n + m |-> IF i <= n THEN pos[i] ELSE i - n]
           own2 == [i \in 1 .. n + m |-> IF i <= n THEN own[i] ELSE k + 1]
<1>6. /\ s = <<>> => k = 0 /\ l = 0 /\ n = 0
      /\ n = 0 => s = <<>>
      /\ s # <<>> => own[1] = 1 /\ pos[1] = l + 1 /\ own[n] = k /\ pos[n] = c[k].len
      /\ \A i \in 1 .. n :
           own[i] \in 1 .. k /\ pos[i] \in 1 .. c[own[i]].len /\ BeatOf(s[i], pos[i], c[own[i]])
      /\ \A i \in 1 .. n - 1 :
           IF pos[i] = c[own[i]].len THEN own[i + 1] = own[i] + 1 /\ pos[i + 1] = 1
           ELSE own[i + 1] = own[i] /\ pos[i + 1] = pos[i] + 1
      /\ \A i, j \in 1 .. n : i <= j => own[i] <= own[j]
  <2>1. n = 0 => s = <<>>
    OBVIOUS
  <2> QED BY <1>1, <2>1 DEF Layout
<1>7. \A i \in 1 .. m : BeatOf(b[i], i, p)
  OBVIOUS
<1> HIDE DEF n, m, t, d, k
<1>8. pos2 \in [1 .. n + m -> Nat] /\ own2 \in [1 .. n + m -> Nat]
  BY <1>2, <1>6
<1>9. t # <<>>
  BY <1>2, <1>3
<1>10. own2[1] = 1 /\ pos2[1] = l + 1
  <2>1. CASE n = 0
    BY <1>2, <1>6, <2>1
  <2>2. CASE n # 0
    <3>1. s # <<>>
      BY <2>2 DEF n
    <3> QED BY <1>2, <1>6, <2>2, <3>1
  <2> QED BY <2>1, <2>2
<1>11. own2[n + m] = k + 1 /\ pos2[n + m] = d[k + 1].len
  BY <1>2, <1>4 DEF m
<1>12. ASSUME NEW i \in 1 .. n + m
       PROVE  own2[i] \in 1 .. k + 1 /\ pos2[i] \in 1 .. d[own2[i]].len /\ BeatOf(t[i], pos2[i], d[own2[i]])
  <2>1. CASE i <= n
    <3>1. i \in 1 .. n
      BY <1>2, <2>1
    <3>2. own2[i] = own[i] /\ pos2[i] = pos[i] /\ t[i] = s[i]
      BY <1>3, <2>1
    <3>3. own[i] \in 1 .. k /\ d[own[i]] = c[own[i]]
      BY <1>4, <1>6, <3>1
    <3>4. pos[i] \in 1 .. c[own[i]].len /\ BeatOf(s[i], pos[i], c[own[i]])
      BY <1>6, <3>1
    <3>5. own[i] \in 1 .. k + 1
      BY <1>2, <3>3
    <3> HIDE DEF own2, pos2
    <3> QED BY <3>2, <3>3, <3>4, <3>5
  <2>2. CASE i > n
    <3> DEFINE j == i - n
    <3>1. own2[i] = k + 1 /\ pos2[i] = j /\ t[i] = b[j] /\ j \in 1 .. m
      BY <1>2, <1>3, <2>2
    <3> HIDE DEF own2, pos2, j
    <3>2. d[k + 1].len = m
      BY <1>4 DEF m
    <3> QED BY <1>2, <1>4, <1>7, <3>1, <3>2
  <2> QED BY <1>2, <2>1, <2>2
<1>13. ASSUME NEW i \in 1 .. n + m - 1
       PROVE  IF pos2[i] = d[own2[i]].len THEN own2[i + 1] = own2[i] + 1 /\ pos2[i + 1] = 1
              ELSE own2[i + 1] = own2[i] /\ pos2[i + 1] = pos2[i] + 1
  <2>1. CASE i < n
    <3>1. i \in 1 .. n /\ i \in 1 .. n - 1 /\ i + 1 <= n /\ i <= n
      BY <1>2, <2>1
    <3>2. own2[i] = own[i] /\ pos2[i] = pos[i] /\ own2[i + 1] = own[i + 1] /\ pos2[i + 1] = pos[i + 1]
      BY <1>2, <3>1
    <3>3. own[i] \in 1 .. k /\ d[own[i]] = c[own[i]]
      BY <1>4, <1>6, <3>1
    <3>4. IF pos[i] = c[own[i]].len THEN own[i + 1] = own[i] + 1 /\ pos[i + 1] = 1
          ELSE own[i + 1] = own[i] /\ pos[i + 1] = pos[i] + 1
      BY <1>6, <3>1
    <3> HIDE DEF own2, pos2
    <3> QED BY <3>2, <3>3, <3>4
  <2>2. CASE i = n
    <3>1. n \in 1 .. n /\ s # <<>>
      BY <1>2, <1>6, <2>2
    <3>2. own2[i] = own[n] /\ pos2[i] = pos[n]
      BY <1>2, <2>2
    <3>2a. own[n] = k /\ pos[n] = c[k].len /\ k \in 1 .. k
      BY <1>6, <3>1
    <3>3. own2[i + 1] = k + 1 /\ pos2[i + 1] = 1
      BY <1>2, <2>2
    <3> HIDE DEF own2, pos2
    <3> QED BY <1>4, <3>2, <3>2a, <3>3
  <2>3. CASE i > n
    <3>1. own2[i] = k + 1 /\ pos2[i] = i - n /\ own2[i + 1] = k + 1 /\ pos2[i + 1] = i + 1 - n
      BY <1>2, <2>3
    <3>2. d[k + 1].len = m /\ i - n # m
      BY <1>2, <1>4, <2>3 DEF m
    <3>3. i + 1 - n = (i - n) + 1
      BY <1>2
    <3> HIDE DEF own2, pos2
    <3> QED BY <3>1, <3>2, <3>3
  <2> QED BY <1>2, <2>1, <2>2, <2>3
<1>14. \A i, j \in 1 .. n + m : i <= j => own2[i] <= own2[j]
  <2> SUFFICES ASSUME NEW i \in 1 .. n + m, NEW j \in 1 .. n + m, i <= j PROVE own2[i] <= own2[j]
    OBVIOUS
  <2>1. CASE j <= n
    <3>1. i \in 1 .. n /\ j \in 1 .. n /\ own2[i] = own[i] /\ own2[j] = own[j]
      BY <1>2, <2>1
    <3> QED BY <1>6, <3>1
  <2>2. CASE j > n
    <3>1. own2[j] = k + 1 /\ own2[i] \in 1 .. k + 1
      BY <1>2, <1>12, <2>2
    <3> HIDE DEF own2
    <3> QED BY <1>2, <3>1
  <2> QED BY <1>2, <2>1, <2>2
<1> HIDE DEF own2, pos2
<1>15. Layout(l, t, d, pos2, own2)
  <2>1. Len(t) = n + m /\ Len(d) = k + 1
    BY <1>3, <1>4
  <2>2. own2[Len(t)] = Len(d) /\ pos2[Len(t)] = d[Len(d)].len
    BY <1>11, <2>1
  <2>3. \A i \in 1 .. Len(t) :
          own2[i] \in 1 .. Len(d) /\ pos2[i] \in 1 .. d[own2[i]].len /\ BeatOf(t[i], pos2[i], d[own2[i]])
    BY <1>12, <2>1
  <2>4. \A i \in 1 .. Len(t) - 1 :
          IF pos2[i] = d[own2[i]].len THEN own2[i + 1] = own2[i] + 1 /\ pos2[i + 1] = 1
          ELSE own2[i + 1] = own2[i] /\ pos2[i + 1] = pos2[i] + 1
    <3>1. 1 .. Len(t) - 1 = 1 .. n + m - 1
      BY <1>2, <2>1
    <3> QED BY <1>13, <3>1
  <2>5. \A i, j \in 1 .. Len(t) : i <= j => own2[i] <= own2[j]
    BY <1>14, <2>1
  <2> QED BY <1>9, <1>10, <2>2, <2>3, <2>4, <2>5 DEF Layout
<1> QED BY <1>3, <1>8, <1>15 DEF InBeats, t, d

\* and one beat less.
LEMMA BeatsLess ==
  ASSUME NEW S, NEW P, \A p \in P : p.len \in Nat \ {0}, NEW l \in Nat,
         NEW s \in Seq(S), NEW c \in Seq(P), InBeats(l, s, c), s # <<>>
  PROVE  /\ c # <<>> /\ l + 1 <= Head(c).len /\ BeatOf(Head(s), l + 1, Head(c))
         /\ l + 1 = Head(c).len => InBeats(0, Tail(s), Tail(c))
         /\ l + 1 # Head(c).len => InBeats(l + 1, Tail(s), c)
<1> DEFINE n == Len(s)
           k == Len(c)
           t == Tail(s)
<1>1. PICK pos \in [1 .. n -> Nat], own \in [1 .. n -> Nat] : Layout(l, s, c, pos, own)
  BY DEF InBeats
<1>2. n \in Nat \ {0} /\ k \in Nat /\ 1 \in 1 .. n
  OBVIOUS
<1>3. /\ own[1] = 1 /\ pos[1] = l + 1 /\ own[n] = k /\ pos[n] = c[k].len
      /\ \A i \in 1 .. n :
           own[i] \in 1 .. k /\ pos[i] \in 1 .. c[own[i]].len /\ BeatOf(s[i], pos[i], c[own[i]])
      /\ \A i \in 1 .. n - 1 :
           IF pos[i] = c[own[i]].len THEN own[i + 1] = own[i] + 1 /\ pos[i + 1] = 1
           ELSE own[i + 1] = own[i] /\ pos[i + 1] = pos[i] + 1
      /\ \A i, j \in 1 .. n : i <= j => own[i] <= own[j]
  BY <1>1 DEF Layout
<1>4. t \in Seq(S) /\ Len(t) = n - 1 /\ (\A i \in 1 .. n - 1 : t[i] = s[i + 1]) /\ (n = 1 => t = <<>>) /\ (n # 1 => t # <<>>)
  <2>1. t \in Seq(S) /\ Len(t) = n - 1 /\ (\A i \in 1 .. n - 1 : t[i] = s[i + 1])
    BY <1>2, HeadTailProperties
  <2> HIDE DEF t, n
  <2>2. (Len(t) = 0 => t = <<>>) /\ (t = <<>> => Len(t) = 0)
    BY <2>1, EmptySeq
  <2> QED BY <1>2, <2>1, <2>2
<1>5. k \in Nat \ {0} /\ c # <<>> /\ 1 \in 1 .. k /\ \A j \in 1 .. k : c[j].len \in Nat \ {0}
  BY <1>2, <1>3
<1>6. l + 1 <= c[1].len /\ BeatOf(s[1], l + 1, c[1])
  BY <1>2, <1>3, <1>5
<1> HIDE DEF n, k, t
<1>7. ASSUME l + 1 = c[1].len PROVE InBeats(0, t, Tail(c))
  <2> DEFINE d == Tail(c)
             pos2 == [i \in 1 .. n - 1 |-> pos[i + 1]]
             own2 == [i \in 1 .. n - 1 |-> own[i + 1] - 1]
  <2>1. d \in Seq(P) /\ Len(d) = k - 1 /\ (\A j \in 1 .. k - 1 : d[j] = c[j + 1]) /\ (k = 1 => d = <<>>)
    BY <1>5, HeadTailProperties, EmptySeq DEF k
  <2> HIDE DEF d
  <2>2. n # 1 => own[2] = 2 /\ pos[2] = 1
    <3> SUFFICES ASSUME n # 1 PROVE own[2] = 2 /\ pos[2] = 1
      OBVIOUS
    <3>1. 1 \in 1 .. n - 1 /\ 1 + 1 = 2
      BY <1>2
    <3>2. pos[1] = c[own[1]].len /\ own[1] = 1
      BY <1>3, <1>7
    <3>3. own[1 + 1] = own[1] + 1 /\ pos[1 + 1] = 1
      BY <1>3, <3>1, <3>2
    <3> QED BY <3>1, <3>2, <3>3
  <2>3. ASSUME NEW i \in 1 .. n - 1
        PROVE  /\ own[i + 1] \in 2 .. k /\ d[own[i + 1] - 1] = c[own[i + 1]] /\ own[i + 1] - 1 \in 1 .. k - 1
               /\ pos[i + 1] \in 1 .. c[own[i + 1]].len /\ BeatOf(t[i], pos[i + 1], c[own[i + 1]])
    <3>1. i + 1 \in 1 .. n /\ 2 \in 1 .. n /\ 2 <= i + 1 /\ n # 1
      BY <1>2
    <3>2. own[2] <= own[i + 1] /\ own[2] = 2
      BY <1>3, <2>2, <3>1
    <3>3. own[i + 1] \in 1 .. k
      BY <1>3, <3>1
    <3>4. own[i + 1] \in 2 .. k /\ own[i + 1] - 1 \in 1 .. k - 1 /\ own[i + 1] - 1 + 1 = own[i + 1]
      BY <1>5, <3>2, <3>3
    <3>5. d[own[i + 1] - 1] = c[own[i + 1]]
      BY <2>1, <3>4
    <3> QED BY <1>3, <1>4, <3>1, <3>4, <3>5
  <2>4. /\ pos2 \in [1 .. n - 1 -> Nat] /\ own2 \in [1 .. n - 1 -> Nat]
        /\ \A i \in 1 .. n - 1 : own2[i] = own[i + 1] - 1 /\ pos2[i] = pos[i + 1]
    <3>1. \A i \in 1 .. n - 1 : own[i + 1] - 1 \in Nat /\ pos[i + 1] \in Nat
      <4> SUFFICES ASSUME NEW i \in 1 .. n - 1 PROVE own[i + 1] - 1 \in Nat /\ pos[i + 1] \in Nat
        OBVIOUS
      <4>1. i + 1 \in 1 .. n
        BY <1>2
      <4> QED BY <2>3, <4>1
    <3> QED BY <3>1
  <2> HIDE DEF pos2, own2
  <2>5. t = <<>> => d = <<>>
    <3>1. n = 1 => k = 1
      BY <1>3
    <3> QED BY <1>4, <2>1, <3>1
  <2>6. t # <<>> => /\ own2[1] = 1 /\ pos2[1] = 0 + 1
                    /\ own2[n - 1] = k - 1 /\ pos2[n - 1] = d[k - 1].len
    <3> SUFFICES ASSUME n # 1
                 PROVE  own2[1] = 1 /\ pos2[1] = 0 + 1 /\ own2[n - 1] = k - 1 /\ pos2[n - 1] = d[k - 1].len
      BY <1>4
    <3>1. 1 \in 1 .. n - 1 /\ n - 1 \in 1 .. n - 1 /\ n - 1 + 1 = n /\ 1 + 1 = 2
      BY <1>2
    <3>2. own2[1] = own[2] - 1 /\ pos2[1] = pos[2] /\ own2[n - 1] = own[n] - 1 /\ pos2[n - 1] = pos[n]
      BY <2>4, <3>1
    <3>3. d[k - 1] = c[k]
      BY <1>3, <2>3, <3>1
    <3> QED BY <1>3, <2>2, <3>2, <3>3
  <2>7. ASSUME NEW i \in 1 .. n - 1
        PROVE  own2[i] \in 1 .. k - 1 /\ pos2[i] \in 1 .. d[own2[i]].len /\ BeatOf(t[i], pos2[i], d[own2[i]])
    <3>1. own2[i] = own[i + 1] - 1 /\ pos2[i] = pos[i + 1]
      BY <2>4
    <3> QED BY <2>3, <3>1
  <2>8. ASSUME NEW i \in 1 .. n - 1 - 1
        PROVE  IF pos2[i] = d[own2[i]].len THEN own2[i + 1] = own2[i] + 1 /\ pos2[i + 1] = 1
               ELSE own2[i + 1] = own2[i] /\ pos2[i + 1] = pos2[i] + 1
    <3> DEFINE j == i + 1
    <3>1. j \in 1 .. n - 1 /\ i \in 1 .. n - 1 /\ j \in 1 .. n /\ j + 1 \in 1 .. n
      BY <1>2
    <3>2. /\ own2[i] = own[j] - 1 /\ pos2[i] = pos[j] /\ own2[j] = own[j + 1] - 1 /\ pos2[j] = pos[j + 1]
          /\ d[own2[i]] = c[own[j]]
      BY <2>3, <2>4, <3>1
    <3>3. IF pos[j] = c[own[j]].len THEN own[j + 1] = own[j] + 1 /\ pos[j + 1] = 1
          ELSE own[j + 1] = own[j] /\ pos[j + 1] = pos[j] + 1
      BY <1>3, <3>1
    <3>4. own[j] \in Nat /\ own[j + 1] \in Nat
      BY <3>1
    <3> HIDE DEF j
    <3>5. IF pos2[i] = d[own2[i]].len THEN own2[j] = own2[i] + 1 /\ pos2[j] = 1
          ELSE own2[j] = own2[i] /\ pos2[j] = pos2[i] + 1
      BY <3>2, <3>3, <3>4
    <3> QED BY <3>5 DEF j
  <2>9. \A i, j \in 1 .. n - 1 : i <= j => own2[i] <= own2[j]
    <3> SUFFICES ASSUME NEW i \in 1 .. n - 1, NEW j \in 1 .. n - 1, i <= j PROVE own2[i] <= own2[j]
      OBVIOUS
    <3>1. i + 1 \in 1 .. n /\ j + 1 \in 1 .. n /\ i + 1 <= j + 1
      BY <1>2
    <3>2. own[i + 1] <= own[j + 1] /\ own[i + 1] \in Nat /\ own[j + 1] \in Nat
      BY <1>3, <3>1
    <3>3. own2[i] = own[i + 1] - 1 /\ own2[j] = own[j + 1] - 1
      BY <2>4
    <3> QED BY <3>2, <3>3
  <2>10. Layout(0, t, d, pos2, own2)
    <3>1. Len(t) = n - 1 /\ Len(d) = k - 1
      BY <1>4, <2>1
    <3> QED BY <2>5, <2>6, <2>7, <2>8, <2>9, <3>1 DEF Layout
  <2> QED BY <1>4, <2>4, <2>10 DEF InBeats, d
<1>8. ASSUME l + 1 # c[1].len PROVE InBeats(l + 1, t, c)
  <2> DEFINE pos2 == [i \in 1 .. n - 1 |-> pos[i + 1]]
             own2 == [i \in 1 .. n - 1 |-> own[i + 1]]
  <2>1. n # 1
    <3>1. n = 1 => k = 1 /\ pos[1] = c[1].len
      BY <1>3
    <3> QED BY <1>3, <1>8, <3>1
  <2>2. own[2] = 1 /\ pos[2] = l + 1 + 1
    <3>1. 1 \in 1 .. n - 1 /\ 1 + 1 = 2
      BY <1>2, <2>1
    <3>2. pos[1] # c[own[1]].len /\ own[1] = 1 /\ pos[1] = l + 1
      BY <1>3, <1>8
    <3>3. own[1 + 1] = own[1] /\ pos[1 + 1] = pos[1] + 1
      BY <1>3, <3>1, <3>2
    <3> QED BY <3>1, <3>2, <3>3
  <2>3. /\ pos2 \in [1 .. n - 1 -> Nat] /\ own2 \in [1 .. n - 1 -> Nat]
        /\ \A i \in 1 .. n - 1 : i + 1 \in 1 .. n /\ own2[i] = own[i + 1] /\ pos2[i] = pos[i + 1]
    <3>1. \A i \in 1 .. n - 1 : i + 1 \in 1 .. n
      BY <1>2
    <3> QED BY <3>1
  <2> HIDE DEF pos2, own2
  <2>4. own2[1] = 1 /\ pos2[1] = l + 1 + 1 /\ own2[n - 1] = k /\ pos2[n - 1] = c[k].len
    <3>1. 1 \in 1 .. n - 1 /\ n - 1 \in 1 .. n - 1 /\ n - 1 + 1 = n /\ 1 + 1 = 2
      BY <1>2, <2>1
    <3>2. own2[1] = own[2] /\ pos2[1] = pos[2] /\ own2[n - 1] = own[n] /\ pos2[n - 1] = pos[n]
      BY <2>3, <3>1
    <3> QED BY <1>3, <2>2, <3>2
  <2>5. ASSUME NEW i \in 1 .. n - 1
        PROVE  own2[i] \in 1 .. k /\ pos2[i] \in 1 .. c[own2[i]].len /\ BeatOf(t[i], pos2[i], c[own2[i]])
    BY <1>3, <1>4, <2>3
  <2>6. ASSUME NEW i \in 1 .. n - 1 - 1
        PROVE  IF pos2[i] = c[own2[i]].len THEN own2[i + 1] = own2[i] + 1 /\ pos2[i + 1] = 1
               ELSE own2[i + 1] = own2[i] /\ pos2[i + 1] = pos2[i] + 1
    <3> DEFINE j == i + 1
    <3>1. j \in 1 .. n - 1 /\ i \in 1 .. n - 1
      BY <1>2
    <3>2. own2[i] = own[j] /\ pos2[i] = pos[j] /\ own2[j] = own[j + 1] /\ pos2[j] = pos[j + 1]
      BY <2>3, <3>1
    <3>3. IF pos[j] = c[own[j]].len THEN own[j + 1] = own[j] + 1 /\ pos[j + 1] = 1
          ELSE own[j + 1] = own[j] /\ pos[j + 1] = pos[j] + 1
      BY <1>3, <3>1
    <3> HIDE DEF j
    <3>5. IF pos2[i] = c[own2[i]].len THEN own2[j] = own2[i] + 1 /\ pos2[j] = 1
          ELSE own2[j] = own2[i] /\ pos2[j] = pos2[i] + 1
      BY <3>2, <3>3
    <3> QED BY <3>5 DEF j
  <2>7. \A i, j \in 1 .. n - 1 : i <= j => own2[i] <= own2[j]
    <3> SUFFICES ASSUME NEW i \in 1 .. n - 1, NEW j \in 1 .. n - 1, i <= j PROVE own2[i] <= own2[j]
      OBVIOUS
    <3>1. i + 1 <= j + 1
      OBVIOUS
    <3> QED BY <1>3, <2>3, <3>1
  <2>8. Layout(l + 1, t, c, pos2, own2)
    <3>1. Len(t) = n - 1 /\ t # <<>> /\ Len(c) = k
      BY <1>4, <2>1 DEF k
    <3> QED BY <2>4, <2>5, <2>6, <2>7, <3>1 DEF Layout
  <2> QED BY <1>4, <2>3, <2>8 DEF InBeats
<1>9. Head(s) = s[1] /\ Head(c) = c[1]
  BY <1>5
<1> QED BY <1>5, <1>6, <1>7, <1>8, <1>9 DEF t
=============================================================================
