-------------------------- MODULE AvailRing_proofs --------------------------
(***************************************************************************)
(* The avail ring engine for every number of queues, every size of rings   *)
(* and RAMs and every width of the indices: the pointers stay in order,    *)
(* entries are handed out once and in order, an IDLE queue is quiet and no *)
(* queue is forgotten.                                                     *)
(***************************************************************************)
EXTENDS AvailRing, EngineLemmas

-----------------------------------------------------------------------------
(* Distances between indices that wrap. *)

\* What the proofs use of the sizes.
LEMMA IdxModPos == IdxMod \in Nat \ {0} /\ QDepth \in Nat \ {0} /\ QDepth < IdxMod
  BY AvailRingAssumption

\* A distance without the remainder.
LEMMA MinusIs ==
  ASSUME NEW a \in Idx, NEW b \in Idx
  PROVE  /\ Minus(a, b) = IF b <= a THEN a - b ELSE a - b + IdxMod
         /\ Minus(a, b) \in Idx
<1>1. a \in Int /\ b \in Int /\ a - b \in Int /\ a - b < IdxMod /\ 0 <= a - b + IdxMod
  BY IdxModPos DEF Idx
<1>2. CASE b <= a
  <2>1. 0 <= a - b
    BY <1>1, <1>2
  <2>2. (a - b) % IdxMod = a - b
    BY <1>1, <2>1, IdxModPos, ModLow
  <2> QED BY <1>1, <1>2, <2>1, <2>2, IdxModPos DEF Minus, Idx
<1>3. CASE ~ (b <= a)
  <2>1. a - b < 0
    BY <1>1, <1>3
  <2>2. (a - b) % IdxMod = a - b + IdxMod
    BY <1>1, <2>1, IdxModPos, ModNeg
  <2> QED BY <1>1, <1>3, <2>1, <2>2, IdxModPos DEF Minus, Idx
<1> QED BY <1>2, <1>3

\* One turn, at the width of the indices.
LEMMA Wrap ==
  ASSUME NEW x \in Int, IdxMod <= x, x - IdxMod < IdxMod
  PROVE  x % IdxMod = x - IdxMod
  BY ModHigh, IdxModPos

\* An index that is moved on, without the remainder.
LEMMA PlusIs ==
  ASSUME NEW a \in Idx, NEW n \in Nat, n <= IdxMod
  PROVE  /\ (a + n) % IdxMod = IF a + n < IdxMod THEN a + n ELSE a + n - IdxMod
         /\ (a + n) % IdxMod \in Idx
<1> DEFINE x == a + n
<1>1. x \in Int /\ 0 <= x /\ x - IdxMod < IdxMod /\ a \in Int
  BY IdxModPos DEF Idx
<1> HIDE DEF x
<1>2. CASE x < IdxMod
  <2>1. x % IdxMod = x
    BY <1>1, <1>2, IdxModPos, ModLow
  <2>2. x % IdxMod \in Idx
    BY <1>1, <1>2, <2>1, IdxModPos DEF Idx
  <2> QED BY <1>1, <1>2, <2>1, <2>2, IdxModPos DEF x
<1>3. CASE ~ (x < IdxMod)
  <2>1. IdxMod <= x
    BY <1>1, <1>3, IdxModPos
  <2>2. x % IdxMod = x - IdxMod
    BY <1>1, <2>1, Wrap
  <2>3. x % IdxMod \in Idx
    BY <1>1, <2>1, <2>2, IdxModPos DEF Idx
  <2> QED BY <1>1, <1>3, <2>2, <2>3, IdxModPos DEF x
<1> QED BY <1>2, <1>3

\* A distance is a number below IdxMod,
LEMMA MinusType ==
  ASSUME NEW a \in Idx, NEW b \in Idx
  PROVE  Minus(a, b) \in Idx /\ Minus(a, b) \in Nat /\ Minus(a, b) < IdxMod
  BY MinusIs, IdxModPos DEF Idx

\* and zero between an index and itself only.
LEMMA MinusZero ==
  ASSUME NEW a \in Idx, NEW b \in Idx
  PROVE  Minus(a, b) = 0 <=> a = b
<1>1. Minus(a, b) = IF b <= a THEN a - b ELSE a - b + IdxMod
  BY MinusIs
<1> QED BY <1>1, IdxModPos DEF Idx

\* Distances from c subtract,
LEMMA MinusFrom ==
  ASSUME NEW a \in Idx, NEW b \in Idx, NEW c \in Idx, Minus(b, c) <= Minus(a, c)
  PROVE  Minus(a, b) = Minus(a, c) - Minus(b, c)
<1>1. /\ Minus(a, b) = IF b <= a THEN a - b ELSE a - b + IdxMod
      /\ Minus(a, c) = IF c <= a THEN a - c ELSE a - c + IdxMod
      /\ Minus(b, c) = IF c <= b THEN b - c ELSE b - c + IdxMod
  BY MinusIs
<1> QED BY <1>1, IdxModPos DEF Idx

\* and add while they do not wrap.
LEMMA MinusAdd ==
  ASSUME NEW a \in Idx, NEW b \in Idx, NEW c \in Idx, Minus(a, b) + Minus(b, c) < IdxMod
  PROVE  Minus(a, c) = Minus(a, b) + Minus(b, c)
<1>1. /\ Minus(a, b) = IF b <= a THEN a - b ELSE a - b + IdxMod
      /\ Minus(a, c) = IF c <= a THEN a - c ELSE a - c + IdxMod
      /\ Minus(b, c) = IF c <= b THEN b - c ELSE b - c + IdxMod
  BY MinusIs
<1> QED BY <1>1, IdxModPos DEF Idx

\* An index moves away from the one behind it
LEMMA Ahead ==
  ASSUME NEW a \in Idx, NEW b \in Idx, NEW n \in Nat, Minus(a, b) + n < IdxMod
  PROVE  (a + n) % IdxMod \in Idx /\ Minus((a + n) % IdxMod, b) = Minus(a, b) + n
<1>1. Minus(a, b) = IF b <= a THEN a - b ELSE a - b + IdxMod
  BY MinusIs
<1>2. n <= IdxMod
  BY MinusType, IdxModPos
<1>3. /\ (a + n) % IdxMod = IF a + n < IdxMod THEN a + n ELSE a + n - IdxMod
      /\ (a + n) % IdxMod \in Idx
  BY <1>2, PlusIs
<1> DEFINE d == (a + n) % IdxMod
<1>4. Minus(d, b) = IF b <= d THEN d - b ELSE d - b + IdxMod
  BY <1>3, MinusIs
<1> HIDE DEF d
<1>5. /\ d = IF a + n < IdxMod THEN a + n ELSE a + n - IdxMod
      /\ d \in Idx
  BY <1>3 DEF d
<1>6. Minus(d, b) = Minus(a, b) + n
  BY <1>1, <1>4, <1>5, IdxModPos DEF Idx
<1> QED BY <1>5, <1>6 DEF d

\* and towards the one ahead of it.
LEMMA Towards ==
  ASSUME NEW a \in Idx, NEW b \in Idx, NEW n \in Nat, n <= Minus(a, b)
  PROVE  (b + n) % IdxMod \in Idx /\ Minus(a, (b + n) % IdxMod) = Minus(a, b) - n
<1>1. Minus(a, b) = IF b <= a THEN a - b ELSE a - b + IdxMod
  BY MinusIs
<1>2. n <= IdxMod
  BY MinusType, IdxModPos
<1>3. /\ (b + n) % IdxMod = IF b + n < IdxMod THEN b + n ELSE b + n - IdxMod
      /\ (b + n) % IdxMod \in Idx
  BY <1>2, PlusIs
<1> DEFINE d == (b + n) % IdxMod
<1>4. Minus(a, d) = IF d <= a THEN a - d ELSE a - d + IdxMod
  BY <1>3, MinusIs
<1> HIDE DEF d
<1>5. /\ d = IF b + n < IdxMod THEN b + n ELSE b + n - IdxMod
      /\ d \in Idx
  BY <1>3 DEF d
<1>6. Minus(a, d) = Minus(a, b) - n
  BY <1>1, <1>4, <1>5, IdxModPos DEF Idx
<1> QED BY <1>5, <1>6 DEF d

\* The distance to itself.
LEMMA MinusSelf ==
  ASSUME NEW a \in Idx
  PROVE  Minus(a, a) = 0
  BY MinusZero

\* An index moved n on is n away.
LEMMA Reach ==
  ASSUME NEW b \in Idx, NEW n \in Nat, n < IdxMod
  PROVE  (b + n) % IdxMod \in Idx /\ Minus((b + n) % IdxMod, b) = n
  BY MinusSelf, Ahead

\* Going the distance arrives.
LEMMA Arrive ==
  ASSUME NEW a \in Idx, NEW b \in Idx
  PROVE  (b + Minus(a, b)) % IdxMod = a
<1>1. Minus(a, b) \in Nat /\ Minus(a, b) < IdxMod
  BY MinusType
<1>2. (b + Minus(a, b)) % IdxMod \in Idx /\ Minus(a, (b + Minus(a, b)) % IdxMod) = 0
  BY <1>1, Towards
<1> QED BY <1>2, MinusZero

\* An index between c and a.
LEMMA Between ==
  ASSUME NEW a \in Idx, NEW b \in Idx, NEW c \in Idx, Minus(a, b) <= Minus(a, c)
  PROVE  Minus(b, c) = Minus(a, c) - Minus(a, b)
<1>1. /\ Minus(a, b) = IF b <= a THEN a - b ELSE a - b + IdxMod
      /\ Minus(a, c) = IF c <= a THEN a - c ELSE a - c + IdxMod
      /\ Minus(b, c) = IF c <= b THEN b - c ELSE b - c + IdxMod
  BY MinusIs
<1> QED BY <1>1, IdxModPos DEF Idx

\* Going back the distance arrives, too.
LEMMA Back ==
  ASSUME NEW a \in Idx, NEW b \in Idx
  PROVE  Minus(a, Minus(a, b)) = b
<1> DEFINE d == Minus(a, b)
<1>1. d = IF b <= a THEN a - b ELSE a - b + IdxMod
  BY MinusIs
<1>2. d \in Idx
  BY MinusType
<1> HIDE DEF d
<1>3. Minus(a, d) = IF d <= a THEN a - d ELSE a - d + IdxMod
  BY <1>2, MinusIs
<1>4. Minus(a, d) = b
  BY <1>1, <1>2, <1>3, IdxModPos DEF Idx
<1> QED BY <1>4 DEF d

\* Indices less than n apart have places of their own among n places.
LEMMA PlacesApart ==
  ASSUME NEW n \in Nat \ {0}, IdxMod % n = 0,
         NEW x \in Idx, NEW y \in Idx, NEW c \in Idx,
         Minus(x, c) < n, Minus(y, c) < n, x % n = y % n
  PROVE  x = y
<1> DEFINE dx == Minus(x, c)
           dy == Minus(y, c)
<1>1. dx \in Nat /\ dy \in Nat /\ c \in Int /\ c + dx \in Int /\ c + dy \in Int
  <2>1. dx \in Nat /\ dy \in Nat
    BY MinusType
  <2>2. c \in Int
    BY IdxModPos DEF Idx
  <2> QED BY <2>1, <2>2
<1>2. x = (c + dx) % IdxMod /\ y = (c + dy) % IdxMod
  BY Arrive
<1> HIDE DEF dx, dy
<1>3. x % n = (c + dx) % n /\ y % n = (c + dy) % n
  BY <1>1, <1>2, IdxModPos, ModOfMod
<1>4. ~ (dx < dy)
  <2>1. SUFFICES ASSUME dx < dy PROVE FALSE
    OBVIOUS
  <2>2. c + dx < c + dy /\ (c + dy) - (c + dx) < n
    BY <1>1, <2>1 DEF dx, dy
  <2> QED BY <1>1, <1>3, <2>2, ModApart
<1>5. ~ (dy < dx)
  <2>1. SUFFICES ASSUME dy < dx PROVE FALSE
    OBVIOUS
  <2>2. c + dy < c + dx /\ (c + dx) - (c + dy) < n
    BY <1>1, <2>1 DEF dx, dy
  <2> QED BY <1>1, <1>3, <2>2, ModApart
<1> QED BY <1>1, <1>2, <1>4, <1>5

\* The ring's slot of an entry that is not overwritten holds it.
LEMMA SlotHolds ==
  ASSUME NEW q \in Q, idx[q] \in Idx, NEW y \in Idx,
         1 <= Minus(idx[q], y), Minus(idx[q], y) <= QDepth
  PROVE  Slot(q, y % QDepth) = y
<1> DEFINE a == idx[q]
           Hit(b) == Minus(a, b) % QDepth = y % QDepth
           c == CHOOSE b \in 1 .. QDepth : Hit(b)
           base == Minus(a, QDepth)
<1>1. a \in Idx /\ QDepth \in Idx
  BY IdxModPos DEF Idx
<1>2. y % QDepth \in 0 .. QDepth - 1
  BY IdxModPos DEF Idx
<1>3. \E b \in 1 .. QDepth : Hit(b)
  <2>1. Minus(a, y) \in 1 .. QDepth
    BY <1>1, MinusType
  <2> QED BY <1>1, <2>1, Back
<1>4. c \in 1 .. QDepth /\ Hit(c)
  BY <1>3
<1>5. Slot(q, y % QDepth) = Minus(a, c)
  BY <1>2 DEF Slot
<1> HIDE DEF c
<1>6. c \in Idx /\ c <= QDepth
  BY <1>4, IdxModPos DEF Idx
<1> DEFINE z == Minus(a, c)
<1>7. z \in Idx /\ Minus(a, z) = c
  BY <1>1, <1>6, MinusType, Back
<1>8. base \in Idx /\ Minus(a, base) = QDepth
  BY <1>1, MinusType, Back
<1> HIDE DEF a, z, base
<1>9. Minus(z, base) < QDepth
  <2>1. Minus(z, base) = QDepth - c
    BY <1>1, <1>6, <1>7, <1>8, Between
  <2> QED BY <2>1, <1>4, IdxModPos
<1>10. Minus(y, base) < QDepth
  <2>1. 1 <= Minus(a, y) /\ Minus(a, y) <= QDepth /\ Minus(a, y) \in Nat
    BY <1>1, MinusType DEF a
  <2>2. Minus(y, base) = QDepth - Minus(a, y)
    BY <1>1, <1>8, <2>1, Between
  <2> QED BY <2>1, <2>2, IdxModPos
<1>11. z % QDepth = y % QDepth
  BY <1>4 DEF z
<1>12. z = y
  <2>1. IdxMod % QDepth = 0
    BY AvailRingAssumption
  <2> QED BY <1>7, <1>8, <1>9, <1>10, <1>11, <2>1, IdxModPos, PlacesApart
<1> QED BY <1>5, <1>12 DEF z

-----------------------------------------------------------------------------
(***************************************************************************)
(* The inductive invariant.  The reads under way, oldest first, are those  *)
(* whose answer waits, those at the DMA and the one the engine issues; the *)
(* oldest is done with when its pointer is written and only its notify is  *)
(* left.                                                                   *)
(***************************************************************************)
Running == {"DOING", "STOPPING"}

Reading == rd # <<>> /\ rd[1].st = "RD_RING_ID"

FlightLen == Len(rspFf) + Len(rdReq) + (IF Reading THEN 1 ELSE 0)

Flight ==
  [i \in 1 .. FlightLen |->
     IF i <= Len(rspFf) THEN [q |-> rspFf[i].q, ui |-> rspFf[i].ui, num |-> Len(rspFf[i].ids)]
     ELSE IF i <= Len(rspFf) + Len(rdReq) THEN rdReq[i - Len(rspFf)]
     ELSE [q |-> rd[1].q, ui |-> rd[1].ui, num |-> rd[1].num]]

Open == (1 .. FlightLen) \ (IF notifying THEN {1} ELSE {})

\* The distance from the start of a read to the place up to which reads are issued.
Rest(i) == Minus(ui[Flight[i].q], Flight[i].ui)

\* The open reads of a queue are disjoint, in order, and all there is between
\* pi and ui.
FlightInv ==
  /\ \A i \in Open :
       /\ 1 <= Flight[i].num /\ Flight[i].num <= Rest(i)
       /\ Rest(i) <= Minus(ui[Flight[i].q], pi[Flight[i].q])
       /\ (Flight[i].ui % QDepth) + Flight[i].num <= QDepth
  /\ \A i, j \in Open :
       i < j /\ Flight[i].q = Flight[j].q => Rest(j) + Flight[i].num <= Rest(i)
  /\ \A q \in Q : \A x \in 1 .. Minus(ui[q], pi[q]) :
       \E i \in Open : Flight[i].q = q /\ Rest(i) - Flight[i].num < x /\ x <= Rest(i)

\* The order FIFO knows the reads the engine has given to the DMA.
FifoInv ==
  /\ Len(orderFf) = Len(rspFf) + Len(rdReq)
  /\ \A i \in DOMAIN orderFf : orderFf[i] = Flight[i].q
  /\ rd # <<>> => Len(orderFf) < OrderPfull
  /\ notifying => rspFf # <<>>

\* Every pointer, got among them, and the room in RAM and ring.
PtrInv ==
  \A q \in Q :
    /\ Minus(got[q], ci[q]) <= Minus(pi[q], ci[q])
    /\ Minus(pi[q], ci[q]) <= Minus(ui[q], ci[q])
    /\ Minus(ui[q], ci[q]) <= Minus(idx[q], ci[q])
    /\ Minus(ui[q], ci[q]) <= Num(q)
    /\ Minus(idx[q], got[q]) + Minus(got[q], used[q]) <= QDepth

AskHolds(a) ==
  /\ status[a.q] \in Running /\ a.ci = ci[a.q]
  /\ Minus(got[a.q], a.ci) = a.cnt /\ a.cnt <= a.num
  /\ 1 <= a.num /\ a.num <= Nid[Typ[a.q]] /\ a.num <= Minus(pi[a.q], ci[a.q])
  /\ a.cnt < a.num => a.id = AvailIdx(a)

\* A machine that hands entries out owns ci of its queue, and its id is the next.
AskInv ==
  /\ \A t \in QTypes : \A i \in DOMAIN ask[t] :
       Typ[ask[t][i].q] = t /\ (Carries(ask[t][i]) => AskHolds(ask[t][i]))
  /\ \A q \in Q : got[q] # ci[q] =>
       \E i \in DOMAIN ask[Typ[q]] : ask[Typ[q]][i].q = q /\ Carries(ask[Typ[q]][i])

\* What the reading machine sampled is late, on the safe side.
SampleHolds(s) ==
  /\ s.st = "JUDGE" /\ s.status = "DOING" =>
       /\ status[s.q] \in Running /\ s.ui = ui[s.q]
       /\ Minus(ui[s.q], ci[s.q]) <= Minus(s.ui, s.ci)
       /\ Minus(s.idx, s.ui) <= Minus(idx[s.q], ui[s.q])
  /\ NotifyRspDone(s) /\ status[s.q] \in Running /\ ui[s.q] # idx[s.q] => s.q \in want

SampleInv == \A i \in DOMAIN rd : SampleHolds(rd[i])

StatusInv ==
  \A q \in Q :
    /\ status[q] \in {"IDLE", "STARTING"} => pi[q] = ui[q] /\ got[q] = ci[q] /\ used[q] = got[q]
    /\ status[q] = "STARTING" => idx[q] = ui[q]
    /\ status[q] \in Running /\ ui[q] # idx[q] => q \in want \cup serving

\* The RAM holds what waits, and an answer what was asked for.
RamInv ==
  \A q \in Q : \A x \in Idx : Minus(x, ci[q]) < Minus(pi[q], ci[q]) => ram[q][x % Num(q)] = x

RspInv ==
  \A i \in DOMAIN rspFf : i \in Open =>
    \A k \in DOMAIN rspFf[i].ids : rspFf[i].ids[k] = (rspFf[i].ui + k - 1) % IdxMod

IInv ==
  /\ TypeOK
  /\ FlightInv /\ FifoInv /\ PtrInv /\ AskInv /\ SampleInv /\ StatusInv /\ RamInv /\ RspInv

-----------------------------------------------------------------------------
(* The reads under way. *)

\* A read under way has a queue, an index and a length.
LEMMA FlightType ==
  ASSUME TypeOK
  PROVE  /\ FlightLen \in Nat
         /\ Len(rspFf) + Len(rdReq) <= FlightLen
         /\ \A i \in 1 .. FlightLen : Flight[i].q \in Q /\ Flight[i].ui \in Idx /\ Flight[i].num \in Nat
<1>1. rspFf \in Seq(Rsp) /\ rdReq \in Seq(Read) /\ rd \in Seq(RdSample)
  BY DEF TypeOK
<1>2. Len(rspFf) \in Nat /\ Len(rdReq) \in Nat
  BY <1>1
<1>3. ASSUME NEW i \in 1 .. FlightLen
      PROVE  Flight[i].q \in Q /\ Flight[i].ui \in Idx /\ Flight[i].num \in Nat
  <2>1. CASE i <= Len(rspFf)
    <3>1. rspFf[i] \in Rsp
      BY <1>1, <1>2, <1>3, <2>1
    <3>2. Flight[i] = [q |-> rspFf[i].q, ui |-> rspFf[i].ui, num |-> Len(rspFf[i].ids)]
      BY <1>3, <2>1 DEF Flight
    <3>3. Len(rspFf[i].ids) \in Nat
      BY <3>1 DEF Rsp
    <3> QED BY <3>1, <3>2, <3>3 DEF Rsp
  <2>2. CASE ~ (i <= Len(rspFf)) /\ i <= Len(rspFf) + Len(rdReq)
    <3>1. rdReq[i - Len(rspFf)] \in Read
      BY <1>1, <1>2, <1>3, <2>2
    <3>2. Flight[i] = rdReq[i - Len(rspFf)]
      BY <1>3, <2>2 DEF Flight
    <3> QED BY <3>1, <3>2 DEF Read
  <2>3. CASE ~ (i <= Len(rspFf)) /\ ~ (i <= Len(rspFf) + Len(rdReq))
    <3>1. Reading
      BY <1>2, <1>3, <2>3 DEF FlightLen
    <3>2. rd[1] \in RdSample
      BY <1>1, <3>1 DEF Reading
    <3>3. Flight[i] = [q |-> rd[1].q, ui |-> rd[1].ui, num |-> rd[1].num]
      BY <1>3, <2>3 DEF Flight
    <3> QED BY <3>2, <3>3 DEF RdSample
  <2> QED BY <2>1, <2>2, <2>3
<1> QED BY <1>2, <1>3 DEF FlightLen

\* With the answer of the scheduler a read goes on to the DMA, and
LEMMA FlightAnswered ==
  ASSUME TypeOK, RdAnswer
  PROVE  FlightLen' = FlightLen /\ Flight' = Flight /\ Open' = Open
<1>1. rspFf \in Seq(Rsp) /\ rdReq \in Seq(Read) /\ rd \in Seq(RdSample)
  BY DEF TypeOK
<1>2. Len(rspFf) \in Nat /\ Len(rdReq) \in Nat /\ rspFf' = rspFf /\ notifying' = notifying
  BY <1>1 DEF RdAnswer
<1>3. ~ Reading'
  BY DEF RdAnswer, Reading
<1>4. CASE Reading
  <2> DEFINE r == [q |-> rd[1].q, ui |-> rd[1].ui, num |-> rd[1].num]
  <2>1. rdReq' = Append(rdReq, r)
    BY <1>4 DEF RdAnswer, Reading
  <2>2. /\ Len(rdReq') = Len(rdReq) + 1
        /\ \A i \in 1 .. Len(rdReq) : rdReq'[i] = rdReq[i]
        /\ rdReq'[Len(rdReq) + 1] = r
    BY <1>1, <2>1
  <2>3. FlightLen' = FlightLen
    BY <1>2, <1>3, <1>4, <2>2 DEF FlightLen
  <2>4. ASSUME NEW i \in 1 .. FlightLen PROVE Flight'[i] = Flight[i]
    <3>1. CASE i <= Len(rspFf)
      BY <1>2, <2>3, <2>4, <3>1 DEF Flight
    <3>2. CASE Len(rspFf) < i /\ i <= Len(rspFf) + Len(rdReq)
      <4>1. i - Len(rspFf) \in 1 .. Len(rdReq)
        BY <1>2, <2>4, <3>2
      <4>2. Flight'[i] = rdReq'[i - Len(rspFf)]
        BY <1>2, <2>2, <2>3, <2>4, <3>2 DEF Flight
      <4>3. Flight[i] = rdReq[i - Len(rspFf)]
        BY <1>2, <2>4, <3>2 DEF Flight
      <4> QED BY <2>2, <4>1, <4>2, <4>3
    <3>3. CASE Len(rspFf) + Len(rdReq) < i
      <4>1. i = Len(rspFf) + Len(rdReq) + 1
        BY <1>2, <1>4, <2>4, <3>3 DEF FlightLen
      <4>2. Flight'[i] = rdReq'[Len(rdReq) + 1]
        BY <1>2, <2>2, <2>3, <2>4, <4>1 DEF Flight
      <4>3. Flight[i] = r
        BY <1>2, <2>4, <4>1 DEF Flight
      <4> QED BY <2>2, <4>2, <4>3
    <3> QED BY <1>2, <2>4, <3>1, <3>2, <3>3
  <2>5. Flight' = Flight
    BY <2>3, <2>4 DEF Flight
  <2> QED BY <1>2, <2>3, <2>5 DEF Open
<1>5. CASE ~ Reading
  <2>1. rdReq' = rdReq
    BY <1>5 DEF RdAnswer, Reading
  <2>2. FlightLen' = FlightLen
    BY <1>2, <1>3, <1>5, <2>1 DEF FlightLen
  <2>3. ASSUME NEW i \in 1 .. FlightLen PROVE Flight'[i] = Flight[i]
    BY <1>2, <1>3, <1>5, <2>1, <2>2, <2>3 DEF Flight, FlightLen
  <2>4. Flight' = Flight
    BY <2>2, <2>3 DEF Flight
  <2> QED BY <1>2, <2>2, <2>4 DEF Open
<1> QED BY <1>4, <1>5

\* from there, answered, to the responses.
LEMMA FlightRead ==
  ASSUME TypeOK, DmaRdRsp
  PROVE  FlightLen' = FlightLen /\ Flight' = Flight /\ Open' = Open
<1>1. rspFf \in Seq(Rsp) /\ rdReq \in Seq(Read)
  BY DEF TypeOK
<1> DEFINE r == Head(rdReq)
           ids == [i \in 1 .. r.num |-> Slot(r.q, (r.ui % QDepth) + i - 1)]
           new == [q |-> r.q, ui |-> r.ui, ids |-> ids]
<1>2. /\ Len(rspFf) \in Nat /\ Len(rdReq) \in Nat /\ rd' = rd /\ notifying' = notifying
      /\ rdReq # <<>>
  BY <1>1 DEF DmaRdRsp
<1>3. r \in Read /\ r = rdReq[1]
  BY <1>1, <1>2
<1>4. rspFf' = Append(rspFf, new) /\ rdReq' = Tail(rdReq)
  BY DEF DmaRdRsp
<1>5. r.num \in Nat /\ Len(ids) = r.num
  BY <1>3 DEF Read
<1>6. new.q = r.q /\ new.ui = r.ui /\ Len(new.ids) = r.num
  BY <1>5
<1>7. r = [q |-> r.q, ui |-> r.ui, num |-> r.num]
  BY <1>3 DEF Read
<1> HIDE DEF new, r
<1>8. /\ Len(rspFf') = Len(rspFf) + 1
      /\ \A i \in 1 .. Len(rspFf) : rspFf'[i] = rspFf[i]
      /\ rspFf'[Len(rspFf) + 1] = new
  BY <1>1, <1>4
<1>9. /\ Len(rdReq') = Len(rdReq) - 1
      /\ \A i \in 1 .. Len(rdReq) - 1 : rdReq'[i] = rdReq[i + 1]
  BY <1>1, <1>2, <1>4
<1>10. Reading' <=> Reading
  BY <1>2 DEF Reading
<1>11. FlightLen' = FlightLen
  BY <1>2, <1>8, <1>9, <1>10 DEF FlightLen
<1>12. ASSUME NEW i \in 1 .. FlightLen PROVE Flight'[i] = Flight[i]
  <2>1. CASE i <= Len(rspFf)
    BY <1>2, <1>8, <1>11, <1>12, <2>1 DEF Flight
  <2>2. CASE i = Len(rspFf) + 1
    <3>1. Flight[i] = rdReq[1]
      BY <1>2, <1>12, <2>2 DEF Flight
    <3>2. Flight'[i] = [q |-> new.q, ui |-> new.ui, num |-> Len(new.ids)]
      BY <1>2, <1>8, <1>11, <1>12, <2>2 DEF Flight
    <3> QED BY <1>3, <1>6, <1>7, <3>1, <3>2
  <2>3. CASE Len(rspFf) + 1 < i /\ i <= Len(rspFf) + Len(rdReq)
    <3>1. Flight[i] = rdReq[i - Len(rspFf)]
      BY <1>2, <1>12, <2>3 DEF Flight
    <3>2. Flight'[i] = rdReq'[i - Len(rspFf')]
      BY <1>2, <1>8, <1>9, <1>11, <1>12, <2>3 DEF Flight
    <3> QED BY <1>2, <1>8, <1>9, <1>12, <2>3, <3>1, <3>2
  <2>4. CASE Len(rspFf) + Len(rdReq) < i
    BY <1>2, <1>8, <1>9, <1>11, <1>12, <2>4 DEF Flight
  <2> QED BY <1>2, <1>12, <2>1, <2>2, <2>3, <2>4
<1>13. Flight' = Flight
  BY <1>11, <1>12 DEF Flight
<1> QED BY <1>2, <1>11, <1>13 DEF Open

\* The oldest read leaves with its notify.
LEMMA FlightLeaves ==
  ASSUME TypeOK, FifoInv, Notify
  PROVE  /\ FlightLen \in Nat \ {0} /\ FlightLen' = FlightLen - 1
         /\ \A i \in 1 .. FlightLen - 1 : Flight'[i] = Flight[i + 1]
         /\ Open = 2 .. FlightLen /\ Open' = 1 .. FlightLen - 1
<1>1. rspFf \in Seq(Rsp) /\ rdReq \in Seq(Read)
  BY DEF TypeOK
<1>2. /\ Len(rspFf) \in Nat /\ Len(rdReq) \in Nat /\ rd' = rd /\ rdReq' = rdReq
      /\ notifying = TRUE /\ notifying' = FALSE /\ rspFf # <<>> /\ rspFf' = Tail(rspFf)
  BY <1>1 DEF Notify, FifoInv, TypeOK
<1>3. /\ Len(rspFf) >= 1 /\ Len(rspFf') = Len(rspFf) - 1
      /\ \A i \in 1 .. Len(rspFf) - 1 : rspFf'[i] = rspFf[i + 1]
  BY <1>1, <1>2
<1>4. Reading' <=> Reading
  BY <1>2 DEF Reading
<1>5. FlightLen \in Nat \ {0} /\ FlightLen' = FlightLen - 1
  BY <1>2, <1>3, <1>4 DEF FlightLen
<1>6. ASSUME NEW i \in 1 .. FlightLen - 1 PROVE Flight'[i] = Flight[i + 1]
  <2>1. i \in 1 .. FlightLen' /\ i + 1 \in 1 .. FlightLen
    BY <1>5, <1>6
  <2>2. CASE i <= Len(rspFf) - 1
    BY <1>2, <1>3, <2>1, <2>2 DEF Flight
  <2>3. CASE Len(rspFf) - 1 < i /\ i <= Len(rspFf) - 1 + Len(rdReq)
    <3>1. Flight[i + 1] = rdReq[i + 1 - Len(rspFf)]
      BY <1>2, <2>1, <2>3 DEF Flight
    <3>2. Flight'[i] = rdReq[i - (Len(rspFf) - 1)]
      BY <1>2, <1>3, <2>1, <2>3 DEF Flight
    <3> QED BY <1>2, <2>1, <3>1, <3>2
  <2>4. CASE Len(rspFf) - 1 + Len(rdReq) < i
    BY <1>2, <1>3, <2>1, <2>4 DEF Flight
  <2> QED BY <1>2, <1>6, <2>2, <2>3, <2>4
<1>7. Open = 2 .. FlightLen /\ Open' = 1 .. FlightLen - 1
  BY <1>2, <1>5 DEF Open
<1> QED BY <1>5, <1>6, <1>7

\* Nothing else but a grant changes them.
LEMMA FlightKept ==
  ASSUME UNCHANGED <<rspFf, rdReq, rd, notifying>>
  PROVE  FlightLen' = FlightLen /\ Flight' = Flight /\ Open' = Open
<1>1. FlightLen' = FlightLen
  BY DEF FlightLen, Reading
<1>2. Flight' = Flight
  BY <1>1 DEF Flight
<1> QED BY <1>1, <1>2 DEF Open

-----------------------------------------------------------------------------
(* What the actions' proofs have in common. *)

\* Every queue has a type, and RAM places whose number divides the indices.
LEMMA NumType ==
  ASSUME NEW q \in Q
  PROVE  Typ[q] \in QTypes /\ Num(q) \in Nat \ {0} /\ IdxMod % Num(q) = 0
  BY AvailRingAssumption DEF Num

\* The pointers of a queue are indices.
LEMMA PtrType ==
  ASSUME TypeOK, NEW q \in Q
  PROVE  /\ idx[q] \in Idx /\ ui[q] \in Idx /\ pi[q] \in Idx /\ ci[q] \in Idx
         /\ used[q] \in Idx /\ got[q] \in Idx
  BY DEF TypeOK

\* The distances between the pointers of a queue.
LEMMA Distances ==
  ASSUME TypeOK, PtrInv, NEW q \in Q
  PROVE  /\ Minus(got[q], ci[q]) \in Nat /\ Minus(pi[q], ci[q]) \in Nat
         /\ Minus(ui[q], ci[q]) \in Nat
         /\ Minus(idx[q], ci[q]) \in Nat /\ Minus(idx[q], ci[q]) < IdxMod
         /\ Minus(pi[q], got[q]) = Minus(pi[q], ci[q]) - Minus(got[q], ci[q])
         /\ Minus(ui[q], pi[q]) = Minus(ui[q], ci[q]) - Minus(pi[q], ci[q])
         /\ Minus(ui[q], got[q]) = Minus(ui[q], ci[q]) - Minus(got[q], ci[q])
         /\ Minus(idx[q], pi[q]) = Minus(idx[q], ci[q]) - Minus(pi[q], ci[q])
         /\ Minus(idx[q], ui[q]) = Minus(idx[q], ci[q]) - Minus(ui[q], ci[q])
         /\ Minus(idx[q], got[q]) = Minus(idx[q], ci[q]) - Minus(got[q], ci[q])
         /\ Minus(got[q], used[q]) \in Nat
         /\ Minus(idx[q], used[q]) = Minus(idx[q], got[q]) + Minus(got[q], used[q])
<1>1. /\ idx[q] \in Idx /\ ui[q] \in Idx /\ pi[q] \in Idx /\ ci[q] \in Idx
      /\ used[q] \in Idx /\ got[q] \in Idx
  BY PtrType
<1>2. /\ Minus(got[q], ci[q]) <= Minus(pi[q], ci[q])
      /\ Minus(pi[q], ci[q]) <= Minus(ui[q], ci[q])
      /\ Minus(ui[q], ci[q]) <= Minus(idx[q], ci[q])
      /\ Minus(idx[q], got[q]) + Minus(got[q], used[q]) <= QDepth
  BY DEF PtrInv
<1>3. /\ Minus(got[q], ci[q]) \in Nat /\ Minus(pi[q], ci[q]) \in Nat /\ Minus(ui[q], ci[q]) \in Nat
      /\ Minus(idx[q], ci[q]) \in Nat /\ Minus(idx[q], ci[q]) < IdxMod
      /\ Minus(got[q], used[q]) \in Nat /\ Minus(idx[q], got[q]) \in Nat
  BY <1>1, MinusType
<1>4. /\ Minus(got[q], ci[q]) <= Minus(ui[q], ci[q])
      /\ Minus(pi[q], ci[q]) <= Minus(idx[q], ci[q])
      /\ Minus(got[q], ci[q]) <= Minus(idx[q], ci[q])
      /\ Minus(idx[q], got[q]) + Minus(got[q], used[q]) < IdxMod
  BY <1>2, <1>3, IdxModPos
<1>5. Minus(pi[q], got[q]) = Minus(pi[q], ci[q]) - Minus(got[q], ci[q])
  BY <1>1, <1>2, MinusFrom
<1>6. Minus(ui[q], pi[q]) = Minus(ui[q], ci[q]) - Minus(pi[q], ci[q])
  BY <1>1, <1>2, MinusFrom
<1>7. Minus(ui[q], got[q]) = Minus(ui[q], ci[q]) - Minus(got[q], ci[q])
  BY <1>1, <1>4, MinusFrom
<1>8. Minus(idx[q], pi[q]) = Minus(idx[q], ci[q]) - Minus(pi[q], ci[q])
  BY <1>1, <1>4, MinusFrom
<1>9. Minus(idx[q], ui[q]) = Minus(idx[q], ci[q]) - Minus(ui[q], ci[q])
  BY <1>1, <1>2, MinusFrom
<1>10. Minus(idx[q], got[q]) = Minus(idx[q], ci[q]) - Minus(got[q], ci[q])
  BY <1>1, <1>4, MinusFrom
<1>11. Minus(idx[q], used[q]) = Minus(idx[q], got[q]) + Minus(got[q], used[q])
  BY <1>1, <1>4, MinusAdd
<1> QED BY <1>3, <1>5, <1>6, <1>7, <1>8, <1>9, <1>10, <1>11

\* The oldest open read of a queue starts where its RAM is filled to.
LEMMA OldestFirst ==
  ASSUME TypeOK, FlightInv, 1 \in Open
  PROVE  Flight[1].ui = pi[Flight[1].q]
<1> DEFINE q == Flight[1].q
           x == Minus(ui[q], pi[q])
<1>1. q \in Q /\ Flight[1].ui \in Idx /\ Flight[1].num \in Nat
  BY FlightType DEF Open
<1>2. ui[q] \in Idx /\ pi[q] \in Idx /\ x \in Nat
  BY <1>1, PtrType, MinusType
<1>3. 1 <= Flight[1].num /\ Flight[1].num <= Rest(1) /\ Rest(1) <= x
  BY DEF FlightInv
<1>4. Rest(1) \in Nat
  BY <1>1, <1>2, MinusType DEF Rest
<1>5. x \in 1 .. x
  BY <1>1, <1>2, <1>3, <1>4
<1>6. PICK j \in Open : Flight[j].q = q /\ Rest(j) - Flight[j].num < x /\ x <= Rest(j)
  BY <1>1, <1>5 DEF FlightInv
<1>7. Flight[j].ui \in Idx /\ Rest(j) \in Nat
  BY <1>2, <1>6, FlightType, MinusType DEF Open, Rest
<1>8. Rest(j) = x
  <2>1. Rest(j) <= x
    BY <1>6 DEF FlightInv
  <2> QED BY <1>2, <1>6, <1>7, <2>1
<1>9. j = 1
  <2>1. SUFFICES ASSUME j # 1 PROVE FALSE
    OBVIOUS
  <2>2. 1 < j
    BY <2>1, FlightType DEF Open
  <2>3. Rest(j) + Flight[1].num <= Rest(1)
    BY <1>6, <2>2 DEF FlightInv
  <2> QED BY <1>1, <1>2, <1>3, <1>4, <1>8, <2>3
<1>10. Minus(ui[q], Flight[1].ui) = Minus(ui[q], pi[q])
  BY <1>8, <1>9 DEF Rest
<1>11. Flight[1].ui = pi[q]
  <2>1. Minus(ui[q], Minus(ui[q], Flight[1].ui)) = Flight[1].ui
    BY <1>1, <1>2, Back
  <2>2. Minus(ui[q], Minus(ui[q], pi[q])) = pi[q]
    BY <1>2, Back
  <2> QED BY <1>10, <2>1, <2>2
<1> QED BY <1>11

\* A queue whose reads are all in the RAM has none open.
LEMMA NoneOpen ==
  ASSUME TypeOK, FlightInv, NEW i \in Open
  PROVE  pi[Flight[i].q] # ui[Flight[i].q]
<1>1. Flight[i].q \in Q /\ Flight[i].ui \in Idx /\ Flight[i].num \in Nat
  BY FlightType DEF Open
<1>2. Minus(ui[Flight[i].q], pi[Flight[i].q]) \in Nat /\ Rest(i) \in Nat
  BY <1>1, PtrType, MinusType DEF Rest
<1>3. 1 <= Minus(ui[Flight[i].q], pi[Flight[i].q])
  BY <1>1, <1>2 DEF FlightInv
<1> QED BY <1>1, <1>2, <1>3, PtrType, MinusZero

\* Who asks has handed out as many entries as it counts.
LEMMA GotIs ==
  ASSUME TypeOK, AskInv, NEW t \in QTypes, NEW i \in DOMAIN ask[t], Carries(ask[t][i])
  PROVE  /\ ask[t][i].q \in Q /\ ask[t][i].cnt \in Nat /\ ask[t][i].num \in Nat
         /\ AvailIdx(ask[t][i]) = got[ask[t][i].q]
<1> DEFINE a == ask[t][i]
<1>1. a \in Asked
  BY DEF TypeOK
<1>2. a.q \in Q /\ a.cnt \in Nat /\ a.num \in Nat /\ a.ci \in Idx
  BY <1>1 DEF Asked
<1>3. Minus(got[a.q], a.ci) = a.cnt
  BY DEF AskInv, AskHolds
<1>4. (a.ci + a.cnt) % IdxMod = got[a.q]
  BY <1>2, <1>3, PtrType, Arrive
<1> QED BY <1>2, <1>4 DEF AvailIdx

\* So are those of a sample.
LEMMA SampleType ==
  ASSUME TypeOK, NEW i \in DOMAIN rd
  PROVE  rd[i].q \in Q /\ rd[i].ui \in Idx /\ rd[i].ci \in Idx
<1>1. rd \in Seq(RdSample)
  BY DEF TypeOK
<1>2. rd[i] \in RdSample
  BY <1>1, LenProperties, ElementOfSeq
<1> QED BY <1>2 DEF RdSample

\* What an action leaves alone keeps its part of the invariant.
LEMMA FlightInvKept ==
  ASSUME FlightInv, Flight' = Flight, Open' = Open, UNCHANGED <<ui, pi>>
  PROVE  FlightInv'
  BY DEF FlightInv, Rest

\* The pointers,
LEMMA PtrInvKept ==
  ASSUME PtrInv, UNCHANGED <<idx, ui, pi, ci, used, got>>
  PROVE  PtrInv'
  BY DEF PtrInv

\* the machines that hand entries out,
LEMMA AskInvKept ==
  ASSUME AskInv, UNCHANGED <<ask, status, pi, ci, got>>
  PROVE  AskInv'
  BY DEF AskInv, AskHolds, Carries, AvailIdx

\* the sample,
LEMMA SampleInvKept ==
  ASSUME SampleInv, UNCHANGED <<rd, status, idx, ui, ci, want>>
  PROVE  SampleInv'
  BY DEF SampleInv, SampleHolds

\* the status,
LEMMA StatusInvKept ==
  ASSUME StatusInv, UNCHANGED <<status, idx, ui, pi, ci, used, got>>,
         \A q \in Q : q \in want \cup serving => q \in want' \cup serving'
  PROVE  StatusInv'
  BY DEF StatusInv

\* the RAM,
LEMMA RamInvKept ==
  ASSUME RamInv, UNCHANGED <<ram, pi, ci>>
  PROVE  RamInv'
  BY DEF RamInv

\* and the answers.
LEMMA RspInvKept ==
  ASSUME RspInv, Open' = Open, UNCHANGED rspFf
  PROVE  RspInv'
  BY DEF RspInv

-----------------------------------------------------------------------------
(* Every step keeps the invariant. *)

\* After reset nothing is under way and no queue has entries.
LEMMA InitHolds ==
  ASSUME Init
  PROVE  IInv
<1> USE DEF Init
<1>1. 0 \in Idx /\ Minus(0, 0) = 0
  <2>1. 0 \in Idx
    BY IdxModPos DEF Idx
  <2> QED BY <2>1, MinusSelf
<1>2. FlightLen = 0 /\ Open = {}
  BY DEF FlightLen, Open, Reading
<1>3. TypeOK
  <2>1. \A p \in {idx, ui, pi, ci, used, got} : p \in [Q -> Idx]
    BY <1>1
  <2>2. \A q \in Q : ram[q] \in [0 .. Num(q) - 1 -> Idx \cup {Junk}]
    OBVIOUS
  <2>3. 0 <= OrderPfull
    BY AvailRingAssumption
  <2>4. /\ rd \in Seq(RdSample) /\ Len(rd) <= 1 /\ rdReq \in Seq(Read) /\ orderFf \in Seq(Q)
        /\ Len(orderFf) <= OrderPfull /\ rspFf \in Seq(Rsp)
    BY <2>3
  <2>5. ask \in [QTypes -> Seq(Asked)] /\ \A t \in QTypes : Len(ask[t]) <= 1
    OBVIOUS
  <2>6. status \in [Q -> Statuses]
    BY DEF Statuses
  <2> QED BY <2>1, <2>2, <2>4, <2>5, <2>6 DEF TypeOK, Sch!TypeOK
<1>4. FlightInv
  BY <1>1, <1>2 DEF FlightInv
<1>5. FifoInv
  BY DEF FifoInv
<1>6. PtrInv
  BY <1>1, NumType, IdxModPos DEF PtrInv
<1>7. AskInv
  BY DEF AskInv
<1>8. SampleInv
  BY DEF SampleInv
<1>9. StatusInv
  BY DEF StatusInv, Running
<1>10. RamInv
  BY <1>1, MinusType DEF RamInv
<1>11. RspInv
  BY DEF RspInv
<1> QED BY <1>3, <1>4, <1>5, <1>6, <1>7, <1>8, <1>9, <1>10, <1>11 DEF IInv

\* A post finds room in the ring and, with what a machine has handed out and not
\* yet counted, below the wrap of the indices.
LEMMA PostHolds ==
  ASSUME IInv, NEW q \in Q, Post(q)
  PROVE  IInv'
<1> USE DEF IInv
<1>1. /\ status[q] = "DOING" /\ Minus(idx[q], used[q]) < QDepth
      /\ idx' = [idx EXCEPT ![q] = (@ + 1) % IdxMod]
      /\ want' = want \cup {q} /\ serving' = serving
      /\ UNCHANGED <<status, ui, pi, ci, used, rd, rspFf, rdReq, orderFf, notifying, ram, ask, got>>
  BY DEF Post, Sch!Request, rspVars
<1>2. FlightLen' = FlightLen /\ Flight' = Flight /\ Open' = Open
  BY <1>1, FlightKept
<1>3. /\ idx[q] \in Idx /\ ui[q] \in Idx /\ ci[q] \in Idx /\ got[q] \in Idx /\ pi[q] \in Idx
      /\ Minus(idx[q], ci[q]) \in Nat /\ Minus(got[q], ci[q]) \in Nat
      /\ Minus(ui[q], ci[q]) \in Nat
      /\ Minus(idx[q], ui[q]) = Minus(idx[q], ci[q]) - Minus(ui[q], ci[q])
      /\ Minus(idx[q], got[q]) = Minus(idx[q], ci[q]) - Minus(got[q], ci[q])
      /\ Minus(got[q], used[q]) \in Nat
      /\ Minus(idx[q], used[q]) = Minus(idx[q], got[q]) + Minus(got[q], used[q])
  BY PtrType, Distances
<1>4. Minus(got[q], ci[q]) <= Nid[Typ[q]]
  <2>1. CASE got[q] = ci[q]
    BY <1>3, <2>1, MinusSelf, AvailRingAssumption
  <2>2. CASE got[q] # ci[q]
    <3>1. PICK i \in DOMAIN ask[Typ[q]] : ask[Typ[q]][i].q = q /\ Carries(ask[Typ[q]][i])
      BY <2>2 DEF AskInv
    <3>2. /\ ask[Typ[q]][i].cnt \in Nat /\ ask[Typ[q]][i].num \in Nat
      BY <3>1, GotIs, NumType
    <3>3. /\ Minus(got[q], ci[q]) = ask[Typ[q]][i].cnt
          /\ ask[Typ[q]][i].cnt <= ask[Typ[q]][i].num /\ ask[Typ[q]][i].num <= Nid[Typ[q]]
      BY <3>1, NumType DEF AskInv, AskHolds
    <3> QED BY <3>2, <3>3, NumType, AvailRingAssumption
  <2> QED BY <2>1, <2>2
<1>5. /\ Minus(idx[q], ci[q]) + 1 < IdxMod
      /\ Minus(idx[q], ui[q]) + 1 < IdxMod
      /\ Minus(idx[q], got[q]) + 1 < IdxMod
  <2>1. Nid[Typ[q]] \in Nat /\ QDepth + Nid[Typ[q]] < IdxMod
    BY NumType, AvailRingAssumption
  <2> QED BY <1>1, <1>3, <1>4, <2>1, IdxModPos
<1>6. idx'[q] = (idx[q] + 1) % IdxMod /\ \A o \in Q : o # q => idx'[o] = idx[o]
  BY <1>1 DEF TypeOK
<1>7. /\ idx'[q] \in Idx
      /\ Minus(idx'[q], ci[q]) = Minus(idx[q], ci[q]) + 1
      /\ Minus(idx'[q], ui[q]) = Minus(idx[q], ui[q]) + 1
      /\ Minus(idx'[q], got[q]) = Minus(idx[q], got[q]) + 1
  BY <1>3, <1>5, <1>6, Ahead
<1>8. TypeOK'
  BY <1>1, <1>3, <1>7 DEF TypeOK, Sch!TypeOK
<1>9. FlightInv'
  BY <1>1, <1>2, FlightInvKept
<1>10. FifoInv'
  BY <1>1, <1>2 DEF FifoInv
<1>11. PtrInv'
  <2>1. ASSUME NEW o \in Q
        PROVE  /\ Minus(got[o], ci[o]) <= Minus(pi[o], ci[o])
               /\ Minus(pi[o], ci[o]) <= Minus(ui[o], ci[o])
               /\ Minus(ui[o], ci[o]) <= Minus(idx'[o], ci[o])
               /\ Minus(ui[o], ci[o]) <= Num(o)
               /\ Minus(idx'[o], got[o]) + Minus(got[o], used[o]) <= QDepth
    <3>1. CASE o = q
      BY <1>1, <1>3, <1>7, <3>1, IdxModPos DEF PtrInv
    <3>2. CASE o # q
      BY <1>6, <3>2 DEF PtrInv
    <3> QED BY <3>1, <3>2
  <2> QED BY <1>1, <2>1 DEF PtrInv
<1>12. AskInv'
  BY <1>1, AskInvKept
<1>13. SampleInv'
  <2>1. ASSUME NEW i \in DOMAIN rd PROVE SampleHolds(rd[i])'
    <3> DEFINE s == rd[i]
    <3>1. s \in RdSample
      BY DEF TypeOK
    <3>2. SampleHolds(s)
      BY DEF SampleInv
    <3>3. CASE s.q = q
      <4>1. Minus(s.idx, s.ui) \in Nat
        BY <3>1, MinusType DEF RdSample
      <4> QED BY <1>1, <1>3, <1>7, <3>1, <3>2, <3>3, <4>1 DEF SampleHolds, RdSample
    <3>4. CASE s.q # q
      <4>1. idx'[s.q] = idx[s.q]
        BY <1>6, <3>1, <3>4 DEF RdSample
      <4> QED BY <1>1, <3>2, <4>1 DEF SampleHolds
    <3> QED BY <3>3, <3>4
  <2> QED BY <1>1, <2>1 DEF SampleInv
<1>14. StatusInv'
  <2>1. ASSUME NEW o \in Q, o # q PROVE idx'[o] = idx[o]
    BY <1>6, <2>1
  <2> QED BY <1>1, <2>1 DEF StatusInv
<1>15. RamInv'
  BY <1>1, RamInvKept
<1>16. RspInv'
  BY <1>1, <1>2, RspInvKept
<1> QED BY <1>8, <1>9, <1>10, <1>11, <1>12, <1>13, <1>14, <1>15, <1>16

\* The sample is taken whole: it is as old as the context.
LEMMA RdCtxHolds ==
  ASSUME IInv, NEW q \in Q, RdCtx(q)
  PROVE  IInv'
<1> USE DEF IInv
<1> DEFINE s == [q |-> q, st |-> "JUDGE", status |-> status[q],
                 idx |-> idx[q], ui |-> ui[q], ci |-> ci[q], num |-> 0]
<1>1. /\ rd = <<>> /\ Len(orderFf) < OrderPfull /\ rd' = <<s>>
      /\ serving' = serving \cup {q} /\ want' \in {want, want \ {q}} /\ q \in want
      /\ UNCHANGED <<status, idx, ui, pi, ci, used, rspFf, rdReq, orderFf, notifying, ram, ask, got>>
  BY DEF RdCtx, Sch!Take, rspVars, ptrs
<1>2. FlightLen' = FlightLen /\ Flight' = Flight /\ Open' = Open
  <2>1. ~ Reading /\ ~ Reading'
    BY <1>1 DEF Reading
  <2>2. FlightLen' = FlightLen
    BY <1>1, <2>1 DEF FlightLen
  <2>3. /\ Len(rspFf) \in Nat /\ Len(rdReq) \in Nat
    BY DEF TypeOK
  <2>4. \A i \in 1 .. FlightLen : i <= Len(rspFf) + Len(rdReq)
    BY <2>1, <2>3 DEF FlightLen
  <2>5. Flight' = Flight
    BY <1>1, <2>2, <2>4 DEF Flight
  <2> QED BY <1>1, <2>2, <2>5 DEF Open
<1>3. s \in RdSample
  BY PtrType, IdxModPos DEF RdSample, TypeOK
<1>4. TypeOK'
  BY <1>1, <1>3 DEF TypeOK, Sch!TypeOK
<1>5. FlightInv'
  BY <1>1, <1>2, FlightInvKept
<1>6. FifoInv'
  BY <1>1, <1>2 DEF FifoInv
<1>7. PtrInv'
  BY <1>1, PtrInvKept
<1>8. AskInv'
  BY <1>1, AskInvKept
<1>9. SampleInv'
  <2>1. SampleHolds(s)'
    <3>1. /\ Minus(ui[q], ci[q]) \in Nat /\ Minus(idx[q], ui[q]) \in Nat
      BY PtrType, MinusType
    <3>2. s' = s
      BY <1>1
    <3>3. s.q = q /\ s.status = status[q] /\ s.idx = idx[q] /\ s.ui = ui[q] /\ s.ci = ci[q]
      OBVIOUS
    <3> HIDE DEF s
    <3> QED BY <1>1, <3>1, <3>2, <3>3 DEF SampleHolds, NotifyRspDone, Running
  <2>2. \A i \in DOMAIN rd' : rd'[i] = s
    BY <1>1
  <2> QED BY <1>1, <2>1, <2>2 DEF SampleInv
<1>10. StatusInv'
  BY <1>1, StatusInvKept
<1>11. RamInv'
  BY <1>1, RamInvKept
<1>12. RspInv'
  BY <1>1, <1>2, RspInvKept
<1> QED BY <1>4, <1>5, <1>6, <1>7, <1>8, <1>9, <1>10, <1>11, <1>12

\* The machine that reads works on one queue.
LEMMA RdOne ==
  ASSUME TypeOK, rd # <<>>
  PROVE  DOMAIN rd = {1} /\ rd[1] \in RdSample
<1> DEFINE l == Len(rd)
<1>1. rd \in Seq(RdSample)
  BY DEF TypeOK
<1>2. l <= 1
  BY DEF TypeOK
<1>3. l \in Nat \ {0}
  BY <1>1, EmptySeq, Zenon
<1>4. DOMAIN rd = 1 .. l /\ \A i \in 1 .. l : rd[i] \in RdSample
  BY <1>1, LenProperties, ElementOfSeq
<1> HIDE DEF l
<1>5. l = 1
  BY <1>2, <1>3
<1> QED BY <1>4, <1>5

\* A grant is not empty and has room, in the RAM and in the ring.
LEMMA Grant ==
  ASSUME NEW s \in RdSample, ~ NoRead(s)
  PROVE  /\ RdNum(s) \in Nat /\ 1 <= RdNum(s) /\ RdNum(s) <= Minus(s.idx, s.ui)
         /\ RdNum(s) + Minus(s.ui, s.ci) <= Num(s.q)
         /\ (s.ui % QDepth) + RdNum(s) <= QDepth
<1> DEFINE n == Num(s.q)
           h == Num(s.q) \div 2
           have == Minus(s.ui, s.ci)
           avail == Minus(s.idx, s.ui)
           at == s.ui % QDepth
<1>1. s.q \in Q /\ s.idx \in Idx /\ s.ui \in Idx /\ s.ci \in Idx
  BY DEF RdSample
<1>2. n \in Nat \ {0}
  BY <1>1, NumType
<1>3. h \in Nat /\ 2 * h <= n
  BY <1>2
<1>4. have \in Nat /\ avail \in Nat
  BY <1>1, MinusType
<1>5. at \in 0 .. QDepth - 1
  BY <1>1, IdxModPos DEF Idx
<1>6. avail # 0 /\ have <= h
  BY <1>1, <1>4, <1>3, MinusZero DEF NoRead
<1>7. /\ RamRestNum(s) = IF Typ[s.q] # "BLK" /\ have < h THEN h ELSE n - have
  BY DEF RamRestNum
<1> HIDE DEF n, h, have, avail, at
<1>8. RamRestNum(s) \in Nat /\ 1 <= RamRestNum(s) /\ RamRestNum(s) + have <= n
  BY <1>2, <1>3, <1>4, <1>6, <1>7
<1>9. RdNumPre(s) = IF avail > RamRestNum(s) THEN RamRestNum(s) ELSE avail
  BY DEF RdNumPre, avail
<1>10. RdNumPre(s) \in Nat /\ 1 <= RdNumPre(s) /\ RdNumPre(s) <= avail /\ RdNumPre(s) + have <= n
  BY <1>2, <1>4, <1>6, <1>8, <1>9
<1>11. RdNum(s) = IF at + RdNumPre(s) > QDepth THEN QDepth - at ELSE RdNumPre(s)
  BY DEF RdNum, at
<1>12. /\ RdNum(s) \in Nat /\ 1 <= RdNum(s) /\ RdNum(s) <= avail
       /\ RdNum(s) + have <= n /\ at + RdNum(s) <= QDepth
  BY <1>2, <1>4, <1>5, <1>10, <1>11, IdxModPos
<1> QED BY <1>12 DEF n, have, avail, at

\* Without a grant only the state of the machine changes.
LEMMA NoReadHolds ==
  ASSUME IInv, NEW s \in RdSample, rd # <<>>, DOMAIN rd = {1}, rd[1] = s, Judge, NoRead(s)
  PROVE  IInv'
<1> USE DEF IInv
<1> DEFINE n == [s EXCEPT !.st = "NO_RD"]
<1>1. /\ s.st = "JUDGE" /\ rd' = <<n>>
      /\ UNCHANGED <<status, idx, ui, pi, ci, used, want, serving, rspFf, rdReq, orderFf,
                     notifying, ram, ask, got>>
  BY DEF Judge, rspVars, schVars
<1>2. DOMAIN rd = {1} /\ rd[1] = s
  OBVIOUS
<1>3. /\ n \in RdSample /\ n.st = "NO_RD" /\ n.q = s.q /\ n.status = s.status
      /\ n.idx = s.idx /\ n.ui = s.ui
  BY DEF RdSample
<1> HIDE DEF n
<1>4. FlightLen' = FlightLen /\ Flight' = Flight /\ Open' = Open
  <2>1. ~ Reading /\ ~ Reading'
    BY <1>1, <1>3 DEF Reading
  <2>2. FlightLen' = FlightLen
    BY <1>1, <2>1 DEF FlightLen
  <2>3. /\ Len(rspFf) \in Nat /\ Len(rdReq) \in Nat
    BY DEF TypeOK
  <2>4. \A i \in 1 .. FlightLen : i <= Len(rspFf) + Len(rdReq)
    BY <2>1, <2>3 DEF FlightLen
  <2>5. Flight' = Flight
    BY <1>1, <2>2, <2>4 DEF Flight
  <2> QED BY <1>1, <2>2, <2>5 DEF Open
<1>5. TypeOK'
  BY <1>1, <1>3 DEF TypeOK, Sch!TypeOK
<1>6. FlightInv'
  BY <1>1, <1>4, FlightInvKept
<1>7. FifoInv'
  BY <1>1, <1>4 DEF FifoInv
<1>8. PtrInv'
  BY <1>1, PtrInvKept
<1>9. AskInv'
  BY <1>1, AskInvKept
<1>10. SampleInv'
  <2>1. SampleHolds(s)
    BY <1>2 DEF SampleInv
  <2>2. NotifyRspDone(n) <=> NotifyRspDone(s)
    BY <1>3 DEF NotifyRspDone
  <2>3. SampleHolds(n)'
    BY <1>1, <1>3, <2>1, <2>2 DEF SampleHolds
  <2>4. \A i \in DOMAIN rd' : rd'[i] = n
    BY <1>1
  <2> QED BY <1>1, <2>3, <2>4 DEF SampleInv
<1>11. StatusInv'
  BY <1>1, StatusInvKept
<1>12. RamInv'
  BY <1>1, RamInvKept
<1>13. RspInv'
  BY <1>1, <1>4, RspInvKept
<1> QED BY <1>5, <1>6, <1>7, <1>8, <1>9, <1>10, <1>11, <1>12, <1>13

\* The sample may be behind avail_idx and avail_ci, never ahead: what is granted on
\* it fits, and the new read starts where the last one ended.
LEMMA GrantHolds ==
  ASSUME IInv, NEW s \in RdSample, rd # <<>>, DOMAIN rd = {1}, rd[1] = s, Judge, ~ NoRead(s)
  PROVE  IInv'
<1> USE DEF IInv
<1>k. PICK k : k = FlightLen + 1
  OBVIOUS
<1> DEFINE q == s.q
           num == RdNum(s)
           n == [s EXCEPT !.st = "RD_RING_ID", !.num = num]
<1>1. /\ s.st = "JUDGE" /\ rd' = <<n>>
      /\ ui' = [ui EXCEPT ![q] = (s.ui + num) % IdxMod]
      /\ UNCHANGED <<status, idx, pi, ci, used, want, serving, rspFf, rdReq, orderFf,
                     notifying, ram, ask, got>>
  BY DEF Judge, rspVars, schVars
<1>2. DOMAIN rd = {1} /\ rd[1] = s /\ q \in Q
  BY DEF RdSample
<1>3. /\ num \in Nat /\ 1 <= num /\ num <= Minus(s.idx, s.ui)
      /\ num + Minus(s.ui, s.ci) <= Num(q) /\ (s.ui % QDepth) + num <= QDepth
  BY <1>2, Grant
<1>4. n.num = num /\ n.st = "RD_RING_ID" /\ n.q = q /\ n.ui = s.ui /\ n.idx = s.idx /\ n.status = s.status
  BY <1>2 DEF RdSample
<1>5. n \in RdSample
  <2>1. s.ui % QDepth \in 0 .. QDepth - 1
    BY <1>2, IdxModPos DEF RdSample, Idx
  <2>2. num \in 0 .. QDepth
    BY <1>3, <2>1, IdxModPos
  <2> QED BY <1>2, <2>2 DEF RdSample
<1>6. /\ s.status = "DOING" /\ s.idx # s.ui
      /\ status[q] \in Running /\ s.ui = ui[q]
      /\ Minus(ui[q], ci[q]) <= Minus(s.ui, s.ci)
      /\ Minus(s.idx, s.ui) <= Minus(idx[q], ui[q])
  <2>1. s.status = "DOING" /\ s.idx # s.ui
    BY DEF NoRead
  <2>2. SampleHolds(s)
    BY <1>2 DEF SampleInv
  <2> QED BY <1>1, <2>1, <2>2 DEF SampleHolds
<1> HIDE DEF n, num
<1>7. /\ ui[q] \in Idx /\ pi[q] \in Idx /\ ci[q] \in Idx /\ idx[q] \in Idx
      /\ Minus(ui[q], pi[q]) = Minus(ui[q], ci[q]) - Minus(pi[q], ci[q])
      /\ Minus(idx[q], ui[q]) = Minus(idx[q], ci[q]) - Minus(ui[q], ci[q])
      /\ Minus(ui[q], ci[q]) \in Nat /\ Minus(pi[q], ci[q]) \in Nat
      /\ Minus(idx[q], ci[q]) \in Nat /\ Minus(idx[q], ci[q]) < IdxMod
      /\ Minus(s.idx, s.ui) \in Nat /\ Minus(s.ui, s.ci) \in Nat
      /\ Minus(pi[q], ci[q]) <= Minus(ui[q], ci[q])
  BY <1>2, PtrType, Distances, MinusType DEF RdSample, PtrInv
<1>8. num <= Minus(idx[q], ui[q]) /\ num + Minus(ui[q], ci[q]) <= Num(q)
  BY <1>2, <1>3, <1>6, <1>7, NumType
<1>9. Minus(ui[q], ci[q]) + num < IdxMod
  BY <1>3, <1>7, <1>8, IdxModPos
<1>10. ui'[q] = (ui[q] + num) % IdxMod /\ \A o \in Q : o # q => ui'[o] = ui[o]
  BY <1>1, <1>2, <1>6 DEF TypeOK
\* How far things are from the new place up to which reads are issued.
<1>11. ASSUME NEW b \in Idx, Minus(ui[q], b) <= Minus(ui[q], ci[q])
       PROVE  Minus(ui'[q], b) = Minus(ui[q], b) + num
  <2>1. Minus(ui[q], b) \in Nat
    BY <1>7, MinusType
  <2>2. Minus(ui[q], b) + num < IdxMod
    BY <1>3, <1>7, <1>9, <1>11, <2>1, IdxModPos
  <2> QED BY <1>3, <1>7, <1>10, <2>2, Ahead
<1>12. /\ ui'[q] \in Idx /\ Minus(ui'[q], ui[q]) = num
  <2>1. Minus(ui[q], ui[q]) = 0
    BY <1>7, MinusSelf
  <2>2. num < IdxMod
    BY <1>3, <1>7, <1>9, IdxModPos
  <2> QED BY <1>3, <1>7, <1>10, <2>2, Reach
<1>13. /\ Minus(ui'[q], ci[q]) = Minus(ui[q], ci[q]) + num
       /\ Minus(ui'[q], pi[q]) = Minus(ui[q], pi[q]) + num
  BY <1>7, <1>11
<1>14. Minus(idx[q], ui'[q]) = Minus(idx[q], ui[q]) - num
  BY <1>3, <1>7, <1>8, <1>10, Towards
\* The new read is the last one.
<1>15. /\ FlightLen \in Nat /\ FlightLen' = k
       /\ \A i \in 1 .. FlightLen : Flight'[i] = Flight[i]
       /\ Flight'[k] = [q |-> q, ui |-> ui[q], num |-> num]
       /\ Open' = Open \cup {k}
  <2>1. ~ Reading /\ Reading'
    BY <1>1, <1>4 DEF Reading
  <2>2. Len(rspFf) \in Nat /\ Len(rdReq) \in Nat
    BY DEF TypeOK
  <2>3. FlightLen \in Nat /\ FlightLen = Len(rspFf) + Len(rdReq) /\ FlightLen' = k
    BY <1>1, <1>k, <2>1, <2>2 DEF FlightLen
  <2>4. ASSUME NEW i \in 1 .. FlightLen PROVE Flight'[i] = Flight[i]
    BY <1>1, <1>k, <2>2, <2>3, <2>4 DEF Flight
  <2>5. Flight'[k] = [q |-> q, ui |-> ui[q], num |-> num]
    <3>1. Flight'[k] = [q |-> rd'[1].q, ui |-> rd'[1].ui, num |-> rd'[1].num]
      BY <1>1, <1>k, <2>2, <2>3 DEF Flight
    <3> QED BY <1>1, <1>4, <1>6, <3>1
  <2>6. Open' = Open \cup {k}
    <3>1. notifying => FlightLen >= 1
      BY <2>2, <2>3 DEF FifoInv, TypeOK
    <3> QED BY <1>1, <1>k, <2>3, <3>1 DEF Open
  <2> QED BY <2>3, <2>4, <2>5, <2>6
<1>16. TypeOK'
  <2>1. ui' \in [Q -> Idx]
    BY <1>1, <1>2, <1>10, <1>12 DEF TypeOK
  <2>2. rd' \in Seq(RdSample) /\ Len(rd') <= 1
    BY <1>1, <1>5
  <2> QED BY <1>1, <2>1, <2>2 DEF TypeOK, Sch!TypeOK
<1>17. \A i \in Open : Flight'[i] = Flight[i] /\ i < k /\ i \in 1 .. FlightLen
  BY <1>15, <1>k DEF Open
<1>18. ASSUME NEW i \in Open
       PROVE  /\ Flight[i].q \in Q /\ Flight[i].num \in Nat /\ Rest(i) \in Nat
              /\ 1 <= Flight[i].num /\ Flight[i].num <= Rest(i)
              /\ Rest(i) <= Minus(ui[Flight[i].q], pi[Flight[i].q])
              /\ (Flight[i].ui % QDepth) + Flight[i].num <= QDepth
              /\ Rest(i)' = IF Flight[i].q = q THEN Rest(i) + num ELSE Rest(i)
  <2>1. /\ Flight[i].q \in Q /\ Flight[i].num \in Nat /\ Flight[i].ui \in Idx
    BY <1>17, FlightType
  <2>2. Rest(i) \in Nat
    BY <2>1, PtrType, MinusType DEF Rest
  <2>3. /\ 1 <= Flight[i].num /\ Flight[i].num <= Rest(i)
        /\ Rest(i) <= Minus(ui[Flight[i].q], pi[Flight[i].q])
        /\ (Flight[i].ui % QDepth) + Flight[i].num <= QDepth
    BY DEF FlightInv
  <2>4. Rest(i)' = Minus(ui'[Flight[i].q], Flight[i].ui)
    BY <1>17 DEF Rest
  <2>5. CASE Flight[i].q = q
    <3>1. Minus(ui[q], Flight[i].ui) <= Minus(ui[q], ci[q])
      BY <1>7, <2>2, <2>3, <2>5 DEF Rest
    <3> QED BY <1>11, <2>1, <2>2, <2>3, <2>4, <2>5, <3>1 DEF Rest
  <2>6. CASE Flight[i].q # q
    BY <1>10, <2>1, <2>2, <2>3, <2>4, <2>6 DEF Rest
  <2> QED BY <2>5, <2>6
<1>19. Rest(k)' = num /\ Flight'[k].q = q /\ Flight'[k].num = num /\ Flight'[k].ui = ui[q]
  BY <1>12, <1>15 DEF Rest
<1>20. FlightInv'
  <2>1. ASSUME NEW i \in Open'
        PROVE  /\ 1 <= Flight'[i].num /\ Flight'[i].num <= Rest(i)'
               /\ Rest(i)' <= Minus(ui'[Flight'[i].q], pi'[Flight'[i].q])
               /\ (Flight'[i].ui % QDepth) + Flight'[i].num <= QDepth
    <3>1. CASE i = k
      BY <1>1, <1>3, <1>6, <1>7, <1>13, <1>19, <3>1
    <3>2. CASE i \in Open /\ Flight[i].q = q
      <4>1. Flight'[i] = Flight[i] /\ Rest(i)' = Rest(i) + num
        BY <1>17, <1>18, <3>2
      <4>2. Minus(ui'[q], pi'[q]) = Minus(ui[q], pi[q]) + num
        BY <1>1, <1>13
      <4>3. Minus(ui[q], pi[q]) \in Nat
        BY <1>7
      <4> QED BY <1>3, <1>18, <3>2, <4>1, <4>2, <4>3
    <3>3. CASE i \in Open /\ Flight[i].q # q
      BY <1>1, <1>10, <1>17, <1>18, <3>3
    <3> QED BY <1>15, <3>1, <3>2, <3>3
  <2>2. ASSUME NEW i \in Open', NEW j \in Open', i < j, Flight'[i].q = Flight'[j].q
        PROVE  Rest(j)' + Flight'[i].num <= Rest(i)'
    <3>1. i \in Open /\ i # k
      BY <1>15, <1>17, <1>k, <2>2
    <3>2. CASE j = k
      BY <1>3, <1>17, <1>18, <1>19, <2>2, <3>1, <3>2
    <3>3. CASE j \in Open
      <4>1. Rest(j) + Flight[i].num <= Rest(i)
        BY <1>17, <2>2, <3>1, <3>3 DEF FlightInv
      <4> QED BY <1>3, <1>17, <1>18, <2>2, <3>1, <3>3, <4>1
    <3> QED BY <1>15, <3>2, <3>3
  <2>3. ASSUME NEW o \in Q, NEW x \in 1 .. Minus(ui'[o], pi[o])
        PROVE  \E i \in Open' : Flight'[i].q = o /\ Rest(i)' - Flight'[i].num < x /\ x <= Rest(i)'
    <3>1. CASE o = q /\ x <= num
      BY <1>3, <1>15, <1>19, <3>1
    <3>2. CASE o = q /\ num < x
      <4>1. x - num \in 1 .. Minus(ui[q], pi[q])
        BY <1>3, <1>7, <1>13, <2>3, <3>2
      <4>2. PICK i \in Open : Flight[i].q = q /\ Rest(i) - Flight[i].num < x - num /\ x - num <= Rest(i)
        BY <1>2, <4>1 DEF FlightInv
      <4>3. Rest(i)' - Flight'[i].num < x /\ x <= Rest(i)' /\ Flight'[i].q = q
        BY <1>3, <1>17, <1>18, <4>2
      <4> QED BY <1>15, <3>2, <4>3
    <3>3. CASE o # q
      <4>1. x \in 1 .. Minus(ui[o], pi[o])
        BY <1>10, <3>3
      <4>2. PICK i \in Open : Flight[i].q = o /\ Rest(i) - Flight[i].num < x /\ x <= Rest(i)
        BY <4>1 DEF FlightInv
      <4>3. Rest(i)' - Flight'[i].num < x /\ x <= Rest(i)' /\ Flight'[i].q = o
        BY <1>17, <1>18, <3>3, <4>2
      <4> QED BY <1>15, <4>3
    <3>4. num < x \/ x <= num
      BY <1>3
    <3> QED BY <3>1, <3>2, <3>3, <3>4
  <2>4. pi' = pi
    BY <1>1
  <2> QED BY <2>1, <2>2, <2>3, <2>4 DEF FlightInv
<1>21. FifoInv'
  <2>1. \A i \in DOMAIN orderFf : i \in 1 .. FlightLen
    BY DEF FifoInv, TypeOK, FlightLen
  <2> QED BY <1>1, <1>15, <2>1 DEF FifoInv
<1>22. PtrInv'
  <2>1. ASSUME NEW o \in Q
        PROVE  /\ Minus(got[o], ci[o]) <= Minus(pi[o], ci[o])
               /\ Minus(pi[o], ci[o]) <= Minus(ui'[o], ci[o])
               /\ Minus(ui'[o], ci[o]) <= Minus(idx[o], ci[o])
               /\ Minus(ui'[o], ci[o]) <= Num(o)
               /\ Minus(idx[o], got[o]) + Minus(got[o], used[o]) <= QDepth
    <3>1. CASE o = q
      BY <1>3, <1>7, <1>8, <1>13, <3>1, NumType DEF PtrInv
    <3>2. CASE o # q
      BY <1>10, <3>2 DEF PtrInv
    <3> QED BY <3>1, <3>2
  <2> QED BY <1>1, <2>1 DEF PtrInv
<1>23. AskInv'
  BY <1>1, AskInvKept
<1>24. SampleInv'
  <2>1. SampleHolds(n)'
    BY <1>1, <1>4, <1>6 DEF SampleHolds, NotifyRspDone
  <2>2. \A i \in DOMAIN rd' : rd'[i] = n
    BY <1>1
  <2> QED BY <1>1, <2>1, <2>2 DEF SampleInv
<1>25. StatusInv'
  <2>1. ui[q] # idx[q]
    <3>1. 1 <= Minus(idx[q], ui[q])
      BY <1>3, <1>7, <1>8
    <3> QED BY <1>7, <3>1, MinusZero
  <2>2. q \in want \cup serving
    BY <1>2, <1>6, <2>1 DEF StatusInv
  <2> QED BY <1>1, <1>6, <1>10, <2>2 DEF StatusInv, Running
<1>26. RamInv'
  BY <1>1, RamInvKept
<1>27. RspInv'
  <2>1. \A i \in DOMAIN rspFf : i # k
    <3>1. Len(rspFf) \in Nat /\ Len(rdReq) \in Nat /\ DOMAIN rspFf = 1 .. Len(rspFf)
      BY DEF TypeOK
    <3> QED BY <1>15, <1>k, <3>1 DEF FlightLen
  <2> QED BY <1>1, <1>15, <2>1 DEF RspInv
<1> QED BY <1>16, <1>20, <1>21, <1>22, <1>23, <1>24, <1>25, <1>26, <1>27

\* The queue is given back; if the engine was done with it on an old avail_idx, the
\* post since then has asked again.
LEMMA RdAnswerHolds ==
  ASSUME IInv, NEW s \in RdSample, rd # <<>>, DOMAIN rd = {1}, rd[1] = s, RdAnswer
  PROVE  IInv'
<1> USE DEF IInv
<1> DEFINE r == [q |-> s.q, ui |-> s.ui, num |-> s.num]
<1>1. /\ rd' = <<>> /\ s.q \in serving /\ serving' = serving \ {s.q}
      /\ want' = IF NotifyRspDone(s) THEN want ELSE want \cup {s.q}
      /\ IF s.st = "RD_RING_ID" THEN rdReq' = Append(rdReq, r) /\ orderFf' = Append(orderFf, s.q)
         ELSE rdReq' = rdReq /\ orderFf' = orderFf
      /\ UNCHANGED <<status, idx, ui, pi, ci, used, rspFf, notifying, ram, ask, got>>
  BY DEF RdAnswer, Sch!Release, ptrs
<1>2. FlightLen' = FlightLen /\ Flight' = Flight /\ Open' = Open
  BY FlightAnswered
<1>3. rspFf \in Seq(Rsp) /\ rdReq \in Seq(Read) /\ orderFf \in Seq(Q)
  BY DEF TypeOK
<1>4. /\ Len(rspFf) \in Nat /\ Len(rdReq) \in Nat /\ Len(orderFf) \in Nat
      /\ DOMAIN orderFf = 1 .. Len(orderFf)
      /\ Len(orderFf) = Len(rspFf) + Len(rdReq) /\ Len(orderFf) < OrderPfull
  BY <1>3 DEF FifoInv
<1>5. r \in Read /\ s.q \in Q
  BY DEF RdSample, Read
<1>8. FifoInv' /\ rdReq' \in Seq(Read) /\ orderFf' \in Seq(Q) /\ Len(orderFf') <= OrderPfull
  <2>1. CASE s.st = "RD_RING_ID"
    <3>1. /\ rdReq' \in Seq(Read) /\ Len(rdReq') = Len(rdReq) + 1
          /\ orderFf' \in Seq(Q) /\ Len(orderFf') = Len(orderFf) + 1
          /\ DOMAIN orderFf' = 1 .. Len(orderFf) + 1
          /\ \A i \in 1 .. Len(orderFf) : orderFf'[i] = orderFf[i]
          /\ orderFf'[Len(orderFf) + 1] = s.q
      <4>1. rdReq' = Append(rdReq, r) /\ orderFf' = Append(orderFf, s.q)
        BY <1>1, <2>1
      <4>2. rdReq' \in Seq(Read) /\ Len(rdReq') = Len(rdReq) + 1
        BY <1>3, <1>5, <4>1, AppendProperties
      <4>3. /\ orderFf' \in Seq(Q) /\ Len(orderFf') = Len(orderFf) + 1
            /\ \A i \in 1 .. Len(orderFf) : orderFf'[i] = orderFf[i]
            /\ orderFf'[Len(orderFf) + 1] = s.q
        BY <1>3, <1>5, <4>1, AppendProperties
      <4> QED BY <4>2, <4>3
    <3>2. Flight[Len(orderFf) + 1].q = s.q
      <4>1. Reading
        BY <2>1 DEF Reading
      <4>2. Flight[Len(orderFf) + 1] = [q |-> rd[1].q, ui |-> rd[1].ui, num |-> rd[1].num]
        BY <1>4, <4>1 DEF Flight, FlightLen
      <4> QED BY <4>2
    <3>3. FifoInv'
      <4>1. Len(orderFf') = Len(rspFf') + Len(rdReq')
        BY <1>1, <1>4, <3>1
      <4>2. \A i \in DOMAIN orderFf' : i = Len(orderFf) + 1 \/ i \in DOMAIN orderFf
        BY <1>4, <3>1
      <4>3. \A i \in DOMAIN orderFf' : orderFf'[i] = Flight[i].q
        BY <1>4, <3>1, <3>2, <4>2 DEF FifoInv
      <4> QED BY <1>1, <1>2, <4>1, <4>3 DEF FifoInv
    <3> QED BY <1>4, <3>1, <3>3, AvailRingAssumption
  <2>2. CASE s.st # "RD_RING_ID"
    BY <1>1, <1>2, <2>2 DEF FifoInv, TypeOK
  <2> QED BY <2>1, <2>2
<1>9. TypeOK'
  <2>1. rd' \in Seq(RdSample) /\ Len(rd') <= 1
    BY <1>1
  <2> QED BY <1>1, <1>5, <1>8, <2>1 DEF TypeOK, Sch!TypeOK
<1>10. FlightInv'
  BY <1>1, <1>2, FlightInvKept
<1>11. PtrInv'
  BY <1>1, PtrInvKept
<1>12. AskInv'
  BY <1>1, AskInvKept
<1>13. SampleInv'
  BY <1>1 DEF SampleInv
<1>14. StatusInv'
  <2>1. NotifyRspDone(s) /\ status[s.q] \in Running /\ ui[s.q] # idx[s.q] => s.q \in want
    BY DEF SampleInv, SampleHolds
  <2>2. ASSUME NEW q \in Q, status[q] \in Running, ui[q] # idx[q]
        PROVE  q \in want' \cup serving'
    <3>1. q \in want \cup serving
      BY <2>2 DEF StatusInv
    <3> QED BY <1>1, <2>1, <2>2, <3>1
  <2> QED BY <1>1, <2>2 DEF StatusInv
<1>15. RamInv'
  BY <1>1, RamInvKept
<1>16. RspInv'
  BY <1>1, <1>2, RspInvKept
<1> QED BY <1>8, <1>9, <1>10, <1>11, <1>12, <1>13, <1>14, <1>15, <1>16

\* What a read of n entries from the ring finds.
LEMMA ReadFinds ==
  ASSUME IInv, NEW i \in Open, NEW x \in 1 .. Flight[i].num
  PROVE  /\ Slot(Flight[i].q, (Flight[i].ui % QDepth) + x - 1) = (Flight[i].ui + x - 1) % IdxMod
         /\ (Flight[i].ui + x - 1) % IdxMod \in Idx
<1> USE DEF IInv
<1> DEFINE q == Flight[i].q
           u == Flight[i].ui
           y == (u + (x - 1)) % IdxMod
<1>1. q \in Q /\ u \in Idx /\ Flight[i].num \in Nat
  BY FlightType DEF Open
<1>2. x - 1 \in Nat /\ x \in Nat /\ x <= Flight[i].num
  BY <1>1
<1>3. /\ Flight[i].num <= Rest(i) /\ Rest(i) <= Minus(ui[q], pi[q])
      /\ (u % QDepth) + Flight[i].num <= QDepth /\ Rest(i) = Minus(ui[q], u)
  BY DEF FlightInv, Rest
<1> HIDE DEF q, u
<1>4. /\ ui[q] \in Idx /\ idx[q] \in Idx /\ Minus(ui[q], u) \in Nat
      /\ Minus(idx[q], ui[q]) = Minus(idx[q], ci[q]) - Minus(ui[q], ci[q])
      /\ Minus(ui[q], pi[q]) = Minus(ui[q], ci[q]) - Minus(pi[q], ci[q])
      /\ Minus(idx[q], got[q]) = Minus(idx[q], ci[q]) - Minus(got[q], ci[q])
      /\ Minus(got[q], ci[q]) \in Nat /\ Minus(pi[q], ci[q]) \in Nat /\ Minus(ui[q], ci[q]) \in Nat
      /\ Minus(idx[q], ci[q]) \in Nat /\ Minus(got[q], used[q]) \in Nat
      /\ Minus(got[q], ci[q]) <= Minus(pi[q], ci[q])
      /\ Minus(idx[q], got[q]) + Minus(got[q], used[q]) <= QDepth
      /\ Minus(ui[q], ci[q]) <= Minus(idx[q], ci[q])
  BY <1>1, PtrType, Distances, MinusType DEF PtrInv
<1>5. y \in Idx /\ Minus(ui[q], y) = Minus(ui[q], u) - (x - 1)
  <2>1. x - 1 <= Minus(ui[q], u)
    BY <1>1, <1>2, <1>3, <1>4
  <2> QED BY <1>1, <1>2, <1>4, <2>1, Towards
<1> HIDE DEF y
<1>6. Minus(idx[q], y) = Minus(idx[q], ui[q]) + Minus(ui[q], y)
  <2>1. Minus(idx[q], ui[q]) + Minus(ui[q], y) < IdxMod
    BY <1>2, <1>3, <1>4, <1>5, IdxModPos
  <2> QED BY <1>4, <1>5, <2>1, MinusAdd
<1>7. 1 <= Minus(idx[q], y) /\ Minus(idx[q], y) <= QDepth
  BY <1>1, <1>2, <1>3, <1>4, <1>5, <1>6, IdxModPos
<1>8. Slot(q, y % QDepth) = y
  BY <1>1, <1>4, <1>5, <1>7, SlotHolds
<1>9. y % QDepth = (u % QDepth) + (x - 1)
  <2>1. u \in Int /\ u + (x - 1) \in Int
    BY <1>1, <1>2, IdxModPos DEF Idx
  <2>2. y % QDepth = (u + (x - 1)) % QDepth
    BY <2>1, IdxModPos, AvailRingAssumption, ModOfMod DEF y
  <2>3. u % QDepth \in 0 .. QDepth - 1
    BY <2>1, IdxModPos
  <2>4. (u % QDepth) + (x - 1) < QDepth
    BY <1>1, <1>2, <1>3, <2>3, IdxModPos
  <2>5. (u + (x - 1)) % QDepth = (u % QDepth) + (x - 1)
    BY <1>2, <2>1, <2>4, IdxModPos, ModAdd
  <2> QED BY <2>2, <2>5
<1>10. /\ (u % QDepth) + (x - 1) = (u % QDepth) + x - 1
       /\ u + (x - 1) = u + x - 1
  <2>1. u \in Int /\ u % QDepth \in Int
    BY <1>1, IdxModPos DEF Idx
  <2> QED BY <1>2, <2>1
<1> QED BY <1>5, <1>8, <1>9, <1>10 DEF q, u, y

\* The ring still holds what the read was issued for: the driver does not overwrite
\* an entry before it is used.
LEMMA DmaRdRspHolds ==
  ASSUME IInv, DmaRdRsp
  PROVE  IInv'
<1> USE DEF IInv
<1>r. PICK r : r = Head(rdReq)
  OBVIOUS
<1>f. PICK f : f = [q |-> r.q, ui |-> r.ui,
                    ids |-> [i \in 1 .. r.num |-> Slot(r.q, (r.ui % QDepth) + i - 1)]]
  OBVIOUS
<1>1. /\ rdReq # <<>> /\ rspFf' = Append(rspFf, f) /\ rdReq' = Tail(rdReq)
      /\ UNCHANGED <<status, idx, ui, pi, ci, used, want, serving, rd, orderFf, notifying, ram, ask, got>>
  BY <1>r, <1>f DEF DmaRdRsp, ptrs, schVars
<1>2. FlightLen' = FlightLen /\ Flight' = Flight /\ Open' = Open
  BY FlightRead
<1>3. rspFf \in Seq(Rsp) /\ rdReq \in Seq(Read) /\ orderFf \in Seq(Q)
  BY DEF TypeOK
<1>4. /\ Len(rspFf) \in Nat /\ Len(rdReq) \in Nat /\ Len(rdReq) >= 1
      /\ r \in Read /\ r = rdReq[1]
  BY <1>1, <1>3, <1>r
<1>5. r.q \in Q /\ r.ui \in Idx /\ r.num \in Nat
  BY <1>4 DEF Read
<1>k. PICK k : k = Len(rspFf) + 1
  OBVIOUS
<1>6. k \in Open /\ Flight[k] = r
  <2>1. k \in 1 .. FlightLen
    BY <1>4, <1>k DEF FlightLen
  <2>2. notifying => k # 1
    BY <1>3, <1>4, <1>k DEF FifoInv
  <2>3. Flight[k] = rdReq[1]
    BY <1>4, <1>k, <2>1 DEF Flight
  <2> QED BY <1>4, <2>1, <2>2, <2>3 DEF Open
<1>7. \A x \in 1 .. r.num :
        /\ Slot(r.q, (r.ui % QDepth) + x - 1) = (r.ui + x - 1) % IdxMod
        /\ (r.ui + x - 1) % IdxMod \in Idx
  BY <1>6, ReadFinds
<1>8. /\ f.q = r.q /\ f.ui = r.ui /\ f.ids = [x \in 1 .. r.num |-> (r.ui + x - 1) % IdxMod]
  BY <1>f, <1>7
<1>9. f.ids \in Seq(Idx \cup {Junk})
  BY <1>5, <1>7, <1>8
<1>10. f \in Rsp
  BY <1>f, <1>5, <1>8, <1>9 DEF Rsp
<1>11. /\ rspFf' \in Seq(Rsp) /\ Len(rspFf') = k /\ DOMAIN rspFf' = 1 .. k
       /\ \A i \in 1 .. Len(rspFf) : rspFf'[i] = rspFf[i]
       /\ rspFf'[k] = f
       /\ rdReq' \in Seq(Read) /\ Len(rdReq') = Len(rdReq) - 1
  BY <1>1, <1>3, <1>4, <1>k, <1>10
<1>12. TypeOK'
  BY <1>1, <1>11 DEF TypeOK, Sch!TypeOK
<1>13. FlightInv'
  BY <1>1, <1>2, FlightInvKept
<1>14. FifoInv'
  <2>1. rspFf' # <<>>
    BY <1>1, <1>3
  <2>2. Len(orderFf') = Len(rspFf') + Len(rdReq')
    <3>1. Len(orderFf) = Len(rspFf) + Len(rdReq) /\ orderFf' = orderFf
      BY <1>1 DEF FifoInv
    <3>2. Len(rspFf') = Len(rspFf) + 1 /\ Len(rdReq') = Len(rdReq) - 1
      BY <1>11, <1>k
    <3> QED BY <1>4, <3>1, <3>2
  <2> QED BY <1>1, <1>2, <2>1, <2>2 DEF FifoInv
<1>15. PtrInv'
  BY <1>1, PtrInvKept
<1>16. AskInv'
  BY <1>1, AskInvKept
<1>17. SampleInv'
  BY <1>1, SampleInvKept
<1>18. StatusInv'
  BY <1>1, StatusInvKept
<1>19. RamInv'
  BY <1>1, RamInvKept
<1>20. RspInv'
  <2>1. ASSUME NEW i \in DOMAIN rspFf', i \in Open, NEW x \in DOMAIN rspFf'[i].ids
        PROVE  rspFf'[i].ids[x] = (rspFf'[i].ui + x - 1) % IdxMod
    <3>1. CASE i = k
      BY <1>8, <1>11, <2>1, <3>1
    <3>2. CASE i # k
      <4>1. i \in 1 .. Len(rspFf)
        BY <1>4, <1>k, <1>11, <2>1, <3>2
      <4>2. i \in DOMAIN rspFf /\ rspFf'[i] = rspFf[i]
        BY <1>3, <1>11, <4>1
      <4> QED BY <2>1, <4>2 DEF RspInv
    <3> QED BY <3>1, <3>2
  <2> QED BY <1>2, <2>1 DEF RspInv
<1> QED BY <1>12, <1>13, <1>14, <1>15, <1>16, <1>17, <1>18, <1>19, <1>20

\* What is left of the oldest read goes.
LEMMA NotifyHolds ==
  ASSUME IInv, Notify
  PROVE  IInv'
<1> USE DEF IInv
<1>1. /\ notifying = TRUE /\ notifying' = FALSE
      /\ orderFf' = Tail(orderFf) /\ rspFf' = Tail(rspFf)
      /\ UNCHANGED <<status, idx, ui, pi, ci, used, want, serving, rd, rdReq, ram, ask, got>>
  BY DEF Notify, ptrs, schVars, TypeOK
<1>2. /\ FlightLen \in Nat \ {0} /\ FlightLen' = FlightLen - 1
      /\ \A i \in 1 .. FlightLen - 1 : Flight'[i] = Flight[i + 1]
      /\ Open = 2 .. FlightLen /\ Open' = 1 .. FlightLen - 1
  BY FlightLeaves
<1>3. rspFf \in Seq(Rsp) /\ rdReq \in Seq(Read) /\ orderFf \in Seq(Q)
  BY DEF TypeOK
<1>4. rspFf # <<>> /\ Len(rspFf) \in Nat \ {0} /\ Len(rdReq) \in Nat
  <2>1. rspFf # <<>>
    BY <1>1 DEF FifoInv
  <2> QED BY <1>3, <2>1, EmptySeq, LenProperties
<1>5. Len(orderFf) = Len(rspFf) + Len(rdReq)
  BY DEF FifoInv
<1>6. orderFf # <<>> /\ Len(orderFf) \in Nat \ {0}
  BY <1>3, <1>4, <1>5, EmptySeq
<1>7. /\ orderFf' \in Seq(Q) /\ Len(orderFf') = Len(orderFf) - 1
      /\ \A i \in 1 .. Len(orderFf) - 1 : orderFf'[i] = orderFf[i + 1]
      /\ DOMAIN orderFf' = 1 .. Len(orderFf) - 1
  BY <1>1, <1>3, <1>6, HeadTailProperties, LenProperties
<1>8. /\ rspFf' \in Seq(Rsp) /\ Len(rspFf') = Len(rspFf) - 1
      /\ \A i \in 1 .. Len(rspFf) - 1 : rspFf'[i] = rspFf[i + 1]
      /\ DOMAIN rspFf' = 1 .. Len(rspFf) - 1
  BY <1>1, <1>3, <1>4, HeadTailProperties, LenProperties
<1>9. TypeOK'
  <2>1. Len(orderFf') <= OrderPfull
    BY <1>6, <1>7, AvailRingAssumption DEF TypeOK
  <2> QED BY <1>1, <1>7, <1>8, <2>1 DEF TypeOK, Sch!TypeOK
<1>10. \A i \in Open' : i + 1 \in Open /\ i \in Nat /\ Flight'[i] = Flight[i + 1]
  BY <1>2
<1>11. ASSUME NEW i \in Open' PROVE Rest(i)' = Rest(i + 1)
  BY <1>1, <1>10 DEF Rest
<1>12. FlightInv'
  <2>1. ASSUME NEW i \in Open'
        PROVE  /\ 1 <= Flight'[i].num /\ Flight'[i].num <= Rest(i)'
               /\ Rest(i)' <= Minus(ui'[Flight'[i].q], pi'[Flight'[i].q])
               /\ (Flight'[i].ui % QDepth) + Flight'[i].num <= QDepth
    BY <1>1, <1>10, <1>11 DEF FlightInv
  <2>2. ASSUME NEW i \in Open', NEW j \in Open', i < j, Flight'[i].q = Flight'[j].q
        PROVE  Rest(j)' + Flight'[i].num <= Rest(i)'
    <3>1. i + 1 < j + 1
      BY <1>10, <2>2
    <3>2. Rest(j + 1) + Flight[i + 1].num <= Rest(i + 1)
      BY <1>10, <2>2, <3>1 DEF FlightInv
    <3> QED BY <1>10, <1>11, <3>2
  <2>3. ASSUME NEW q \in Q, NEW x \in 1 .. Minus(ui'[q], pi'[q])
        PROVE  \E i \in Open' : Flight'[i].q = q /\ Rest(i)' - Flight'[i].num < x /\ x <= Rest(i)'
    <3>1. PICK j \in Open : Flight[j].q = q /\ Rest(j) - Flight[j].num < x /\ x <= Rest(j)
      BY <1>1, <2>3 DEF FlightInv
    <3>2. j - 1 \in Open' /\ (j - 1) + 1 = j
      BY <1>2
    <3> QED BY <1>10, <1>11, <3>1, <3>2
  <2> QED BY <2>1, <2>2, <2>3 DEF FlightInv
<1>13. FifoInv'
  <2>1. Len(orderFf') = Len(rspFf') + Len(rdReq')
    BY <1>1, <1>4, <1>5, <1>7, <1>8
  <2>2. ASSUME NEW i \in DOMAIN orderFf' PROVE orderFf'[i] = Flight'[i].q
    <3>1. i + 1 \in DOMAIN orderFf
      BY <1>3, <1>6, <1>7, LenProperties
    <3>2. orderFf[i + 1] = Flight[i + 1].q
      BY <3>1 DEF FifoInv
    <3>3. i \in 1 .. FlightLen - 1
      BY <1>4, <1>5, <1>7 DEF FlightLen
    <3> QED BY <1>2, <1>7, <3>2, <3>3
  <2>3. rd' # <<>> => Len(orderFf') < OrderPfull
    BY <1>1, <1>6, <1>7, AvailRingAssumption DEF FifoInv
  <2> QED BY <1>1, <2>1, <2>2, <2>3 DEF FifoInv
<1>14. PtrInv'
  BY <1>1, PtrInvKept
<1>15. AskInv'
  BY <1>1, AskInvKept
<1>16. SampleInv'
  BY <1>1, SampleInvKept
<1>17. StatusInv'
  BY <1>1, StatusInvKept
<1>18. RamInv'
  BY <1>1, RamInvKept
<1>19. RspInv'
  <2>1. ASSUME NEW i \in DOMAIN rspFf', i \in Open', NEW k \in DOMAIN rspFf'[i].ids
        PROVE  rspFf'[i].ids[k] = (rspFf'[i].ui + k - 1) % IdxMod
    <3>1. i + 1 \in DOMAIN rspFf /\ rspFf'[i] = rspFf[i + 1]
      BY <1>3, <1>4, <1>8, LenProperties
    <3>2. i + 1 \in Open
      BY <1>10, <2>1
    <3> QED BY <2>1, <3>1, <3>2 DEF RspInv
  <2> QED BY <2>1 DEF RspInv
<1> QED BY <1>9, <1>12, <1>13, <1>14, <1>15, <1>16, <1>17, <1>18, <1>19

\* The ids go to places of their own, none of them on one that waits, and avail_pi
\* moves on to the start of the queue's next read.
LEMMA ProcRingIdsHolds ==
  ASSUME IInv, ProcRingIds
  PROVE  IInv'
<1> USE DEF IInv
<1>r. PICK r : r = Head(rspFf)
  OBVIOUS
<1> DEFINE q == r.q
           num == Len(r.ids)
           Writes(a, i) == (r.ui + i - 1) % Num(q) = a
           Written(a) == \E i \in DOMAIN r.ids : Writes(a, i)
           By(a) == CHOOSE i \in DOMAIN r.ids : Writes(a, i)
<1>1. /\ notifying = FALSE /\ notifying' = TRUE /\ orderFf # <<>> /\ rspFf # <<>>
      /\ ram' = [ram EXCEPT ![q] =
                   [a \in DOMAIN @ |-> IF Written(a) THEN r.ids[By(a)] ELSE @[a]]]
      /\ pi' = [pi EXCEPT ![q] = (r.ui + num) % IdxMod]
      /\ UNCHANGED <<status, idx, ui, ci, used, want, serving, rd, rdReq, orderFf, rspFf, ask, got>>
  BY <1>r DEF ProcRingIds, schVars, TypeOK
<1>2. rspFf \in Seq(Rsp) /\ rdReq \in Seq(Read) /\ r = rspFf[1] /\ r \in Rsp
      /\ Len(rspFf) \in Nat \ {0} /\ Len(rdReq) \in Nat /\ 1 \in DOMAIN rspFf
  <2>1. rspFf \in Seq(Rsp) /\ rdReq \in Seq(Read)
    BY DEF TypeOK
  <2>2. Len(rspFf) \in Nat \ {0}
    BY <1>1, <2>1, EmptySeq
  <2> QED BY <1>1, <1>r, <2>1, <2>2, HeadTailProperties, LenProperties, ElementOfSeq
<1>3. /\ q \in Q /\ r.ui \in Idx /\ r.ids \in Seq(Idx \cup {Junk})
      /\ num \in Nat /\ DOMAIN r.ids = 1 .. num
  BY <1>2, LenProperties DEF Rsp
<1>4. FlightLen' = FlightLen /\ Flight' = Flight /\ Open' = Open \ {1}
  <2>1. FlightLen' = FlightLen
    BY <1>1 DEF FlightLen, Reading
  <2>2. Flight' = Flight
    BY <1>1, <2>1 DEF Flight
  <2> QED BY <1>1, <2>1, <2>2 DEF Open
<1>5. 1 \in Open /\ Flight[1].q = q /\ Flight[1].ui = r.ui /\ Flight[1].num = num
  <2>1. 1 \in 1 .. FlightLen /\ 1 <= Len(rspFf)
    BY <1>2 DEF FlightLen
  <2>2. Flight[1] = [q |-> rspFf[1].q, ui |-> rspFf[1].ui, num |-> Len(rspFf[1].ids)]
    BY <2>1 DEF Flight
  <2> QED BY <1>1, <1>2, <2>1, <2>2 DEF Open
<1>6. r.ui = pi[q]
  BY <1>5, OldestFirst
<1>7. /\ 1 <= num /\ num <= Rest(1) /\ Rest(1) = Minus(ui[q], pi[q])
  BY <1>5, <1>6 DEF FlightInv, Rest
<1> HIDE DEF num
<1>8. /\ ui[q] \in Idx /\ pi[q] \in Idx /\ ci[q] \in Idx /\ idx[q] \in Idx /\ got[q] \in Idx
      /\ Minus(ui[q], pi[q]) = Minus(ui[q], ci[q]) - Minus(pi[q], ci[q])
      /\ Minus(ui[q], ci[q]) \in Nat /\ Minus(pi[q], ci[q]) \in Nat /\ Minus(got[q], ci[q]) \in Nat
      /\ Minus(ui[q], ci[q]) < IdxMod /\ Minus(ui[q], ci[q]) <= Num(q)
      /\ Minus(got[q], ci[q]) <= Minus(pi[q], ci[q])
  BY <1>3, PtrType, Distances, MinusType DEF PtrInv
<1>9. pi'[q] = (pi[q] + num) % IdxMod /\ \A o \in Q : o # q => pi'[o] = pi[o]
  BY <1>1, <1>3, <1>6 DEF TypeOK, num
<1>10. pi'[q] \in Idx /\ Minus(pi'[q], ci[q]) = Minus(pi[q], ci[q]) + num
  <2>1. Minus(pi[q], ci[q]) + num < IdxMod
    BY <1>3, <1>7, <1>8, IdxModPos
  <2> QED BY <1>3, <1>8, <1>9, <2>1, Ahead
<1>11. Minus(ui[q], pi'[q]) = Minus(ui[q], pi[q]) - num
  BY <1>3, <1>7, <1>8, <1>9, Towards
\* The ids and where they go.
<1>12. ASSUME NEW i \in 1 .. num
       PROVE  /\ r.ids[i] = (r.ui + i - 1) % IdxMod /\ r.ids[i] \in Idx
              /\ Minus(r.ids[i], ci[q]) = Minus(pi[q], ci[q]) + i - 1
              /\ r.ids[i] % Num(q) = (r.ui + i - 1) % Num(q)
  <2>1. r.ids[i] = (r.ui + i - 1) % IdxMod
    BY <1>2, <1>3, <1>5 DEF RspInv
  <2>2. r.ui + i - 1 = pi[q] + (i - 1) /\ i - 1 \in Nat /\ r.ui + i - 1 \in Int
    <3>1. pi[q] \in Int
      BY <1>8, IdxModPos DEF Idx
    <3> QED BY <1>3, <1>6, <3>1
  <2>3. Minus(pi[q], ci[q]) + (i - 1) < IdxMod
    BY <1>3, <1>7, <1>8, <2>2, IdxModPos
  <2>4. /\ (pi[q] + (i - 1)) % IdxMod \in Idx
        /\ Minus((pi[q] + (i - 1)) % IdxMod, ci[q]) = Minus(pi[q], ci[q]) + (i - 1)
    BY <1>8, <2>2, <2>3, Ahead
  <2>5. ((r.ui + i - 1) % IdxMod) % Num(q) = (r.ui + i - 1) % Num(q)
    BY <1>3, <2>2, NumType, IdxModPos, ModOfMod
  <2>6. Minus(pi[q], ci[q]) + (i - 1) = Minus(pi[q], ci[q]) + i - 1
    BY <1>8
  <2> QED BY <2>1, <2>2, <2>4, <2>5, <2>6
<1>13. ram'[q] = [a \in DOMAIN ram[q] |-> IF Written(a) THEN r.ids[By(a)] ELSE ram[q][a]]
       /\ \A o \in Q : o # q => ram'[o] = ram[o]
  BY <1>1, <1>3 DEF TypeOK
<1>14. \A a : Written(a) => By(a) \in 1 .. num /\ Writes(a, By(a))
  BY <1>3 DEF num
<1> HIDE DEF Written, By
<1>15. TypeOK'
  <2>1. pi' \in [Q -> Idx]
    BY <1>1, <1>3, <1>9, <1>10 DEF TypeOK
  <2>2. ram[q] \in [0 .. Num(q) - 1 -> Idx \cup {Junk}]
    BY <1>3 DEF TypeOK
  <2>3. ram'[q] \in [0 .. Num(q) - 1 -> Idx \cup {Junk}]
    <3>1. \A a \in 0 .. Num(q) - 1 : Written(a) => r.ids[By(a)] \in Idx
      BY <1>12, <1>14
    <3>2. DOMAIN ram[q] = 0 .. Num(q) - 1
      BY <2>2
    <3>3. \A a \in 0 .. Num(q) - 1 :
            (IF Written(a) THEN r.ids[By(a)] ELSE ram[q][a]) \in Idx \cup {Junk}
      BY <2>2, <3>1
    <3> QED BY <1>13, <3>2, <3>3
  <2>4. DOMAIN ram' = Q
    BY <1>1 DEF TypeOK
  <2>5. \A o \in Q : ram'[o] \in [0 .. Num(o) - 1 -> Idx \cup {Junk}]
    BY <1>13, <2>3 DEF TypeOK
  <2> QED BY <1>1, <2>1, <2>4, <2>5 DEF TypeOK, Sch!TypeOK
<1>16. \A i \in Open : i # 1 => 1 < i
  BY FlightType DEF Open
<1>17. ASSUME NEW i \in Open PROVE Rest(i)' = Rest(i)
  BY <1>1, <1>4 DEF Rest
<1>18. FlightInv'
  <2>1. ASSUME NEW i \in Open'
        PROVE  /\ 1 <= Flight[i].num /\ Flight[i].num <= Rest(i)
               /\ Rest(i) <= Minus(ui[Flight[i].q], pi'[Flight[i].q])
               /\ (Flight[i].ui % QDepth) + Flight[i].num <= QDepth
    <3>1. i \in Open /\ 1 < i /\ Flight[i].q \in Q
      BY <1>4, <1>16, FlightType DEF Open
    <3>2. CASE Flight[i].q = q
      <4>1. Rest(i) + num <= Rest(1)
        BY <1>5, <3>1, <3>2 DEF FlightInv
      <4>2. Rest(i) \in Nat
        BY <1>8, <3>1, <3>2, FlightType, MinusType DEF Rest, Open
      <4>3. Rest(i) <= Minus(ui[q], pi'[q])
        BY <1>3, <1>7, <1>8, <1>11, <4>1, <4>2
      <4> QED BY <3>1, <3>2, <4>3 DEF FlightInv
    <3>3. CASE Flight[i].q # q
      BY <1>9, <3>1, <3>3 DEF FlightInv
    <3> QED BY <3>2, <3>3
  <2>2. ASSUME NEW i \in Open', NEW j \in Open', i < j, Flight[i].q = Flight[j].q
        PROVE  Rest(j) + Flight[i].num <= Rest(i)
    BY <1>4, <2>2 DEF FlightInv
  <2>3. ASSUME NEW o \in Q, NEW x \in 1 .. Minus(ui[o], pi'[o])
        PROVE  \E i \in Open' : Flight[i].q = o /\ Rest(i) - Flight[i].num < x /\ x <= Rest(i)
    <3>1. CASE o = q
      <4>1. x \in 1 .. Minus(ui[q], pi[q]) /\ x <= Rest(1) - num
        BY <1>3, <1>7, <1>8, <1>11, <2>3, <3>1
      <4>2. PICK i \in Open : Flight[i].q = q /\ Rest(i) - Flight[i].num < x /\ x <= Rest(i)
        BY <1>3, <4>1 DEF FlightInv
      <4>3. i # 1
        BY <1>3, <1>5, <1>7, <1>8, <4>1, <4>2
      <4> QED BY <1>4, <3>1, <4>2, <4>3
    <3>2. CASE o # q
      <4>1. PICK i \in Open : Flight[i].q = o /\ Rest(i) - Flight[i].num < x /\ x <= Rest(i)
        BY <1>9, <2>3, <3>2 DEF FlightInv
      <4> QED BY <1>4, <1>5, <3>2, <4>1
    <3> QED BY <3>1, <3>2
  <2>4. \A i \in Open' : i \in Open
    BY <1>4
  <2> QED BY <1>1, <1>4, <1>17, <2>1, <2>2, <2>3, <2>4 DEF FlightInv
<1>19. FifoInv'
  BY <1>1, <1>4 DEF FifoInv
<1>20. PtrInv'
  <2>1. ASSUME NEW o \in Q
        PROVE  /\ Minus(got[o], ci[o]) <= Minus(pi'[o], ci[o])
               /\ Minus(pi'[o], ci[o]) <= Minus(ui[o], ci[o])
               /\ Minus(ui[o], ci[o]) <= Minus(idx[o], ci[o])
               /\ Minus(ui[o], ci[o]) <= Num(o)
               /\ Minus(idx[o], got[o]) + Minus(got[o], used[o]) <= QDepth
    <3>1. CASE o = q
      <4>1. /\ Minus(got[q], ci[q]) <= Minus(pi'[q], ci[q])
            /\ Minus(pi'[q], ci[q]) <= Minus(ui[q], ci[q])
        BY <1>3, <1>7, <1>8, <1>10
      <4> QED BY <3>1, <4>1 DEF PtrInv
    <3>2. CASE o # q
      BY <1>9, <3>2 DEF PtrInv
    <3> QED BY <3>1, <3>2
  <2> QED BY <1>1, <2>1 DEF PtrInv
<1>21. AskInv'
  <2>1. ASSUME NEW t \in QTypes, NEW i \in DOMAIN ask[t], Carries(ask[t][i])
        PROVE  ask[t][i].num <= Minus(pi'[ask[t][i].q], ci[ask[t][i].q])
    <3> DEFINE a == ask[t][i]
    <3>1. a.q \in Q /\ a.num \in Nat
      BY <2>1, GotIs
    <3>2. a.num <= Minus(pi[a.q], ci[a.q])
      BY <2>1 DEF AskInv, AskHolds
    <3> HIDE DEF a
    <3>3. CASE a.q = q
      BY <1>3, <1>8, <1>10, <3>1, <3>2, <3>3 DEF a
    <3>4. CASE a.q # q
      BY <1>9, <3>1, <3>2, <3>4 DEF a
    <3> QED BY <3>3, <3>4
  <2>2. ASSUME NEW t \in QTypes, NEW i \in DOMAIN ask[t], Carries(ask[t][i])
        PROVE  AskHolds(ask[t][i])'
    <3>1. AskHolds(ask[t][i])
      BY <2>2 DEF AskInv
    <3> QED BY <1>1, <2>1, <2>2, <3>1 DEF AskHolds, AvailIdx
  <2> QED BY <1>1, <2>2 DEF AskInv, Carries
<1>22. SampleInv'
  BY <1>1, SampleInvKept
<1>23. StatusInv'
  <2>1. status[q] \notin {"IDLE", "STARTING"}
    BY <1>3, <1>5, NoneOpen DEF StatusInv
  <2> QED BY <1>1, <1>9, <2>1 DEF StatusInv
<1>24. RamInv'
  <2>1. ASSUME NEW o \in Q, NEW x \in Idx, Minus(x, ci[o]) < Minus(pi'[o], ci[o])
        PROVE  ram'[o][x % Num(o)] = x
    <3>1. CASE o # q
      BY <1>9, <1>13, <2>1, <3>1 DEF RamInv
    <3>2. CASE o = q
      <4> DEFINE a == x % Num(q)
                 d == Minus(x, ci[q])
      <4>1. d \in Nat /\ d < Minus(pi[q], ci[q]) + num /\ d < Num(q)
        BY <1>3, <1>7, <1>8, <1>10, <2>1, <3>2, MinusType, NumType
      <4>2. a \in DOMAIN ram[q]
        <5>1. a \in 0 .. Num(q) - 1
          BY <1>3, NumType, IdxModPos DEF Idx
        <5> QED BY <1>3, <5>1 DEF TypeOK
      <4>3. CASE Written(a)
        <5> DEFINE i == By(a)
        <5>1. i \in 1 .. num /\ (r.ui + i - 1) % Num(q) = a
          BY <1>14, <4>3
        <5> HIDE DEF i
        <5>2. r.ids[i] \in Idx /\ r.ids[i] % Num(q) = x % Num(q)
          BY <1>12, <5>1
        <5>3. Minus(r.ids[i], ci[q]) < Num(q)
          BY <1>3, <1>7, <1>8, <1>12, <5>1, NumType
        <5>4. r.ids[i] = x
          BY <1>3, <1>8, <4>1, <5>2, <5>3, NumType, PlacesApart
        <5> QED BY <1>13, <3>2, <4>2, <4>3, <5>4 DEF i
      <4>4. CASE ~ Written(a)
        <5>1. d < Minus(pi[q], ci[q])
          <6>1. SUFFICES ASSUME ~ (d < Minus(pi[q], ci[q])) PROVE FALSE
            OBVIOUS
          <6> DEFINE i == d - Minus(pi[q], ci[q]) + 1
          <6>2. i \in 1 .. num
            BY <1>3, <1>8, <4>1, <6>1
          <6>3. Minus(r.ids[i], ci[q]) = d /\ r.ids[i] \in Idx
            BY <1>8, <1>12, <4>1, <6>2
          <6> HIDE DEF i
          <6>4. r.ids[i] = x
            <7>1. Minus(r.ids[i], ci[q]) < Num(q) /\ r.ids[i] = (ci[q] + d) % IdxMod
              BY <1>8, <4>1, <6>3, Arrive
            <7>2. x = (ci[q] + d) % IdxMod
              BY <1>8, Arrive
            <7> QED BY <7>1, <7>2
          <6>5. (r.ui + i - 1) % Num(q) = a
            BY <1>12, <6>2, <6>4
          <6>6. i \in DOMAIN r.ids
            BY <1>3, <6>2
          <6> QED BY <4>4, <6>5, <6>6 DEF Written
        <5>2. ram[q][a] = x
          BY <1>3, <5>1 DEF RamInv
        <5> QED BY <1>13, <3>2, <4>2, <4>4, <5>2
      <4> QED BY <4>3, <4>4
    <3> QED BY <3>1, <3>2
  <2> QED BY <1>1, <2>1 DEF RamInv
<1>25. RspInv'
  BY <1>1, <1>4 DEF RspInv
<1> QED BY <1>15, <1>18, <1>19, <1>20, <1>21, <1>22, <1>23, <1>24, <1>25

\* A machine that hands entries out works on one queue.
LEMMA AskOne ==
  ASSUME TypeOK, NEW t \in QTypes, ask[t] # <<>>
  PROVE  DOMAIN ask[t] = {1} /\ ask[t][1] \in Asked
<1> DEFINE l == Len(ask[t])
<1>1. ask[t] \in Seq(Asked)
  BY DEF TypeOK
<1>2. l <= 1
  BY DEF TypeOK
<1>3. l \in Nat \ {0}
  BY <1>1, EmptySeq, Zenon
<1>4. DOMAIN ask[t] = 1 .. l /\ \A i \in 1 .. l : ask[t][i] \in Asked
  BY <1>1, LenProperties, ElementOfSeq
<1> HIDE DEF l
<1>5. l = 1
  BY <1>2, <1>3
<1> QED BY <1>4, <1>5

\* The machine of the type was free, so all that was handed out is counted in ci.
LEMMA AskCtxHolds ==
  ASSUME IInv, NEW q \in Q, AskCtx(q)
  PROVE  IInv'
<1> USE DEF IInv
<1> DEFINE local == Minus(pi[q], ci[q])
           nid == Nid[Typ[q]]
<1>a. PICK a : a = [q |-> q, doing |-> status[q] = "DOING", empty |-> local = 0, ci |-> ci[q],
                    num |-> IF local > nid THEN nid ELSE local, cnt |-> 0,
                    id |-> ram[q][ci[q] % Num(q)]]
  OBVIOUS
<1>1. /\ ask[Typ[q]] = <<>> /\ ask' = [ask EXCEPT ![Typ[q]] = <<a>>]
      /\ UNCHANGED <<status, idx, ui, pi, ci, used, want, serving, rd, rspFf, rdReq, orderFf,
                     notifying, ram, got>>
  BY <1>a DEF AskCtx, rspVars, ptrs, schVars
<1>2. Typ[q] \in QTypes /\ Num(q) \in Nat \ {0} /\ IdxMod % Num(q) = 0
  BY NumType
<1>3. pi[q] \in Idx /\ ci[q] \in Idx /\ got[q] \in Idx /\ local \in Nat /\ nid \in Nat \ {0}
  BY <1>2, PtrType, MinusType, AvailRingAssumption
<1>4. /\ a.q = q /\ a.doing = (status[q] = "DOING") /\ a.empty = (local = 0) /\ a.ci = ci[q]
      /\ a.num = (IF local > nid THEN nid ELSE local) /\ a.cnt = 0
      /\ a.id = ram[q][ci[q] % Num(q)]
  BY <1>a
<1>5. a \in Asked
  <2>1. ci[q] % Num(q) \in 0 .. Num(q) - 1
    BY <1>2, <1>3, IdxModPos DEF Idx
  <2>2. ram[q][ci[q] % Num(q)] \in Idx \cup {Junk}
    BY <2>1 DEF TypeOK
  <2>3. (IF local > nid THEN nid ELSE local) \in Nat
    BY <1>3
  <2> QED BY <1>a, <1>3, <2>2, <2>3 DEF Asked
<1>6. ask'[Typ[q]] = <<a>> /\ \A t \in QTypes : t # Typ[q] => ask'[t] = ask[t]
  BY <1>1, <1>2 DEF TypeOK
<1>7. FlightLen' = FlightLen /\ Flight' = Flight /\ Open' = Open
  BY <1>1, FlightKept
<1>8. TypeOK'
  <2>1. <<a>> \in Seq(Asked) /\ Len(<<a>>) <= 1
    BY <1>5
  <2>2. \A t \in QTypes : ask'[t] \in Seq(Asked) /\ Len(ask'[t]) <= 1
    <3>1. ASSUME NEW t \in QTypes PROVE ask'[t] \in Seq(Asked) /\ Len(ask'[t]) <= 1
      <4>1. CASE t = Typ[q]
        <5>1. ask'[t] = <<a>>
          BY <1>6, <4>1
        <5> QED BY <2>1, <5>1, Zenon
      <4>2. CASE t # Typ[q]
        <5>1. ask'[t] = ask[t]
          BY <1>6, <4>2
        <5>2. ask[t] \in Seq(Asked) /\ Len(ask[t]) <= 1
          BY DEF TypeOK
        <5> QED BY <5>1, <5>2
      <4> QED BY <4>1, <4>2
    <3> QED BY <3>1
  <2>3. ask' \in [QTypes -> Seq(Asked)]
    <3>1. ask' = [t \in QTypes |-> ask'[t]]
      BY <1>1 DEF TypeOK
    <3> QED BY <2>2, <3>1
  <2> QED BY <1>1, <2>2, <2>3 DEF TypeOK, Sch!TypeOK
<1>9. FlightInv'
  BY <1>1, <1>7, FlightInvKept
<1>10. FifoInv'
  BY <1>1, <1>7 DEF FifoInv
<1>11. PtrInv'
  BY <1>1, PtrInvKept
<1>12. AskInv'
  <2>1. ASSUME Carries(a) PROVE AskHolds(a)'
    <3>1. status[q] = "DOING" /\ local # 0
      BY <1>4, <2>1 DEF Carries
    <3>2. got[q] = ci[q]
      BY <1>1 DEF AskInv
    <3>3. Minus(got[q], ci[q]) = 0
      BY <1>3, <3>2, MinusSelf
    <3>4. 1 <= a.num /\ a.num <= nid /\ a.num <= local
      BY <1>3, <1>4, <3>1
    <3>5. a.id = AvailIdx(a)
      <4>1. Minus(ci[q], ci[q]) = 0
        BY <1>3, MinusSelf
      <4>2. ram[q][ci[q] % Num(q)] = ci[q]
        BY <1>3, <3>1, <4>1 DEF RamInv
      <4>3. (ci[q] + 0) % IdxMod = ci[q]
        BY <1>3, PlusIs, IdxModPos DEF Idx
      <4> QED BY <1>4, <4>2, <4>3 DEF AvailIdx
    <3> HIDE DEF local, nid
    <3>6. /\ status'[a.q] \in Running /\ a.ci = ci'[a.q] /\ Minus(got'[a.q], a.ci) = a.cnt
          /\ a.cnt <= a.num /\ a.num <= Nid[Typ[a.q]] /\ a.num <= Minus(pi'[a.q], ci'[a.q])
      <4>1. a.cnt <= a.num
        BY <1>3, <1>4, <3>4
      <4> QED BY <1>1, <1>4, <3>1, <3>3, <3>4, <4>1 DEF Running, local, nid
    <3> QED BY <3>4, <3>5, <3>6 DEF AskHolds, AvailIdx
  <2>2. ASSUME NEW t \in QTypes, NEW i \in DOMAIN ask'[t]
        PROVE  /\ Typ[ask'[t][i].q] = t
               /\ Carries(ask'[t][i]) => AskHolds(ask[t][i])'
    <3>1. CASE t = Typ[q]
      <4>1. ask'[t][i] = a
        BY <1>6, <2>2, <3>1
      <4> QED BY <1>4, <2>1, <3>1, <4>1 DEF AskHolds, AvailIdx
    <3>2. CASE t # Typ[q]
      <4>1. ask'[t] = ask[t]
        BY <1>6, <3>2
      <4> QED BY <1>1, <2>2, <4>1 DEF AskInv, AskHolds, AvailIdx
    <3> QED BY <3>1, <3>2
  <2>3. ASSUME NEW o \in Q, got[o] # ci[o]
        PROVE  \E i \in DOMAIN ask'[Typ[o]] : ask'[Typ[o]][i].q = o /\ Carries(ask'[Typ[o]][i])
    <3>1. PICK i \in DOMAIN ask[Typ[o]] : ask[Typ[o]][i].q = o /\ Carries(ask[Typ[o]][i])
      BY <2>3 DEF AskInv
    <3>2. Typ[o] # Typ[q]
      BY <1>1, <3>1
    <3> QED BY <1>6, <3>1, <3>2, NumType
  <2> QED BY <1>1, <2>2, <2>3 DEF AskInv, Carries
<1>13. SampleInv'
  BY <1>1, SampleInvKept
<1>14. StatusInv'
  BY <1>1, StatusInvKept
<1>15. RamInv'
  BY <1>1, RamInvKept
<1>16. RspInv'
  BY <1>1, <1>7, RspInvKept
<1> QED BY <1>8, <1>9, <1>10, <1>11, <1>12, <1>13, <1>14, <1>15, <1>16

\* The next id is fetched from the place after the last one.
LEMMA AskRspHolds ==
  ASSUME IInv, NEW t \in QTypes, AskRsp(t)
  PROVE  IInv'
<1> USE DEF IInv
<1>a. PICK a : a = ask[t][1]
  OBVIOUS
<1>b. PICK b : b = [a EXCEPT !.cnt = a.cnt + 1,
                             !.id = IF a.cnt + 1 < a.num
                                    THEN ram[a.q][(a.ci + a.cnt + 1) % Num(a.q)] ELSE a.id]
  OBVIOUS
<1>1. /\ ask[t] # <<>> /\ a.cnt < Responses(a)
      /\ got' = IF Carries(a) THEN [got EXCEPT ![a.q] = (AvailIdx(a) + 1) % IdxMod] ELSE got
      /\ UNCHANGED <<status, idx, ui, pi, ci, used, want, serving, rd, rspFf, rdReq, orderFf,
                     notifying, ram>>
  BY <1>a DEF AskRsp, rspVars, ptrs, schVars
<1>2. DOMAIN ask[t] = {1} /\ a \in Asked
  BY <1>1, <1>a, AskOne
<1>3. a.q \in Q /\ a.cnt \in Nat /\ a.num \in Nat /\ a.ci \in Idx
  BY <1>2 DEF Asked
<1>4. /\ DOMAIN ask'[t] = {1} /\ ask'[t][1] = b /\ ask'[t] = [ask[t] EXCEPT ![1] = b]
      /\ \A u \in QTypes : u # t => ask'[u] = ask[u]
      /\ DOMAIN ask' = QTypes
  <2>1. DOMAIN ask = QTypes
    BY DEF TypeOK
  <2> QED BY <1>a, <1>b, <1>2, <2>1 DEF AskRsp
<1>5. /\ b.q = a.q /\ b.doing = a.doing /\ b.empty = a.empty /\ b.ci = a.ci /\ b.num = a.num
      /\ b.cnt = a.cnt + 1
      /\ b.id = IF a.cnt + 1 < a.num THEN ram[a.q][(a.ci + a.cnt + 1) % Num(a.q)] ELSE a.id
  BY <1>2, <1>b DEF Asked
<1>6. Carries(b) <=> Carries(a)
  BY <1>5 DEF Carries
<1>7. /\ Num(a.q) \in Nat \ {0} /\ IdxMod % Num(a.q) = 0 /\ Typ[a.q] \in QTypes
  BY <1>3, NumType
<1>8. b \in Asked
  <2>1. a.ci + a.cnt + 1 \in Int
    BY <1>3, IdxModPos DEF Idx
  <2>2. (a.ci + a.cnt + 1) % Num(a.q) \in 0 .. Num(a.q) - 1
    BY <1>7, <2>1
  <2>3. ram[a.q][(a.ci + a.cnt + 1) % Num(a.q)] \in Idx \cup {Junk}
    BY <1>3, <2>2 DEF TypeOK
  <2>4. b.id \in Idx \cup {Junk}
    BY <1>2, <1>5, <2>3 DEF Asked
  <2>5. a.cnt + 1 \in Nat
    BY <1>3
  <2> QED BY <1>2, <1>b, <1>5, <2>4, <2>5 DEF Asked
<1>9. Typ[a.q] = t
  BY <1>a, <1>2 DEF AskInv
\* What a response that carries an entry does.
<1>10. ASSUME Carries(a)
       PROVE  /\ AskHolds(a) /\ a.cnt < a.num
              /\ got'[a.q] = (got[a.q] + 1) % IdxMod /\ got'[a.q] \in Idx
              /\ \A o \in Q : o # a.q => got'[o] = got[o]
              /\ Minus(got'[a.q], ci[a.q]) = a.cnt + 1
              /\ Minus(got[a.q], ci[a.q]) = a.cnt
              /\ a.num <= Minus(pi[a.q], ci[a.q])
  <2>1. AskHolds(a)
    BY <1>a, <1>2, <1>10 DEF AskInv
  <2>2. /\ a.ci = ci[a.q] /\ Minus(got[a.q], a.ci) = a.cnt /\ 1 <= a.num
        /\ a.num <= Minus(pi[a.q], ci[a.q])
    BY <2>1 DEF AskHolds
  <2>3. a.cnt < a.num
    BY <1>1, <1>3, <2>2 DEF Responses
  <2>4. AvailIdx(a) = got[a.q]
    BY <1>a, <1>2, <1>10, GotIs
  <2>5. got'[a.q] = (got[a.q] + 1) % IdxMod /\ \A o \in Q : o # a.q => got'[o] = got[o]
    BY <1>1, <1>3, <1>10, <2>4 DEF TypeOK
  <2>6. /\ got[a.q] \in Idx /\ ci[a.q] \in Idx
        /\ Minus(pi[a.q], ci[a.q]) \in Nat /\ Minus(pi[a.q], ci[a.q]) < IdxMod
    BY <1>3, PtrType, MinusType
  <2>7. Minus(got[a.q], ci[a.q]) + 1 < IdxMod
    <3>1. Minus(got[a.q], ci[a.q]) = a.cnt
      BY <2>2
    <3> QED BY <1>3, <2>2, <2>3, <2>6, <3>1, IdxModPos
  <2>8. got'[a.q] \in Idx /\ Minus(got'[a.q], ci[a.q]) = a.cnt + 1
    BY <2>2, <2>5, <2>6, <2>7, Ahead
  <2> QED BY <2>1, <2>2, <2>3, <2>5, <2>8
<1>11. FlightLen' = FlightLen /\ Flight' = Flight /\ Open' = Open
  BY <1>1, FlightKept
<1>12. TypeOK'
  <2>1. got' \in [Q -> Idx]
    <3>1. CASE Carries(a)
      BY <1>1, <1>10, <3>1 DEF TypeOK
    <3>2. CASE ~ Carries(a)
      BY <1>1, <3>2 DEF TypeOK
    <3> QED BY <3>1, <3>2
  <2>2. ask'[t] \in Seq(Asked) /\ Len(ask'[t]) <= 1
    <3>1. ask[t] \in Seq(Asked) /\ Len(ask[t]) <= 1 /\ 1 \in 1 .. Len(ask[t])
      <4>1. ask[t] \in Seq(Asked) /\ Len(ask[t]) <= 1
        BY DEF TypeOK
      <4>2. DOMAIN ask[t] = 1 .. Len(ask[t])
        BY <4>1, LenProperties
      <4> QED BY <1>2, <4>1, <4>2
    <3> QED BY <1>4, <1>8, <3>1, ExceptSeq
  <2>3. ask' \in [QTypes -> Seq(Asked)] /\ \A u \in QTypes : Len(ask'[u]) <= 1
    <3>1. \A u \in QTypes : ask'[u] \in Seq(Asked) /\ Len(ask'[u]) <= 1
      BY <1>4, <2>2 DEF TypeOK
    <3>2. ask' = [u \in QTypes |-> ask'[u]]
      BY DEF AskRsp, TypeOK
    <3> QED BY <3>1, <3>2
  <2> QED BY <1>1, <2>1, <2>3 DEF TypeOK, Sch!TypeOK
<1>13. FlightInv'
  BY <1>1, <1>11, FlightInvKept
<1>14. FifoInv'
  BY <1>1, <1>11 DEF FifoInv
<1>15. PtrInv'
  <2>1. CASE Carries(a)
    <3> DEFINE q == a.q
    <3>1. /\ ci[q] \in Idx /\ pi[q] \in Idx /\ idx[q] \in Idx /\ used[q] \in Idx /\ got[q] \in Idx
          /\ Minus(pi[q], ci[q]) \in Nat /\ Minus(got[q], ci[q]) \in Nat /\ Minus(ui[q], ci[q]) \in Nat
          /\ Minus(idx[q], got[q]) = Minus(idx[q], ci[q]) - Minus(got[q], ci[q])
          /\ Minus(idx[q], ci[q]) \in Nat /\ Minus(got[q], used[q]) \in Nat
          /\ Minus(pi[q], ci[q]) <= Minus(ui[q], ci[q]) /\ Minus(ui[q], ci[q]) <= Minus(idx[q], ci[q])
          /\ Minus(idx[q], got[q]) + Minus(got[q], used[q]) <= QDepth
      BY <1>3, PtrType, Distances DEF PtrInv
    <3>2. 1 <= Minus(idx[q], got[q]) /\ Minus(got'[q], ci[q]) <= Minus(pi[q], ci[q])
      BY <1>3, <1>10, <2>1, <3>1
    <3>3. Minus(idx[q], got'[q]) = Minus(idx[q], got[q]) - 1
      BY <1>10, <2>1, <3>1, <3>2, Towards
    <3>4. Minus(got'[q], used[q]) = Minus(got[q], used[q]) + 1
      <4>1. Minus(got[q], used[q]) + 1 < IdxMod
        BY <3>1, <3>2, IdxModPos
      <4> QED BY <1>10, <2>1, <3>1, <4>1, Ahead
    <3>5. Minus(idx[q], got'[q]) + Minus(got'[q], used[q]) <= QDepth
      BY <3>1, <3>2, <3>3, <3>4
    <3>6. \A o \in Q : o # q => got'[o] = got[o]
      BY <1>10, <2>1
    <3> HIDE DEF q
    <3>7. ASSUME NEW o \in Q
          PROVE  /\ Minus(got'[o], ci[o]) <= Minus(pi[o], ci[o])
                 /\ Minus(pi[o], ci[o]) <= Minus(ui[o], ci[o])
                 /\ Minus(ui[o], ci[o]) <= Minus(idx[o], ci[o])
                 /\ Minus(ui[o], ci[o]) <= Num(o)
                 /\ Minus(idx[o], got'[o]) + Minus(got'[o], used[o]) <= QDepth
      <4>1. CASE o = q
        BY <3>2, <3>5, <4>1 DEF PtrInv
      <4>2. CASE o # q
        BY <3>6, <4>2 DEF PtrInv
      <4> QED BY <4>1, <4>2
    <3> QED BY <1>1, <3>7 DEF PtrInv
  <2>2. CASE ~ Carries(a)
    BY <1>1, <2>2, PtrInvKept
  <2> QED BY <2>1, <2>2
<1>16. AskInv'
  <2>1. ASSUME Carries(b) PROVE AskHolds(b)'
    <3>1. Carries(a)
      BY <1>6, <2>1
    <3>2. /\ status[a.q] \in Running /\ a.ci = ci[a.q] /\ 1 <= a.num /\ a.num <= Nid[Typ[a.q]]
          /\ a.num <= Minus(pi[a.q], ci[a.q])
      BY <1>10, <3>1 DEF AskHolds
    <3>3. a.cnt < a.num /\ Minus(got'[a.q], ci[a.q]) = a.cnt + 1
      BY <1>10, <3>1
    <3>4. ASSUME b.cnt < b.num PROVE b.id = AvailIdx(b)
      <4> DEFINE x == (a.ci + (a.cnt + 1)) % IdxMod
      <4>1. a.cnt + 1 \in Nat /\ a.cnt + 1 < a.num /\ a.ci + (a.cnt + 1) \in Int
            /\ a.ci + (a.cnt + 1) = a.ci + a.cnt + 1
        <5>1. a.ci \in Int
          BY <1>3, IdxModPos DEF Idx
        <5> QED BY <1>3, <1>5, <3>4, <5>1
      <4>2. a.cnt + 1 < Minus(pi[a.q], ci[a.q]) /\ Minus(pi[a.q], ci[a.q]) < IdxMod
            /\ Minus(pi[a.q], ci[a.q]) \in Nat
        BY <1>3, <3>2, <4>1, PtrType, MinusType
      <4>3. a.cnt + 1 < IdxMod
        BY <4>1, <4>2, IdxModPos
      <4>4. x \in Idx /\ Minus(x, a.ci) = a.cnt + 1
        BY <1>3, <4>1, <4>3, Reach
      <4>5. x % Num(a.q) = (a.ci + (a.cnt + 1)) % Num(a.q)
        BY <1>7, <4>1, IdxModPos, ModOfMod
      <4> HIDE DEF x
      <4>6. ram[a.q][x % Num(a.q)] = x
        BY <1>3, <3>2, <4>2, <4>4 DEF RamInv
      <4>7. b.id = x
        BY <1>5, <4>1, <4>5, <4>6
      <4> QED BY <1>5, <4>7 DEF AvailIdx, x
    <3>5. b.cnt <= b.num
      BY <1>3, <1>5, <3>3
    <3> QED BY <1>1, <1>5, <3>2, <3>3, <3>4, <3>5 DEF AskHolds, AvailIdx
  <2>2. ASSUME NEW u \in QTypes, u # t, NEW i \in DOMAIN ask[u]
        PROVE  /\ Typ[ask[u][i].q] = u
               /\ Carries(ask[u][i]) => AskHolds(ask[u][i])'
    <3>1. Typ[ask[u][i].q] = u
      BY DEF AskInv
    <3>2. ASSUME Carries(ask[u][i]) PROVE AskHolds(ask[u][i])'
      <4>1. ask[u][i].q \in Q /\ ask[u][i].q # a.q
        BY <1>9, <2>2, <3>1, <3>2, GotIs
      <4>2. got'[ask[u][i].q] = got[ask[u][i].q]
        BY <1>1, <1>10, <4>1
      <4>3. AskHolds(ask[u][i])
        BY <3>2 DEF AskInv
      <4>4. ask'[u] = ask[u]
        BY <1>4, <2>2
      <4> QED BY <1>1, <4>2, <4>3, <4>4 DEF AskHolds, AvailIdx
    <3> QED BY <3>1, <3>2
  <2>3. ASSUME NEW o \in Q, got'[o] # ci[o]
        PROVE  \E i \in DOMAIN ask'[Typ[o]] : ask'[Typ[o]][i].q = o /\ Carries(ask'[Typ[o]][i])
    <3>1. CASE o = a.q /\ Carries(a)
      BY <1>4, <1>5, <1>6, <1>9, <3>1
    <3>2. CASE ~ (o = a.q /\ Carries(a))
      <4>1. got'[o] = got[o]
        BY <1>1, <1>10, <3>2
      <4>2. PICK i \in DOMAIN ask[Typ[o]] : ask[Typ[o]][i].q = o /\ Carries(ask[Typ[o]][i])
        BY <2>3, <4>1 DEF AskInv
      <4>3. Typ[o] # t
        BY <1>a, <1>2, <3>2, <4>2
      <4> QED BY <1>4, <4>2, <4>3, NumType
    <3> QED BY <3>1, <3>2
  <2>4. ASSUME NEW u \in QTypes, NEW i \in DOMAIN ask'[u]
        PROVE  /\ Typ[ask'[u][i].q] = u
               /\ Carries(ask'[u][i]) => AskHolds(ask[u][i])'
    <3>1. CASE u = t
      <4>1. ask'[u][i] = b
        BY <1>4, <2>4, <3>1
      <4> QED BY <1>5, <1>9, <2>1, <3>1, <4>1 DEF AskHolds, AvailIdx
    <3>2. CASE u # t
      <4>1. ask'[u] = ask[u]
        BY <1>4, <3>2
      <4> QED BY <2>2, <2>4, <3>2, <4>1 DEF AskHolds, AvailIdx
    <3> QED BY <3>1, <3>2
  <2> QED BY <1>1, <2>3, <2>4 DEF AskInv, Carries
<1>17. SampleInv'
  BY <1>1, SampleInvKept
<1>18. StatusInv'
  <2>1. CASE Carries(a)
    <3>1. status[a.q] \notin {"IDLE", "STARTING"}
      BY <1>10, <2>1 DEF AskHolds, Running
    <3> QED BY <1>1, <1>10, <2>1, <3>1 DEF StatusInv
  <2>2. CASE ~ Carries(a)
    BY <1>1, <2>2, StatusInvKept
  <2> QED BY <2>1, <2>2
<1>19. RamInv'
  BY <1>1, RamInvKept
<1>20. RspInv'
  BY <1>1, <1>11, RspInvKept
<1> QED BY <1>12, <1>13, <1>14, <1>15, <1>16, <1>17, <1>18, <1>19, <1>20

\* ci catches up with what was handed out.
LEMMA AskUpdateCiHolds ==
  ASSUME IInv, NEW t \in QTypes, AskUpdateCi(t)
  PROVE  IInv'
<1> USE DEF IInv
<1>a. PICK a : a = ask[t][1]
  OBVIOUS
<1> DEFINE q == a.q
<1>1. /\ ask[t] # <<>> /\ a.cnt = Responses(a)
      /\ ci' = IF Carries(a) THEN [ci EXCEPT ![a.q] = (a.ci + a.num) % IdxMod] ELSE ci
      /\ ask' = [ask EXCEPT ![t] = <<>>]
      /\ UNCHANGED <<status, idx, ui, pi, used, want, serving, rd, rspFf, rdReq, orderFf,
                     notifying, ram, got>>
  BY <1>a DEF AskUpdateCi, rspVars, schVars
<1>2. DOMAIN ask[t] = {1} /\ a \in Asked
  BY <1>1, <1>a, AskOne
<1>3. q \in Q /\ a.cnt \in Nat /\ a.num \in Nat /\ a.ci \in Idx
  BY <1>2 DEF Asked
<1>4. ask'[t] = <<>> /\ \A u \in QTypes : u # t => ask'[u] = ask[u]
  BY <1>1 DEF TypeOK
<1>5. Typ[q] = t
  BY <1>a, <1>2 DEF AskInv
<1> HIDE DEF q
\* The pointer follows what was handed out.
<1>6. /\ \A o \in Q : o # q \/ ~ Carries(a) => ci'[o] = ci[o]
      /\ Carries(a) => ci'[q] = got[q] /\ status[q] \in Running
  <2>1. CASE Carries(a)
    <3>1. /\ a.ci = ci[q] /\ Minus(got[q], a.ci) = a.cnt /\ 1 <= a.num /\ status[q] \in Running
      BY <1>a, <1>2, <2>1 DEF AskInv, AskHolds, q
    <3>2. a.cnt = a.num
      BY <1>1, <1>3, <3>1 DEF Responses
    <3>3. (a.ci + a.num) % IdxMod = got[q]
      BY <1>3, <3>1, <3>2, PtrType, Arrive
    <3> QED BY <1>1, <1>3, <2>1, <3>1, <3>3 DEF TypeOK, q
  <2>2. CASE ~ Carries(a)
    BY <1>1, <2>2
  <2> QED BY <2>1, <2>2
<1>7. ASSUME NEW o \in Q
      PROVE  /\ idx[o] \in Idx /\ ui[o] \in Idx /\ pi[o] \in Idx /\ ci[o] \in Idx
             /\ used[o] \in Idx /\ got[o] \in Idx
             /\ Minus(got[o], ci[o]) \in Nat /\ Minus(pi[o], ci[o]) \in Nat
             /\ Minus(ui[o], ci[o]) \in Nat
             /\ Minus(idx[o], ci[o]) \in Nat /\ Minus(idx[o], ci[o]) < IdxMod
             /\ Minus(pi[o], got[o]) = Minus(pi[o], ci[o]) - Minus(got[o], ci[o])
             /\ Minus(ui[o], got[o]) = Minus(ui[o], ci[o]) - Minus(got[o], ci[o])
             /\ Minus(idx[o], got[o]) = Minus(idx[o], ci[o]) - Minus(got[o], ci[o])
             /\ Minus(got[o], ci[o]) <= Minus(pi[o], ci[o])
             /\ Minus(pi[o], ci[o]) <= Minus(ui[o], ci[o])
             /\ Minus(ui[o], ci[o]) <= Minus(idx[o], ci[o])
             /\ Minus(ui[o], ci[o]) <= Num(o) /\ Num(o) \in Nat
             /\ Minus(got[o], got[o]) = 0
  BY PtrType, Distances, MinusSelf, NumType DEF PtrInv
<1>8. FlightLen' = FlightLen /\ Flight' = Flight /\ Open' = Open
  BY <1>1, FlightKept
<1>9. TypeOK'
  <2>1. ci' \in [Q -> Idx]
    <3>1. CASE Carries(a)
      <4>1. got[q] \in Idx
        BY <1>3, <1>7 DEF q
      <4> QED BY <1>1, <1>6, <3>1, <4>1 DEF TypeOK, q
    <3>2. CASE ~ Carries(a)
      BY <1>1, <3>2 DEF TypeOK
    <3> QED BY <3>1, <3>2
  <2>2. \A u \in QTypes : ask'[u] \in Seq(Asked) /\ Len(ask'[u]) <= 1
    <3>1. ASSUME NEW u \in QTypes PROVE ask'[u] \in Seq(Asked) /\ Len(ask'[u]) <= 1
      <4>1. CASE u = t
        <5>1. ask'[u] = <<>>
          BY <1>4, <4>1
        <5>2. <<>> \in Seq(Asked) /\ Len(<<>>) <= 1
          OBVIOUS
        <5> QED BY <5>1, <5>2, Zenon
      <4>2. CASE u # t
        <5>1. ask'[u] = ask[u]
          BY <1>4, <4>2
        <5>2. ask[u] \in Seq(Asked) /\ Len(ask[u]) <= 1
          BY DEF TypeOK
        <5> QED BY <5>1, <5>2
      <4> QED BY <4>1, <4>2
    <3> QED BY <3>1
  <2>3. ask' \in [QTypes -> Seq(Asked)]
    <3>1. ask' = [u \in QTypes |-> ask'[u]]
      BY <1>1 DEF TypeOK
    <3> QED BY <2>2, <3>1
  <2> QED BY <1>1, <2>1, <2>2, <2>3 DEF TypeOK, Sch!TypeOK
<1>10. FlightInv'
  BY <1>1, <1>8, FlightInvKept
<1>11. FifoInv'
  BY <1>1, <1>8 DEF FifoInv
<1>12. PtrInv'
  <2>1. ASSUME NEW o \in Q
        PROVE  /\ Minus(got[o], ci'[o]) <= Minus(pi[o], ci'[o])
               /\ Minus(pi[o], ci'[o]) <= Minus(ui[o], ci'[o])
               /\ Minus(ui[o], ci'[o]) <= Minus(idx[o], ci'[o])
               /\ Minus(ui[o], ci'[o]) <= Num(o)
    <3>1. CASE ci'[o] = ci[o]
      BY <1>7, <3>1
    <3>2. CASE ci'[o] = got[o]
      BY <1>7, <3>2
    <3> QED BY <1>6, <3>1, <3>2
  <2> QED BY <1>1, <2>1 DEF PtrInv
<1>13. AskInv'
  <2>1. ASSUME NEW u \in QTypes, NEW i \in DOMAIN ask'[u]
        PROVE  /\ Typ[ask'[u][i].q] = u
               /\ Carries(ask'[u][i]) => AskHolds(ask[u][i])'
    <3>1. u # t /\ ask'[u] = ask[u] /\ i \in DOMAIN ask[u]
      BY <1>4, <2>1
    <3>2. Typ[ask[u][i].q] = u
      BY <3>1 DEF AskInv
    <3>3. ASSUME Carries(ask[u][i]) PROVE AskHolds(ask[u][i])'
      <4>1. ask[u][i].q \in Q /\ ask[u][i].q # q
        BY <1>5, <3>1, <3>2, <3>3, GotIs
      <4>2. ci'[ask[u][i].q] = ci[ask[u][i].q]
        BY <1>6, <4>1
      <4>3. AskHolds(ask[u][i])
        BY <3>1, <3>3 DEF AskInv
      <4> QED BY <1>1, <3>1, <4>2, <4>3 DEF AskHolds, AvailIdx
    <3> QED BY <3>1, <3>2, <3>3
  <2>2. ASSUME NEW o \in Q, got[o] # ci'[o]
        PROVE  \E i \in DOMAIN ask'[Typ[o]] : ask'[Typ[o]][i].q = o /\ Carries(ask'[Typ[o]][i])
    <3>1. ~ (o = q /\ Carries(a)) /\ ci'[o] = ci[o]
      BY <1>6, <2>2
    <3>2. PICK i \in DOMAIN ask[Typ[o]] : ask[Typ[o]][i].q = o /\ Carries(ask[Typ[o]][i])
      BY <2>2, <3>1 DEF AskInv
    <3>3. Typ[o] # t
      BY <1>a, <1>2, <3>1, <3>2 DEF q
    <3> QED BY <1>4, <3>2, <3>3, NumType
  <2> QED BY <1>1, <2>1, <2>2 DEF AskInv, Carries
<1>14. SampleInv'
  <2>1. ASSUME NEW i \in DOMAIN rd PROVE SampleHolds(rd[i])'
    <3>1. SampleHolds(rd[i]) /\ rd[i].q \in Q /\ rd[i].ui \in Idx /\ rd[i].ci \in Idx
      BY SampleType DEF SampleInv
    <3>2. Minus(rd[i].ui, rd[i].ci) \in Nat
      BY <3>1, MinusType
    <3>3. /\ Minus(ui[rd[i].q], ci'[rd[i].q]) <= Minus(ui[rd[i].q], ci[rd[i].q])
          /\ Minus(ui[rd[i].q], ci'[rd[i].q]) \in Nat
      BY <1>6, <1>7, <3>1
    <3>4. Minus(ui[rd[i].q], ci[rd[i].q]) \in Nat
      BY <1>7, <3>1
    <3>5. Minus(ui[rd[i].q], ci[rd[i].q]) <= Minus(rd[i].ui, rd[i].ci) =>
          Minus(ui[rd[i].q], ci'[rd[i].q]) <= Minus(rd[i].ui, rd[i].ci)
      BY <3>2, <3>3, <3>4
    <3> QED BY <1>1, <3>1, <3>5 DEF SampleHolds
  <2> QED BY <1>1, <2>1 DEF SampleInv
<1>15. StatusInv'
  BY <1>1, <1>6 DEF StatusInv, Running
<1>16. RamInv'
  <2>1. ASSUME NEW o \in Q, NEW x \in Idx, Minus(x, ci'[o]) < Minus(pi[o], ci'[o])
        PROVE  Minus(x, ci[o]) < Minus(pi[o], ci[o])
    <3>1. CASE ci'[o] = ci[o]
      BY <2>1, <3>1
    <3>2. CASE ci'[o] = got[o]
      <4>1. Minus(x, got[o]) \in Nat
        BY <1>7, MinusType
      <4>2. Minus(x, got[o]) + Minus(got[o], ci[o]) < Minus(pi[o], ci[o])
        BY <1>7, <2>1, <3>2, <4>1
      <4>3. Minus(x, got[o]) + Minus(got[o], ci[o]) < IdxMod
        BY <1>7, <4>1, <4>2, IdxModPos
      <4> QED BY <1>7, <4>2, <4>3, MinusAdd
    <3> QED BY <1>6, <3>1, <3>2
  <2> QED BY <1>1, <2>1 DEF RamInv
<1>17. RspInv'
  BY <1>1, <1>8, RspInvKept
<1> QED BY <1>9, <1>10, <1>11, <1>12, <1>13, <1>14, <1>15, <1>16, <1>17

\* Use never passes what was handed out.
LEMMA UseHolds ==
  ASSUME IInv, NEW q \in Q, Use(q)
  PROVE  IInv'
<1> USE DEF IInv
<1>1. /\ used[q] # got[q] /\ used' = [used EXCEPT ![q] = (@ + 1) % IdxMod]
      /\ UNCHANGED <<status, idx, ui, pi, ci, want, serving, rd, rspFf, rdReq, orderFf,
                     notifying, ram, ask, got>>
  BY DEF Use, rspVars, schVars
<1>2. used'[q] = (used[q] + 1) % IdxMod /\ \A o \in Q : o # q => used'[o] = used[o]
  BY <1>1 DEF TypeOK
<1>3. /\ used[q] \in Idx /\ got[q] \in Idx /\ idx[q] \in Idx
      /\ Minus(got[q], used[q]) \in Nat /\ Minus(idx[q], got[q]) \in Nat
  BY PtrType, MinusType
<1>4. 1 <= Minus(got[q], used[q])
  BY <1>1, <1>3, MinusZero
<1>5. used'[q] \in Idx /\ Minus(got[q], used'[q]) = Minus(got[q], used[q]) - 1
  BY <1>2, <1>3, <1>4, Towards
<1>6. FlightLen' = FlightLen /\ Flight' = Flight /\ Open' = Open
  BY <1>1, FlightKept
<1>7. TypeOK'
  <2>1. used' \in [Q -> Idx]
    BY <1>1, <1>5 DEF TypeOK
  <2> QED BY <1>1, <2>1 DEF TypeOK, Sch!TypeOK
<1>8. FlightInv'
  BY <1>1, <1>6, FlightInvKept
<1>9. FifoInv'
  BY <1>1, <1>6 DEF FifoInv
<1>10. PtrInv'
  <2>1. ASSUME NEW o \in Q
        PROVE  Minus(idx[o], got[o]) + Minus(got[o], used'[o]) <= QDepth
    <3>1. Minus(idx[o], got[o]) + Minus(got[o], used[o]) <= QDepth
      BY DEF PtrInv
    <3>2. CASE o = q
      BY <1>3, <1>5, <3>1, <3>2, IdxModPos
    <3>3. CASE o # q
      BY <1>2, <3>1, <3>3
    <3> QED BY <3>2, <3>3
  <2> QED BY <1>1, <2>1 DEF PtrInv
<1>11. AskInv'
  BY <1>1, AskInvKept
<1>12. SampleInv'
  BY <1>1, SampleInvKept
<1>13. StatusInv'
  <2>1. status[q] \notin {"IDLE", "STARTING"}
    BY <1>1 DEF StatusInv
  <2> QED BY <1>1, <1>2, <2>1 DEF StatusInv
<1>14. RamInv'
  BY <1>1, RamInvKept
<1>15. RspInv'
  BY <1>1, <1>6, RspInvKept
<1> QED BY <1>7, <1>8, <1>9, <1>10, <1>11, <1>12, <1>13, <1>14, <1>15

\* Software starts to use a queue, stops to, and takes the stop back.
LEMMA RunningHolds ==
  ASSUME IInv, NEW q \in Q, NEW st \in Running,
         status[q] \in {"STARTING", "DOING", "STOPPING"}, SetStatus(q, st),
         UNCHANGED <<ptrs, schVars, rd, rspVars, ask, got>>
  PROVE  IInv'
<1> USE DEF IInv
<1>1. /\ status' = [status EXCEPT ![q] = st]
      /\ UNCHANGED <<idx, ui, pi, ci, used, want, serving, rd, rspFf, rdReq, orderFf,
                     notifying, ram, ask, got>>
  BY DEF SetStatus, rspVars, schVars, ptrs
<1>2. status'[q] = st /\ \A o \in Q : o # q => status'[o] = status[o]
  BY <1>1 DEF TypeOK
<1>3. FlightLen' = FlightLen /\ Flight' = Flight /\ Open' = Open
  BY <1>1, FlightKept
<1>4. TypeOK'
  <2>1. status' \in [Q -> Statuses]
    BY <1>1 DEF TypeOK, Running, Statuses
  <2> QED BY <1>1, <2>1 DEF TypeOK, Sch!TypeOK
<1>5. FlightInv'
  BY <1>1, <1>3, FlightInvKept
<1>6. FifoInv'
  BY <1>1, <1>3 DEF FifoInv
<1>7. PtrInv'
  BY <1>1, PtrInvKept
<1>8. \A o \in Q : status[o] \in Running => status'[o] \in Running
  BY <1>2
<1>9. AskInv'
  <2>1. ASSUME NEW t \in QTypes, NEW i \in DOMAIN ask[t], Carries(ask[t][i])
        PROVE  AskHolds(ask[t][i])'
    <3>1. AskHolds(ask[t][i]) /\ ask[t][i].q \in Q
      BY <2>1, GotIs DEF AskInv
    <3>2. status'[ask[t][i].q] \in Running
      BY <1>8, <3>1 DEF AskHolds
    <3> QED BY <1>1, <3>1, <3>2 DEF AskHolds, AvailIdx
  <2> QED BY <1>1, <2>1 DEF AskInv, Carries
<1>10. SampleInv'
  <2>1. ASSUME NEW i \in DOMAIN rd PROVE SampleHolds(rd[i])'
    <3>1. SampleHolds(rd[i]) /\ rd[i].q \in Q
      BY SampleType DEF SampleInv
    <3>2. CASE rd[i].q = q /\ status[q] = "STARTING"
      <4>1. ui[q] = idx[q] /\ status[q] \notin Running
        BY <3>2 DEF StatusInv, Running
      <4> QED BY <1>1, <1>2, <3>1, <3>2, <4>1 DEF SampleHolds
    <3>3. CASE rd[i].q = q /\ status[q] # "STARTING"
      <4>1. status[q] \in Running
        BY <3>3 DEF Running
      <4> QED BY <1>1, <1>2, <3>1, <3>3, <4>1 DEF SampleHolds
    <3>4. CASE rd[i].q # q
      <4>1. status'[rd[i].q] = status[rd[i].q]
        BY <1>2, <3>1, <3>4
      <4> QED BY <1>1, <3>1, <4>1 DEF SampleHolds
    <3> QED BY <3>2, <3>3, <3>4
  <2> QED BY <1>1, <2>1 DEF SampleInv
<1>11. StatusInv'
  BY <1>1, <1>2 DEF StatusInv, Running
<1>12. RamInv'
  BY <1>1, RamInvKept
<1>13. RspInv'
  BY <1>1, <1>3, RspInvKept
<1> QED BY <1>4, <1>5, <1>6, <1>7, <1>9, <1>10, <1>11, <1>12, <1>13

\* The three conditions of stop_ptr_equal leave nothing of the queue under way.
LEMMA SwSeesIdleHolds ==
  ASSUME IInv, NEW q \in Q, SwSeesIdle(q)
  PROVE  IInv'
<1> USE DEF IInv
<1>1. /\ status[q] = "STOPPING" /\ pi[q] = ui[q] /\ ci[q] = used[q] /\ ~ Busy(q) /\ NotStale(q)
      /\ status' = [status EXCEPT ![q] = "IDLE"]
      /\ UNCHANGED <<idx, ui, pi, ci, used, want, serving, rd, rspFf, rdReq, orderFf,
                     notifying, ram, ask, got>>
  BY DEF SwSeesIdle, SetStatus, rspVars, schVars, ptrs
<1>2. status'[q] = "IDLE" /\ \A o \in Q : o # q => status'[o] = status[o]
  BY <1>1 DEF TypeOK
<1>3. FlightLen' = FlightLen /\ Flight' = Flight /\ Open' = Open
  BY <1>1, FlightKept
<1>4. TypeOK'
  <2>1. status' \in [Q -> Statuses]
    BY <1>1 DEF TypeOK, Statuses
  <2> QED BY <1>1, <2>1 DEF TypeOK, Sch!TypeOK
<1>5. FlightInv'
  BY <1>1, <1>3, FlightInvKept
<1>6. FifoInv'
  BY <1>1, <1>3 DEF FifoInv
<1>7. PtrInv'
  BY <1>1, PtrInvKept
<1>8. ASSUME NEW t \in QTypes, NEW i \in DOMAIN ask[t], Carries(ask[t][i])
      PROVE  ask[t][i].q # q
  BY <1>1, <1>8 DEF AskInv, Busy, Carries
<1>9. AskInv'
  <2>1. ASSUME NEW t \in QTypes, NEW i \in DOMAIN ask[t], Carries(ask[t][i])
        PROVE  AskHolds(ask[t][i])'
    <3>1. AskHolds(ask[t][i]) /\ ask[t][i].q \in Q
      BY <2>1, GotIs DEF AskInv
    <3>2. status'[ask[t][i].q] = status[ask[t][i].q]
      BY <1>2, <1>8, <2>1, <3>1
    <3> QED BY <1>1, <3>1, <3>2 DEF AskHolds, AvailIdx
  <2> QED BY <1>1, <2>1 DEF AskInv, Carries
<1>10. SampleInv'
  <2>1. ASSUME NEW i \in DOMAIN rd PROVE SampleHolds(rd[i])'
    <3>1. SampleHolds(rd[i]) /\ rd[i].q \in Q
      BY SampleType DEF SampleInv
    <3>2. CASE rd[i].q = q
      <4>1. ~ (rd[i].st = "JUDGE" /\ rd[i].status = "DOING")
        BY <1>1, <3>2 DEF NotStale
      <4> QED BY <1>1, <1>2, <3>2, <4>1 DEF SampleHolds, Running
    <3>3. CASE rd[i].q # q
      <4>1. status'[rd[i].q] = status[rd[i].q]
        BY <1>2, <3>1, <3>3
      <4> QED BY <1>1, <3>1, <4>1 DEF SampleHolds
    <3> QED BY <3>2, <3>3
  <2> QED BY <1>1, <2>1 DEF SampleInv
<1>11. StatusInv'
  <2>1. got[q] = ci[q]
    BY <1>8, NumType DEF AskInv
  <2> QED BY <1>1, <1>2, <2>1 DEF StatusInv, Running
<1>12. RamInv'
  BY <1>1, RamInvKept
<1>13. RspInv'
  BY <1>1, <1>3, RspInvKept
<1> QED BY <1>4, <1>5, <1>6, <1>7, <1>9, <1>10, <1>11, <1>12, <1>13

\* A queue that is set up again starts with all pointers equal.
LEMMA SwStartHolds ==
  ASSUME IInv, NEW q \in Q, SwStart(q)
  PROVE  IInv'
<1> USE DEF IInv
<1>1. /\ status[q] = "IDLE" /\ status' = [status EXCEPT ![q] = "STARTING"]
      /\ idx' = [idx EXCEPT ![q] = used[q]] /\ ui' = [ui EXCEPT ![q] = used[q]]
      /\ pi' = [pi EXCEPT ![q] = used[q]] /\ ci' = [ci EXCEPT ![q] = used[q]]
      /\ UNCHANGED <<used, want, serving, rd, rspFf, rdReq, orderFf, notifying, ram, ask, got>>
  BY DEF SwStart, SetStatus, rspVars, schVars
<1>2. /\ status'[q] = "STARTING" /\ idx'[q] = used[q] /\ ui'[q] = used[q]
      /\ pi'[q] = used[q] /\ ci'[q] = used[q]
  BY <1>1 DEF TypeOK
<1>3. \A o \in Q : o # q =>
        /\ status'[o] = status[o] /\ idx'[o] = idx[o] /\ ui'[o] = ui[o]
        /\ pi'[o] = pi[o] /\ ci'[o] = ci[o]
  BY <1>1 DEF TypeOK
<1>4. used[q] \in Idx /\ got[q] = used[q] /\ pi[q] = ui[q] /\ status[q] \notin Running
  BY <1>1, PtrType DEF StatusInv, Running
<1>5. Minus(used[q], used[q]) = 0
  BY <1>4, MinusSelf
<1>6. FlightLen' = FlightLen /\ Flight' = Flight /\ Open' = Open
  BY <1>1, FlightKept
<1>7. TypeOK'
  <2>1. status' \in [Q -> Statuses]
    BY <1>1 DEF TypeOK, Statuses
  <2>2. /\ idx' \in [Q -> Idx] /\ ui' \in [Q -> Idx] /\ pi' \in [Q -> Idx] /\ ci' \in [Q -> Idx]
        /\ used' \in [Q -> Idx] /\ got' \in [Q -> Idx]
    BY <1>1, <1>4 DEF TypeOK
  <2> QED BY <1>1, <2>1, <2>2 DEF TypeOK, Sch!TypeOK
<1>8. ASSUME NEW i \in Open
      PROVE  /\ Flight[i].q \in Q /\ Flight[i].q # q
             /\ ui'[Flight[i].q] = ui[Flight[i].q] /\ pi'[Flight[i].q] = pi[Flight[i].q]
  <2>1. Flight[i].q \in Q
    BY FlightType DEF Open
  <2>2. Flight[i].q # q
    BY <1>4, NoneOpen
  <2> QED BY <1>3, <2>1, <2>2
<1>9. FlightInv'
  <2>1. ASSUME NEW i \in Open PROVE Rest(i)' = Rest(i)
    BY <1>6, <1>8 DEF Rest
  <2>2. ASSUME NEW i \in Open
        PROVE  /\ 1 <= Flight[i].num /\ Flight[i].num <= Rest(i)
               /\ Rest(i) <= Minus(ui'[Flight[i].q], pi'[Flight[i].q])
               /\ (Flight[i].ui % QDepth) + Flight[i].num <= QDepth
    BY <1>8 DEF FlightInv
  <2>3. ASSUME NEW i \in Open, NEW j \in Open, i < j, Flight[i].q = Flight[j].q
        PROVE  Rest(j) + Flight[i].num <= Rest(i)
    BY <2>3 DEF FlightInv
  <2>4. ASSUME NEW o \in Q, NEW x \in 1 .. Minus(ui'[o], pi'[o])
        PROVE  \E i \in Open : Flight[i].q = o /\ Rest(i) - Flight[i].num < x /\ x <= Rest(i)
    <3>1. o # q
      BY <1>2, <1>5, <2>4
    <3> QED BY <1>3, <2>4, <3>1 DEF FlightInv
  <2> QED BY <1>6, <2>1, <2>2, <2>3, <2>4 DEF FlightInv
<1>10. FifoInv'
  BY <1>1, <1>6 DEF FifoInv
<1>11. PtrInv'
  <2>1. ASSUME NEW o \in Q
        PROVE  /\ Minus(got[o], ci'[o]) <= Minus(pi'[o], ci'[o])
               /\ Minus(pi'[o], ci'[o]) <= Minus(ui'[o], ci'[o])
               /\ Minus(ui'[o], ci'[o]) <= Minus(idx'[o], ci'[o])
               /\ Minus(ui'[o], ci'[o]) <= Num(o)
               /\ Minus(idx'[o], got[o]) + Minus(got[o], used[o]) <= QDepth
    <3>1. CASE o = q
      BY <1>2, <1>4, <1>5, <3>1, NumType, IdxModPos
    <3>2. CASE o # q
      BY <1>3, <3>2 DEF PtrInv
    <3> QED BY <3>1, <3>2
  <2> QED BY <1>1, <2>1 DEF PtrInv
<1>12. AskInv'
  <2>1. ASSUME NEW t \in QTypes, NEW i \in DOMAIN ask[t], Carries(ask[t][i])
        PROVE  AskHolds(ask[t][i])'
    <3>1. AskHolds(ask[t][i]) /\ ask[t][i].q \in Q
      BY <2>1, GotIs DEF AskInv
    <3>2. ask[t][i].q # q
      BY <1>4, <3>1 DEF AskHolds
    <3>3. /\ status'[ask[t][i].q] = status[ask[t][i].q] /\ ci'[ask[t][i].q] = ci[ask[t][i].q]
          /\ pi'[ask[t][i].q] = pi[ask[t][i].q]
      BY <1>3, <3>1, <3>2
    <3> QED BY <1>1, <3>1, <3>3 DEF AskHolds, AvailIdx
  <2>2. ASSUME NEW o \in Q, got[o] # ci'[o]
        PROVE  \E i \in DOMAIN ask[Typ[o]] : ask[Typ[o]][i].q = o /\ Carries(ask[Typ[o]][i])
    <3>1. o # q
      BY <1>2, <1>4, <2>2
    <3> QED BY <1>3, <2>2, <3>1 DEF AskInv
  <2> QED BY <1>1, <2>1, <2>2 DEF AskInv, Carries
<1>13. SampleInv'
  <2>1. ASSUME NEW i \in DOMAIN rd PROVE SampleHolds(rd[i])'
    <3>1. SampleHolds(rd[i]) /\ rd[i].q \in Q
      BY SampleType DEF SampleInv
    <3>2. CASE rd[i].q = q
      BY <1>1, <1>2, <1>4, <3>1, <3>2 DEF SampleHolds, Running
    <3>3. CASE rd[i].q # q
      <4>1. /\ status'[rd[i].q] = status[rd[i].q] /\ idx'[rd[i].q] = idx[rd[i].q]
            /\ ui'[rd[i].q] = ui[rd[i].q] /\ ci'[rd[i].q] = ci[rd[i].q]
        BY <1>3, <3>1, <3>3
      <4> QED BY <1>1, <3>1, <4>1 DEF SampleHolds
    <3> QED BY <3>2, <3>3
  <2> QED BY <1>1, <2>1 DEF SampleInv
<1>14. StatusInv'
  BY <1>1, <1>2, <1>3, <1>4 DEF StatusInv, Running
<1>15. RamInv'
  <2>1. ASSUME NEW o \in Q, NEW x \in Idx, Minus(x, ci'[o]) < Minus(pi'[o], ci'[o])
        PROVE  ram[o][x % Num(o)] = x
    <3>1. o # q
      <4>1. Minus(x, used[q]) \in Nat
        BY <1>4, MinusType
      <4> QED BY <1>2, <1>5, <2>1, <4>1
    <3> QED BY <1>3, <2>1, <3>1 DEF RamInv
  <2> QED BY <1>1, <2>1 DEF RamInv
<1>16. RspInv'
  BY <1>1, <1>6, RspInvKept
<1> QED BY <1>7, <1>9, <1>10, <1>11, <1>12, <1>13, <1>14, <1>15, <1>16

\* Every step.
LEMMA StepHolds == IInv /\ [Next]_vars => IInv'
<1> SUFFICES ASSUME IInv, [Next]_vars PROVE IInv'
  OBVIOUS
<1>1. ASSUME NEW q \in Q, Post(q) PROVE IInv'
  BY <1>1, PostHolds
<1>2. ASSUME NEW q \in Q, RdCtx(q) PROVE IInv'
  BY <1>2, RdCtxHolds
<1>3. ASSUME NEW q \in Q, AskCtx(q) PROVE IInv'
  BY <1>3, AskCtxHolds
<1>4. ASSUME NEW q \in Q, Use(q) PROVE IInv'
  BY <1>4, UseHolds
<1>5. CASE Judge
  <2>1. rd # <<>>
    BY <1>5 DEF Judge
  <2>2. PICK s \in RdSample : rd[1] = s /\ DOMAIN rd = {1}
    BY <2>1, RdOne DEF IInv
  <2> QED BY <1>5, <2>1, <2>2, NoReadHolds, GrantHolds
<1>6. CASE RdAnswer
  <2>1. rd # <<>>
    BY <1>6 DEF RdAnswer
  <2>2. PICK s \in RdSample : rd[1] = s /\ DOMAIN rd = {1}
    BY <2>1, RdOne DEF IInv
  <2> QED BY <1>6, <2>1, <2>2, RdAnswerHolds
<1>7. CASE DmaRdRsp
  BY <1>7, DmaRdRspHolds
<1>8. CASE ProcRingIds
  BY <1>8, ProcRingIdsHolds
<1>9. CASE Notify
  BY <1>9, NotifyHolds
<1>10. ASSUME NEW t \in QTypes, AskRsp(t) PROVE IInv'
  BY <1>10, AskRspHolds
<1>11. ASSUME NEW t \in QTypes, AskUpdateCi(t) PROVE IInv'
  BY <1>11, AskUpdateCiHolds
<1>12. ASSUME NEW q \in Q, SocNotify(q) PROVE IInv'
  BY <1>12, RunningHolds DEF SocNotify, Running
<1>13. ASSUME NEW q \in Q, SwStop(q) PROVE IInv'
  BY <1>13, RunningHolds DEF SwStop, Running
<1>14. ASSUME NEW q \in Q, SwResume(q) PROVE IInv'
  BY <1>14, RunningHolds DEF SwResume, Running
<1>15. ASSUME NEW q \in Q, SwSeesIdle(q) PROVE IInv'
  BY <1>15, SwSeesIdleHolds
<1>16. ASSUME NEW q \in Q, SwStart(q) PROVE IInv'
  BY <1>16, SwStartHolds
<1>17. CASE UNCHANGED vars
  <2>1. UNCHANGED <<status, idx, ui, pi, ci, used, want, serving, rd, rspFf, rdReq, orderFf,
                    notifying, ram, ask, got>>
    BY <1>17 DEF vars, ptrs, schVars, rspVars
  <2>2. FlightLen' = FlightLen /\ Flight' = Flight /\ Open' = Open
    BY <2>1, FlightKept
  <2>3. TypeOK'
    BY <2>1 DEF IInv, TypeOK, Sch!TypeOK
  <2>4. FlightInv' /\ PtrInv' /\ AskInv' /\ SampleInv' /\ StatusInv' /\ RamInv' /\ RspInv'
    BY <2>1, <2>2, FlightInvKept, PtrInvKept, AskInvKept, SampleInvKept, StatusInvKept,
       RamInvKept, RspInvKept DEF IInv
  <2>5. FifoInv'
    BY <2>1, <2>2 DEF IInv, FifoInv
  <2> QED BY <2>3, <2>4, <2>5 DEF IInv
<1> QED
  BY <1>1, <1>2, <1>3, <1>4, <1>5, <1>6, <1>7, <1>8, <1>9, <1>10, <1>11, <1>12, <1>13, <1>14,
     <1>15, <1>16, <1>17 DEF Next

-----------------------------------------------------------------------------
(* What follows. *)

(***************************************************************************)
(* The inductive invariant.  None of the properties below is inductive as  *)
(* it stands: that a pointer stays behind the next one needs what each     *)
(* read under way and each machine that hands entries out is about to      *)
(* write to it.                                                            *)
(***************************************************************************)
THEOREM Inductive == Safety => []IInv
<1>1. Init => IInv
  BY InitHolds
<1> QED BY <1>1, StepHolds, PTL DEF Safety

(***************************************************************************)
(* Every variable of the engine keeps its type: no index leaves its 16     *)
(* bits and the order FIFO does not overflow, since the machine that reads *)
(* looks at it before it takes a queue.                                    *)
(***************************************************************************)
THEOREM TypeCorrect == Safety => []TypeOK
<1>1. IInv => TypeOK
  BY DEF IInv
<1> QED BY <1>1, Inductive, PTL

(***************************************************************************)
(* The pointers of a queue never pass each other and the RAM is never      *)
(* overrun, also across the wrap of the indices: ui moves by a grant that  *)
(* was computed on an old sample, pi by the length of an answer, ci by     *)
(* what was handed out (virtio_ring_id_engine.sv:318-359,                  *)
(* virtio_desc_req_ctrl.sv:410-443).                                       *)
(***************************************************************************)
THEOREM PointersStayInOrder == Safety => []PointersInOrder
<1>1. IInv => PointersInOrder
  BY DEF IInv, PtrInv, PointersInOrder
<1> QED BY <1>1, Inductive, PTL

(***************************************************************************)
(* The engine is never done with a running queue that has entries to read: *)
(* it is wanted or served (virtio_ring_id_engine.sv:384-392).              *)
(***************************************************************************)
THEOREM NoQueueForgotten == Safety => []RingNotForgotten
<1>1. IInv => RingNotForgotten
  BY DEF IInv, StatusInv, RingNotForgotten, Running
<1> QED BY <1>1, Inductive, PTL

\* A queue without open reads and without a machine that carries its entries.
LEMMA QuietWhenIdle == IInv => IdleIsQuiet
<1> SUFFICES ASSUME IInv, NEW q \in Q, status[q] \in {"IDLE", "STARTING"}
             PROVE  /\ \A i \in DOMAIN rdReq : rdReq[i].q # q
                    /\ \A i \in DOMAIN orderFf : orderFf[i] = q => notifying /\ i = 1
                    /\ \A i \in DOMAIN rd : rd[i].q = q =>
                         rd[i].st # "RD_RING_ID" /\ (rd[i].st = "JUDGE" => NoRead(rd[i]))
                    /\ \A i \in DOMAIN ask[Typ[q]] : ask[Typ[q]][i].q = q => ~ Carries(ask[Typ[q]][i])
                    /\ used[q] = got[q]
  BY DEF IdleIsQuiet
<1> USE DEF IInv
<1>1. pi[q] = ui[q] /\ used[q] = got[q] /\ status[q] \notin Running
  BY DEF StatusInv, Running
<1>2. \A i \in Open : Flight[i].q # q
  BY <1>1, NoneOpen
<1>3. /\ Len(rspFf) \in Nat /\ Len(rdReq) \in Nat /\ FlightLen \in Nat
      /\ Len(rspFf) + Len(rdReq) <= FlightLen
      /\ DOMAIN rdReq = 1 .. Len(rdReq) /\ DOMAIN orderFf = 1 .. Len(orderFf)
  BY FlightType DEF TypeOK
<1>4. notifying => Len(rspFf) >= 1
  <2>1. notifying => rspFf # <<>>
    BY DEF FifoInv
  <2>2. rspFf \in Seq(Rsp)
    BY DEF TypeOK
  <2>3. rspFf # <<>> => Len(rspFf) \in Nat \ {0}
    BY <2>2, EmptySeq
  <2> QED BY <1>3, <2>1, <2>3
<1>5. ASSUME NEW i \in DOMAIN rdReq PROVE rdReq[i].q # q
  <2> DEFINE k == Len(rspFf) + i
  <2>1. k \in Open /\ k \in 1 .. FlightLen
    BY <1>3, <1>4, <1>5 DEF Open
  <2>2. Flight[k] = rdReq[i]
    BY <1>3, <1>5, <2>1 DEF Flight
  <2> QED BY <1>2, <2>1, <2>2
<1>6. ASSUME NEW i \in DOMAIN orderFf, orderFf[i] = q PROVE notifying /\ i = 1
  <2>1. Flight[i].q = q /\ i \in 1 .. FlightLen
    BY <1>3, <1>6 DEF FifoInv
  <2> QED BY <1>2, <2>1 DEF Open
<1>7. ASSUME NEW i \in DOMAIN rd, rd[i].q = q
      PROVE  rd[i].st # "RD_RING_ID" /\ (rd[i].st = "JUDGE" => NoRead(rd[i]))
  <2>1. i = 1
    BY <1>7, RdOne
  <2>2. rd[i].st # "RD_RING_ID"
    <3>1. SUFFICES ASSUME rd[i].st = "RD_RING_ID" PROVE FALSE
      OBVIOUS
    <3>2. Reading
      BY <1>7, <2>1, <3>1 DEF Reading
    <3> DEFINE k == Len(rspFf) + Len(rdReq) + 1
    <3>3. FlightLen = k
      BY <3>2 DEF FlightLen
    <3>4. k \in Open /\ k \in 1 .. FlightLen
      BY <1>3, <1>4, <3>3 DEF Open
    <3>5. Flight[k] = [q |-> rd[1].q, ui |-> rd[1].ui, num |-> rd[1].num]
      BY <1>3, <3>4 DEF Flight
    <3> QED BY <1>2, <1>7, <2>1, <3>4, <3>5
  <2>3. rd[i].st = "JUDGE" => NoRead(rd[i])
    <3>1. SampleHolds(rd[i])
      BY DEF SampleInv
    <3> QED BY <1>1, <1>7, <3>1 DEF SampleHolds, NoRead
  <2> QED BY <2>2, <2>3
<1>8. ASSUME NEW i \in DOMAIN ask[Typ[q]], ask[Typ[q]][i].q = q
      PROVE  ~ Carries(ask[Typ[q]][i])
  BY <1>1, <1>8, NumType DEF AskInv, AskHolds
<1> QED BY <1>1, <1>5, <1>6, <1>7, <1>8

(***************************************************************************)
(* A queue that software has seen IDLE has nothing under way: no read, no  *)
(* machine that would still move one of its pointers, nothing handed out   *)
(* and not used (virtio_ctx.sv:1675-1729).                                 *)
(***************************************************************************)
THEOREM IdleQueueIsQuiet == Safety => []IdleIsQuiet
  BY Inductive, QuietWhenIdle, PTL

(***************************************************************************)
(* Every entry is handed out once and in order, and with its own avail_idx: *)
(* the id comes from the RAM, where an answer of the DMA has put it, from  *)
(* the ring, where the driver posted it (virtio_ring_id_engine.sv:345-387, *)
(* 423-531, virtio_desc_req_ctrl.sv:534-639).                              *)
(***************************************************************************)
THEOREM HandedOutInOrder == Safety => HandsOutInOrder
<1> DEFINE RequestInOrder(t) == AskRsp(t) =>
             LET a == ask[t][1] IN Carries(a) => a.id = got[a.q] /\ AvailIdx(a) = got[a.q]
<1>1. ASSUME IInv, NEW t \in QTypes, AskRsp(t), Carries(ask[t][1])
      PROVE  ask[t][1].id = got[ask[t][1].q] /\ AvailIdx(ask[t][1]) = got[ask[t][1].q]
  <2>1. ask[t] # <<>> /\ ask[t][1].cnt < Responses(ask[t][1])
    BY <1>1 DEF AskRsp
  <2>2. 1 \in DOMAIN ask[t]
    BY <1>1, <2>1, AskOne DEF IInv
  <2>3. ask[t][1].cnt \in Nat /\ ask[t][1].num \in Nat /\ AvailIdx(ask[t][1]) = got[ask[t][1].q]
    BY <1>1, <2>2, GotIs DEF IInv
  <2>4. AskHolds(ask[t][1])
    BY <1>1, <2>2 DEF IInv, AskInv
  <2>5. ask[t][1].cnt < ask[t][1].num
    BY <2>1, <2>3, <2>4 DEF Responses, AskHolds
  <2> QED BY <2>3, <2>4, <2>5 DEF AskHolds
<1>2. IInv => [\A t \in QTypes : RequestInOrder(t)]_vars
  BY <1>1
<1> QED BY <1>2, Inductive, PTL DEF HandsOutInOrder
=============================================================================
