---------------------------- MODULE Links_proofs ----------------------------
(***************************************************************************)
(* The buses of the simulation and what stands on them, for every room of  *)
(* their queues, length of a pause, number of senders and of transfers:    *)
(* the wires and the transactors are queues, their own queues stay within  *)
(* their limits, no packet is found in pieces and no response taken for    *)
(* another's, and a bus that says it is idle is.                           *)
(***************************************************************************)
EXTENDS Links, EngineLemmas

-----------------------------------------------------------------------------
(* One at a time. *)

LEMMA StreamAlone ==
  /\ LinkInit /\ bench = "stream" => Str!Init
  /\ [LinkNext]_linkVars /\ bench = "stream" => [Str!Next]_(Str!vars)
  BY DEF LinkInit, LinkNext, LinkSteps, LinkOthers, linkVars, strVars, Str!vars

LEMMA SavAlone ==
  /\ LinkInit /\ bench = "sav" => Sav!Init
  /\ [LinkNext]_linkVars /\ bench = "sav" => [Sav!Next]_(Sav!vars)
  BY DEF LinkInit, LinkNext, LinkSteps, LinkOthers, linkVars, savVars, Sav!vars

LEMMA BeqAlone ==
  /\ LinkInit /\ bench = "beq" => Pip!Init
  /\ [LinkNext]_linkVars /\ bench = "beq" => [Pip!Next]_(Pip!vars)
  BY DEF LinkInit, LinkNext, LinkSteps, LinkOthers, linkVars, pipVars, Pip!vars

LEMMA DmaAlone ==
  /\ LinkInit /\ bench = "dma" => Dma!Init
  /\ [LinkNext]_linkVars /\ bench = "dma" => [Dma!Next]_(Dma!vars)
  BY DEF LinkInit, LinkNext, LinkSteps, LinkOthers, linkVars, dmaVars, Dma!vars

LEMMA BeqTxqAlone ==
  /\ LinkInit /\ bench = "beqtxq" => Btq!Init
  /\ [LinkNext]_linkVars /\ bench = "beqtxq" => [Btq!Next]_(Btq!vars)
  BY DEF LinkInit, LinkNext, LinkSteps, LinkOthers, linkVars, btqVars, Btq!vars

LEMMA SameBench == [LinkNext]_linkVars => UNCHANGED bench
  BY DEF LinkNext, LinkSteps, LinkOthers, linkVars

-----------------------------------------------------------------------------
(* A channel in three parts: received, on the wires, not yet sent. *)

Cat(x, w, z) == (x \o w) \o z

LEMMA IntAssoc ==
  ASSUME NEW p \in Seq(Int), NEW q \in Seq(Int), NEW r \in Seq(Int)
  PROVE  (p \o q) \o r = p \o (q \o r)
  BY SMTT(40), ConcatAssociative

\* What is sent goes to the end.
LEMMA ChanPut ==
  ASSUME NEW x \in Seq(Int), NEW w \in Seq(Int), NEW z \in Seq(Int)
  PROVE  /\ Cat(x, w, z) \in Seq(Int)
         /\ \A e \in Int : Cat(x, w, Append(z, e)) = Append(Cat(x, w, z), e)
<1>0. Cat(x, w, z) \in Seq(Int)
  BY ConcatProperties DEF Cat
<1> SUFFICES ASSUME NEW e \in Int PROVE Cat(x, w, Append(z, e)) = Append(Cat(x, w, z), e)
  BY <1>0
<1>1. x \o w \in Seq(Int) /\ (x \o w) \o z \in Seq(Int) /\ <<e>> \in Seq(Int)
  BY ConcatProperties
<1>2. Append(z, e) = z \o <<e>> /\ Append((x \o w) \o z, e) = ((x \o w) \o z) \o <<e>>
  BY <1>1, AppendIsConcat
<1>3. ((x \o w) \o z) \o <<e>> = (x \o w) \o (z \o <<e>>)
  <2> DEFINE p == x \o w
  <2>1. p \in Seq(Int)
    BY <1>1
  <2> HIDE DEF p
  <2>2. (p \o z) \o <<e>> = p \o (z \o <<e>>)
    BY SMTT(40), <1>1, <2>1, IntAssoc
  <2> QED BY <2>2 DEF p
<1> QED BY <1>2, <1>3 DEF Cat

\* What is received is taken from the front.
LEMMA ChanTake ==
  ASSUME NEW x \in Seq(Int), NEW w \in Seq(Int), NEW z \in Seq(Int), x # <<>>
  PROVE  /\ Cat(x, w, z) # <<>>
         /\ Head(Cat(x, w, z)) = Head(x)
         /\ Tail(Cat(x, w, z)) = Cat(Tail(x), w, z)
<1> DEFINE y == w \o z
           c == x \o y
<1>1. /\ Tail(x) \in Seq(Int) /\ y \in Seq(Int) /\ c \in Seq(Int)
      /\ (x \o w) \o z = c /\ (Tail(x) \o w) \o z = Tail(x) \o y
  <2>1. Tail(x) \in Seq(Int) /\ y \in Seq(Int)
    BY ConcatProperties
  <2>2. (x \o w) \o z = c
    BY SMTT(40), IntAssoc
  <2>3. (Tail(x) \o w) \o z = Tail(x) \o y
    BY <2>1, SMTT(40), IntAssoc
  <2> HIDE DEF y
  <2>4. c \in Seq(Int)
    BY <2>1, ConcatProperties
  <2> QED BY <2>1, <2>2, <2>3, <2>4
<1> HIDE DEF y
<1>2. /\ Len(x) \in Nat \ {0} /\ Len(y) \in Nat /\ Len(Tail(x)) = Len(x) - 1 /\ Len(c) = Len(x) + Len(y)
      /\ c[1] = x[1]
  BY <1>1, ConcatProperties
<1>3. c # <<>> /\ Head(c) = Head(x)
  BY <1>1, <1>2
<1>4. Tail(c) = Tail(x) \o y
  <2> DEFINE r == Tail(x) \o y
  <2>1. Tail(c) \in Seq(Int) /\ r \in Seq(Int) /\ Len(Tail(c)) = Len(c) - 1 /\ Len(r) = Len(c) - 1
    BY <1>1, <1>2, <1>3, ConcatProperties, HeadTailProperties
  <2>2. ASSUME NEW i \in 1 .. Len(Tail(c)) PROVE Tail(c)[i] = r[i]
    <3>1. i \in 1 .. Len(x) - 1 + Len(y) /\ i + 1 \in 1 .. Len(x) + Len(y)
      BY <1>2, <2>1
    <3>2. Tail(c)[i] = c[i + 1]
      BY <1>1, <1>3, HeadTailProperties
    <3>3. c[i + 1] = IF i + 1 <= Len(x) THEN x[i + 1] ELSE y[i + 1 - Len(x)]
      BY <1>1, <3>1, ConcatProperties
    <3>4. r[i] = IF i <= Len(x) - 1 THEN Tail(x)[i] ELSE y[i - (Len(x) - 1)]
      BY <1>1, <1>2, <3>1, ConcatProperties
    <3>5. i <= Len(x) - 1 => Tail(x)[i] = x[i + 1]
      BY <1>2, <3>1, HeadTailProperties
    <3>6. (i + 1 <= Len(x) <=> i <= Len(x) - 1) /\ i + 1 - Len(x) = i - (Len(x) - 1)
      BY <1>2
    <3> QED BY <3>2, <3>3, <3>4, <3>5, <3>6
  <2> HIDE DEF c, r
  <2>3. Tail(c) = r
    BY <2>1, <2>2, SeqEqual
  <2> QED BY <2>3 DEF r
<1> HIDE DEF c
<1>5. Cat(x, w, z) = c /\ Cat(Tail(x), w, z) = Tail(x) \o y
  BY <1>1 DEF Cat
<1> QED BY <1>3, <1>4, <1>5

\* The next item goes onto the free wires,
LEMMA ChanNext ==
  ASSUME NEW x \in Seq(Int), NEW z \in Seq(Int), z # <<>>
  PROVE  Cat(x, <<Head(z)>>, Tail(z)) = Cat(x, <<>>, z)
<1>1. x \o <<>> = x
  BY ConcatEmptySeq
<1>2. (x \o <<Head(z)>>) \o Tail(z) = x \o (<<Head(z)>> \o Tail(z))
  BY FirstOf, SMTT(40), IntAssoc
<1>3. <<Head(z)>> \o Tail(z) = z
  BY FirstOf
<1> QED BY <1>1, <1>2, <1>3 DEF Cat

\* and the item on the wires is received.
LEMMA ChanArrives ==
  ASSUME NEW x \in Seq(Int), NEW z \in Seq(Int), NEW d \in Int
  PROVE  Append(x, d) \in Seq(Int) /\ Cat(x, <<d>>, z) = Cat(Append(x, d), <<>>, z)
<1> DEFINE y == x \o <<d>>
<1>1. Append(x, d) = y /\ y \in Seq(Int)
  BY AppendIsConcat, ConcatProperties
<1>2. Cat(x, <<d>>, z) = y \o z
  BY DEF Cat
<1> HIDE DEF y
<1>3. y \o <<>> = y
  BY <1>1, ConcatEmptySeq
<1> QED BY <1>1, <1>2, <1>3 DEF Cat

\* Nothing of it or one item is lost.
LEMMA NothingLost ==
  ASSUME NEW c \in Seq(Int), NEW i \in 0 .. Len(c)
  PROVE  Wires!Without(c, i, 0) = c
<1>1. Len(c) \in Nat
  OBVIOUS
<1>2. 1 \in 1 .. Len(c) + 1 /\ i \in 1 - 1 .. Len(c) /\ Len(c) \in i .. Len(c) /\ i + 0 + 1 = i + 1
  BY <1>1
<1>3. SubSeq(c, 1, i) \o SubSeq(c, i + 1, Len(c)) = SubSeq(c, 1, Len(c))
  BY <1>2, ConcatAdjacentSubSeq
<1> QED BY <1>2, <1>3, SubSeqFull DEF Wires!Without

LEMMA ChanLoses ==
  ASSUME NEW x \in Seq(Int), NEW z \in Seq(Int), NEW d \in Int
  PROVE  /\ Len(x) + 1 <= Len(Cat(x, <<d>>, z))
         /\ Wires!Without(Cat(x, <<d>>, z), Len(x), 1) = Cat(x, <<>>, z)
<1> DEFINE p == x \o <<d>>
           c == p \o z
           n == Len(x)
<1>1. /\ n \in Nat /\ p \in Seq(Int) /\ c \in Seq(Int) /\ <<d>> \in Seq(Int)
      /\ Len(p) = n + 1 /\ Len(c) = n + 1 + Len(z) /\ Len(z) \in Nat
  BY ConcatProperties
<1>2. SubSeq(c, 1, n) = x
  <2>1. \A i \in 1 .. n : c[i] = x[i]
    <3>1. \A i \in 1 .. n : c[i] = p[i]
      BY <1>1, ConcatProperties
    <3>2. \A i \in 1 .. n : p[i] = x[i]
      BY <1>1, ConcatProperties
    <3> QED BY <3>1, <3>2
  <2>2. /\ SubSeq(c, 1, n) \in Seq(Int) /\ Len(SubSeq(c, 1, n)) = n
        /\ \A i \in 1 .. n : SubSeq(c, 1, n)[i] = c[i]
    <3>1. \A i \in 1 .. n : c[i] \in Int
      BY <1>1, <2>1
    <3> HIDE DEF c, n
    <3> QED BY <1>1, <3>1, SubSeqProperties
  <2>3. \A i \in 1 .. Len(SubSeq(c, 1, n)) : SubSeq(c, 1, n)[i] = x[i]
    BY <2>1, <2>2
  <2> QED BY <2>2, <2>3, SeqEqual
<1>3. SubSeq(c, n + 1 + 1, Len(c)) = z
  <2> DEFINE t == SubSeq(c, n + 2, Len(c))
  <2>1. \A i \in 1 .. Len(z) : c[n + 1 + i] = z[i]
    <3>1. \A i \in 1 .. Len(z) : n + 1 + i \in 1 .. n + 1 + Len(z) /\ ~(n + 1 + i <= n + 1) /\ n + 1 + i - (n + 1) = i
      <4> HIDE DEF n
      <4> QED BY <1>1
    <3>2. \A i \in 1 .. n + 1 + Len(z) : c[i] = IF i <= n + 1 THEN p[i] ELSE z[i - (n + 1)]
      BY <1>1, ConcatProperties
    <3> HIDE DEF c, p, n
    <3> SUFFICES ASSUME NEW i \in 1 .. Len(z) PROVE c[n + 1 + i] = z[i]
      OBVIOUS
    <3> DEFINE j == n + 1 + i
    <3>3. j \in 1 .. n + 1 + Len(z) /\ ~(j <= n + 1) /\ j - (n + 1) = i
      BY <1>1
    <3> HIDE DEF j
    <3>4. c[j] = z[j - (n + 1)]
      BY <3>2, <3>3
    <3>5. c[j] = z[i]
      BY <3>3, <3>4
    <3> QED BY <3>5 DEF j
  <2>2. /\ t \in Seq(Int) /\ Len(t) = Len(z) /\ \A i \in 1 .. Len(z) : t[i] = c[n + 1 + i]
    <3>1. \A i \in n + 2 .. Len(c) : c[i] \in Int
      BY <1>1
    <3> HIDE DEF c, n
    <3>2. /\ t \in Seq(Int) /\ Len(t) = IF n + 2 <= Len(c) THEN Len(c) - (n + 2) + 1 ELSE 0
          /\ \A i \in 1 .. Len(c) - (n + 2) + 1 : t[i] = c[n + 2 + i - 1]
      BY <1>1, <3>1, SubSeqProperties
    <3>3. Len(c) - (n + 2) + 1 = Len(z) /\ (n + 2 <= Len(c) <=> Len(z) # 0)
      BY <1>1
    <3>4. \A i \in 1 .. Len(z) : n + 2 + i - 1 = n + 1 + i
      BY <1>1
    <3> HIDE DEF t
    <3> QED BY <3>2, <3>3, <3>4
  <2> HIDE DEF t, c
  <2>3. \A i \in 1 .. Len(t) : t[i] = z[i]
    BY <2>1, <2>2
  <2>4. t = z
    BY <2>2, <2>3, SeqEqual
  <2>5. n + 1 + 1 = n + 2
    BY <1>1
  <2> QED BY <2>4, <2>5 DEF t
<1> HIDE DEF c
<1>4. Wires!Without(c, n, 1) = x \o z
  BY <1>2, <1>3 DEF Wires!Without
<1>5. c = Cat(x, <<d>>, z) /\ x \o z = Cat(x, <<>>, z)
  <2>1. x \o <<>> = x
    BY ConcatEmptySeq
  <2> QED BY <2>1 DEF Cat, c
<1> QED BY <1>1, <1>4, <1>5

-----------------------------------------------------------------------------
(* The valid/ready bus. *)

Runs == {"off", "on", "asleep"}

StrSrcType ==
  [run : Runs, q : Seq(Int), vld : BOOLEAN, data : Int, active : BOOLEAN, idle : BOOLEAN,
   pause : BOOLEAN, next : Nat]
StrSnkType ==
  [run : Runs, q : Seq(Int), rdy : BOOLEAN, seen : BOOLEAN, pause : BOOLEAN, wake : BOOLEAN,
   nul : BOOLEAN]
StrMonType == [run : Runs, wake : BOOLEAN, nul : BOOLEAN, missed : BOOLEAN]

StrTypes ==
  strSrc \in StrSrcType /\ strSnk \in StrSnkType /\ strMon \in StrMonType /\ strRst \in BOOLEAN

\* The coroutines are killed by the reset and by nothing else.
StrResetInv ==
  /\ strSrc.run = "off" <=> strRst
  /\ strSnk.run = "off" <=> strRst
  /\ strMon.run = "off" <=> strRst
  /\ strRst => ~strSrc.vld /\ ~strSnk.rdy

\* Nobody sleeps through a transfer, and a driver that drives an item is awake.
StrAwake ==
  /\ strSrc.vld => strSrc.run = "on"
  /\ strSrc.vld /\ strSnk.rdy => strSnk.run = "on" /\ strMon.run = "on"

\* rdy promises a place.
StrRoom ==
  /\ Len(strSrc.q) <= Limit /\ Len(strSnk.q) <= Limit
  /\ strSnk.rdy => Len(strSnk.q) < Limit

StrInv == StrTypes /\ StrResetInv /\ StrAwake /\ StrRoom /\ Str!StrMonitorSeesAll /\ Str!StrIdleIsDrained

LEMMA StrNames == Cardinality(Str!Names) = 2 * Limit + 2
<1>1. 0 \in Int /\ 2 * Limit + 1 \in Int /\ 0 <= 2 * Limit + 1
  BY LinksAssumption
<1>2. Cardinality(0 .. 2 * Limit + 1) = 2 * Limit + 1 - 0 + 1
  BY <1>1, FS_Interval
<1> QED BY <1>2, LinksAssumption DEF Str!Names

LEMMA StrWoken ==
  ASSUME NEW snk \in StrSnkType
  PROVE  /\ Str!Woken(snk) \in StrSnkType
         /\ Str!Woken(snk).q = snk.q /\ Str!Woken(snk).rdy = snk.rdy
         /\ Str!Woken(snk).run = IF snk.run = "asleep" THEN "on" ELSE snk.run
<1>1. CASE snk.run = "asleep"
  <2>1. Str!Woken(snk) = [snk EXCEPT !.wake = TRUE, !.run = "on", !.seen = snk.pause]
    BY <1>1 DEF Str!Woken
  <2> QED BY <1>1, <2>1 DEF StrSnkType, Runs
<1>2. CASE snk.run # "asleep"
  <2>1. Str!Woken(snk) = [snk EXCEPT !.wake = TRUE]
    BY <1>2 DEF Str!Woken, StrSnkType
  <2> QED BY <1>2, <2>1 DEF StrSnkType, Runs
<1> QED BY <1>1, <1>2

LEMMA StrInit == Str!Init => StrInv
  BY LinksAssumption
     DEF Str!Init, StrInv, StrTypes, StrSrcType, StrSnkType, StrMonType, Runs, StrResetInv, StrAwake,
         StrRoom, Str!StrMonitorSeesAll, Str!StrIdleIsDrained

LEMMA StrSend ==
  ASSUME StrInv, NEW s \in Senders, Str!Send(s)
  PROVE  StrInv'
<1> USE LinksAssumption DEF StrInv, StrTypes, StrSrcType, StrSnkType, StrMonType, Runs
<1>1. CASE Str!Full
  BY <1>1 DEF Str!Send, StrResetInv, StrAwake, StrRoom, Str!StrMonitorSeesAll, Str!StrIdleIsDrained
<1>2. CASE ~Str!Full
  <2>1. strSrc.next + 1 \in Nat /\ Cardinality(Str!Names) \in Nat \ {0}
    BY StrNames
  <2> DEFINE next == (strSrc.next + 1) % Cardinality(Str!Names)
             run == IF strSrc.run = "asleep" THEN "on" ELSE strSrc.run
             new == Append(strSrc.q, strSrc.next)
  <2>2. next \in Nat /\ run \in Runs
    BY <2>1
  <2>3. strSrc' = [strSrc EXCEPT !.q = new, !.idle = FALSE, !.run = run, !.next = next]
    BY <1>2 DEF Str!Send, Str!Cardinality, Cardinality
  <2>4. new \in Seq(Int) /\ Len(new) = Len(strSrc.q) + 1
    OBVIOUS
  <2>5. UNCHANGED <<strSnk, strMon, strRst>>
    BY <1>2 DEF Str!Send
  <2> HIDE DEF next, run, new
  <2>7. /\ strSrc' \in StrSrcType
        /\ strSrc'.q = new /\ strSrc'.vld = strSrc.vld /\ ~strSrc'.idle
        /\ strSrc'.run = run
    BY <2>2, <2>3, <2>4
  <2>6. Len(strSrc.q) < Limit
    BY <1>2 DEF Str!Full
  <2> QED BY <2>4, <2>5, <2>6, <2>7
          DEF run, StrResetInv, StrAwake, StrRoom, Str!StrMonitorSeesAll, Str!StrIdleIsDrained
<1> QED BY <1>1, <1>2

LEMMA StrRecv ==
  ASSUME StrInv, Str!Recv
  PROVE  StrInv'
<1> USE LinksAssumption DEF StrInv, StrTypes, StrSrcType, StrSnkType, StrMonType, Runs
<1>1. UNCHANGED <<strSrc, strMon, strRst>> /\ strSnk.q # <<>>
  BY DEF Str!Recv
<1>2. /\ strSnk' \in StrSnkType /\ strSnk'.q = Tail(strSnk.q) /\ strSnk'.rdy = strSnk.rdy
      /\ strSnk'.run = IF strSnk.run = "asleep" THEN "on" ELSE strSnk.run
  <2>1. /\ Tail(strSnk.q) \in Seq(Int)
        /\ strSnk' = Str!Woken([strSnk EXCEPT !.q = Tail(strSnk.q)])
    BY <1>1 DEF Str!Recv
  <2>2. [strSnk EXCEPT !.q = Tail(strSnk.q)] \in StrSnkType
    BY <2>1
  <2> QED BY <2>1, <2>2, StrWoken
<1>3. Len(Tail(strSnk.q)) = Len(strSnk.q) - 1 /\ Len(strSnk.q) \in Nat
  BY <1>1
<1>4. StrTypes'
  BY <1>1, <1>2
<1> QED BY <1>1, <1>2, <1>3, <1>4
        DEF StrResetInv, StrAwake, StrRoom, Str!StrMonitorSeesAll, Str!StrIdleIsDrained

LEMMA StrPauses ==
  ASSUME StrInv, Str!PauseSource \/ Str!PauseSink
  PROVE  StrInv'
<1> USE LinksAssumption DEF StrInv, StrTypes, StrSrcType, StrSnkType, StrMonType, Runs
<1>1. CASE Str!PauseSource
  <2>1. UNCHANGED <<strSnk, strMon, strRst>>
    BY <1>1 DEF Str!PauseSource
  <2>2. /\ strSrc' \in StrSrcType
        /\ strSrc'.q = strSrc.q /\ strSrc'.run = strSrc.run /\ strSrc'.vld = strSrc.vld
        /\ strSrc'.idle = strSrc.idle
    BY <1>1 DEF Str!PauseSource
  <2> QED BY <2>1, <2>2 DEF StrResetInv, StrAwake, StrRoom, Str!StrMonitorSeesAll, Str!StrIdleIsDrained
<1>2. CASE Str!PauseSink
  <2>1. UNCHANGED <<strSrc, strMon, strRst>>
    BY <1>2 DEF Str!PauseSink
  <2>2. /\ strSnk' \in StrSnkType /\ strSnk'.q = strSnk.q /\ strSnk'.rdy = strSnk.rdy
        /\ strSnk'.run = IF strSnk.run = "asleep" THEN "on" ELSE strSnk.run
    <3>1. [strSnk EXCEPT !.pause = ~strSnk.pause] \in StrSnkType
      OBVIOUS
    <3> QED BY <1>2, <3>1, StrWoken DEF Str!PauseSink
  <2> QED BY <2>1, <2>2 DEF StrResetInv, StrAwake, StrRoom, Str!StrMonitorSeesAll, Str!StrIdleIsDrained
<1> QED BY <1>1, <1>2

LEMMA StrResets ==
  ASSUME StrInv, Str!ResetOn \/ Str!ResetOff
  PROVE  StrInv'
<1> USE LinksAssumption DEF StrInv, StrTypes, StrSrcType, StrSnkType, StrMonType, Runs
<1>1. CASE Str!ResetOn
  <2> DEFINE idle == strSrc.idle \/ strSrc.q = <<>>
             data == -1
  <2>3. /\ strRst' = TRUE /\ idle \in BOOLEAN /\ data \in Int
        /\ strSrc' = [strSrc EXCEPT !.run = "off", !.active = FALSE, !.vld = FALSE, !.data = data, !.idle = idle]
    BY <1>1 DEF Str!ResetOn
  <2> HIDE DEF idle, data
  <2>4. /\ strSrc' \in StrSrcType /\ strSrc'.run = "off" /\ ~strSrc'.vld /\ strSrc'.q = strSrc.q
        /\ strSrc'.idle = idle
    BY <2>3
  <2>1. strSrc'.idle => strSrc.idle \/ strSrc.q = <<>>
    BY <2>4 DEF idle
  <2>2. /\ strSnk' \in StrSnkType /\ strSnk'.run = "off" /\ ~strSnk'.rdy /\ strSnk'.q = strSnk.q
        /\ strMon' \in StrMonType /\ strMon'.run = "off" /\ strMon'.missed = strMon.missed
    BY <1>1 DEF Str!ResetOn
  <2> QED BY <2>1, <2>2, <2>3, <2>4 DEF StrResetInv, StrAwake, StrRoom, Str!StrMonitorSeesAll, Str!StrIdleIsDrained
<1>2. CASE Str!ResetOff
  <2>1. /\ strRst /\ strRst' = FALSE
        /\ strSrc' \in StrSrcType /\ strSrc'.run = "on" /\ strSrc'.vld = strSrc.vld /\ strSrc'.q = strSrc.q
        /\ strSrc'.idle = strSrc.idle
    BY <1>2 DEF Str!ResetOff
  <2>2. /\ strSnk' \in StrSnkType /\ strSnk'.run = "on" /\ strSnk'.rdy = strSnk.rdy /\ strSnk'.q = strSnk.q
        /\ strMon' \in StrMonType /\ strMon'.run = "on" /\ strMon'.missed = strMon.missed
    BY <1>2 DEF Str!ResetOff
  <2> QED BY <2>1, <2>2 DEF StrResetInv, StrAwake, StrRoom, Str!StrMonitorSeesAll, Str!StrIdleIsDrained
<1> QED BY <1>1, <1>2

\* What the three do at an edge.
LEMMA StrSourceEdge ==
  ASSUME StrInv
  PROVE  /\ Str!SourceEdge \in StrSrcType
         /\ \/ Str!SourceEdge = strSrc /\ (strSrc.run # "on" \/ (strSrc.vld /\ ~strSnk.rdy))
            \/ /\ strSrc.run = "on" /\ ~(strSrc.vld /\ ~strSnk.rdy) /\ strSrc.q # <<>>
               /\ Str!SourceEdge.vld /\ Str!SourceEdge.data = Head(strSrc.q)
               /\ Str!SourceEdge.q = Tail(strSrc.q)
               /\ Str!SourceEdge.run = "on" /\ Str!SourceEdge.idle = strSrc.idle
            \/ /\ strSrc.run = "on" /\ ~(strSrc.vld /\ ~strSnk.rdy)
               /\ ~Str!SourceEdge.vld /\ Str!SourceEdge.q = strSrc.q
               /\ \/ Str!SourceEdge.run = "on" /\ Str!SourceEdge.idle = strSrc.idle
                  \/ Str!SourceEdge.run = "asleep" /\ strSrc.q = <<>>
<1> DEFINE none == -1
<1>1. strSrc \in StrSrcType /\ none \in Int
  BY DEF StrInv, StrTypes
<1>2. CASE strSrc.run # "on" \/ (strSrc.vld /\ ~strSnk.rdy)
  BY <1>1, <1>2 DEF Str!SourceEdge
<1>3. CASE ~(strSrc.run # "on" \/ (strSrc.vld /\ ~strSnk.rdy)) /\ strSrc.q # <<>> /\ ~strSrc.pause
  <2> DEFINE d == Head(strSrc.q)
             s == Tail(strSrc.q)
  <2>1. d \in Int /\ s \in Seq(Int)
    BY <1>1, <1>3 DEF StrSrcType
  <2>2. Str!SourceEdge = [strSrc EXCEPT !.data = d, !.q = s, !.vld = TRUE, !.active = TRUE]
    BY <1>3 DEF Str!SourceEdge
  <2> HIDE DEF d, s
  <2>3. /\ Str!SourceEdge \in StrSrcType
        /\ Str!SourceEdge.vld /\ Str!SourceEdge.data = d /\ Str!SourceEdge.q = s
        /\ Str!SourceEdge.run = strSrc.run /\ Str!SourceEdge.idle = strSrc.idle
    BY <1>1, <2>1, <2>2 DEF StrSrcType, Runs
  <2> QED BY <1>3, <2>3 DEF d, s
<1>4. CASE ~(strSrc.run # "on" \/ (strSrc.vld /\ ~strSnk.rdy)) /\ strSrc.q # <<>> /\ strSrc.pause
  <2>1. Str!SourceEdge = [strSrc EXCEPT !.data = none, !.vld = FALSE, !.active = TRUE]
    BY <1>4 DEF Str!SourceEdge
  <2> HIDE DEF none
  <2> QED BY <1>1, <1>4, <2>1 DEF StrSrcType, Runs
<1>5. CASE ~(strSrc.run # "on" \/ (strSrc.vld /\ ~strSnk.rdy)) /\ strSrc.q = <<>>
  <2>1. Str!SourceEdge = [strSrc EXCEPT !.data = none, !.vld = FALSE, !.active = FALSE, !.idle = TRUE,
                                        !.run = "asleep"]
    BY <1>5 DEF Str!SourceEdge
  <2> HIDE DEF none
  <2> QED BY <1>1, <1>5, <2>1 DEF StrSrcType, Runs
<1> QED BY <1>1, <1>2, <1>3, <1>4, <1>5 DEF StrSrcType

LEMMA StrSinkEdge ==
  ASSUME StrInv
  PROVE  /\ Str!SinkEdge \in StrSnkType
         /\ strSnk.run # "on" => Str!SinkEdge = strSnk
         /\ strSnk.run = "on" =>
              /\ Str!SinkEdge.q = IF Str!Transfer THEN Append(strSnk.q, strSrc.data) ELSE strSnk.q
              /\ Str!SinkEdge.rdy => Len(Str!SinkEdge.q) < Limit
              /\ Str!SinkEdge.run \in {"on", "asleep"}
              /\ Str!SinkEdge.run = "asleep" => ~strSrc.vld \/ ~Str!SinkEdge.rdy
<1>1. strSnk \in StrSnkType /\ strSrc.data \in Int /\ strSrc.vld \in BOOLEAN
  BY DEF StrInv, StrTypes, StrSrcType
<1>2. CASE strSnk.run # "on"
  BY <1>1, <1>2 DEF Str!SinkEdge
<1>3. CASE strSnk.run = "on"
  <2> DEFINE s == IF Str!Transfer THEN Append(strSnk.q, strSrc.data) ELSE strSnk.q
             got == IF Str!Transfer THEN [strSnk EXCEPT !.q = Append(@, strSrc.data)] ELSE strSnk
             paused == Len(s) >= Limit \/ strSnk.seen
             set == [got EXCEPT !.rdy = ~paused]
             rests == (~strSrc.vld \/ paused) /\ strSnk.seen = strSnk.pause
             seen == strSnk.nul /\ strSnk.seen
             run == IF strSnk.nul THEN "on" ELSE "asleep"
  <2>1. s \in Seq(Int) /\ Len(s) \in Nat /\ paused \in BOOLEAN /\ seen \in BOOLEAN /\ run \in {"on", "asleep"}
    BY <1>1 DEF StrSnkType
  <2>2. /\ got \in StrSnkType /\ got.q = s /\ got.seen = strSnk.seen /\ got.pause = strSnk.pause
        /\ got.nul = strSnk.nul /\ got.run = "on"
    BY SMTT(30), <1>1, <1>3 DEF StrSnkType
  <2>3. Str!SinkEdge = IF ~rests THEN [set EXCEPT !.seen = got.pause]
                       ELSE [set EXCEPT !.wake = FALSE, !.seen = seen, !.run = run]
    BY <1>3, <2>2 DEF Str!SinkEdge
  <2>4. ~paused => Len(s) < Limit
    BY <2>1, LinksAssumption
  <2>8. rests => ~strSrc.vld \/ paused
    OBVIOUS
  <2> HIDE DEF s, got, paused, seen, run, rests
  <2>5. set \in StrSnkType /\ set.q = s /\ set.rdy = ~paused /\ set.run = "on"
    BY <2>1, <2>2 DEF StrSnkType, Runs
  <2> HIDE DEF set
  <2>6. CASE ~rests
    <3>1. Str!SinkEdge = [set EXCEPT !.seen = got.pause]
      BY <2>3, <2>6
    <3>2. /\ Str!SinkEdge \in StrSnkType
          /\ Str!SinkEdge.q = s /\ Str!SinkEdge.rdy = ~paused /\ Str!SinkEdge.run = "on"
      BY <2>2, <2>5, <3>1 DEF StrSnkType, Runs
    <3> QED BY <1>3, <2>4, <3>2 DEF s
  <2>7. CASE rests
    <3>1. Str!SinkEdge = [set EXCEPT !.wake = FALSE, !.seen = seen, !.run = run]
      BY <2>3, <2>7
    <3>2. /\ Str!SinkEdge \in StrSnkType
          /\ Str!SinkEdge.q = s /\ Str!SinkEdge.rdy = ~paused /\ Str!SinkEdge.run = run
      BY <2>1, <2>5, <3>1 DEF StrSnkType, Runs
    <3> QED BY <1>3, <2>1, <2>4, <2>7, <2>8, <3>2 DEF s
  <2> QED BY <2>6, <2>7
<1> QED BY <1>2, <1>3

LEMMA StrMonitorEdge ==
  ASSUME StrInv
  PROVE  /\ Str!MonitorEdge \in StrMonType
         /\ strMon.run # "on" =>
              Str!MonitorEdge.run = strMon.run /\ (Str!MonitorEdge.missed => Str!Transfer)
         /\ strMon.run = "on" =>
              /\ ~Str!MonitorEdge.missed /\ Str!MonitorEdge.run \in {"on", "asleep"}
              /\ Str!MonitorEdge.run = "asleep" => ~Str!Transfer
<1>1. strMon \in StrMonType /\ ~strMon.missed /\ Str!Transfer \in BOOLEAN
  BY DEF StrInv, StrTypes, StrSrcType, StrSnkType, Str!StrMonitorSeesAll, Str!Transfer
<1>2. CASE strMon.run # "on"
  <2> DEFINE m == strMon.missed \/ Str!Transfer
  <2>1. m \in BOOLEAN /\ (m => Str!Transfer) /\ Str!MonitorEdge = [strMon EXCEPT !.missed = m]
    BY <1>1, <1>2 DEF Str!MonitorEdge
  <2> HIDE DEF m
  <2> QED BY <1>1, <1>2, <2>1 DEF StrMonType
<1>3. CASE strMon.run = "on" /\ Str!Transfer
  BY <1>1, <1>3 DEF Str!MonitorEdge
<1>4. CASE strMon.run = "on" /\ ~Str!Transfer
  <2> DEFINE r == IF strMon.nul THEN "on" ELSE "asleep"
  <2>1. r \in {"on", "asleep"} /\ Str!MonitorEdge = [strMon EXCEPT !.wake = FALSE, !.run = r]
    BY <1>4 DEF Str!MonitorEdge
  <2> HIDE DEF r
  <2> QED BY <1>1, <1>4, <2>1 DEF StrMonType, Runs
<1> QED BY <1>2, <1>3, <1>4

LEMMA StrEdge ==
  ASSUME StrInv, Str!Edge
  PROVE  StrInv'
<1> DEFINE rise == (~strSrc.vld /\ Str!SourceEdge.vld) \/ (~strSnk.rdy /\ Str!SinkEdge.rdy)
<1>1. /\ strSrc' = Str!SourceEdge /\ UNCHANGED strRst
      /\ strSnk' = IF rise THEN Str!Woken(Str!SinkEdge) ELSE Str!SinkEdge
  BY DEF Str!Edge
<1>2. /\ strSnk' \in StrSnkType /\ strSnk'.q = Str!SinkEdge.q /\ strSnk'.rdy = Str!SinkEdge.rdy
      /\ strSnk'.run = IF rise /\ Str!SinkEdge.run = "asleep" THEN "on" ELSE Str!SinkEdge.run
  BY <1>1, StrSinkEdge, StrWoken
<1>3. /\ strMon' \in StrMonType /\ strMon'.missed = Str!MonitorEdge.missed
      /\ strMon'.run = IF rise /\ Str!MonitorEdge.run = "asleep" THEN "on" ELSE Str!MonitorEdge.run
  <2>1. CASE rise
    <3> DEFINE mon == Str!MonitorEdge
               r == IF mon.run = "asleep" THEN "on" ELSE mon.run
    <3>1. mon \in StrMonType
      BY StrMonitorEdge
    <3>2. r \in Runs /\ strMon' = [mon EXCEPT !.wake = TRUE, !.run = r]
      BY <2>1, <3>1 DEF Str!Edge, StrMonType, Runs
    <3> HIDE DEF mon
    <3>3. strMon' \in StrMonType /\ strMon'.missed = mon.missed /\ strMon'.run = r
      BY <3>1, <3>2 DEF StrMonType
    <3> QED BY <2>1, <3>3 DEF mon
  <2>2. CASE ~rise
    BY <2>2, StrMonitorEdge DEF Str!Edge
  <2> QED BY <2>1, <2>2
<1>4. StrTypes'
  BY <1>1, <1>2, <1>3, StrSourceEdge DEF StrTypes, StrInv
<1>5. /\ strSrc \in StrSrcType /\ strSnk \in StrSnkType /\ strMon \in StrMonType /\ strRst \in BOOLEAN
      /\ StrResetInv /\ StrAwake /\ StrRoom /\ Str!StrMonitorSeesAll /\ Str!StrIdleIsDrained
  BY DEF StrInv, StrTypes
<1>6. Str!Transfer <=> strSrc.vld /\ strSnk.rdy
  BY DEF Str!Transfer
<1>7. /\ strSrc.run \in Runs /\ strSnk.run \in Runs /\ strMon.run \in Runs
  BY <1>1, <1>5 DEF StrSrcType, StrSnkType, StrMonType
<1> HIDE DEF rise
<1>8. StrResetInv'
  BY <1>1, <1>2, <1>3, <1>5, <1>7, StrSourceEdge, StrSinkEdge, StrMonitorEdge DEF StrResetInv, Runs
<1>9. rise <=> (~strSrc.vld /\ strSrc'.vld) \/ (~strSnk.rdy /\ strSnk'.rdy)
  BY <1>1, <1>2 DEF rise
<1>10. StrAwake'
  BY <1>1, <1>2, <1>3, <1>5, <1>6, <1>7, <1>9, StrSourceEdge, StrSinkEdge, StrMonitorEdge
     DEF StrAwake, StrResetInv, Runs
<1>11. StrRoom'
  <2>1. /\ strSrc.q \in Seq(Int) /\ strSnk.q \in Seq(Int) /\ strSrc.data \in Int
        /\ Len(strSrc.q) <= Limit /\ Len(strSnk.q) <= Limit /\ (strSnk.rdy => Len(strSnk.q) < Limit)
    BY <1>5 DEF StrSrcType, StrSnkType, StrRoom
  <2>2. strSrc'.q = strSrc.q \/ (strSrc.q # <<>> /\ strSrc'.q = Tail(strSrc.q))
    BY <1>1, StrSourceEdge
  <2>6. strSrc.q # <<>> => Len(Tail(strSrc.q)) = Len(strSrc.q) - 1 /\ Len(strSrc.q) \in Nat
    BY <2>1
  <2>3. Len(strSrc'.q) <= Limit
    <3>1. CASE strSrc'.q = strSrc.q
      BY <2>1, <3>1
    <3>2. CASE strSrc.q # <<>> /\ strSrc'.q = Tail(strSrc.q)
      <4>1. Len(strSrc'.q) = Len(strSrc.q) - 1
        BY <2>6, <3>2
      <4> QED BY <2>1, <2>6, <4>1, LinksAssumption
    <3> QED BY <2>2, <3>1, <3>2
  <2>4. CASE strSnk.run = "on"
    <3>1. /\ strSnk'.q = IF Str!Transfer THEN Append(strSnk.q, strSrc.data) ELSE strSnk.q
          /\ strSnk'.rdy => Len(strSnk'.q) < Limit
      BY <1>2, <2>4, StrSinkEdge
    <3> QED BY <1>6, <2>1, <2>3, <3>1, LinksAssumption DEF StrRoom
  <2>5. CASE strSnk.run # "on"
    BY <1>2, <2>1, <2>3, <2>5, StrSinkEdge DEF StrRoom
  <2> QED BY <2>4, <2>5
<1>12. Str!StrMonitorSeesAll'
  BY <1>3, <1>5, <1>6, StrMonitorEdge DEF Str!StrMonitorSeesAll, StrAwake
<1>13. Str!StrIdleIsDrained'
  <2>1. strSrc.idle => strSrc.q = <<>> /\ ~strSrc.vld
    BY <1>5 DEF Str!StrIdleIsDrained
  <2> QED BY <1>1, <2>1, StrSourceEdge DEF Str!StrIdleIsDrained
<1> QED BY <1>4, <1>8, <1>10, <1>11, <1>12, <1>13 DEF StrInv

LEMMA StrStep == StrInv /\ [Str!Next]_(Str!vars) => StrInv'
<1> SUFFICES ASSUME StrInv, [Str!Next]_(Str!vars) PROVE StrInv'
  OBVIOUS
<1>1. CASE Str!Next
  BY <1>1, StrEdge, StrRecv, StrPauses, StrResets, StrSend DEF Str!Next
<1>2. CASE UNCHANGED Str!vars
  BY <1>2 DEF Str!vars, StrInv, StrTypes, StrResetInv, StrAwake, StrRoom, Str!StrMonitorSeesAll,
              Str!StrIdleIsDrained
<1> QED BY <1>1, <1>2

-----------------------------------------------------------------------------
(* The bus with back pressure. *)

SavSrcType ==
  [run : {"off", "on"}, q : Seq(Int), vld : BOOLEAN, data : Int, cnt : 0 .. MaxPause, active : BOOLEAN,
   idle : BOOLEAN, pause : BOOLEAN, next : Nat]
SavSnkType ==
  [run : Runs, q : Seq(Int), sav : BOOLEAN, cnt : 0 .. MaxPause, seen : BOOLEAN, pause : BOOLEAN,
   wake : BOOLEAN, nul : BOOLEAN]
SavTypes == savSrc \in SavSrcType /\ savSnk \in SavSnkType /\ savRst \in BOOLEAN

\* The coroutines are killed by the reset and by nothing else; the sink does
\* not sleep through an item.
SavResetInv ==
  /\ savSrc.run = "off" <=> savRst
  /\ savSnk.run = "off" <=> savRst
  /\ savRst => ~savSrc.vld /\ ~savSnk.sav
  /\ savSnk.run = "asleep" => ~savSrc.vld

\* Both sides count the same items of a pause, and the next one is allowed.
SavCountInv ==
  /\ savSrc.cnt = savSnk.cnt
  /\ savSrc.vld /\ ~savSnk.sav => savSrc.cnt + 1 <= MaxPause

\* sav promises a place, and a pause those of the items that were counted.
SavRoom ==
  /\ savSnk.sav => Len(savSnk.q) < Limit
  /\ ~savSnk.sav => Len(savSnk.q) <= Limit + savSnk.cnt

SavInv == SavTypes /\ SavResetInv /\ SavCountInv /\ SavRoom /\ Sav!SavNoOverflow /\ Sav!SavIdleIsDrained

LEMMA SavNames == Cardinality(Sav!Names) = Limit + Limit + MaxPause + 2
<1>1. 0 \in Int /\ Limit + Limit + MaxPause + 1 \in Int /\ 0 <= Limit + Limit + MaxPause + 1
  BY LinksAssumption
<1>2. Cardinality(0 .. Limit + Limit + MaxPause + 1) = Limit + Limit + MaxPause + 1 - 0 + 1
  BY <1>1, FS_Interval
<1> QED BY <1>2, LinksAssumption DEF Sav!Names

LEMMA SavWoken ==
  ASSUME NEW snk \in SavSnkType
  PROVE  /\ Sav!Woken(snk) \in SavSnkType
         /\ Sav!Woken(snk).q = snk.q /\ Sav!Woken(snk).sav = snk.sav /\ Sav!Woken(snk).cnt = snk.cnt
         /\ Sav!Woken(snk).run = IF snk.run = "asleep" THEN "on" ELSE snk.run
<1>1. CASE snk.run = "asleep"
  <2>1. Sav!Woken(snk) = [snk EXCEPT !.wake = TRUE, !.run = "on", !.seen = snk.pause]
    BY <1>1 DEF Sav!Woken
  <2> QED BY <1>1, <2>1 DEF SavSnkType, Runs
<1>2. CASE snk.run # "asleep"
  <2>1. Sav!Woken(snk) = [snk EXCEPT !.wake = TRUE]
    BY <1>2 DEF Sav!Woken, SavSnkType
  <2> QED BY <1>2, <2>1 DEF SavSnkType, Runs
<1> QED BY <1>1, <1>2

LEMMA SavInit == Sav!Init => SavInv
<1> DEFINE none == -1
<1>1. none \in Int
  OBVIOUS
<1> SUFFICES ASSUME Sav!Init PROVE SavInv
  OBVIOUS
<1>2. /\ savSrc = [run |-> "off", q |-> <<>>, vld |-> FALSE, data |-> none, cnt |-> MaxPause,
                   active |-> FALSE, idle |-> TRUE, pause |-> FALSE, next |-> 0]
      /\ savSnk = [run |-> "off", q |-> <<>>, sav |-> FALSE, cnt |-> MaxPause, seen |-> FALSE,
                   pause |-> FALSE, wake |-> FALSE, nul |-> FALSE]
      /\ savRst = TRUE /\ savAlarm = FALSE
  BY DEF Sav!Init
<1> HIDE DEF none
<1>3. SavTypes
  BY <1>1, <1>2, LinksAssumption DEF SavTypes, SavSrcType, SavSnkType, Runs
<1> QED BY <1>2, <1>3, LinksAssumption
        DEF SavInv, SavResetInv, SavCountInv, SavRoom, Sav!SavNoOverflow, Sav!SavIdleIsDrained

LEMMA SavSend ==
  ASSUME SavInv, Sav!Send
  PROVE  SavInv'
<1>1. savSrc \in SavSrcType /\ savSnk \in SavSnkType
  BY DEF SavInv, SavTypes
<1> DEFINE next == (savSrc.next + 1) % Cardinality(Sav!Names)
           new == Append(savSrc.q, savSrc.next)
<1>2. next \in Nat /\ new \in Seq(Int)
  <2>1. savSrc.next + 1 \in Nat /\ Cardinality(Sav!Names) \in Nat \ {0}
    BY <1>1, SavNames, LinksAssumption DEF SavSrcType
  <2> QED BY <1>1, <2>1 DEF SavSrcType
<1>3. /\ savSrc' = [savSrc EXCEPT !.q = new, !.idle = FALSE, !.next = next]
      /\ UNCHANGED <<savSnk, savRst, savAlarm>>
  BY DEF Sav!Send, Sav!Cardinality, Cardinality
<1> HIDE DEF next, new
<1>4. /\ savSrc' \in SavSrcType
      /\ savSrc'.run = savSrc.run /\ savSrc'.vld = savSrc.vld /\ savSrc'.cnt = savSrc.cnt /\ ~savSrc'.idle
  BY <1>1, <1>2, <1>3 DEF SavSrcType
<1> QED BY <1>3, <1>4
        DEF SavInv, SavTypes, SavResetInv, SavCountInv, SavRoom, Sav!SavNoOverflow, Sav!SavIdleIsDrained

LEMMA SavRecv ==
  ASSUME SavInv, Sav!Recv
  PROVE  SavInv'
<1>1. savSnk \in SavSnkType /\ savSnk.q # <<>> /\ UNCHANGED <<savSrc, savRst, savAlarm>>
  BY DEF SavInv, SavTypes, Sav!Recv
<1>2. /\ savSnk' \in SavSnkType /\ savSnk'.q = Tail(savSnk.q) /\ savSnk'.sav = savSnk.sav
      /\ savSnk'.cnt = savSnk.cnt
      /\ savSnk'.run = IF savSnk.run = "asleep" THEN "on" ELSE savSnk.run
  <2>1. Tail(savSnk.q) \in Seq(Int) /\ savSnk' = Sav!Woken([savSnk EXCEPT !.q = Tail(savSnk.q)])
    BY <1>1 DEF Sav!Recv, SavSnkType
  <2>2. /\ [savSnk EXCEPT !.q = Tail(savSnk.q)] \in SavSnkType
    BY <1>1, <2>1 DEF SavSnkType
  <2> QED BY <1>1, <2>1, <2>2, SavWoken DEF SavSnkType
<1>3. Len(Tail(savSnk.q)) = Len(savSnk.q) - 1 /\ Len(savSnk.q) \in Nat /\ savSnk.cnt \in Nat
  BY <1>1 DEF SavSnkType
<1>4. SavRoom'
  BY <1>2, <1>3, LinksAssumption DEF SavInv, SavRoom
<1> QED BY <1>1, <1>2, <1>4
        DEF SavInv, SavTypes, SavResetInv, SavCountInv, Sav!SavNoOverflow, Sav!SavIdleIsDrained

LEMMA SavPauses ==
  ASSUME SavInv, Sav!PauseSource \/ Sav!PauseSink
  PROVE  SavInv'
<1>1. savSrc \in SavSrcType /\ savSnk \in SavSnkType
  BY DEF SavInv, SavTypes
<1>2. CASE Sav!PauseSource
  <2>1. /\ savSrc' \in SavSrcType
        /\ savSrc'.q = savSrc.q /\ savSrc'.run = savSrc.run /\ savSrc'.vld = savSrc.vld
        /\ savSrc'.cnt = savSrc.cnt /\ savSrc'.idle = savSrc.idle
        /\ UNCHANGED <<savSnk, savRst, savAlarm>>
    BY <1>1, <1>2 DEF Sav!PauseSource, SavSrcType
  <2> QED BY <2>1
          DEF SavInv, SavTypes, SavResetInv, SavCountInv, SavRoom, Sav!SavNoOverflow, Sav!SavIdleIsDrained
<1>3. CASE Sav!PauseSink
  <2>1. /\ savSnk' \in SavSnkType /\ savSnk'.q = savSnk.q /\ savSnk'.sav = savSnk.sav
        /\ savSnk'.cnt = savSnk.cnt
        /\ savSnk'.run = IF savSnk.run = "asleep" THEN "on" ELSE savSnk.run
    <3>1. [savSnk EXCEPT !.pause = ~savSnk.pause] \in SavSnkType
      BY <1>1 DEF SavSnkType
    <3> QED BY <1>1, <1>3, <3>1, SavWoken DEF Sav!PauseSink, SavSnkType
  <2>2. UNCHANGED <<savSrc, savRst, savAlarm>>
    BY <1>3 DEF Sav!PauseSink
  <2> QED BY <2>1, <2>2
          DEF SavInv, SavTypes, SavResetInv, SavCountInv, SavRoom, Sav!SavNoOverflow, Sav!SavIdleIsDrained
<1> QED BY <1>2, <1>3

LEMMA SavResets ==
  ASSUME SavInv, Sav!ResetOn \/ Sav!ResetOff
  PROVE  SavInv'
<1>1. savSrc \in SavSrcType /\ savSnk \in SavSnkType
  BY DEF SavInv, SavTypes
<1>2. CASE Sav!ResetOn
  <2> DEFINE idle == savSrc.idle \/ savSrc.q = <<>>
             data == -1
  <2>1. /\ ~savRst /\ savRst' = TRUE /\ UNCHANGED savAlarm /\ idle \in BOOLEAN /\ data \in Int
        /\ savSrc' = [savSrc EXCEPT !.run = "off", !.active = FALSE, !.vld = FALSE, !.data = data, !.idle = idle]
    BY <1>2 DEF Sav!ResetOn
  <2> HIDE DEF idle, data
  <2>2. /\ savSrc' \in SavSrcType /\ savSrc'.run = "off" /\ ~savSrc'.vld /\ savSrc'.q = savSrc.q
        /\ savSrc'.cnt = savSrc.cnt /\ savSrc'.idle = idle
    BY <1>1, <2>1 DEF SavSrcType
  <2>3. savSrc'.idle => savSrc.idle \/ savSrc.q = <<>>
    BY <2>2 DEF idle
  <2>4. /\ savSnk' \in SavSnkType /\ savSnk'.run = "off" /\ ~savSnk'.sav /\ savSnk'.q = savSnk.q
        /\ savSnk'.cnt = savSnk.cnt
    BY <1>1, <1>2 DEF Sav!ResetOn, SavSnkType, Runs
  <2>5. SavRoom'
    <3>1. Len(savSnk.q) \in Nat /\ savSnk.cnt \in Nat
      BY <1>1 DEF SavSnkType
    <3> QED BY <1>1, <2>4, <3>1, LinksAssumption DEF SavInv, SavRoom, SavSnkType
  <2> QED BY <2>1, <2>2, <2>3, <2>4, <2>5
          DEF SavInv, SavTypes, SavResetInv, SavCountInv, Sav!SavNoOverflow, Sav!SavIdleIsDrained
<1>3. CASE Sav!ResetOff
  <2> DEFINE top == MaxPause
  <2>6. top \in 0 .. MaxPause
    BY LinksAssumption
  <2>7. /\ savRst /\ savRst' = FALSE /\ UNCHANGED savAlarm
        /\ savSrc' = [savSrc EXCEPT !.run = "on", !.cnt = top]
        /\ savSnk' = [savSnk EXCEPT !.run = "on", !.cnt = top, !.nul = savSnk.wake, !.seen = savSnk.pause]
    BY <1>3 DEF Sav!ResetOff
  <2>8. top = MaxPause
    OBVIOUS
  <2> HIDE DEF top
  <2>1. /\ savRst /\ savRst' = FALSE /\ UNCHANGED savAlarm
        /\ savSrc' \in SavSrcType /\ savSrc'.run = "on" /\ savSrc'.vld = savSrc.vld /\ savSrc'.q = savSrc.q
        /\ savSrc'.cnt = MaxPause /\ savSrc'.idle = savSrc.idle
    BY <1>1, <2>6, <2>7, <2>8 DEF SavSrcType
  <2>2. /\ savSnk' \in SavSnkType /\ savSnk'.run = "on" /\ savSnk'.sav = savSnk.sav /\ savSnk'.q = savSnk.q
        /\ savSnk'.cnt = MaxPause
    BY <1>1, <2>6, <2>7, <2>8 DEF SavSnkType, Runs
  <2>3. ~savSrc.vld /\ ~savSnk.sav
    BY <2>1 DEF SavInv, SavResetInv
  <2>4. SavRoom'
    <3>1. Len(savSnk.q) \in Nat /\ savSnk.cnt \in 0 .. MaxPause
      BY <1>1 DEF SavSnkType
    <3> QED BY <2>2, <2>3, <3>1, LinksAssumption DEF SavInv, SavRoom
  <2> QED BY <2>1, <2>2, <2>3, <2>4
          DEF SavInv, SavTypes, SavResetInv, SavCountInv, Sav!SavNoOverflow, Sav!SavIdleIsDrained
<1> QED BY <1>2, <1>3

\* What source and sink do at an edge.
LEMMA SavSourceEdge ==
  ASSUME savSrc \in SavSrcType, NEW c \in Int
  PROVE  /\ Sav!SourceEdge(c) \in SavSrcType
         /\ Sav!SourceEdge(c).run = savSrc.run
         /\ \/ /\ savSnk.sav \/ c + 1 < MaxPause
               /\ savSrc.q # <<>> /\ Sav!SourceEdge(c).vld /\ Sav!SourceEdge(c).idle = savSrc.idle
               /\ Sav!SourceEdge(c).data = Head(savSrc.q) /\ Sav!SourceEdge(c).q = Tail(savSrc.q)
            \/ /\ ~Sav!SourceEdge(c).vld /\ Sav!SourceEdge(c).q = savSrc.q
               /\ Sav!SourceEdge(c).idle => savSrc.idle \/ savSrc.q = <<>>
<1> DEFINE goes == (savSnk.sav \/ c + 1 < MaxPause) /\ savSrc.q # <<>> /\ ~savSrc.pause
<1>1. CASE goes
  <2> DEFINE d == Head(savSrc.q)
             s == Tail(savSrc.q)
  <2>1. d \in Int /\ s \in Seq(Int)
    BY <1>1 DEF SavSrcType
  <2>2. Sav!SourceEdge(c) = [savSrc EXCEPT !.data = d, !.q = s, !.vld = TRUE, !.active = TRUE]
    BY <1>1 DEF Sav!SourceEdge
  <2> HIDE DEF d, s
  <2>3. /\ Sav!SourceEdge(c) \in SavSrcType
        /\ Sav!SourceEdge(c).vld /\ Sav!SourceEdge(c).data = d /\ Sav!SourceEdge(c).q = s
        /\ Sav!SourceEdge(c).run = savSrc.run /\ Sav!SourceEdge(c).idle = savSrc.idle
    BY <2>1, <2>2 DEF SavSrcType
  <2> QED BY <1>1, <2>3 DEF d, s
<1>2. CASE ~goes
  <2> DEFINE none == -1
             active == savSrc.q # <<>>
             idle == savSrc.idle \/ savSrc.q = <<>>
  <2>1. none \in Int /\ active \in BOOLEAN /\ idle \in BOOLEAN
    OBVIOUS
  <2>2. Sav!SourceEdge(c) = [savSrc EXCEPT !.data = none, !.vld = FALSE, !.active = active, !.idle = idle]
    BY <1>2 DEF Sav!SourceEdge
  <2> HIDE DEF none, active, idle
  <2>3. /\ Sav!SourceEdge(c) \in SavSrcType
        /\ ~Sav!SourceEdge(c).vld /\ Sav!SourceEdge(c).q = savSrc.q /\ Sav!SourceEdge(c).run = savSrc.run
        /\ Sav!SourceEdge(c).idle = idle
    BY <2>1, <2>2 DEF SavSrcType
  <2> QED BY <2>3 DEF idle
<1> QED BY <1>1, <1>2

LEMMA SavSinkEdge ==
  ASSUME savSnk \in SavSnkType, savSrc \in SavSrcType
  PROVE  /\ Sav!SinkEdge \in SavSnkType
         /\ savSnk.run # "on" => Sav!SinkEdge = savSnk
         /\ savSnk.run = "on" =>
              /\ Sav!SinkEdge.q = IF savSrc.vld THEN Append(savSnk.q, savSrc.data) ELSE savSnk.q
              /\ Sav!SinkEdge.sav => Len(Sav!SinkEdge.q) < Limit
              /\ Sav!SinkEdge.run \in {"on", "asleep"}
              /\ Sav!SinkEdge.run = "asleep" => ~savSrc.vld
<1>1. CASE savSnk.run # "on"
  BY <1>1 DEF Sav!SinkEdge
<1>2. CASE savSnk.run = "on"
  <2> DEFINE s == IF savSrc.vld THEN Append(savSnk.q, savSrc.data) ELSE savSnk.q
             got == IF savSrc.vld THEN [savSnk EXCEPT !.q = Append(@, savSrc.data)] ELSE savSnk
             ready == ~(Len(s) >= Limit \/ savSnk.seen)
             set == [got EXCEPT !.sav = ready]
             wake == savSnk.wake /\ savSrc.vld
             stays == savSrc.vld \/ savSnk.nul
  <2>1. s \in Seq(Int) /\ Len(s) \in Nat /\ ready \in BOOLEAN /\ wake \in BOOLEAN
    BY DEF SavSnkType, SavSrcType
  <2>2. /\ got \in SavSnkType /\ got.q = s /\ got.seen = savSnk.seen /\ got.pause = savSnk.pause
        /\ got.wake = savSnk.wake /\ got.run = "on"
    <3>1. got = IF savSrc.vld THEN [savSnk EXCEPT !.q = s] ELSE savSnk
      OBVIOUS
    <3>2. ~savSrc.vld => s = savSnk.q
      OBVIOUS
    <3> HIDE DEF s, got
    <3>3. CASE savSrc.vld
      BY <1>2, <2>1, <3>1, <3>3 DEF SavSnkType
    <3>4. CASE ~savSrc.vld
      BY <1>2, <3>1, <3>2, <3>4 DEF SavSnkType
    <3> QED BY <3>3, <3>4
  <2>3. ready => Len(s) < Limit
    BY <2>1, LinksAssumption
  <2>4. Sav!SinkEdge = IF stays THEN [set EXCEPT !.seen = got.pause, !.wake = @ /\ savSrc.vld]
                       ELSE [set EXCEPT !.wake = FALSE, !.seen = FALSE, !.run = "asleep"]
    BY <1>2, <2>2 DEF Sav!SinkEdge
  <2> HIDE DEF s, got, ready
  <2>5. set \in SavSnkType /\ set.q = s /\ set.sav = ready /\ set.run = "on" /\ set.wake = savSnk.wake
    BY <2>1, <2>2 DEF SavSnkType
  <2>8. ~stays => ~savSrc.vld
    OBVIOUS
  <2> HIDE DEF set, stays
  <2>6. CASE stays
    <3>1. Sav!SinkEdge = [set EXCEPT !.seen = got.pause, !.wake = wake]
      BY <2>4, <2>5, <2>6
    <3> HIDE DEF wake
    <3>2. /\ Sav!SinkEdge \in SavSnkType
          /\ Sav!SinkEdge.q = s /\ Sav!SinkEdge.sav = ready /\ Sav!SinkEdge.run = "on"
      BY <2>1, <2>2, <2>5, <3>1 DEF SavSnkType
    <3> QED BY <1>2, <2>3, <3>2 DEF s
  <2>7. CASE ~stays
    <3>1. /\ Sav!SinkEdge \in SavSnkType
          /\ Sav!SinkEdge.q = s /\ Sav!SinkEdge.sav = ready /\ Sav!SinkEdge.run = "asleep"
      BY <2>4, <2>5, <2>7 DEF SavSnkType, Runs
    <3> QED BY <1>2, <2>3, <2>7, <2>8, <3>1 DEF s
  <2> QED BY <2>6, <2>7
<1> QED BY <1>1, <1>2

LEMMA SavCount ==
  ASSUME SavTypes, SavCountInv
  PROVE  /\ Sav!Count(savSrc.cnt) = IF savSnk.sav THEN 0 ELSE IF savSrc.vld THEN savSrc.cnt + 1 ELSE savSrc.cnt
         /\ Sav!Count(savSrc.cnt) \in 0 .. MaxPause
         /\ Sav!Count(savSnk.cnt) = Sav!Count(savSrc.cnt)
         /\ savSrc.cnt \in 0 .. MaxPause
  BY LinksAssumption DEF Sav!Count, SavTypes, SavCountInv, SavSrcType, SavSnkType

LEMMA SavEdge ==
  ASSUME SavInv, Sav!Edge
  PROVE  SavInv'
<1> DEFINE n == Sav!Count(savSrc.cnt)
<1>1. /\ savSrc \in SavSrcType /\ savSnk \in SavSnkType /\ savRst \in BOOLEAN /\ ~savRst /\ UNCHANGED savRst
      /\ SavTypes /\ SavResetInv /\ SavCountInv /\ SavRoom /\ Sav!SavIdleIsDrained
  BY DEF SavInv, SavTypes, Sav!Edge
<1>2. /\ n = IF savSnk.sav THEN 0 ELSE IF savSrc.vld THEN savSrc.cnt + 1 ELSE savSrc.cnt
      /\ n \in 0 .. MaxPause /\ Sav!Count(savSnk.cnt) = n /\ savSnk.cnt = savSrc.cnt
      /\ savSrc.cnt \in 0 .. MaxPause
  BY <1>1, SavCount DEF SavCountInv
<1>3. PICK cs \in {savSrc.cnt, n}, ck \in {savSnk.cnt, n} :
        LET rise == (~savSrc.vld /\ Sav!SourceEdge(cs).vld) \/ (~savSnk.sav /\ Sav!SinkEdge.sav)
            snk == [Sav!SinkEdge EXCEPT !.cnt = n]
        IN /\ savSrc' = [Sav!SourceEdge(cs) EXCEPT !.cnt = n]
           /\ savSnk' = IF rise THEN Sav!Woken(snk) ELSE snk
           /\ savAlarm' = (savSnk.run = "on" /\ savSrc.vld /\ ck > MaxPause)
  BY <1>2 DEF Sav!Edge
<1>4. cs \in 0 .. MaxPause /\ ck \in 0 .. MaxPause /\ cs \in Int
  BY <1>2, <1>3, LinksAssumption
<1> HIDE DEF n
<1> DEFINE src == Sav!SourceEdge(cs)
           rise == (~savSrc.vld /\ src.vld) \/ (~savSnk.sav /\ Sav!SinkEdge.sav)
           snk == [Sav!SinkEdge EXCEPT !.cnt = n]
<1>5. /\ src \in SavSrcType /\ src.run = savSrc.run
      /\ \/ /\ savSnk.sav \/ cs + 1 < MaxPause
            /\ savSrc.q # <<>> /\ src.vld /\ src.idle = savSrc.idle
            /\ src.data = Head(savSrc.q) /\ src.q = Tail(savSrc.q)
         \/ ~src.vld /\ src.q = savSrc.q /\ (src.idle => savSrc.idle \/ savSrc.q = <<>>)
  BY <1>1, <1>4, SavSourceEdge
<1> HIDE DEF src
<1>6. /\ savSrc' \in SavSrcType /\ savSrc'.cnt = n
      /\ savSrc'.run = savSrc.run /\ savSrc'.vld = src.vld /\ savSrc'.q = src.q /\ savSrc'.idle = src.idle
  <2>1. savSrc' = [src EXCEPT !.cnt = n]
    BY <1>3 DEF src
  <2> QED BY <1>2, <1>5, <2>1 DEF SavSrcType
<1>7. /\ savSnk' \in SavSnkType /\ savSnk'.q = Sav!SinkEdge.q /\ savSnk'.sav = Sav!SinkEdge.sav
      /\ savSnk'.cnt = n
      /\ savSnk'.run = IF rise /\ Sav!SinkEdge.run = "asleep" THEN "on" ELSE Sav!SinkEdge.run
  <2>1. Sav!SinkEdge \in SavSnkType
    BY <1>1, SavSinkEdge
  <2>2. /\ snk \in SavSnkType /\ snk.q = Sav!SinkEdge.q /\ snk.sav = Sav!SinkEdge.sav /\ snk.cnt = n
        /\ snk.run = Sav!SinkEdge.run
    BY <1>2, <2>1 DEF SavSnkType
  <2>3. savSnk' = IF rise THEN Sav!Woken(snk) ELSE snk
    BY <1>3 DEF src
  <2> HIDE DEF snk, rise
  <2> QED BY <2>2, <2>3, SavWoken
<1>8. /\ savSnk.run # "on" => Sav!SinkEdge = savSnk
      /\ savSnk.run = "on" =>
           /\ Sav!SinkEdge.q = IF savSrc.vld THEN Append(savSnk.q, savSrc.data) ELSE savSnk.q
           /\ Sav!SinkEdge.sav => Len(Sav!SinkEdge.q) < Limit
           /\ Sav!SinkEdge.run \in {"on", "asleep"}
           /\ Sav!SinkEdge.run = "asleep" => ~savSrc.vld
  BY <1>1, SavSinkEdge
<1>9. savSnk.run \in {"on", "asleep"} /\ savSrc.run = "on"
  BY <1>1 DEF SavResetInv, SavSnkType, SavSrcType, Runs
<1>10. SavResetInv'
  <2>1. UNCHANGED savRst /\ ~savRst /\ savSrc'.run = "on" /\ savSnk'.run \in {"on", "asleep"}
    BY <1>1, <1>6, <1>7, <1>8, <1>9
  <2>2. ASSUME savSnk'.run = "asleep" PROVE ~savSrc'.vld
    <3>1. ~rise /\ Sav!SinkEdge.run = "asleep"
      BY <1>7, <1>8, <1>9, <2>2
    <3>2. ~savSrc.vld
      BY <1>1, <1>8, <1>9, <3>1 DEF SavResetInv
    <3> QED BY <1>6, <3>1, <3>2
  <2> QED BY <2>1, <2>2 DEF SavResetInv
<1>11. SavCountInv'
  <2>1. src.vld /\ ~savSnk'.sav => n + 1 <= MaxPause
    <3>1. CASE savSnk.sav
      BY <1>2, <3>1, LinksAssumption
    <3>2. CASE ~savSnk.sav /\ src.vld
      <4>1. cs + 1 < MaxPause
        BY <1>5, <3>2
      <4>2. n = savSrc.cnt \/ n = savSrc.cnt + 1
        BY <1>2, <3>2
      <4> QED BY <1>2, <1>3, <1>4, <4>1, <4>2, LinksAssumption
    <3> QED BY <3>1, <3>2
  <2> QED BY <1>6, <1>7, <2>1 DEF SavCountInv
<1>12. SavRoom'
  <2>1. /\ savSnk.q \in Seq(Int) /\ savSrc.data \in Int /\ Len(savSnk.q) \in Nat /\ savSrc.cnt \in Nat /\ n \in Nat
        /\ Len(Append(savSnk.q, savSrc.data)) = Len(savSnk.q) + 1
    BY <1>1, <1>2 DEF SavSnkType, SavSrcType
  <2>2. /\ savSnk.sav => Len(savSnk.q) < Limit
        /\ ~savSnk.sav => Len(savSnk.q) <= Limit + savSrc.cnt
    BY <1>1, <1>2 DEF SavRoom
  <2>3. savSnk.sav => n = 0
    BY <1>2
  <2>4. CASE savSrc.vld
    <3>1. savSnk.run = "on" /\ savSnk'.q = Append(savSnk.q, savSrc.data) /\ (savSnk'.sav => Len(savSnk'.q) < Limit)
      BY <1>1, <1>7, <1>8, <1>9, <2>4 DEF SavResetInv
    <3>2. ~savSnk.sav => n = savSrc.cnt + 1
      BY <1>2, <2>4
    <3>3. Len(savSnk.q) + 1 <= Limit + n
      BY <2>1, <2>2, <2>3, <3>2, LinksAssumption
    <3> QED BY <1>7, <2>1, <3>1, <3>3 DEF SavRoom
  <2>5. CASE ~savSrc.vld
    <3>1. ~savSnk.sav => n = savSrc.cnt
      BY <1>2, <2>5
    <3>2. Len(savSnk.q) <= Limit + n
      BY <2>1, <2>2, <2>3, <3>1, LinksAssumption
    <3>3. savSnk'.q = savSnk.q /\ (savSnk'.sav => savSnk.sav \/ Len(savSnk.q) < Limit)
      BY <1>7, <1>8, <2>5
    <3> QED BY <1>7, <2>2, <3>2, <3>3 DEF SavRoom
  <2> QED BY <2>4, <2>5
<1>13. Sav!SavNoOverflow'
  <2>1. ~(ck > MaxPause)
    BY <1>4, LinksAssumption
  <2>2. savAlarm' = (savSnk.run = "on" /\ savSrc.vld /\ ck > MaxPause)
    BY <1>3
  <2> QED BY <2>1, <2>2 DEF Sav!SavNoOverflow
<1>14. Sav!SavIdleIsDrained'
  BY <1>1, <1>5, <1>6 DEF Sav!SavIdleIsDrained
<1>15. SavTypes'
  BY <1>1, <1>6, <1>7 DEF SavTypes
<1> QED BY <1>10, <1>11, <1>12, <1>13, <1>14, <1>15 DEF SavInv

LEMMA SavStep == SavInv /\ [Sav!Next]_(Sav!vars) => SavInv'
<1> SUFFICES ASSUME SavInv, [Sav!Next]_(Sav!vars) PROVE SavInv'
  OBVIOUS
<1>1. CASE Sav!Next
  BY <1>1, SavEdge, SavSend, SavRecv, SavPauses, SavResets DEF Sav!Next
<1>2. CASE UNCHANGED Sav!vars
  BY <1>2 DEF Sav!vars, SavInv, SavTypes, SavResetInv, SavCountInv, SavRoom, Sav!SavNoOverflow,
              Sav!SavIdleIsDrained
<1> QED BY <1>1, <1>2

-----------------------------------------------------------------------------
(* The wires are queues. *)

\* What a step does to a channel, to what was received last and to the reset.
LinkStep(c, d, o, p, r, s) ==
  \/ d = c /\ p = o /\ s = r
  \/ p = o /\ s = r /\ \E e \in Nat : d = Append(c, e)
  \/ s = r /\ c # <<>> /\ p = Head(c) /\ d = Tail(c)
  \/ ~r /\ s = TRUE /\ p = o /\ \E i \in 0 .. Len(c), n \in 0 .. 1 : i + n <= Len(c) /\ d = Wires!Without(c, i, n)
  \/ r /\ s = FALSE /\ d = c /\ p = o

LEMMA AppendFront ==
  ASSUME NEW c \in Seq(Int), NEW e \in Nat
  PROVE  /\ Append(c, e) # <<>> /\ Wires!Last(Append(c, e)) = e /\ Wires!Front(Append(c, e)) = c
         /\ Packets!Last(Append(c, e)) = e /\ Packets!Front(Append(c, e)) = c
<1> DEFINE a == Append(c, e)
           f == SubSeq(a, 1, Len(a) - 1)
<1>1. /\ a # <<>> /\ Len(a) = Len(c) + 1 /\ a[Len(c) + 1] = e /\ Len(c) \in Nat
      /\ \A i \in 1 .. Len(c) : a[i] = c[i] /\ c[i] \in Int
  BY AppendProperties
<1> HIDE DEF a
<1>2. Len(a) - 1 = Len(c) /\ 1 \in Int /\ Len(c) \in Int /\ \A i \in 1 .. Len(c) : 1 + i - 1 = i
  BY <1>1
<1>3. f \in Seq(Int) /\ Len(f) = Len(c) /\ \A i \in 1 .. Len(c) : f[i] = a[i]
  <2>1. \A i \in 1 .. Len(c) : a[i] \in Int
    BY <1>1
  <2>2. /\ SubSeq(a, 1, Len(c)) \in Seq(Int)
        /\ Len(SubSeq(a, 1, Len(c))) = IF 1 <= Len(c) THEN Len(c) - 1 + 1 ELSE 0
        /\ \A i \in 1 .. Len(c) - 1 + 1 : SubSeq(a, 1, Len(c))[i] = a[1 + i - 1]
    BY <1>2, <2>1, SubSeqProperties
  <2>3. f = SubSeq(a, 1, Len(c))
    BY <1>2
  <2> HIDE DEF f
  <2> QED BY <1>1, <1>2, <2>2, <2>3
<1> HIDE DEF f
<1>4. f = c
  <2>1. \A i \in 1 .. Len(f) : f[i] = c[i]
    BY <1>1, <1>3
  <2> QED BY <1>3, <2>1, SeqEqual
<1> QED BY <1>1, <1>4 DEF Wires!Last, Wires!Front, Packets!Last, Packets!Front, f, a

LEMMA StreamWires ==
  ASSUME bench = "stream", UNCHANGED bench, Str!Chan \in Seq(Int),
         LinkStep(Str!Chan, Str!Chan', strOut, strOut', strRst, strRst')
  PROVE  [Wires!Next]_<<IF bench = "stream" THEN Str!Chan ELSE IF bench = "sav" THEN Sav!Chan ELSE <<>>,
                        IF bench = "stream" THEN strOut ELSE IF bench = "sav" THEN savOut ELSE -1,
                        IF bench = "stream" THEN strRst ELSE IF bench = "sav" THEN savRst ELSE TRUE>>
<1>1. CASE Str!Chan' = Str!Chan /\ strOut' = strOut /\ strRst' = strRst
  BY <1>1
<1>2. CASE UNCHANGED <<strOut, strRst>> /\ \E e \in Nat : Str!Chan' = Append(Str!Chan, e)
  BY <1>2, AppendFront DEF Wires!Next, Wires!Put
<1>3. CASE UNCHANGED strRst /\ Str!Chan # <<>> /\ strOut' = Head(Str!Chan) /\ Str!Chan' = Tail(Str!Chan)
  BY <1>3 DEF Wires!Next, Wires!Take
<1>4. CASE /\ ~strRst /\ strRst' = TRUE /\ UNCHANGED strOut
           /\ \E i \in 0 .. Len(Str!Chan), n \in 0 .. 1 :
                i + n <= Len(Str!Chan) /\ Str!Chan' = Wires!Without(Str!Chan, i, n)
  BY <1>4 DEF Wires!Next, Wires!ResetOn
<1>5. CASE strRst /\ strRst' = FALSE /\ UNCHANGED <<Str!Chan, strOut>>
  BY <1>5 DEF Wires!Next, Wires!ResetOff
<1> QED BY <1>1, <1>2, <1>3, <1>4, <1>5 DEF LinkStep

LEMMA SavWires ==
  ASSUME bench = "sav", UNCHANGED bench, Sav!Chan \in Seq(Int),
         LinkStep(Sav!Chan, Sav!Chan', savOut, savOut', savRst, savRst')
  PROVE  [Wires!Next]_<<IF bench = "stream" THEN Str!Chan ELSE IF bench = "sav" THEN Sav!Chan ELSE <<>>,
                        IF bench = "stream" THEN strOut ELSE IF bench = "sav" THEN savOut ELSE -1,
                        IF bench = "stream" THEN strRst ELSE IF bench = "sav" THEN savRst ELSE TRUE>>
<1>1. CASE Sav!Chan' = Sav!Chan /\ savOut' = savOut /\ savRst' = savRst
  BY <1>1
<1>2. CASE UNCHANGED <<savOut, savRst>> /\ \E e \in Nat : Sav!Chan' = Append(Sav!Chan, e)
  BY <1>2, AppendFront DEF Wires!Next, Wires!Put
<1>3. CASE UNCHANGED savRst /\ Sav!Chan # <<>> /\ savOut' = Head(Sav!Chan) /\ Sav!Chan' = Tail(Sav!Chan)
  BY <1>3 DEF Wires!Next, Wires!Take
<1>4. CASE /\ ~savRst /\ savRst' = TRUE /\ UNCHANGED savOut
           /\ \E i \in 0 .. Len(Sav!Chan), n \in 0 .. 1 :
                i + n <= Len(Sav!Chan) /\ Sav!Chan' = Wires!Without(Sav!Chan, i, n)
  BY <1>4 DEF Wires!Next, Wires!ResetOn
<1>5. CASE savRst /\ savRst' = FALSE /\ UNCHANGED <<Sav!Chan, savOut>>
  BY <1>5 DEF Wires!Next, Wires!ResetOff
<1> QED BY <1>1, <1>2, <1>3, <1>4, <1>5 DEF LinkStep

\* The channel of a bus in its three parts, and how it moves on.
Wire(x) == IF x.vld THEN <<x.data>> ELSE <<>>

LEMMA StrChan ==
  ASSUME StrInv, [Str!Next]_(Str!vars)
  PROVE  /\ Str!Chan \in Seq(Int)
         /\ LinkStep(Str!Chan, Str!Chan', strOut, strOut', strRst, strRst')
<1> DEFINE x == strSnk.q
           w == Wire(strSrc)
           z == strSrc.q
<1>1. strSrc \in StrSrcType /\ strSnk \in StrSnkType /\ strRst \in BOOLEAN
  BY DEF StrInv, StrTypes
<1>2. /\ x \in Seq(Int) /\ w \in Seq(Int) /\ z \in Seq(Int) /\ strSrc.data \in Int /\ strSrc.next \in Nat
      /\ <<strSrc.data>> \in Seq(Int) /\ <<>> \in Seq(Int)
  BY <1>1 DEF StrSrcType, StrSnkType, Wire
<1>3. Str!Chan' = Cat(strSnk'.q, Wire(strSrc'), strSrc'.q)
  BY DEF Str!Chan, Wire, Cat
<1>4. Str!Chan = Cat(x, w, z)
  BY DEF Str!Chan, Wire, Cat
<1>5. x \in Seq(Int) /\ w \in Seq(Int) /\ z \in Seq(Int)
  BY <1>2
<1> HIDE DEF w, x, z
<1>6. Str!Chan \in Seq(Int)
  BY <1>4, <1>5, ChanPut
<1> SUFFICES LinkStep(Str!Chan, Str!Chan', strOut, strOut', strRst, strRst')
  BY <1>6
<1>7. ASSUME UNCHANGED <<strOut, strRst>>, strSnk'.q = x, Wire(strSrc') = w, strSrc'.q = z
      PROVE  LinkStep(Str!Chan, Str!Chan', strOut, strOut', strRst, strRst')
  BY <1>3, <1>7, <1>4 DEF LinkStep
<1>8. CASE \E s \in Senders : Str!Send(s)
  <2>1. PICK s \in Senders : Str!Send(s)
    BY <1>8
  <2>2. CASE Str!Full
    BY <1>7, <2>1, <2>2 DEF Str!Send, x, w, z
  <2>3. CASE ~Str!Full
    <3>1. /\ UNCHANGED <<strOut, strRst, strSnk>>
          /\ strSrc'.q = Append(z, strSrc.next) /\ Wire(strSrc') = w
      BY <1>1, <2>1, <2>3 DEF Str!Send, StrSrcType, w, z, Wire
    <3>2. strSrc.next \in Int
      BY <1>2
    <3>3. Str!Chan' = Cat(x, w, Append(z, strSrc.next))
      BY <1>3, <3>1 DEF x
    <3>4. Cat(x, w, Append(z, strSrc.next)) = Append(Cat(x, w, z), strSrc.next)
      BY <1>5, <3>2, ChanPut, SMTT(40)
    <3>5. Str!Chan' = Append(Str!Chan, strSrc.next)
      BY <1>4, <3>3, <3>4
    <3> QED BY <1>2, <3>1, <3>5 DEF LinkStep
  <2> QED BY <2>2, <2>3
<1>9. CASE Str!Recv
  <2>1. x # <<>> /\ strOut' = Head(x) /\ UNCHANGED <<strSrc, strRst>>
    BY <1>9 DEF Str!Recv, x
  <2>2. strSnk'.q = Tail(x)
    <3>1. Tail(x) \in Seq(Int) /\ strSnk' = Str!Woken([strSnk EXCEPT !.q = Tail(x)])
      BY <1>2, <1>9, <2>1 DEF Str!Recv, x
    <3>2. [strSnk EXCEPT !.q = Tail(x)] \in StrSnkType /\ [strSnk EXCEPT !.q = Tail(x)].q = Tail(x)
      BY <1>1, <3>1 DEF StrSnkType
    <3> QED BY <3>1, <3>2, StrWoken
  <2>3. Str!Chan' = Cat(Tail(x), w, z)
    BY <1>3, <2>1, <2>2 DEF w, z
  <2>4. Str!Chan # <<>> /\ Head(Str!Chan) = Head(x) /\ Tail(Str!Chan) = Cat(Tail(x), w, z)
    BY <1>4, <1>5, <2>1, ChanTake
  <2> QED BY <2>1, <2>3, <2>4 DEF LinkStep
<1>10. CASE Str!PauseSource
  BY <1>1, <1>7, <1>10 DEF Str!PauseSource, StrSrcType, x, w, z, Wire
<1>11. CASE Str!PauseSink
  <2>1. [strSnk EXCEPT !.pause = ~strSnk.pause] \in StrSnkType
        /\ [strSnk EXCEPT !.pause = ~strSnk.pause].q = strSnk.q
    BY <1>1 DEF StrSnkType
  <2>2. strSnk'.q = strSnk.q /\ UNCHANGED <<strSrc, strRst, strOut>>
    BY <1>11, <2>1, StrWoken DEF Str!PauseSink
  <2> QED BY <1>7, <2>2 DEF x, w, z
<1>12. CASE Str!ResetOn
  <2>1. /\ ~strRst /\ strRst' = TRUE /\ UNCHANGED strOut
        /\ strSnk'.q = x /\ strSrc'.q = z /\ Wire(strSrc') = <<>>
    BY <1>1, <1>12 DEF Str!ResetOn, StrSrcType, StrSnkType, x, z, Wire
  <2>2. Str!Chan' = Cat(x, <<>>, z)
    BY <1>3, <2>1
  <2>3. Len(x) \in Nat /\ Len(Str!Chan) \in Nat
    BY <1>2, <1>6
  <2>4. CASE strSrc.vld
    <3>1. Str!Chan = Cat(x, <<strSrc.data>>, z)
      BY <1>3, <1>4, <2>4 DEF w, Wire
    <3>2. Len(x) + 1 <= Len(Str!Chan) /\ Str!Chan' = Wires!Without(Str!Chan, Len(x), 1)
      BY <1>2, <2>2, <3>1, ChanLoses
    <3>3. Len(x) \in 0 .. Len(Str!Chan) /\ 1 \in 0 .. 1
      BY <2>3, <3>2
    <3> QED BY <2>1, <3>2, <3>3 DEF LinkStep
  <2>5. CASE ~strSrc.vld
    <3>1. Str!Chan' = Str!Chan
      BY <1>3, <1>4, <2>2, <2>5 DEF w, Wire
    <3>2. 0 \in 0 .. Len(Str!Chan) /\ 0 \in 0 .. 1 /\ 0 + 0 <= Len(Str!Chan)
      BY <2>3
    <3>3. Wires!Without(Str!Chan, 0, 0) = Str!Chan
      BY <1>6, <3>2, NothingLost
    <3> QED BY <2>1, <3>1, <3>2, <3>3 DEF LinkStep
  <2> QED BY <2>4, <2>5
<1>13. CASE Str!ResetOff
  <2>1. /\ strRst /\ strRst' = FALSE /\ UNCHANGED strOut
        /\ strSnk'.q = x /\ strSrc'.q = z /\ Wire(strSrc') = w
    BY <1>1, <1>13 DEF Str!ResetOff, StrSrcType, StrSnkType, x, w, z, Wire
  <2> QED BY <1>3, <1>4, <2>1 DEF LinkStep
<1>14. CASE Str!Edge
  <2>1. strSrc' = Str!SourceEdge /\ UNCHANGED <<strRst, strOut>> /\ strSnk'.q = Str!SinkEdge.q
    BY <1>14, StrSinkEdge, StrWoken DEF Str!Edge
  <2>2. CASE Str!Transfer
    <3>1. strSrc.vld /\ strSnk.rdy /\ strSnk.run = "on" /\ strSrc.run = "on"
      BY <2>2 DEF Str!Transfer, StrInv, StrAwake
    <3>2. strSnk'.q = Append(x, strSrc.data) /\ Str!Chan = Cat(x, <<strSrc.data>>, z)
      BY <1>3, <1>4, <2>1, <2>2, <3>1, StrSinkEdge DEF x, w, Wire
    <3>3. \/ z # <<>> /\ Wire(strSrc') = <<Head(z)>> /\ strSrc'.q = Tail(z)
          \/ Wire(strSrc') = <<>> /\ strSrc'.q = z
      BY <2>1, <3>1, StrSourceEdge DEF z, Wire
    <3>4. strSrc.data \in Int
      BY <1>2
    <3> DEFINE y == Append(x, strSrc.data)
    <3>5. y \in Seq(Int) /\ Str!Chan = Cat(y, <<>>, z)
      BY <1>5, <3>4, <3>2, ChanArrives
    <3>6. strSnk'.q = y
      BY <3>2
    <3> HIDE DEF y
    <3>7. Cat(y, Wire(strSrc'), strSrc'.q) = Cat(y, <<>>, z)
      <4>1. z # <<>> => Cat(y, <<Head(z)>>, Tail(z)) = Cat(y, <<>>, z)
        BY <1>5, <3>5, ChanNext
      <4> QED BY <3>3, <4>1
    <3>8. Str!Chan' = Str!Chan
      BY <1>3, <3>5, <3>6, <3>7
    <3> QED BY <2>1, <3>8 DEF LinkStep
  <2>3. CASE ~Str!Transfer
    <3>1. strSnk'.q = x
      BY <2>1, <2>3, StrSinkEdge DEF x
    <3>2. CASE strSrc.vld
      <4>1. ~strSnk.rdy
        BY <2>3, <3>2 DEF Str!Transfer
      <4>2. strSrc' = strSrc
        BY <2>1, <3>2, <4>1, StrSourceEdge
      <4> QED BY <1>7, <2>1, <3>1, <4>2 DEF w, z
    <3>3. CASE ~strSrc.vld
      <4>1. \/ z # <<>> /\ Wire(strSrc') = <<Head(z)>> /\ strSrc'.q = Tail(z)
            \/ Wire(strSrc') = <<>> /\ strSrc'.q = z
        BY <2>1, <3>3, StrSourceEdge DEF z, Wire
      <4>2. Str!Chan = Cat(x, <<>>, z)
        BY <1>3, <1>4, <3>3 DEF w, Wire
      <4>3. Cat(x, Wire(strSrc'), strSrc'.q) = Cat(x, <<>>, z)
        <5>1. z # <<>> => Cat(x, <<Head(z)>>, Tail(z)) = Cat(x, <<>>, z)
          BY <1>5, ChanNext
        <5> QED BY <4>1, <5>1
      <4>4. Str!Chan' = Str!Chan
        BY <1>3, <3>1, <4>2, <4>3
      <4> QED BY <2>1, <4>4 DEF LinkStep
    <3> QED BY <3>2, <3>3
  <2> QED BY <2>2, <2>3
<1>15. CASE UNCHANGED Str!vars
  BY <1>7, <1>15 DEF Str!vars, x, w, z
<1> QED BY <1>6, <1>8, <1>9, <1>10, <1>11, <1>12, <1>13, <1>14, <1>15 DEF Str!Next

LEMMA SavChan ==
  ASSUME SavInv, [Sav!Next]_(Sav!vars)
  PROVE  /\ Sav!Chan \in Seq(Int)
         /\ LinkStep(Sav!Chan, Sav!Chan', savOut, savOut', savRst, savRst')
<1> DEFINE x == savSnk.q
           w == Wire(savSrc)
           z == savSrc.q
<1>1. savSrc \in SavSrcType /\ savSnk \in SavSnkType /\ savRst \in BOOLEAN
  BY DEF SavInv, SavTypes
<1>2. /\ x \in Seq(Int) /\ w \in Seq(Int) /\ z \in Seq(Int) /\ savSrc.data \in Int /\ savSrc.next \in Nat
      /\ <<savSrc.data>> \in Seq(Int) /\ <<>> \in Seq(Int)
  BY <1>1 DEF SavSrcType, SavSnkType, Wire
<1>3. Sav!Chan' = Cat(savSnk'.q, Wire(savSrc'), savSrc'.q)
  BY DEF Sav!Chan, Wire, Cat
<1>4. Sav!Chan = Cat(x, w, z)
  BY DEF Sav!Chan, Wire, Cat
<1>5. x \in Seq(Int) /\ w \in Seq(Int) /\ z \in Seq(Int)
  BY <1>2
<1> HIDE DEF w, x, z
<1>6. Sav!Chan \in Seq(Int)
  BY <1>4, <1>5, ChanPut
<1> SUFFICES LinkStep(Sav!Chan, Sav!Chan', savOut, savOut', savRst, savRst')
  BY <1>6
<1>7. ASSUME UNCHANGED <<savOut, savRst>>, savSnk'.q = x, Wire(savSrc') = w, savSrc'.q = z
      PROVE  LinkStep(Sav!Chan, Sav!Chan', savOut, savOut', savRst, savRst')
  BY <1>3, <1>7, <1>4 DEF LinkStep
<1>8. CASE Sav!Send
  <2>1. /\ UNCHANGED <<savOut, savRst, savSnk>>
        /\ savSrc'.q = Append(z, savSrc.next) /\ Wire(savSrc') = w
    BY <1>1, <1>8 DEF Sav!Send, SavSrcType, w, z, Wire
  <2>2. savSrc.next \in Int
    BY <1>2
  <2>3. Sav!Chan' = Cat(x, w, Append(z, savSrc.next))
    BY <1>3, <2>1 DEF x
  <2>4. Cat(x, w, Append(z, savSrc.next)) = Append(Cat(x, w, z), savSrc.next)
    BY <1>5, <2>2, ChanPut, SMTT(40)
  <2>5. Sav!Chan' = Append(Sav!Chan, savSrc.next)
    BY <1>4, <2>3, <2>4
  <2> QED BY <1>2, <2>1, <2>5 DEF LinkStep
<1>9. CASE Sav!Recv
  <2>1. x # <<>> /\ savOut' = Head(x) /\ UNCHANGED <<savSrc, savRst>>
    BY <1>9 DEF Sav!Recv, x
  <2>2. savSnk'.q = Tail(x)
    <3>1. Tail(x) \in Seq(Int) /\ savSnk' = Sav!Woken([savSnk EXCEPT !.q = Tail(x)])
      BY <1>2, <1>9, <2>1 DEF Sav!Recv, x
    <3>2. [savSnk EXCEPT !.q = Tail(x)] \in SavSnkType /\ [savSnk EXCEPT !.q = Tail(x)].q = Tail(x)
      BY <1>1, <3>1 DEF SavSnkType
    <3> QED BY <3>1, <3>2, SavWoken
  <2>3. Sav!Chan' = Cat(Tail(x), w, z)
    BY <1>3, <2>1, <2>2 DEF w, z
  <2>4. Sav!Chan # <<>> /\ Head(Sav!Chan) = Head(x) /\ Tail(Sav!Chan) = Cat(Tail(x), w, z)
    BY <1>4, <1>5, <2>1, ChanTake
  <2> QED BY <2>1, <2>3, <2>4 DEF LinkStep
<1>10. CASE Sav!PauseSource
  BY <1>1, <1>7, <1>10 DEF Sav!PauseSource, SavSrcType, x, w, z, Wire
<1>11. CASE Sav!PauseSink
  <2>1. [savSnk EXCEPT !.pause = ~savSnk.pause] \in SavSnkType
        /\ [savSnk EXCEPT !.pause = ~savSnk.pause].q = savSnk.q
    BY <1>1 DEF SavSnkType
  <2>2. savSnk'.q = savSnk.q /\ UNCHANGED <<savSrc, savRst, savOut>>
    BY <1>11, <2>1, SavWoken DEF Sav!PauseSink
  <2> QED BY <1>7, <2>2 DEF x, w, z
<1>12. CASE Sav!ResetOn
  <2>1. /\ ~savRst /\ savRst' = TRUE /\ UNCHANGED savOut
        /\ savSnk'.q = x /\ savSrc'.q = z /\ Wire(savSrc') = <<>>
    BY <1>1, <1>12 DEF Sav!ResetOn, SavSrcType, SavSnkType, x, z, Wire
  <2>2. Sav!Chan' = Cat(x, <<>>, z)
    BY <1>3, <2>1
  <2>3. Len(x) \in Nat /\ Len(Sav!Chan) \in Nat
    BY <1>2, <1>6
  <2>4. CASE savSrc.vld
    <3>1. Sav!Chan = Cat(x, <<savSrc.data>>, z)
      BY <1>3, <1>4, <2>4 DEF w, Wire
    <3>2. Len(x) + 1 <= Len(Sav!Chan) /\ Sav!Chan' = Wires!Without(Sav!Chan, Len(x), 1)
      BY <1>2, <2>2, <3>1, ChanLoses
    <3>3. Len(x) \in 0 .. Len(Sav!Chan) /\ 1 \in 0 .. 1
      BY <2>3, <3>2
    <3> QED BY <2>1, <3>2, <3>3 DEF LinkStep
  <2>5. CASE ~savSrc.vld
    <3>1. Sav!Chan' = Sav!Chan
      BY <1>3, <1>4, <2>2, <2>5 DEF w, Wire
    <3>2. 0 \in 0 .. Len(Sav!Chan) /\ 0 \in 0 .. 1 /\ 0 + 0 <= Len(Sav!Chan)
      BY <2>3
    <3>3. Wires!Without(Sav!Chan, 0, 0) = Sav!Chan
      BY <1>6, <3>2, NothingLost
    <3> QED BY <2>1, <3>1, <3>2, <3>3 DEF LinkStep
  <2> QED BY <2>4, <2>5
<1>13. CASE Sav!ResetOff
  <2>1. /\ savRst /\ savRst' = FALSE /\ UNCHANGED savOut
        /\ savSnk'.q = x /\ savSrc'.q = z /\ Wire(savSrc') = w
    BY <1>1, <1>13 DEF Sav!ResetOff, SavSrcType, SavSnkType, x, w, z, Wire
  <2> QED BY <1>3, <1>4, <2>1 DEF LinkStep
<1>14. CASE Sav!Edge
  <2> DEFINE n == Sav!Count(savSrc.cnt)
  <2>1. n \in 0 .. MaxPause /\ Sav!Count(savSnk.cnt) = n /\ savSrc.cnt \in 0 .. MaxPause
    BY SavCount DEF SavInv
  <2>2. PICK cs \in {savSrc.cnt, n}, ck \in {savSnk.cnt, Sav!Count(savSnk.cnt)} :
          LET rise == (~savSrc.vld /\ Sav!SourceEdge(cs).vld) \/ (~savSnk.sav /\ Sav!SinkEdge.sav)
              snk == [Sav!SinkEdge EXCEPT !.cnt = Sav!Count(savSnk.cnt)]
          IN /\ savSrc' = [Sav!SourceEdge(cs) EXCEPT !.cnt = n]
             /\ savSnk' = IF rise THEN Sav!Woken(snk) ELSE snk
    BY <1>14 DEF Sav!Edge
  <2> HIDE DEF n
  <2> DEFINE src == Sav!SourceEdge(cs)
             snk == [Sav!SinkEdge EXCEPT !.cnt = n]
  <2>3. /\ src \in SavSrcType
        /\ \/ savSrc.q # <<>> /\ src.vld /\ src.data = Head(savSrc.q) /\ src.q = Tail(savSrc.q)
           \/ ~src.vld /\ src.q = savSrc.q
    BY <1>1, <2>1, <2>2, SavSourceEdge, LinksAssumption
  <2>4. savSrc'.vld = src.vld /\ savSrc'.data = src.data /\ savSrc'.q = src.q
    <3> HIDE DEF src
    <3>1. savSrc' = [src EXCEPT !.cnt = n]
      BY <2>2 DEF src
    <3> QED BY <2>3, <3>1 DEF SavSrcType
  <2> HIDE DEF src
  <2>5. \/ z # <<>> /\ Wire(savSrc') = <<Head(z)>> /\ savSrc'.q = Tail(z)
        \/ Wire(savSrc') = <<>> /\ savSrc'.q = z
    BY <2>3, <2>4 DEF z, Wire
  <2>6. Sav!SinkEdge \in SavSnkType
    BY <1>1, SavSinkEdge
  <2>7. snk \in SavSnkType /\ snk.q = Sav!SinkEdge.q
    BY <2>1, <2>6 DEF SavSnkType
  <2>8. savSnk' = Sav!Woken(snk) \/ savSnk' = snk
    BY <2>1, <2>2
  <2> HIDE DEF snk
  <2>9. savSnk'.q = Sav!SinkEdge.q /\ UNCHANGED <<savRst, savOut>> /\ ~savRst
    BY <1>14, <2>7, <2>8, SavWoken DEF Sav!Edge
  <2>10. CASE savSrc.vld
    <3>1. savSnk.run = "on"
      BY <1>1, <2>9, <2>10 DEF SavInv, SavResetInv, SavSnkType, Runs
    <3>2. savSnk'.q = Append(x, savSrc.data) /\ Sav!Chan = Cat(x, <<savSrc.data>>, z)
      BY <1>1, <1>3, <1>4, <2>9, <2>10, <3>1, SavSinkEdge DEF x, w, Wire
    <3>3. savSrc.data \in Int
      BY <1>2
    <3> DEFINE y == Append(x, savSrc.data)
    <3>4. y \in Seq(Int) /\ Sav!Chan = Cat(y, <<>>, z)
      BY <1>5, <3>3, <3>2, ChanArrives
    <3>5. savSnk'.q = y
      BY <3>2
    <3> HIDE DEF y
    <3>6. Cat(y, Wire(savSrc'), savSrc'.q) = Cat(y, <<>>, z)
      <4>1. z # <<>> => Cat(y, <<Head(z)>>, Tail(z)) = Cat(y, <<>>, z)
        BY <1>5, <3>4, ChanNext
      <4> QED BY <2>5, <4>1
    <3>7. Sav!Chan' = Sav!Chan
      BY <1>3, <3>4, <3>5, <3>6
    <3> QED BY <2>9, <3>7 DEF LinkStep
  <2>11. CASE ~savSrc.vld
    <3>1. savSnk'.q = x /\ Sav!Chan = Cat(x, <<>>, z)
      BY <1>1, <1>3, <1>4, <2>9, <2>11, SavSinkEdge DEF x, w, Wire
    <3>2. Cat(x, Wire(savSrc'), savSrc'.q) = Cat(x, <<>>, z)
      <4>1. z # <<>> => Cat(x, <<Head(z)>>, Tail(z)) = Cat(x, <<>>, z)
        BY <1>5, ChanNext
      <4> QED BY <2>5, <4>1
    <3>3. Sav!Chan' = Sav!Chan
      BY <1>3, <3>1, <3>2
    <3> QED BY <2>9, <3>3 DEF LinkStep
  <2> QED BY <2>10, <2>11
<1>15. CASE UNCHANGED Sav!vars
  BY <1>7, <1>15 DEF Sav!vars, x, w, z
<1> QED BY <1>6, <1>8, <1>9, <1>10, <1>11, <1>12, <1>13, <1>14, <1>15 DEF Sav!Next

-----------------------------------------------------------------------------
(* The transactors count what they hold. *)

PipBeat == [tag : Nat, len : Nat, sop : BOOLEAN, eop : BOOLEAN]
PipPkt == Nat \cup {-1}
PipMstType ==
  [q : Seq(Nat), cur : Seq(PipBeat), flight : Int, put : PipPkt, next : Nat, debt : BOOLEAN]
PipSlvType == [part : Seq(PipBeat), put : PipPkt, q : Seq(Nat), flight : Int]

\* A packet that waits for room, and one that is being sent.
PipHeld(p) == Len(Pip!Held(p))
PipPart(beats) == IF beats = <<>> THEN 0 ELSE 1
PipMstInv ==
  /\ pipMst \in PipMstType
  /\ ~pipMst.debt => pipMst.flight = Len(pipMst.q) + PipHeld(pipMst.put) + PipPart(pipMst.cur)
PipSlvInv ==
  /\ pipSlv \in PipSlvType
  /\ pipSlv.flight = Len(pipSlv.q) + PipHeld(pipSlv.put)
PipBusInv == pipBus \in [src : Seq(PipBeat), snk : Seq(PipBeat)]
PipInv == PipMstInv /\ PipSlvInv /\ PipBusInv

LEMMA PipIdle == PipInv => Pip!PipIdleIsIdle
  BY DEF PipInv, PipMstInv, PipSlvInv, Pip!PipIdleIsIdle, PipHeld, PipPart

LEMMA PipCounts ==
  /\ Pip!None \in PipPkt /\ PipHeld(Pip!None) = 0
  /\ \A p \in PipPkt : p # Pip!None => p \in Nat /\ PipHeld(p) = 1
  /\ \A p \in Nat : p \in PipPkt /\ p # Pip!None
  /\ PipPart(<<>>) = 0 /\ \A b : b # <<>> => PipPart(b) = 1
<1>1. Pip!None = -1
  BY DEF Pip!None
<1>2. PipHeld(-1) = 0 /\ \A p \in Nat : PipHeld(p) = 1
  BY <1>1 DEF PipHeld, Pip!Held
<1> QED BY <1>1, <1>2 DEF PipPkt, PipPart

LEMMA PipNames == Cardinality(Pip!Names) = 4 * Limit + 4
<1>1. 0 \in Int /\ 4 * Limit + 3 \in Int /\ 0 <= 4 * Limit + 3
  BY LinksAssumption
<1>2. Cardinality(0 .. 4 * Limit + 3) = 4 * Limit + 3 - 0 + 1
  BY <1>1, FS_Interval
<1> QED BY <1>2, LinksAssumption DEF Pip!Names

LEMMA PipBeats ==
  ASSUME NEW p \in Nat, NEW n \in 1 .. MaxBeats
  PROVE  Pip!Beats(p, n) \in Seq(PipBeat) /\ Pip!Beats(p, n) # <<>>
<1> DEFINE b == [i \in 1 .. n |-> [tag |-> p, len |-> n, sop |-> i = 1, eop |-> i = n]]
<1>1. n \in Nat /\ n >= 1
  BY LinksAssumption
<1>2. \A i \in 1 .. n : [tag |-> p, len |-> n, sop |-> i = 1, eop |-> i = n] \in PipBeat
  BY <1>1 DEF PipBeat
<1>3. b \in [1 .. n -> PipBeat]
  BY <1>2
<1>4. b \in Seq(PipBeat) /\ Len(b) = n
  BY <1>1, <1>3
<1> QED BY <1>1, <1>4 DEF Pip!Beats

LEMMA PipInit == Pip!Init => PipInv
<1> SUFFICES ASSUME Pip!Init PROVE PipInv
  OBVIOUS
<1> DEFINE none == Pip!None
<1>1. none \in PipPkt /\ PipHeld(none) = 0 /\ PipPart(<<>>) = 0
  BY PipCounts
<1>2. /\ pipMst = [q |-> <<>>, cur |-> <<>>, flight |-> 0, put |-> none, next |-> 0, debt |-> FALSE]
      /\ pipBus = [src |-> <<>>, snk |-> <<>>]
      /\ pipSlv = [part |-> <<>>, put |-> none, q |-> <<>>, flight |-> 0]
  BY DEF Pip!Init
<1> HIDE DEF none
<1> QED BY <1>1, <1>2 DEF PipInv, PipMstInv, PipSlvInv, PipBusInv, PipMstType, PipSlvType

\* The user's calls.
LEMMA PipUser ==
  ASSUME PipInv, Pip!User
  PROVE  PipInv'
<1> DEFINE none == Pip!None
<1>1. pipMst \in PipMstType /\ pipSlv \in PipSlvType /\ PipMstInv /\ PipSlvInv /\ PipBusInv
  BY DEF PipInv, PipMstInv, PipSlvInv
<1>2. /\ none \in PipPkt /\ PipHeld(none) = 0
      /\ \A p \in PipPkt : p # none => p \in Nat /\ PipHeld(p) = 1
      /\ \A p \in Nat : p \in PipPkt /\ PipHeld(p) = 1
  BY PipCounts
<1> HIDE DEF none
<1>3. CASE Pip!Send
  <2> DEFINE next == (pipMst.next + 1) % Cardinality(Pip!Names)
  <2>1. next \in Nat /\ pipMst.next \in PipPkt /\ pipMst.flight \in Int /\ Len(pipMst.q) \in Nat
    <3>1. pipMst.next \in Nat /\ pipMst.next + 1 \in Nat /\ pipMst.flight \in Int /\ Len(pipMst.q) \in Nat
      BY <1>1 DEF PipMstType
    <3>2. Cardinality(Pip!Names) \in Nat \ {0}
      BY PipNames, LinksAssumption
    <3> QED BY <1>2, <3>1, <3>2
  <2>2. /\ pipMst.put = none /\ UNCHANGED <<pipBus, pipSlv>>
        /\ pipMst' = [pipMst EXCEPT !.flight = pipMst.flight + 1, !.put = pipMst.next, !.next = next]
    BY <1>3 DEF Pip!Send, Pip!Cardinality, Cardinality, none
  <2> DEFINE put == pipMst.next
             flight == pipMst.flight + 1
  <2> HIDE DEF next
  <2>3. /\ pipMst' \in PipMstType /\ pipMst'.q = pipMst.q /\ pipMst'.cur = pipMst.cur
        /\ pipMst'.flight = pipMst.flight + 1 /\ pipMst'.put = pipMst.next /\ pipMst'.debt = pipMst.debt
    <3>1. put \in PipPkt /\ flight \in Int /\ pipMst' = [pipMst EXCEPT !.flight = flight, !.put = put, !.next = next]
      BY <2>1, <2>2
    <3> HIDE DEF put, flight
    <3>2. /\ pipMst' \in PipMstType /\ pipMst'.q = pipMst.q /\ pipMst'.cur = pipMst.cur
          /\ pipMst'.flight = flight /\ pipMst'.put = put /\ pipMst'.debt = pipMst.debt
      BY <1>1, <2>1, <3>1 DEF PipMstType
    <3> QED BY <3>2 DEF put, flight
  <2>4. PipHeld(pipMst.next) = 1 /\ PipHeld(pipMst.put) = 0
    BY <1>1, <1>2, <2>2 DEF PipMstType
  <2>5. PipPart(pipMst.cur) \in Int
    BY DEF PipPart
  <2>6. PipMstInv'
    BY <1>1, <2>1, <2>3, <2>4, <2>5 DEF PipMstInv
  <2> QED BY <1>1, <2>2, <2>6 DEF PipInv, PipSlvInv, PipBusInv
<1>4. CASE Pip!SendPut
  <2> DEFINE new == Append(pipMst.q, pipMst.put)
  <2>1. pipMst.put \in Nat /\ PipHeld(pipMst.put) = 1 /\ pipMst.flight \in Int
    BY <1>1, <1>2, <1>4 DEF Pip!SendPut, PipMstType, none
  <2>2. new \in Seq(Nat) /\ Len(new) = Len(pipMst.q) + 1 /\ Len(pipMst.q) \in Nat
    BY <1>1, <2>1, AppendProperties DEF PipMstType
  <2>3. pipMst' = [pipMst EXCEPT !.q = new, !.put = none] /\ UNCHANGED <<pipBus, pipSlv>>
    BY <1>4 DEF Pip!SendPut, none
  <2> HIDE DEF new
  <2>4. /\ pipMst' \in PipMstType /\ pipMst'.q = new /\ pipMst'.cur = pipMst.cur
        /\ pipMst'.flight = pipMst.flight /\ pipMst'.put = none /\ pipMst'.debt = pipMst.debt
    BY <1>1, <1>2, <2>2, <2>3 DEF PipMstType
  <2>5. PipPart(pipMst.cur) \in Int
    BY DEF PipPart
  <2>6. PipMstInv'
    BY <1>1, <1>2, <2>1, <2>2, <2>4, <2>5 DEF PipMstInv
  <2> QED BY <1>1, <2>3, <2>6 DEF PipInv, PipSlvInv, PipBusInv
<1>5. CASE Pip!Recv
  <2>1. pipSlv.q # <<>> /\ UNCHANGED <<pipMst, pipBus>>
    BY <1>5 DEF Pip!Recv
  <2>2. Tail(pipSlv.q) \in Seq(Nat) /\ Len(Tail(pipSlv.q)) = Len(pipSlv.q) - 1 /\ Len(pipSlv.q) \in Nat
        /\ pipSlv.flight - 1 \in Int /\ pipSlv.flight \in Int
    BY <1>1, <2>1, HeadTailProperties DEF PipSlvType
  <2>3. pipSlv' = [pipSlv EXCEPT !.q = Tail(pipSlv.q), !.flight = pipSlv.flight - 1]
    BY <1>5 DEF Pip!Recv
  <2>4. /\ pipSlv' \in PipSlvType /\ pipSlv'.q = Tail(pipSlv.q) /\ pipSlv'.flight = pipSlv.flight - 1
        /\ pipSlv'.put = pipSlv.put
    BY <1>1, <2>2, <2>3 DEF PipSlvType
  <2>5. PipHeld(pipSlv.put) \in Int
    BY <1>1, <1>2 DEF PipSlvType
  <2>6. PipSlvInv'
    BY <1>1, <2>2, <2>4, <2>5 DEF PipSlvInv
  <2> QED BY <1>1, <2>1, <2>6 DEF PipInv, PipMstInv, PipBusInv
<1> QED BY <1>3, <1>4, <1>5 DEF Pip!User

LEMMA PipProcess ==
  ASSUME PipInv, Pip!Process
  PROVE  PipInv'
<1> DEFINE none == Pip!None
<1>1. /\ pipMst \in PipMstType /\ pipSlv \in PipSlvType /\ PipMstInv /\ PipSlvInv /\ PipBusInv
      /\ pipBus \in [src : Seq(PipBeat), snk : Seq(PipBeat)]
  BY DEF PipInv, PipMstInv, PipSlvInv, PipBusInv
<1>2. /\ none \in PipPkt /\ PipHeld(none) = 0
      /\ \A p \in PipPkt : p # none => p \in Nat /\ PipHeld(p) = 1
      /\ \A p \in Nat : p \in PipPkt /\ PipHeld(p) = 1
      /\ PipPart(<<>>) = 0 /\ \A b : b # <<>> => PipPart(b) = 1
  BY PipCounts
<1> HIDE DEF none
<1>3. pipMst.flight \in Int /\ Len(pipMst.q) \in Nat /\ PipHeld(pipMst.put) \in Int
      /\ pipSlv.flight \in Int /\ Len(pipSlv.q) \in Nat /\ pipMst.debt \in BOOLEAN
  BY <1>1, <1>2 DEF PipMstType, PipSlvType
<1>4. CASE Pip!MasterGet
  <2>1. PICK n \in 1 .. MaxBeats :
          pipMst' = [pipMst EXCEPT !.cur = Pip!Beats(Head(pipMst.q), n), !.q = Tail(@)]
    BY <1>4 DEF Pip!MasterGet
  <2>2. pipMst.cur = <<>> /\ pipMst.q # <<>> /\ UNCHANGED <<pipBus, pipSlv>>
    BY <1>4 DEF Pip!MasterGet
  <2>3. /\ Head(pipMst.q) \in Nat /\ Tail(pipMst.q) \in Seq(Nat)
        /\ Len(Tail(pipMst.q)) = Len(pipMst.q) - 1
    BY <1>1, <2>2, HeadTailProperties DEF PipMstType
  <2> DEFINE b == Pip!Beats(Head(pipMst.q), n)
  <2>4. b \in Seq(PipBeat) /\ b # <<>>
    BY <2>3, PipBeats
  <2>5. pipMst' = [pipMst EXCEPT !.cur = b, !.q = Tail(pipMst.q)]
    BY <2>1
  <2> HIDE DEF b
  <2>6. /\ pipMst' \in PipMstType /\ pipMst'.q = Tail(pipMst.q) /\ pipMst'.cur = b
        /\ pipMst'.flight = pipMst.flight /\ pipMst'.put = pipMst.put /\ pipMst'.debt = pipMst.debt
    BY <1>1, <2>3, <2>4, <2>5 DEF PipMstType
  <2>7. PipMstInv'
    BY <1>1, <1>2, <1>3, <2>2, <2>3, <2>4, <2>6 DEF PipMstInv
  <2> QED BY <1>1, <2>2, <2>7 DEF PipInv, PipSlvInv, PipBusInv
<1>5. CASE Pip!MasterBeat
  <2> DEFINE k == IF Len(pipMst.cur) = 1 THEN 1 ELSE 0
             new == Append(pipBus.src, Head(pipMst.cur))
             rest == Tail(pipMst.cur)
  <2>1. pipMst.cur # <<>> /\ UNCHANGED pipSlv
    BY <1>5 DEF Pip!MasterBeat
  <2>2. Head(pipMst.cur) \in PipBeat /\ rest \in Seq(PipBeat) /\ (Len(pipMst.cur) = 1 <=> rest = <<>>)
    <3>1. Head(pipMst.cur) \in PipBeat /\ rest \in Seq(PipBeat)
          /\ Len(rest) = Len(pipMst.cur) - 1 /\ Len(pipMst.cur) \in Nat
      BY <1>1, <2>1, HeadTailProperties DEF PipMstType
    <3> HIDE DEF rest
    <3>2. Len(rest) = 0 <=> rest = <<>>
      BY <3>1, EmptySeq
    <3> QED BY <3>1, <3>2
  <2>3. new \in Seq(PipBeat)
    BY <1>1, <2>2, AppendProperties
  <2>4. /\ pipMst' = [pipMst EXCEPT !.cur = rest, !.flight = pipMst.flight - k]
        /\ pipBus' = [pipBus EXCEPT !.src = new]
    BY <1>5 DEF Pip!MasterBeat
  <2>5. PipPart(pipMst.cur) = 1 /\ PipPart(rest) = 1 - k /\ k \in {0, 1}
    <3>1. PipPart(pipMst.cur) = 1
      BY <2>1 DEF PipPart
    <3>2. CASE Len(pipMst.cur) = 1
      <4>1. k = 1 /\ rest = <<>>
        BY <2>2, <3>2
      <4> HIDE DEF k, rest
      <4> QED BY <3>1, <4>1 DEF PipPart
    <3>3. CASE Len(pipMst.cur) # 1
      <4>1. k = 0 /\ rest # <<>>
        BY <2>2, <3>3
      <4> HIDE DEF k, rest
      <4> QED BY <3>1, <4>1 DEF PipPart
    <3> QED BY <3>2, <3>3
  <2> HIDE DEF new, rest, k
  <2>6. pipMst.flight - k \in Int /\ k \in Int
    BY <1>3, <2>5
  <2>7. /\ pipMst' \in PipMstType /\ pipMst'.q = pipMst.q /\ pipMst'.cur = rest
        /\ pipMst'.flight = pipMst.flight - k /\ pipMst'.put = pipMst.put /\ pipMst'.debt = pipMst.debt
    BY <1>1, <2>2, <2>4, <2>6 DEF PipMstType
  <2>8. PipMstInv'
    <3>1. ~pipMst.debt => pipMst.flight - k = Len(pipMst.q) + PipHeld(pipMst.put) + PipPart(rest)
      <4>1. ~pipMst.debt => pipMst.flight = Len(pipMst.q) + PipHeld(pipMst.put) + 1
        BY <1>1, <2>5 DEF PipMstInv
      <4> DEFINE held == PipHeld(pipMst.put)
                 len == Len(pipMst.q)
                 flight == pipMst.flight
                 left == PipPart(rest)
      <4>2. held \in Int /\ len \in Int /\ flight \in Int /\ left = 1 - k /\ k \in Int
            /\ (~pipMst.debt => flight = len + held + 1)
        BY <1>3, <2>5, <2>6, <4>1
      <4> HIDE DEF held, len, flight, left
      <4>3. ~pipMst.debt => flight - k = len + held + left
        BY <4>2
      <4> QED BY <4>3 DEF held, len, flight, left
    <3> QED BY <2>7, <3>1 DEF PipMstInv
  <2>9. PipBusInv'
    BY <1>1, <2>3, <2>4 DEF PipBusInv
  <2> QED BY <1>1, <2>1, <2>8, <2>9 DEF PipInv, PipSlvInv
<1>6. CASE Pip!Wires
  <2>1. UNCHANGED <<pipMst, pipSlv>> /\ pipBus.src # <<>>
        /\ pipBus' = [src |-> Tail(pipBus.src), snk |-> Append(pipBus.snk, Head(pipBus.src))]
    BY <1>6 DEF Pip!Wires
  <2>2. Head(pipBus.src) \in PipBeat /\ Tail(pipBus.src) \in Seq(PipBeat)
    BY <1>1, <2>1, HeadTailProperties
  <2>3. Append(pipBus.snk, Head(pipBus.src)) \in Seq(PipBeat)
    BY <1>1, <2>2, AppendProperties
  <2> QED BY <1>1, <2>1, <2>2, <2>3 DEF PipInv, PipMstInv, PipSlvInv, PipBusInv
<1>7. CASE Pip!SlaveBeat
  <2> DEFINE beat == Head(pipBus.snk)
             part == Append(pipSlv.part, beat)
  <2>1. /\ pipBus.snk # <<>> /\ pipSlv.put = none /\ UNCHANGED pipMst
        /\ pipSlv' = IF beat.eop THEN [pipSlv EXCEPT !.part = <<>>, !.put = beat.tag, !.flight = pipSlv.flight + 1]
                     ELSE [pipSlv EXCEPT !.part = part]
        /\ pipBus' = [pipBus EXCEPT !.snk = Tail(pipBus.snk)]
    BY <1>7 DEF Pip!SlaveBeat, none
  <2>2. beat \in PipBeat /\ Tail(pipBus.snk) \in Seq(PipBeat)
    BY <1>1, <2>1, HeadTailProperties
  <2> HIDE DEF beat
  <2>3. beat.tag \in PipPkt /\ PipHeld(beat.tag) = 1 /\ part \in Seq(PipBeat)
        /\ pipSlv.flight + 1 \in Int
    <3>1. beat.tag \in Nat /\ pipSlv.part \in Seq(PipBeat)
      BY <1>1, <2>2 DEF PipBeat, PipSlvType
    <3>2. part \in Seq(PipBeat)
      BY <2>2, <3>1, AppendProperties
    <3> QED BY <1>2, <1>3, <3>1, <3>2
  <2> HIDE DEF part
  <2>4. PipBusInv'
    BY <1>1, <2>1, <2>2 DEF PipBusInv
  <2>5. CASE beat.eop
    <3> DEFINE put == beat.tag
               flight == pipSlv.flight + 1
               empty == <<>>
    <3>1. /\ pipSlv' \in PipSlvType /\ pipSlv'.put = beat.tag /\ pipSlv'.q = pipSlv.q
          /\ pipSlv'.flight = pipSlv.flight + 1
      <4>1. /\ put \in PipPkt /\ flight \in Int /\ empty \in Seq(PipBeat)
            /\ pipSlv' = [pipSlv EXCEPT !.part = empty, !.put = put, !.flight = flight]
        BY <2>1, <2>3, <2>5
      <4> HIDE DEF put, flight, empty
      <4>2. pipSlv' \in PipSlvType /\ pipSlv'.put = put /\ pipSlv'.q = pipSlv.q /\ pipSlv'.flight = flight
        BY <1>1, <4>1 DEF PipSlvType
      <4> QED BY <4>2 DEF put, flight
    <3>2. PipSlvInv'
      BY <1>1, <1>2, <1>3, <2>1, <2>3, <3>1 DEF PipSlvInv
    <3> QED BY <1>1, <2>1, <2>4, <3>2 DEF PipInv, PipMstInv
  <2>6. CASE ~beat.eop
    <3>1. /\ pipSlv' \in PipSlvType /\ pipSlv'.put = pipSlv.put /\ pipSlv'.q = pipSlv.q
          /\ pipSlv'.flight = pipSlv.flight
      BY <1>1, <2>1, <2>3, <2>6 DEF PipSlvType
    <3>2. PipSlvInv'
      BY <1>1, <3>1 DEF PipSlvInv
    <3> QED BY <1>1, <2>1, <2>4, <3>2 DEF PipInv, PipMstInv
  <2> QED BY <2>5, <2>6
<1>8. CASE Pip!SlavePut
  <2> DEFINE new == Append(pipSlv.q, pipSlv.put)
  <2>1. pipSlv.put \in Nat /\ PipHeld(pipSlv.put) = 1
    BY <1>1, <1>2, <1>8 DEF Pip!SlavePut, PipSlvType, none
  <2>2. new \in Seq(Nat) /\ Len(new) = Len(pipSlv.q) + 1
    BY <1>1, <2>1, AppendProperties DEF PipSlvType
  <2>3. pipSlv' = [pipSlv EXCEPT !.q = new, !.put = none] /\ UNCHANGED <<pipBus, pipMst>>
    BY <1>8 DEF Pip!SlavePut, none
  <2> HIDE DEF new
  <2>4. /\ pipSlv' \in PipSlvType /\ pipSlv'.q = new /\ pipSlv'.flight = pipSlv.flight /\ pipSlv'.put = none
    BY <1>1, <1>2, <2>2, <2>3 DEF PipSlvType
  <2>5. PipSlvInv'
    BY <1>1, <1>2, <1>3, <2>1, <2>2, <2>4 DEF PipSlvInv
  <2> QED BY <1>1, <2>3, <2>5 DEF PipInv, PipMstInv, PipBusInv
<1> QED BY <1>4, <1>5, <1>6, <1>7, <1>8 DEF Pip!Process

LEMMA PipResets ==
  ASSUME PipInv, Pip!ResetOn \/ Pip!ResetOff
  PROVE  PipInv'
<1> DEFINE none == Pip!None
<1>1. pipMst \in PipMstType /\ PipMstInv /\ PipSlvInv /\ PipBusInv
  BY DEF PipInv, PipMstInv
<1>2. none \in PipPkt /\ PipHeld(none) = 0 /\ PipPart(<<>>) = 0
  BY PipCounts
<1> HIDE DEF none
<1>3. CASE Pip!ResetOn
  <2>1. /\ pipBus' = [src |-> <<>>, snk |-> <<>>]
        /\ pipSlv' = [part |-> <<>>, put |-> none, q |-> <<>>, flight |-> 0]
    BY <1>3 DEF Pip!ResetOn, none
  <2>2. \E d \in BOOLEAN : /\ ~d => pipMst.put = none
                           /\ pipMst' = [pipMst EXCEPT !.q = <<>>, !.cur = <<>>, !.flight = 0, !.debt = d]
    <3>1. (pipMst.debt \/ pipMst.put # none) \in BOOLEAN
      OBVIOUS
    <3>2. pipMst' = [pipMst EXCEPT !.q = <<>>, !.cur = <<>>, !.flight = 0,
                       !.debt = (pipMst.debt \/ pipMst.put # none)]
      BY <1>3 DEF Pip!ResetOn, none
    <3>3. ~(pipMst.debt \/ pipMst.put # none) => pipMst.put = none
      OBVIOUS
    <3> QED BY <3>1, <3>2, <3>3
  <2>3. PICK d \in BOOLEAN :
          /\ ~d => pipMst.put = none
          /\ pipMst' = [pipMst EXCEPT !.q = <<>>, !.cur = <<>>, !.flight = 0, !.debt = d]
    BY <2>2
  <2>4. /\ pipMst' \in PipMstType /\ pipMst'.q = <<>> /\ pipMst'.cur = <<>> /\ pipMst'.flight = 0
        /\ pipMst'.debt = d /\ pipMst'.put = pipMst.put
    <3> DEFINE empty == <<>>
    <3>1. /\ empty \in Seq(Nat) /\ empty \in Seq(PipBeat)
          /\ pipMst' = [pipMst EXCEPT !.q = empty, !.cur = empty, !.flight = 0, !.debt = d]
      BY <2>3
    <3> HIDE DEF empty
    <3> DEFINE m == [pipMst EXCEPT !.q = empty, !.cur = empty]
    <3>2. m \in PipMstType /\ m.q = empty /\ m.cur = empty /\ m.put = pipMst.put
      BY <1>1, <3>1 DEF PipMstType
    <3>3. pipMst' = [m EXCEPT !.flight = 0, !.debt = d]
      BY <3>1
    <3> HIDE DEF m
    <3>4. /\ pipMst' \in PipMstType /\ pipMst'.q = m.q /\ pipMst'.cur = m.cur /\ pipMst'.flight = 0
          /\ pipMst'.debt = d /\ pipMst'.put = m.put
      <4>1. 0 \in Int /\ d \in BOOLEAN
        OBVIOUS
      <4> DEFINE zero == 0
      <4>2. zero \in Int /\ pipMst' = [m EXCEPT !.flight = zero, !.debt = d]
        BY <3>3
      <4> HIDE DEF zero
      <4>3. /\ pipMst' \in PipMstType /\ pipMst'.q = m.q /\ pipMst'.cur = m.cur /\ pipMst'.flight = zero
            /\ pipMst'.debt = d /\ pipMst'.put = m.put
        BY <3>2, <4>1, <4>2 DEF PipMstType
      <4> QED BY <4>3 DEF zero
    <3> QED BY <3>2, <3>4 DEF empty
  <2>5. PipMstInv'
    BY <1>2, <2>3, <2>4 DEF PipMstInv
  <2>6. pipSlv' \in PipSlvType /\ pipSlv'.put = none /\ pipSlv'.q = <<>> /\ pipSlv'.flight = 0
    BY <1>2, <2>1 DEF PipSlvType
  <2>7. PipSlvInv'
    BY <1>2, <2>6 DEF PipSlvInv
  <2>8. PipBusInv'
    BY <2>1 DEF PipBusInv
  <2> QED BY <2>5, <2>7, <2>8 DEF PipInv
<1>4. CASE Pip!ResetOff
  BY <1>4 DEF Pip!ResetOff, PipInv, PipMstInv, PipSlvInv, PipBusInv
<1> QED BY <1>3, <1>4

LEMMA PipStep == PipInv /\ [Pip!Next]_(Pip!vars) => PipInv'
<1> SUFFICES ASSUME PipInv, [Pip!Next]_(Pip!vars) PROVE PipInv'
  OBVIOUS
<1>1. CASE Pip!Next
  BY <1>1, PipUser, PipProcess, PipResets DEF Pip!Next
<1>2. CASE UNCHANGED Pip!vars
  BY <1>2 DEF Pip!vars, PipInv, PipMstInv, PipSlvInv, PipBusInv
<1> QED BY <1>1, <1>2

-----------------------------------------------------------------------------
(* The packets whose last beat is among some beats, in order. *)

LastBeats(s) == {i \in DOMAIN s : s[i].eop}
EndPairs(s) == {<<i, s[i].tag>> : i \in LastBeats(s)}
EndOrder(s) == InOrder(EndPairs(s))

LEMMA EndedIs ==
  ASSUME NEW s
  PROVE  Pip!Ended(s) = [k \in DOMAIN EndOrder(s) |-> EndOrder(s)[k][2]]
<1>1. \A S : Pip!InOrder(S) = InOrder(S)
  BY DEF Pip!InOrder, InOrder, Pip!Lower, Lower, Pip!Before, Before, Pip!Cardinality, Cardinality
<1> QED BY <1>1 DEF Pip!Ended, EndOrder, EndPairs, LastBeats

\* They are finitely many, not more than there are beats.
LEMMA EndPairsType ==
  ASSUME NEW s \in Seq(PipBeat)
  PROVE  /\ EndPairs(s) \in SUBSET (Nat \X Nat) /\ IsFiniteSet(EndPairs(s))
         /\ Cardinality(EndPairs(s)) \in 0 .. Len(s)
         /\ \A p \in EndPairs(s) : p[1] \in 1 .. Len(s) /\ p[2] = s[p[1]].tag /\ s[p[1]].eop
<1>1. Len(s) \in Nat /\ DOMAIN s = 1 .. Len(s) /\ \A i \in 1 .. Len(s) : s[i] \in PipBeat
  OBVIOUS
<1>2. LastBeats(s) \in SUBSET (1 .. Len(s))
  BY <1>1 DEF LastBeats
<1>3. IsFiniteSet(1 .. Len(s)) /\ Cardinality(1 .. Len(s)) = Len(s)
  <2> DEFINE n == Len(s)
  <2>1. n \in Nat
    BY <1>1
  <2> HIDE DEF n
  <2>2. IsFiniteSet(1 .. n) /\ Cardinality(1 .. n) = IF 1 > n THEN 0 ELSE n - 1 + 1
    BY <2>1, FS_Interval
  <2>3. IsFiniteSet(1 .. n) /\ Cardinality(1 .. n) = n
    BY <2>1, <2>2
  <2> QED BY <2>3 DEF n
<1>4. IsFiniteSet(LastBeats(s)) /\ Cardinality(LastBeats(s)) <= Len(s)
  BY <1>2, <1>3, FS_Subset
<1> DEFINE f == [i \in LastBeats(s) |-> <<i, s[i].tag>>]
<1>5. f \in Surjection(LastBeats(s), EndPairs(s))
  <2>1. f \in [LastBeats(s) -> EndPairs(s)] /\ \A p \in EndPairs(s) : \E i \in LastBeats(s) : f[i] = p
    BY DEF EndPairs
  <2> HIDE DEF f
  <2> QED BY <2>1, Fun_IsSurj
<1>6. IsFiniteSet(EndPairs(s)) /\ Cardinality(EndPairs(s)) <= Cardinality(LastBeats(s))
  <2> HIDE DEF f
  <2> QED BY <1>4, <1>5, FS_Surjection
<1>7. Cardinality(EndPairs(s)) \in Nat /\ Cardinality(LastBeats(s)) \in Nat
  BY <1>4, <1>6, FS_CardinalityType
<1>8. Cardinality(EndPairs(s)) \in 0 .. Len(s)
  BY <1>1, <1>4, <1>6, <1>7
<1>9. \A p \in EndPairs(s) : p[1] \in 1 .. Len(s) /\ p[2] = s[p[1]].tag /\ s[p[1]].eop /\ p \in Nat \X Nat
  <2> SUFFICES ASSUME NEW i \in LastBeats(s)
               PROVE  /\ <<i, s[i].tag>>[1] \in 1 .. Len(s) /\ <<i, s[i].tag>>[2] = s[<<i, s[i].tag>>[1]].tag
                      /\ s[<<i, s[i].tag>>[1]].eop /\ <<i, s[i].tag>> \in Nat \X Nat
    BY DEF EndPairs
  <2> QED BY <1>1, <1>2 DEF LastBeats, PipBeat
<1> QED BY <1>6, <1>8, <1>9

LEMMA EndedType ==
  ASSUME NEW s \in Seq(PipBeat)
  PROVE  /\ Pip!Ended(s) \in Seq(Nat) /\ Len(Pip!Ended(s)) = Cardinality(EndPairs(s))
         /\ Len(Pip!Ended(s)) <= Len(s)
         /\ \A k \in 1 .. Len(Pip!Ended(s)) : Pip!Ended(s)[k] = EndOrder(s)[k][2]
<1> DEFINE n == Cardinality(EndPairs(s))
<1>1. /\ n \in Nat /\ DOMAIN EndOrder(s) = 1 .. n
      /\ \A k \in 1 .. n : EndOrder(s)[k] \in EndPairs(s)
  BY EndPairsType, InOrderPlace DEF EndOrder
<1>2. \A k \in 1 .. n : EndOrder(s)[k][2] \in Nat
  BY <1>1, EndPairsType
<1>3. Pip!Ended(s) = [k \in 1 .. n |-> EndOrder(s)[k][2]]
  BY <1>1, EndedIs
<1>4. n <= Len(s)
  BY EndPairsType
<1> HIDE DEF n
<1>5. Pip!Ended(s) \in [1 .. n -> Nat]
  BY <1>2, <1>3
<1>6. Pip!Ended(s) \in Seq(Nat) /\ Len(Pip!Ended(s)) = n
  BY <1>1, <1>5
<1> QED BY <1>3, <1>4, <1>6 DEF n

LEMMA EndedEmpty == Pip!Ended(<<>>) = <<>>
<1>1. <<>> \in Seq(PipBeat) /\ Len(<<>>) = 0
  OBVIOUS
<1>2. Pip!Ended(<<>>) \in Seq(Nat) /\ Len(Pip!Ended(<<>>)) <= 0
  BY <1>1, EndedType
<1> QED BY <1>2, EmptySeq

\* Those of beats after others come after those of the others.
LEMMA EndedConcat ==
  ASSUME NEW s \in Seq(PipBeat), NEW t \in Seq(PipBeat)
  PROVE  Pip!Ended(s \o t) = Pip!Ended(s) \o Pip!Ended(t)
<1> DEFINE u == s \o t
           m == Len(s)
           S == EndPairs(s)
           T == EndPairs(t)
           V == {p \in EndPairs(u) : p[1] > m}
           f == [p \in T |-> <<m + p[1], p[2]>>]
<1>1. /\ u \in Seq(PipBeat) /\ m \in Nat /\ Len(t) \in Nat /\ Len(u) = m + Len(t)
      /\ \A i \in 1 .. m : u[i] = s[i]
      /\ \A i \in 1 .. Len(t) : m + i \in 1 .. Len(u) /\ u[m + i] = t[i]
  <2>1. u \in Seq(PipBeat) /\ m \in Nat /\ Len(t) \in Nat /\ Len(u) = m + Len(t)
        /\ \A i \in 1 .. m + Len(t) : u[i] = IF i <= m THEN s[i] ELSE t[i - m]
    BY ConcatProperties
  <2> HIDE DEF u, m
  <2>2. \A i \in 1 .. m : u[i] = s[i]
    BY <2>1
  <2>3. ASSUME NEW i \in 1 .. Len(t) PROVE m + i \in 1 .. Len(u) /\ u[m + i] = t[i]
    <3> DEFINE j == m + i
    <3>1. j \in 1 .. m + Len(t) /\ ~(j <= m) /\ j - m = i
      BY <2>1
    <3> HIDE DEF j
    <3>2. u[j] = t[i]
      BY <2>1, <3>1
    <3> QED BY <2>1, <3>1, <3>2 DEF j
  <2> QED BY <2>1, <2>2, <2>3
<1>2. /\ S \in SUBSET (Nat \X Nat) /\ IsFiniteSet(S) /\ T \in SUBSET (Nat \X Nat) /\ IsFiniteSet(T)
      /\ EndPairs(u) \in SUBSET (Nat \X Nat) /\ IsFiniteSet(EndPairs(u))
      /\ \A p \in S : p[1] \in 1 .. m
      /\ \A p \in T : p[1] \in 1 .. Len(t)
  <2> HIDE DEF u
  <2> QED BY <1>1, EndPairsType
<1>3. /\ DOMAIN u = 1 .. Len(u) /\ DOMAIN s = 1 .. m /\ DOMAIN t = 1 .. Len(t)
  <2> HIDE DEF u
  <2> QED BY <1>1
<1> HIDE DEF u, m
<1>4. S \subseteq EndPairs(u)
  BY <1>1, <1>3 DEF EndPairs, LastBeats
<1>5. \A i \in LastBeats(u) : (i \in LastBeats(s) /\ u[i] = s[i]) \/ (\E j \in LastBeats(t) : i = m + j /\ u[i] = t[j])
  <2> SUFFICES ASSUME NEW i \in LastBeats(u)
               PROVE  (i \in LastBeats(s) /\ u[i] = s[i]) \/ (\E j \in LastBeats(t) : i = m + j /\ u[i] = t[j])
    OBVIOUS
  <2>1. i \in 1 .. m + Len(t) /\ u[i].eop
    BY <1>1, <1>3 DEF LastBeats
  <2>2. CASE i <= m
    BY <1>1, <1>3, <2>1, <2>2 DEF LastBeats
  <2>3. CASE i > m
    <3> DEFINE j == i - m
    <3>1. j \in 1 .. Len(t) /\ i = m + j
      BY <1>1, <2>1, <2>3
    <3> HIDE DEF j
    <3>2. u[i] = t[j] /\ j \in LastBeats(t)
      BY <1>1, <1>3, <2>1, <3>1 DEF LastBeats
    <3> QED BY <3>1, <3>2
  <2> QED BY <1>1, <2>1, <2>2, <2>3
<1>6. \A p \in T : <<m + p[1], p[2]>> \in V
  <2> SUFFICES ASSUME NEW j \in LastBeats(t)
               PROVE  <<m + j, t[j].tag>> \in V
    BY DEF EndPairs
  <2>1. j \in 1 .. Len(t) /\ t[j].eop
    BY <1>3 DEF LastBeats
  <2>2. m + j \in LastBeats(u) /\ u[m + j] = t[j] /\ m + j > m
    BY <1>1, <1>3, <2>1 DEF LastBeats
  <2> QED BY <2>2 DEF EndPairs
<1>7. \A q \in V : \E p \in T : q = <<m + p[1], p[2]>>
  <2> SUFFICES ASSUME NEW i \in LastBeats(u), i > m
               PROVE  \E p \in T : <<i, u[i].tag>> = <<m + p[1], p[2]>>
    BY DEF EndPairs
  <2>1. i \notin LastBeats(s)
    BY <1>1, <1>3 DEF LastBeats
  <2>2. PICK j \in LastBeats(t) : i = m + j /\ u[i] = t[j]
    BY <1>5, <2>1
  <2> DEFINE p == <<j, t[j].tag>>
  <2>3. p \in T /\ p[1] = j /\ p[2] = t[j].tag
    BY DEF EndPairs
  <2>4. <<i, u[i].tag>> = <<m + p[1], p[2]>>
    BY <2>2, <2>3
  <2> HIDE DEF p, T
  <2> QED BY <2>3, <2>4
<1>8. EndPairs(u) = S \cup V
  <2>1. ASSUME NEW i \in LastBeats(u) PROVE <<i, u[i].tag>> \in S \cup V
    <3>1. CASE i \in LastBeats(s) /\ u[i] = s[i]
      BY <3>1 DEF EndPairs
    <3>2. CASE \E j \in LastBeats(t) : i = m + j /\ u[i] = t[j]
      <4>1. i > m
        BY <1>1, <1>3, <3>2 DEF LastBeats
      <4> QED BY <2>1, <4>1 DEF EndPairs
    <3> QED BY <1>5, <2>1, <3>1, <3>2
  <2>2. EndPairs(u) \subseteq S \cup V
    BY <2>1 DEF EndPairs
  <2> QED BY <1>4, <2>2
<1>9. V \in SUBSET (Nat \X Nat) /\ IsFiniteSet(V) /\ \A p \in S, r \in V : Before(p, r)
  <2>1. V \in SUBSET EndPairs(u)
    OBVIOUS
  <2>2. IsFiniteSet(V)
    BY <1>2, <2>1, FS_Subset
  <2>3. \A p \in S, r \in V : Before(p, r)
    BY <1>1, <1>2 DEF Before
  <2> QED BY <1>2, <2>2, <2>3
<1>10. f \in Bijection(T, V) /\ \A p, r \in T : Before(p, r) <=> Before(f[p], f[r])
  <2>1. f \in [T -> V]
    BY <1>6
  <2>2. \A p \in T : p \in Nat \X Nat /\ f[p] = <<m + p[1], p[2]>>
    BY <1>2
  <2>3. ASSUME NEW p \in T, NEW r \in T
        PROVE  (f[p] = f[r] => p = r) /\ (Before(p, r) <=> Before(f[p], f[r]))
    <3> DEFINE a == m + p[1]
               b == m + r[1]
    <3>0. \A q \in Nat \X Nat : q[1] \in Nat /\ q[2] \in Nat /\ q = <<q[1], q[2]>>
      OBVIOUS
    <3>1. p[1] \in Nat /\ r[1] \in Nat /\ p[2] \in Nat /\ r[2] \in Nat /\ p = <<p[1], p[2]>> /\ r = <<r[1], r[2]>>
      BY <2>2, <3>0
    <3>2. (a = b <=> p[1] = r[1]) /\ (a < b <=> p[1] < r[1])
      BY <1>1, <3>1
    <3>3. f[p] = <<a, p[2]>> /\ f[r] = <<b, r[2]>>
      BY <2>2
    <3> HIDE DEF a, b, f
    <3> QED BY <3>1, <3>2, <3>3 DEF Before
  <2>4. \A q \in V : \E p \in T : f[p] = q
    BY <1>7, <2>2
  <2> HIDE DEF f, V, T
  <2> QED BY <2>1, <2>3, <2>4, Fun_IsBij
<1> HIDE DEF f, V
<1>11. /\ EndOrder(u) = InOrder(S) \o InOrder(V) /\ Cardinality(V) = Cardinality(T)
       /\ \A k \in 1 .. Cardinality(T) : InOrder(V)[k] = f[InOrder(T)[k]]
  <2>1. InOrder(S \cup V) = InOrder(S) \o InOrder(V)
    <3> HIDE DEF S
    <3> QED BY <1>2, <1>9, InOrderAppend
  <2>2. /\ Cardinality(V) = Cardinality(T)
        /\ \A k \in 1 .. Cardinality(T) : InOrder(V)[k] = f[InOrder(T)[k]]
    <3> HIDE DEF T
    <3> QED BY <1>2, <1>9, <1>10, InOrderMap
  <2> QED BY <1>8, <2>1, <2>2 DEF EndOrder
<1> DEFINE a == Pip!Ended(s)
           b == Pip!Ended(t)
           c == Pip!Ended(u)
           x == Cardinality(S)
           y == Cardinality(T)
<1>12. /\ a \in Seq(Nat) /\ Len(a) = x /\ b \in Seq(Nat) /\ Len(b) = y /\ c \in Seq(Nat) /\ x \in Nat /\ y \in Nat
       /\ \A k \in 1 .. x : a[k] = InOrder(S)[k][2]
       /\ \A k \in 1 .. y : b[k] = InOrder(T)[k][2]
       /\ \A k \in 1 .. Len(c) : c[k] = EndOrder(u)[k][2]
  BY <1>1, EndedType, EndPairsType DEF EndOrder
<1>13. /\ InOrder(S) \in Seq(Nat \X Nat) /\ Len(InOrder(S)) = x
       /\ InOrder(V) \in Seq(Nat \X Nat) /\ Len(InOrder(V)) = y
       /\ Len(EndOrder(u)) = Len(c)
       /\ \A k \in 1 .. y : InOrder(V)[k][2] = InOrder(T)[k][2]
  <2>1. \A A \in SUBSET (Nat \X Nat) : Seq(A) \subseteq Seq(Nat \X Nat)
    OBVIOUS
  <2>2. InOrder(S) \in Seq(S) /\ Len(InOrder(S)) = x
    <3> HIDE DEF S
    <3> QED BY <1>2, InOrderPlace
  <2>3. InOrder(V) \in Seq(V) /\ Len(InOrder(V)) = y
    BY <1>9, <1>11, InOrderPlace
  <2>4. Len(EndOrder(u)) = Len(c)
    BY <1>1, <1>2, EndedType, InOrderPlace DEF EndOrder
  <2>5. \A k \in 1 .. y : InOrder(T)[k] \in T
    <3> HIDE DEF T
    <3> QED BY <1>2, InOrderPlace
  <2>6. \A p \in T : f[p][2] = p[2]
    BY DEF f
  <2> HIDE DEF S, T
  <2>7. \A k \in 1 .. y : InOrder(V)[k][2] = InOrder(T)[k][2]
    <3> SUFFICES ASSUME NEW k \in 1 .. y PROVE InOrder(V)[k][2] = InOrder(T)[k][2]
      OBVIOUS
    <3>1. InOrder(V)[k] = f[InOrder(T)[k]] /\ InOrder(T)[k] \in T
      BY <1>11, <2>5
    <3> QED BY <2>6, <3>1
  <2>8. InOrder(S) \in Seq(Nat \X Nat) /\ InOrder(V) \in Seq(Nat \X Nat)
    BY <1>2, <1>9, <2>1, <2>2, <2>3
  <2> QED BY <2>2, <2>3, <2>4, <2>7, <2>8
<1> DEFINE d == InOrder(S) \o InOrder(V)
<1>14. /\ Len(d) = x + y
       /\ \A k \in 1 .. x + y : d[k] = IF k <= x THEN InOrder(S)[k] ELSE InOrder(V)[k - x]
  <2> DEFINE P == InOrder(S)
             R == InOrder(V)
  <2>1. P \in Seq(Nat \X Nat) /\ R \in Seq(Nat \X Nat) /\ Len(P) = x /\ Len(R) = y
    BY <1>13
  <2> HIDE DEF P, R, x, y
  <2>2. /\ Len(P \o R) = x + y
        /\ \A k \in 1 .. x + y : (P \o R)[k] = IF k <= x THEN P[k] ELSE R[k - x]
    BY <2>1, ConcatProperties
  <2> QED BY <2>2 DEF P, R
<1>15. Len(c) = x + y /\ \A k \in 1 .. x + y : c[k] = IF k <= x THEN InOrder(S)[k][2] ELSE InOrder(V)[k - x][2]
  <2>1. EndOrder(u) = d
    BY <1>11
  <2> HIDE DEF d, c, x, y, S, T
  <2>2. Len(c) = x + y
    BY <1>13, <1>14, <2>1
  <2> SUFFICES ASSUME NEW k \in 1 .. x + y
               PROVE  c[k] = IF k <= x THEN InOrder(S)[k][2] ELSE InOrder(V)[k - x][2]
    BY <2>2
  <2>3. c[k] = d[k][2]
    BY <1>12, <2>1, <2>2
  <2> QED BY <1>14, <2>3
<1> DEFINE e == a \o b
<1>16. e \in Seq(Nat) /\ Len(e) = x + y /\ \A k \in 1 .. x + y : e[k] = IF k <= x THEN a[k] ELSE b[k - x]
  <2> HIDE DEF a, b, x, y
  <2> QED BY <1>12, ConcatProperties
<1>17. ASSUME NEW k \in 1 .. Len(c) PROVE c[k] = e[k]
  <2> HIDE DEF a, b, c, e, x, y, S, T
  <2>1. CASE k <= x
    <3>1. k \in 1 .. x /\ k \in 1 .. x + y
      BY <1>12, <1>15, <2>1
    <3> QED BY <1>12, <1>15, <1>16, <2>1, <3>1
  <2>2. CASE ~(k <= x)
    <3>1. k - x \in 1 .. y /\ k \in 1 .. x + y
      BY <1>12, <1>15, <2>2
    <3> QED BY <1>12, <1>13, <1>15, <1>16, <2>2, <3>1
  <2> QED BY <2>1, <2>2
<1>18. c = e
  <2> HIDE DEF c, e, x, y
  <2> QED BY <1>12, <1>15, <1>16, <1>17, SeqEqual
<1> QED BY <1>18 DEF u

LEMMA EndedSingle ==
  ASSUME NEW s \in Seq(PipBeat), NEW q, EndPairs(s) = {q}
  PROVE  Pip!Ended(s) = <<q[2]>>
<1> DEFINE e == Pip!Ended(s)
           o == EndOrder(s)
           P == EndPairs(s)
<1>1. Cardinality(P) = 1
  BY FS_Singleton
<1>2. P \in SUBSET (Nat \X Nat) /\ IsFiniteSet(P) /\ e \in Seq(Nat) /\ Len(e) = Cardinality(P)
      /\ \A k \in 1 .. Len(e) : e[k] = o[k][2]
  BY EndPairsType, EndedType
<1>3. \A k \in 1 .. Cardinality(P) : o[k] \in P
  <2> HIDE DEF P
  <2> QED BY <1>2, InOrderPlace DEF EndOrder, P
<1>4. P = {q}
  OBVIOUS
<1> HIDE DEF e, o, P
<1>5. 1 \in 1 .. Cardinality(P) /\ 1 \in 1 .. Len(e) /\ Len(e) = 1
  BY <1>1, <1>2
<1>6. e[1] = q[2]
  BY <1>2, <1>3, <1>4, <1>5
<1>7. e = <<q[2]>>
  BY <1>2, <1>5, <1>6
<1> QED BY <1>7 DEF e

LEMMA EndedOne ==
  ASSUME NEW b \in PipBeat
  PROVE  Pip!Ended(<<b>>) = IF b.eop THEN <<b.tag>> ELSE <<>>
<1> DEFINE s == <<b>>
<1>1. s \in Seq(PipBeat) /\ Len(s) = 1 /\ DOMAIN s = {1} /\ s[1] = b
  OBVIOUS
<1>2. EndPairs(s) = IF b.eop THEN {<<1, b.tag>>} ELSE {}
  BY <1>1 DEF EndPairs, LastBeats
<1> HIDE DEF s
<1>3. CASE b.eop
  <2>1. Pip!Ended(s) = <<b.tag>>
    BY <1>1, <1>2, <1>3, EndedSingle
  <2> QED BY <1>3, <2>1 DEF s
<1>4. CASE ~b.eop
  <2>1. Cardinality(EndPairs(s)) = 0
    BY <1>2, <1>4, FS_EmptySet
  <2>2. Pip!Ended(s) \in Seq(Nat) /\ Len(Pip!Ended(s)) = 0
    BY <1>1, <2>1, EndedType
  <2> QED BY <1>4, <2>2, EmptySeq DEF s
<1> QED BY <1>3, <1>4

\* All beats of a packet end one.
LEMMA EndedBeats ==
  ASSUME NEW p \in Nat, NEW n \in 1 .. MaxBeats
  PROVE  Pip!Beats(p, n) \in Seq(PipBeat) /\ Pip!Ended(Pip!Beats(p, n)) = <<p>>
<1> DEFINE s == Pip!Beats(p, n)
<1>1. n \in Nat /\ n >= 1
  BY LinksAssumption
<1>2. s = [i \in 1 .. n |-> [tag |-> p, len |-> n, sop |-> i = 1, eop |-> i = n]]
  BY DEF Pip!Beats
<1>3. s \in Seq(PipBeat) /\ Len(s) = n /\ DOMAIN s = 1 .. n
  <2> HIDE DEF s
  <2>1. \A i \in 1 .. n : [tag |-> p, len |-> n, sop |-> i = 1, eop |-> i = n] \in PipBeat
    BY <1>1 DEF PipBeat
  <2>2. s \in [1 .. n -> PipBeat]
    BY <1>2, <2>1
  <2> QED BY <1>1, <2>2
<1>4. EndPairs(s) = {<<n, p>>}
  <2> HIDE DEF s
  <2>1. \A i \in 1 .. n : (s[i].eop <=> i = n) /\ s[i].tag = p
    BY <1>2
  <2>2. LastBeats(s) = {n}
    BY <1>1, <1>3, <2>1 DEF LastBeats
  <2> QED BY <1>1, <2>1, <2>2 DEF EndPairs
<1> HIDE DEF s
<1>5. Pip!Ended(s) = <<p>>
  BY <1>3, <1>4, EndedSingle
<1> QED BY <1>3, <1>5 DEF s

-----------------------------------------------------------------------------
(* No packet is found in pieces, and none is lost or passes another. *)

\* What is on its way is whole packets, but for what the slave has of the first
\* one; the queues are within their limit, and the master cuts one packet at a time.
PipPacket == [tag : Nat, len : Nat \ {0}]
PipWay == (pipBus.snk \o pipBus.src) \o pipMst.cur
PipWhole == \E c \in Seq(PipPacket) : InBeats(Len(pipSlv.part), PipWay, c)
PipRoom ==
  /\ Len(pipMst.q) <= Limit /\ Len(pipBus.src) <= Limit /\ Len(pipBus.snk) <= Limit /\ Len(pipSlv.q) <= Limit
  /\ Len(Pip!Ended(pipMst.cur)) <= 1
PipCarried == PipWhole /\ PipRoom /\ ~pipAlarm

\* The channel: received, to be put, on the wires, to be sent, and the blocked call.
Parts(a, b, w, q, h) == (((a \o b) \o w) \o q) \o h

LEMMA PartsType ==
  ASSUME NEW a \in Seq(Int), NEW b \in Seq(Int), NEW w \in Seq(Int), NEW q \in Seq(Int), NEW h \in Seq(Int)
  PROVE  /\ a \o b \in Seq(Int) /\ (a \o b) \o w \in Seq(Int) /\ ((a \o b) \o w) \o q \in Seq(Int)
         /\ Parts(a, b, w, q, h) \in Seq(Int)
         /\ Len(((a \o b) \o w) \o q) = Len(a) + Len(b) + Len(w) + Len(q)
<1>1. a \o b \in Seq(Int) /\ Len(a \o b) = Len(a) + Len(b)
  BY ConcatProperties
<1> DEFINE x == a \o b
<1>2. x \o w \in Seq(Int) /\ Len(x \o w) = Len(x) + Len(w)
  <2> HIDE DEF x
  <2> QED BY <1>1, ConcatProperties DEF x
<1> DEFINE y == x \o w
<1>3. y \o q \in Seq(Int) /\ Len(y \o q) = Len(y) + Len(q)
  <2> HIDE DEF y
  <2>1. y \in Seq(Int)
    BY <1>2 DEF y
  <2> QED BY <2>1, ConcatProperties
<1> DEFINE z == y \o q
<1>4. z \o h \in Seq(Int)
  <2> HIDE DEF z
  <2>1. z \in Seq(Int)
    BY <1>3 DEF z
  <2> QED BY <2>1, ConcatProperties
<1> QED BY <1>1, <1>2, <1>3, <1>4 DEF Parts

\* An item that moves from one part to the next leaves the channel as it is.
LEMMA PartsMove ==
  ASSUME NEW a \in Seq(Int), NEW b \in Seq(Int), NEW w \in Seq(Int), NEW q \in Seq(Int), NEW h \in Seq(Int),
         NEW e \in Int
  PROVE  /\ <<e>> \in Seq(Int)
         /\ Parts(a, b, w, q, <<e>>) = Parts(a, b, w, q \o <<e>>, <<>>)
         /\ Parts(a, b, w, <<e>> \o q, h) = Parts(a, b, w \o <<e>>, q, h)
         /\ Parts(a, <<>>, <<e>> \o w, q, h) = Parts(a, <<e>>, w, q, h)
         /\ Parts(a, <<e>>, w, q, h) = Parts(a \o <<e>>, <<>>, w, q, h)
<1> DEFINE x == a \o b
           y == x \o w
           one == <<e>>
<1>1. /\ x \in Seq(Int) /\ y \in Seq(Int) /\ one \in Seq(Int) /\ a \o one \in Seq(Int)
      /\ q \o one \in Seq(Int) /\ w \o one \in Seq(Int) /\ one \o w \in Seq(Int)
  <2> HIDE DEF one
  <2>1. one \in Seq(Int)
    BY DEF one
  <2> QED BY <2>1, PartsType, ConcatProperties
<1>2. Parts(a, b, w, q, one) = Parts(a, b, w, q \o one, <<>>)
  <2> DEFINE z == y \o (q \o one)
  <2> HIDE DEF y, one
  <2>1. (y \o q) \o one = z /\ z \in Seq(Int)
    BY <1>1, SMTT(40), IntAssoc, ConcatProperties
  <2>2. z \o <<>> = z
    <3> HIDE DEF z
    <3> QED BY <2>1, ConcatEmptySeq
  <2> QED BY <2>1, <2>2 DEF Parts, y
<1>3. Parts(a, b, w, one \o q, h) = Parts(a, b, w \o one, q, h)
  <2> HIDE DEF x, one
  <2>1. (x \o w) \o (one \o q) = ((x \o w) \o one) \o q
    <3> DEFINE u == x \o w
    <3>1. u \in Seq(Int)
      BY <1>1, ConcatProperties
    <3> HIDE DEF u
    <3>2. (u \o one) \o q = u \o (one \o q)
      BY <1>1, <3>1, SMTT(40), IntAssoc
    <3> QED BY <3>2 DEF u
  <2>2. (x \o w) \o one = x \o (w \o one)
    BY <1>1, SMTT(40), IntAssoc
  <2> QED BY <2>1, <2>2 DEF Parts, x
<1>4. Parts(a, <<>>, one \o w, q, h) = Parts(a, one, w, q, h)
  <2> HIDE DEF one
  <2>1. a \o <<>> = a
    BY ConcatEmptySeq
  <2>2. (a \o one) \o w = a \o (one \o w)
    BY <1>1, SMTT(40), IntAssoc
  <2> QED BY <2>1, <2>2 DEF Parts
<1>5. Parts(a, one, w, q, h) = Parts(a \o one, <<>>, w, q, h)
  <2> HIDE DEF one
  <2> DEFINE u == a \o one
  <2>1. u \in Seq(Int)
    BY <1>1
  <2> HIDE DEF u
  <2>2. u \o <<>> = u
    BY <2>1, ConcatEmptySeq
  <2> QED BY <2>2 DEF Parts, u
<1> QED BY <1>1, <1>2, <1>3, <1>4, <1>5

\* A reset leaves the blocked call.
LEMMA FrontLost ==
  ASSUME NEW z \in Seq(Int), NEW h \in Seq(Int)
  PROVE  /\ Len(z) \in 0 .. Len(z \o h) /\ 0 \in 0 .. Len(z \o h) /\ 0 + Len(z) <= Len(z \o h)
         /\ Packets!Without(z \o h, 0, Len(z)) = h
<1> DEFINE c == z \o h
           n == Len(z)
           t == SubSeq(c, n + 1, Len(c))
<1>1. /\ c \in Seq(Int) /\ Len(c) = n + Len(h) /\ n \in Nat /\ Len(h) \in Nat
      /\ \A i \in 1 .. n + Len(h) : c[i] = IF i <= n THEN z[i] ELSE h[i - n]
  BY ConcatProperties
<1>2. \A i \in n + 1 .. Len(c) : c[i] \in Int
  BY <1>1
<1> HIDE DEF c, n
<1>3. t \in Seq(Int) /\ Len(t) = Len(h) /\ \A i \in 1 .. Len(h) : t[i] = c[n + i]
  <2>1. /\ t \in Seq(Int) /\ Len(t) = IF n + 1 <= Len(c) THEN Len(c) - (n + 1) + 1 ELSE 0
        /\ \A i \in 1 .. Len(c) - (n + 1) + 1 : t[i] = c[n + 1 + i - 1]
    BY <1>1, <1>2, SubSeqProperties
  <2>2. Len(c) - (n + 1) + 1 = Len(h) /\ (n + 1 <= Len(c) <=> Len(h) # 0)
    BY <1>1
  <2>3. \A i \in 1 .. Len(h) : n + 1 + i - 1 = n + i
    BY <1>1
  <2> HIDE DEF t
  <2> QED BY <2>1, <2>2, <2>3
<1>4. \A i \in 1 .. Len(t) : t[i] = h[i]
  <2> SUFFICES ASSUME NEW i \in 1 .. Len(h) PROVE t[i] = h[i]
    BY <1>3
  <2> DEFINE j == n + i
  <2>1. j \in 1 .. n + Len(h) /\ ~(j <= n) /\ j - n = i
    BY <1>1
  <2>2. t[i] = c[j]
    BY <1>3
  <2> HIDE DEF j, t
  <2> QED BY <1>1, <2>1, <2>2
<1> HIDE DEF t
<1>5. t = h
  BY <1>3, <1>4, SeqEqual
<1>6. SubSeq(c, 1, 0) = <<>> /\ <<>> \o h = h /\ 0 + n + 1 = n + 1
  BY <1>1, SubSeqEmpty, ConcatEmptySeq
<1>7. Packets!Without(c, 0, n) = SubSeq(c, 1, 0) \o SubSeq(c, 0 + n + 1, Len(c))
  BY DEF Packets!Without
<1>8. Packets!Without(c, 0, n) = h
  BY <1>5, <1>6, <1>7 DEF t
<1>9. n \in 0 .. Len(c) /\ 0 \in 0 .. Len(c) /\ 0 + n <= Len(c)
  BY <1>1
<1> QED BY <1>8, <1>9 DEF c, n


\* A beat that moves on leaves what is on its way as it is.
LEMMA WayMoves ==
  ASSUME NEW x \in Seq(PipBeat), NEW y \in Seq(PipBeat), NEW z \in Seq(PipBeat)
  PROVE  /\ z # <<>> => (x \o Append(y, Head(z))) \o Tail(z) = (x \o y) \o z
         /\ y # <<>> => (Append(x, Head(y)) \o Tail(y)) \o z = (x \o y) \o z
         /\ x # <<>> => (x \o y) \o z = <<Head(x)>> \o ((Tail(x) \o y) \o z)
<1>1. ASSUME z # <<>> PROVE (x \o Append(y, Head(z))) \o Tail(z) = (x \o y) \o z
  <2> DEFINE e == <<Head(z)>>
             t == Tail(z)
  <2>0. e \o t = z /\ Append(y, Head(z)) = y \o e
    BY <1>1, FirstOf, AppendIsConcat
  <2>1. e \in Seq(PipBeat) /\ t \in Seq(PipBeat)
    BY <1>1, FirstOf, AppendIsConcat
  <2> HIDE DEF e, t
  <2>2. (x \o y) \o e = x \o (y \o e) /\ x \o y \in Seq(PipBeat)
    BY <2>1, SeqAssoc, SMTT(40)
  <2> DEFINE w == x \o y
  <2>3. w \in Seq(PipBeat)
    BY <2>2
  <2> HIDE DEF w
  <2>4. (w \o e) \o t = w \o (e \o t)
    BY <2>1, <2>3, SeqAssoc, SMTT(40)
  <2> QED BY <2>0, <2>1, <2>2, <2>4 DEF t, w
<1>2. ASSUME y # <<>> PROVE (Append(x, Head(y)) \o Tail(y)) \o z = (x \o y) \o z
  <2> DEFINE e == <<Head(y)>>
             t == Tail(y)
  <2>0. e \o t = y /\ Append(x, Head(y)) = x \o e
    BY <1>2, FirstOf, AppendIsConcat
  <2>1. e \in Seq(PipBeat) /\ t \in Seq(PipBeat)
    BY <1>2, FirstOf, AppendIsConcat
  <2> HIDE DEF e, t
  <2>2. (x \o e) \o t = x \o (e \o t)
    BY <2>1, SeqAssoc, SMTT(40)
  <2> QED BY <2>0, <2>1, <2>2 DEF t
<1>3. ASSUME x # <<>> PROVE (x \o y) \o z = <<Head(x)>> \o ((Tail(x) \o y) \o z)
  <2> DEFINE e == <<Head(x)>>
             t == Tail(x)
  <2>0. e \o t = x
    BY <1>3, FirstOf
  <2>1. e \in Seq(PipBeat) /\ t \in Seq(PipBeat)
    BY <1>3, FirstOf
  <2> HIDE DEF e, t
  <2>2. (e \o t) \o y = e \o (t \o y) /\ t \o y \in Seq(PipBeat)
    BY <2>1, SeqAssoc, SMTT(40)
  <2> DEFINE w == t \o y
  <2>3. w \in Seq(PipBeat)
    BY <2>2
  <2> HIDE DEF w
  <2>4. (e \o w) \o z = e \o (w \o z)
    BY <2>1, <2>3, SeqAssoc, SMTT(40)
  <2> QED BY <2>0, <2>1, <2>2, <2>4 DEF e, t, w
<1> QED BY <1>1, <1>2, <1>3

\* What a step does to the channel, to what was received last and to the reset.
PacketStep(c, d, o, p, r, s) ==
  \/ d = c /\ p = o /\ s = r
  \/ p = o /\ s = r /\ \E e \in Nat : d = Append(c, e)
  \/ s = r /\ c # <<>> /\ p = Head(c) /\ d = Tail(c)
  \/ /\ ~r /\ s = TRUE /\ p = o
     /\ \E i \in 0 .. Len(c), n \in 0 .. 4 * Limit + 2 : i + n <= Len(c) /\ d = Packets!Without(c, i, n)
  \/ r /\ s = FALSE /\ d = c /\ p = o

PipMoves == PacketStep(Pip!Chan, Pip!Chan', pipOut, pipOut', pipRst, pipRst')

LEMMA PipHolds ==
  ASSUME NEW p \in PipPkt
  PROVE  /\ Pip!Held(p) \in Seq(Int) /\ Len(Pip!Held(p)) \in 0 .. 1
         /\ p = Pip!None => Pip!Held(p) = <<>>
         /\ p # Pip!None => p \in Nat /\ Pip!Held(p) = <<p>>
<1>1. CASE p = Pip!None
  <2>1. Pip!Held(p) = <<>>
    BY <1>1 DEF Pip!Held
  <2> QED BY <1>1, <2>1
<1>2. CASE p # Pip!None
  <2>1. Pip!Held(p) = <<p>> /\ p \in Nat
    BY <1>2, PipCounts DEF Pip!Held
  <2> QED BY <1>2, <2>1
<1> QED BY <1>1, <1>2

LEMMA PipShape ==
  ASSUME PipInv
  PROVE  /\ pipMst \in PipMstType /\ pipSlv \in PipSlvType /\ pipBus \in [src : Seq(PipBeat), snk : Seq(PipBeat)]
         /\ pipMst.q \in Seq(Nat) /\ pipMst.q \in Seq(Int) /\ pipMst.cur \in Seq(PipBeat) /\ pipMst.put \in PipPkt
         /\ pipSlv.q \in Seq(Nat) /\ pipSlv.q \in Seq(Int) /\ pipSlv.part \in Seq(PipBeat) /\ pipSlv.put \in PipPkt
         /\ pipBus.src \in Seq(PipBeat) /\ pipBus.snk \in Seq(PipBeat)
         /\ pipBus.snk \o pipBus.src \in Seq(PipBeat) /\ PipWay \in Seq(PipBeat)
         /\ Pip!Ended(PipWay) \in Seq(Int)
         /\ Pip!Held(pipMst.put) \in Seq(Int) /\ Pip!Held(pipSlv.put) \in Seq(Int)
         /\ Pip!Chan \in Seq(Int)
<1>1. pipMst \in PipMstType /\ pipSlv \in PipSlvType /\ pipBus \in [src : Seq(PipBeat), snk : Seq(PipBeat)]
  BY DEF PipInv, PipMstInv, PipSlvInv, PipBusInv
<1>2. /\ pipMst.q \in Seq(Nat) /\ pipMst.q \in Seq(Int) /\ pipMst.cur \in Seq(PipBeat) /\ pipMst.put \in PipPkt
      /\ pipSlv.q \in Seq(Nat) /\ pipSlv.q \in Seq(Int) /\ pipSlv.part \in Seq(PipBeat) /\ pipSlv.put \in PipPkt
      /\ pipBus.src \in Seq(PipBeat) /\ pipBus.snk \in Seq(PipBeat)
  BY <1>1 DEF PipMstType, PipSlvType
<1> DEFINE wires == pipBus.snk \o pipBus.src
<1>3. wires \in Seq(PipBeat)
  BY <1>2, ConcatProperties
<1> HIDE DEF wires
<1>4. wires \o pipMst.cur \in Seq(PipBeat)
  BY <1>2, <1>3, ConcatProperties
<1>5. PipWay \in Seq(PipBeat)
  BY <1>4 DEF PipWay, wires
<1>6. Pip!Ended(PipWay) \in Seq(Int)
  <2>1. Pip!Ended(PipWay) \in Seq(Nat)
    BY <1>5, EndedType
  <2> HIDE DEF PipWay
  <2> QED BY <2>1
<1>7. Pip!Held(pipMst.put) \in Seq(Int) /\ Pip!Held(pipSlv.put) \in Seq(Int)
  BY <1>2, PipHolds
<1>8. Pip!Chan = Parts(pipSlv.q, Pip!Held(pipSlv.put), Pip!Ended(PipWay), pipMst.q, Pip!Held(pipMst.put))
  BY DEF Pip!Chan, Pip!OnWires, Parts, PipWay
<1>9. Pip!Chan \in Seq(Int)
  BY <1>2, <1>6, <1>7, <1>8, PartsType
<1> QED BY <1>1, <1>2, <1>3, <1>5, <1>6, <1>7, <1>9 DEF wires

LEMMA PipChan ==
  /\ Pip!Chan = Parts(pipSlv.q, Pip!Held(pipSlv.put), Pip!Ended(PipWay), pipMst.q, Pip!Held(pipMst.put))
  /\ Pip!Chan' = Parts(pipSlv'.q, Pip!Held(pipSlv'.put), Pip!Ended(PipWay'), pipMst'.q, Pip!Held(pipMst'.put))
  BY DEF Pip!Chan, Pip!OnWires, Pip!Held, Parts, PipWay, Pip!Ended

\* The user takes the first packet of the channel.
LEMMA PipTaken ==
  ASSUME PipInv, pipSlv.q # <<>>
  PROVE  /\ Pip!Chan # <<>> /\ Head(Pip!Chan) = Head(pipSlv.q)
         /\ Tail(Pip!Chan) = Parts(Tail(pipSlv.q), Pip!Held(pipSlv.put), Pip!Ended(PipWay), pipMst.q, Pip!Held(pipMst.put))
<1> DEFINE a == pipSlv.q
           b == Pip!Held(pipSlv.put)
           w == Pip!Ended(PipWay)
           q == pipMst.q
           h == Pip!Held(pipMst.put)
           x == a \o b
           y == x \o w
           z == y \o q
<1>0. a \in Seq(Int) /\ b \in Seq(Int) /\ w \in Seq(Int) /\ q \in Seq(Int) /\ h \in Seq(Int) /\ a # <<>>
  BY PipShape
<1>7. Pip!Chan = Parts(a, b, w, q, h)
  BY PipChan
<1> HIDE DEF a, b, w, q, h
<1>1. x \in Seq(Int) /\ x # <<>> /\ Head(x) = Head(a) /\ Tail(x) = Tail(a) \o b
  BY <1>0, TakeFirst, SMTT(40)
<1>2. y \in Seq(Int) /\ y # <<>> /\ Head(y) = Head(x) /\ Tail(y) = Tail(x) \o w
  <2> HIDE DEF x
  <2> QED BY <1>0, <1>1, TakeFirst, SMTT(40)
<1>3. z \in Seq(Int) /\ z # <<>> /\ Head(z) = Head(y) /\ Tail(z) = Tail(y) \o q
  <2> HIDE DEF y
  <2> QED BY <1>0, <1>2, TakeFirst, SMTT(40)
<1>4. z \o h # <<>> /\ Head(z \o h) = Head(z) /\ Tail(z \o h) = Tail(z) \o h
  <2> HIDE DEF z
  <2> QED BY <1>0, <1>3, TakeFirst, SMTT(40)
<1> HIDE DEF x, y, z
<1>5. Tail(z) = ((Tail(a) \o b) \o w) \o q
  BY <1>1, <1>2, <1>3
<1>6. Parts(a, b, w, q, h) = z \o h
  BY DEF Parts, x, y, z
<1> QED BY <1>1, <1>2, <1>3, <1>4, <1>5, <1>6, <1>7 DEF Parts, a, b, w, q, h


\* The user's calls.
LEMMA PipUserCarries ==
  ASSUME PipInv, PipCarried, Pip!User
  PROVE  PipCarried' /\ PipMoves
<1> DEFINE x == pipSlv.q
           b == Pip!Held(pipSlv.put)
           w == Pip!Ended(PipWay)
           q == pipMst.q
           h == Pip!Held(pipMst.put)
           none == Pip!None
<1>1. /\ pipMst \in PipMstType /\ pipSlv \in PipSlvType /\ pipMst.put \in PipPkt
      /\ x \in Seq(Int) /\ b \in Seq(Int) /\ w \in Seq(Int) /\ q \in Seq(Int) /\ h \in Seq(Int)
      /\ q \in Seq(Nat) /\ x \in Seq(Nat) /\ none \in PipPkt
  BY PipShape, PipCounts
<1>2. /\ Pip!Chan = Parts(x, b, w, q, h)
      /\ Pip!Chan' = Parts(pipSlv'.q, Pip!Held(pipSlv'.put), Pip!Ended(PipWay'), pipMst'.q, Pip!Held(pipMst'.put))
  BY PipChan
<1>3. UNCHANGED <<pipBus, pipRst, pipAlarm>> /\ ~pipAlarm
  BY DEF Pip!User, Pip!Send, Pip!SendPut, Pip!Recv, PipCarried
<1>4. ASSUME pipMst'.cur = pipMst.cur, pipSlv'.part = pipSlv.part, Len(pipMst'.q) <= Limit, Len(pipSlv'.q) <= Limit
      PROVE  PipCarried' /\ PipWay' = PipWay
  <2>1. PipWay' = PipWay
    BY <1>3, <1>4 DEF PipWay
  <2>2. PipWhole'
    BY <1>4, <2>1 DEF PipWhole, PipCarried
  <2>3. Pip!Ended(pipMst'.cur) = Pip!Ended(pipMst.cur) /\ Pip!Ended(pipMst.cur)' = Pip!Ended(pipMst'.cur)
    BY <1>4 DEF Pip!Ended
  <2>4. PipRoom'
    BY <1>3, <1>4, <2>3 DEF PipCarried, PipRoom
  <2> QED BY <1>3, <2>1, <2>2, <2>4 DEF PipCarried
<1>5. Len(q) <= Limit /\ Len(x) <= Limit
  BY DEF PipCarried, PipRoom
<1>6. CASE Pip!Send
  <2> DEFINE next == (pipMst.next + 1) % Cardinality(Pip!Names)
             put == pipMst.next
  <2>1. put \in Nat /\ Pip!Held(put) = <<put>>
    <3>1. put \in Nat
      BY <1>1 DEF PipMstType
    <3> QED BY <3>1, PipCounts, PipHolds
  <2>2. /\ pipMst.put = none /\ UNCHANGED <<pipSlv, pipOut>>
        /\ pipMst' = [pipMst EXCEPT !.flight = pipMst.flight + 1, !.put = put, !.next = next]
    BY <1>6 DEF Pip!Send, Pip!Cardinality, Cardinality
  <2> HIDE DEF next, put
  <2>3. pipMst'.q = q /\ pipMst'.cur = pipMst.cur /\ pipMst'.put = put
    BY <1>1, <2>2 DEF PipMstType
  <2>4. PipCarried' /\ PipWay' = PipWay
    BY <1>4, <1>5, <2>2, <2>3
  <2>5. h = <<>>
    BY <1>1, <2>2, PipHolds
  <2> HIDE DEF x, b, w, q, h, none
  <2>6. Pip!Chan' = Parts(x, b, w, q, <<put>>)
    BY <1>2, <2>1, <2>2, <2>3, <2>4 DEF x, b, w
  <2>7. Parts(x, b, w, q, <<put>>) = Append(Parts(x, b, w, q, <<>>), put)
    <3> DEFINE z == ((x \o b) \o w) \o q
    <3>1. z \in Seq(Int) /\ put \in Int
      BY <1>1, <2>1, PartsType
    <3>2. Parts(x, b, w, q, <<put>>) = z \o <<put>> /\ Parts(x, b, w, q, <<>>) = z \o <<>>
      BY DEF Parts
    <3> HIDE DEF z
    <3>3. z \o <<put>> = Append(z, put) /\ z \o <<>> = z
      BY <3>1, PutLast
    <3> QED BY <3>2, <3>3
  <2>8. Pip!Chan' = Append(Pip!Chan, put)
    BY <1>2, <2>5, <2>6, <2>7
  <2> QED BY <1>3, <2>1, <2>2, <2>4, <2>8 DEF PacketStep, PipMoves
<1>7. CASE Pip!SendPut
  <2> DEFINE put == pipMst.put
             new == Append(q, put)
  <2>1. put \in Nat /\ h = <<put>> /\ put # none /\ Len(q) < Limit
    BY <1>1, <1>7, PipHolds DEF Pip!SendPut
  <2>2. new = q \o <<put>> /\ Len(new) = Len(q) + 1 /\ Len(q) \in Nat
    BY <1>1, <2>1, AppendIsConcat, AppendProperties
  <2>3. pipMst' = [pipMst EXCEPT !.q = new, !.put = none] /\ UNCHANGED <<pipOut, pipSlv>>
    BY <1>7 DEF Pip!SendPut
  <2> HIDE DEF new
  <2>4. pipMst'.q = new /\ pipMst'.cur = pipMst.cur /\ pipMst'.put = none
    BY <1>1, <2>3 DEF PipMstType
  <2>5. PipCarried' /\ PipWay' = PipWay
    BY <1>4, <1>5, <2>1, <2>2, <2>3, <2>4, LinksAssumption
  <2>6. Pip!Held(none) = <<>>
    BY <1>1, PipHolds
  <2> HIDE DEF x, b, w, q, h, none
  <2>7. Pip!Chan' = Parts(x, b, w, q \o <<put>>, <<>>)
    BY <1>2, <2>2, <2>3, <2>4, <2>5, <2>6 DEF x, b, w
  <2>8. Parts(x, b, w, q, <<put>>) = Parts(x, b, w, q \o <<put>>, <<>>)
    BY <1>1, <2>1, PartsMove
  <2>9. Pip!Chan' = Pip!Chan
    BY <1>2, <2>1, <2>7, <2>8
  <2> QED BY <1>3, <2>3, <2>5, <2>9 DEF PacketStep, PipMoves
<1>8. CASE Pip!Recv
  <2>1. x # <<>> /\ pipOut' = Head(x) /\ UNCHANGED pipMst
        /\ pipSlv' = [pipSlv EXCEPT !.q = Tail(x), !.flight = pipSlv.flight - 1]
    BY <1>8 DEF Pip!Recv
  <2>2. pipSlv'.q = Tail(x) /\ pipSlv'.part = pipSlv.part /\ pipSlv'.put = pipSlv.put
    BY <1>1, <2>1 DEF PipSlvType
  <2>3. Len(Tail(x)) = Len(x) - 1 /\ Len(x) \in Nat
    BY <1>1, <2>1, HeadTailProperties
  <2>4. PipCarried' /\ PipWay' = PipWay
    BY <1>4, <1>5, <2>1, <2>2, <2>3, LinksAssumption
  <2> HIDE DEF x, b, w, q, h, none
  <2>5. Pip!Chan' = Parts(Tail(x), b, w, q, h)
    BY <1>2, <2>1, <2>2, <2>4 DEF b, w, q, h
  <2>6. Pip!Chan # <<>> /\ Head(Pip!Chan) = Head(x) /\ Tail(Pip!Chan) = Parts(Tail(x), b, w, q, h)
    BY <2>1, PipTaken DEF x, b, w, q, h
  <2> QED BY <1>3, <2>1, <2>4, <2>5, <2>6 DEF PacketStep, PipMoves
<1> QED BY <1>6, <1>7, <1>8 DEF Pip!User

\* The master cuts the next packet,
LEMMA PipGetCarries ==
  ASSUME PipInv, PipCarried, Pip!MasterGet
  PROVE  PipCarried' /\ PipMoves
<1> DEFINE x == pipSlv.q
           b == Pip!Held(pipSlv.put)
           wires == pipBus.snk \o pipBus.src
           w == Pip!Ended(wires)
           q == pipMst.q
           h == Pip!Held(pipMst.put)
           p == Head(q)
<1>1. /\ pipMst \in PipMstType /\ pipSlv.part \in Seq(PipBeat) /\ wires \in Seq(PipBeat)
      /\ x \in Seq(Int) /\ b \in Seq(Int) /\ q \in Seq(Int) /\ h \in Seq(Int) /\ q \in Seq(Nat)
  BY PipShape
<1>2. PICK n \in 1 .. MaxBeats : pipMst' = [pipMst EXCEPT !.cur = Pip!Beats(Head(pipMst.q), n), !.q = Tail(@)]
  BY DEF Pip!MasterGet
<1>3. pipMst.cur = <<>> /\ q # <<>> /\ UNCHANGED <<pipBus, pipSlv, pipRst, pipOut, pipAlarm>>
  BY DEF Pip!MasterGet
<1> DEFINE beats == Pip!Beats(p, n)
<1>4. /\ p \in Nat /\ Tail(q) \in Seq(Nat) /\ Len(Tail(q)) = Len(q) - 1 /\ Len(q) \in Nat
      /\ Tail(q) \in Seq(Int) /\ <<p>> \o Tail(q) = q
  BY <1>1, <1>3, HeadTailProperties, FirstOf
<1>5. beats \in Seq(PipBeat) /\ Pip!Ended(beats) = <<p>>
  BY <1>4, EndedBeats
<1>6. n \in Nat /\ n >= 1 /\ Len(beats) = n /\ \A i \in 1 .. n : beats[i] = [tag |-> p, len |-> n, sop |-> i = 1, eop |-> i = n]
  <2>1. n \in Nat /\ n >= 1
    BY LinksAssumption
  <2>2. beats = [i \in 1 .. n |-> [tag |-> p, len |-> n, sop |-> i = 1, eop |-> i = n]]
    BY DEF Pip!Beats
  <2> HIDE DEF beats, p
  <2> QED BY <1>5, <2>1, <2>2
<1> HIDE DEF beats
<1>7. pipMst'.q = Tail(q) /\ pipMst'.cur = beats /\ pipMst'.put = pipMst.put
  <2>1. pipMst' = [pipMst EXCEPT !.cur = beats, !.q = Tail(q)]
    BY <1>2 DEF beats
  <2> QED BY <1>1, <2>1 DEF PipMstType
<1>8. PipWay' = wires \o beats /\ PipWay = wires
  <2>1. wires \o <<>> = wires
    <3> HIDE DEF wires
    <3> QED BY <1>1, ConcatEmptySeq
  <2> QED BY <1>3, <1>7, <2>1 DEF PipWay
<1> HIDE DEF wires
<1>9. PipWhole'
  <2>1. PICK c \in Seq(PipPacket) : InBeats(Len(pipSlv.part), PipWay, c)
    BY DEF PipCarried, PipWhole
  <2> DEFINE new == [tag |-> p, len |-> n]
             l == Len(pipSlv.part)
  <2>2. /\ \A r \in PipPacket : r.len \in Nat \ {0}
        /\ l \in Nat /\ InBeats(l, wires, c) /\ new \in PipPacket /\ new.len = n /\ new.tag = p
    BY <1>1, <1>4, <1>6, <1>8, <2>1 DEF PipPacket
  <2> HIDE DEF new, l, p
  <2>3. \A i \in 1 .. new.len : BeatOf(beats[i], i, new)
    <3> SUFFICES ASSUME NEW i \in 1 .. n PROVE BeatOf(beats[i], i, new)
      BY <2>2
    <3> DEFINE beat == beats[i]
    <3>1. beat = [tag |-> p, len |-> n, sop |-> i = 1, eop |-> i = n]
      BY <1>6
    <3> HIDE DEF beat
    <3>2. BeatOf(beat, i, new)
      BY <2>2, <3>1 DEF BeatOf
    <3> QED BY <3>2 DEF beat
  <2>4. Len(beats) = new.len
    BY <1>6, <2>2
  <2>5. InBeats(l, wires \o beats, Append(c, new))
    BY <1>1, <1>5, <2>1, <2>2, <2>3, <2>4, BeatsMore
  <2>6. Append(c, new) \in Seq(PipPacket)
    BY <2>1, <2>2, AppendProperties
  <2>7. InBeats(Len(pipSlv'.part), PipWay', Append(c, new))
    BY <1>3, <1>8, <2>5 DEF l
  <2> QED BY <2>6, <2>7 DEF PipWhole
<1>10. PipCarried'
  <2>1. Pip!Ended(pipMst.cur)' = Pip!Ended(pipMst'.cur)
    BY DEF Pip!Ended
  <2>2. Len(Pip!Ended(pipMst'.cur)) <= 1
    <3>1. Len(<<p>>) = 1 /\ Pip!Ended(pipMst'.cur) = <<p>>
      BY <1>5, <1>7
    <3> QED BY <3>1
  <2>3. Len(pipMst'.q) <= Limit
    BY <1>4, <1>7, LinksAssumption DEF PipCarried, PipRoom
  <2>4. PipRoom'
    BY <1>3, <2>1, <2>2, <2>3 DEF PipCarried, PipRoom
  <2> QED BY <1>3, <1>9, <2>4 DEF PipCarried
<1>11. w \in Seq(Int)
  <2>1. w \in Seq(Nat)
    BY <1>1, EndedType
  <2> QED BY <2>1
<1>12. Pip!Chan = Parts(x, b, w, <<p>> \o Tail(q), h)
  BY <1>4, <1>8, PipChan
<1>13. Pip!Chan' = Parts(x, b, w \o <<p>>, Tail(q), h)
  <2>1. Pip!Ended(PipWay') = w \o <<p>>
    BY <1>1, <1>5, <1>8, EndedConcat
  <2> QED BY <1>3, <1>7, <2>1, PipChan
<1> HIDE DEF x, b, w, h
<1> DEFINE t == Tail(q)
<1>14. Pip!Chan' = Pip!Chan
  <2>1. t \in Seq(Int) /\ p \in Int
    BY <1>4
  <2>2. Pip!Chan = Parts(x, b, w, <<p>> \o t, h) /\ Pip!Chan' = Parts(x, b, w \o <<p>>, t, h)
    BY <1>12, <1>13
  <2> HIDE DEF t, p, q
  <2>3. x \in Seq(Int) /\ b \in Seq(Int) /\ w \in Seq(Int) /\ t \in Seq(Int) /\ h \in Seq(Int) /\ p \in Int
    BY <1>1, <1>11, <2>1
  <2>4. Parts(x, b, w, <<p>> \o t, h) = Parts(x, b, w \o <<p>>, t, h)
    BY <2>3, PartsMove, SMTT(60)
  <2> QED BY <2>2, <2>4
<1> QED BY <1>3, <1>10, <1>14 DEF PacketStep, PipMoves


\* the next beat moves one queue on,
LEMMA PipWireCarries ==
  ASSUME PipInv, PipCarried, Pip!MasterBeat \/ Pip!Wires
  PROVE  PipCarried' /\ PipMoves
<1> DEFINE snk == pipBus.snk
           src == pipBus.src
           cur == pipMst.cur
<1>1. /\ pipMst \in PipMstType /\ pipBus \in [src : Seq(PipBeat), snk : Seq(PipBeat)]
      /\ snk \in Seq(PipBeat) /\ src \in Seq(PipBeat) /\ cur \in Seq(PipBeat)
  BY PipShape
<1>2. UNCHANGED <<pipSlv, pipRst, pipOut, pipAlarm>> /\ ~pipAlarm
  BY DEF Pip!MasterBeat, Pip!Wires, PipCarried
<1>3. /\ PipWay' = PipWay
      /\ pipMst'.q = pipMst.q /\ pipMst'.put = pipMst.put
      /\ Len(pipBus'.src) <= Limit /\ Len(pipBus'.snk) <= Limit
      /\ Len(Pip!Ended(pipMst'.cur)) <= 1
  <2>1. Len(src) <= Limit /\ Len(snk) <= Limit /\ Len(Pip!Ended(cur)) <= 1 /\ Len(src) \in Nat /\ Len(snk) \in Nat
    BY <1>1 DEF PipCarried, PipRoom
  <2>2. CASE Pip!MasterBeat
    <3> DEFINE k == IF Len(cur) = 1 THEN 1 ELSE 0
               t == Tail(cur)
               s == Append(src, Head(cur))
               flight == pipMst.flight - k
    <3>1. cur # <<>> /\ Len(src) < Limit
          /\ pipMst' = [pipMst EXCEPT !.cur = t, !.flight = flight] /\ pipBus' = [pipBus EXCEPT !.src = s]
      BY <2>2 DEF Pip!MasterBeat
    <3>2. /\ Head(cur) \in PipBeat /\ t \in Seq(PipBeat) /\ <<Head(cur)>> \in Seq(PipBeat)
          /\ <<Head(cur)>> \o t = cur /\ Len(s) = Len(src) + 1
      BY <1>1, <3>1, FirstOf, AppendProperties
    <3>3. (snk \o s) \o t = (snk \o src) \o cur
      <4>1. snk \in Seq(PipBeat) /\ src \in Seq(PipBeat) /\ cur \in Seq(PipBeat) /\ cur # <<>>
        BY <1>1, <3>1
      <4> HIDE DEF snk, src, cur
      <4> QED BY <4>1, WayMoves, SMTT(40)
    <3>4. Len(Pip!Ended(t)) <= 1
      <4> DEFINE f == Pip!Ended(<<Head(cur)>>)
                 r == Pip!Ended(t)
      <4>1. f \in Seq(Nat) /\ r \in Seq(Nat)
        BY <3>2, EndedType
      <4>2. Pip!Ended(cur) = f \o r
        BY <3>2, EndedConcat
      <4> HIDE DEF f, r, cur
      <4>3. Len(f \o r) = Len(f) + Len(r) /\ Len(f) \in Nat /\ Len(r) \in Nat
        BY <4>1, ConcatProperties
      <4>4. Len(r) <= 1
        BY <2>1, <4>2, <4>3
      <4> QED BY <4>4 DEF r
    <3> HIDE DEF s, t, k, flight
    <3>5. /\ pipMst'.cur = t /\ pipMst'.q = pipMst.q /\ pipMst'.put = pipMst.put
          /\ pipBus'.src = s /\ pipBus'.snk = snk
      BY <1>1, <3>1 DEF PipMstType
    <3>6. PipWay' = (snk \o s) \o t
      BY <3>5 DEF PipWay
    <3>7. Len(s) <= Limit
      <4> DEFINE m == Len(src)
                 n == Len(s)
      <4>1. m \in Nat /\ m < Limit /\ n = m + 1
        BY <2>1, <3>1, <3>2
      <4> HIDE DEF m, n
      <4>2. n <= Limit
        BY <4>1, LinksAssumption
      <4> QED BY <4>2 DEF n
    <3>8. PipWay = (snk \o src) \o cur
      BY DEF PipWay
    <3> HIDE DEF snk, src, cur
    <3> QED BY <2>1, <3>3, <3>4, <3>5, <3>6, <3>7, <3>8
  <2>3. CASE Pip!Wires
    <3> DEFINE t == Tail(src)
               s == Append(snk, Head(src))
    <3>1. src # <<>> /\ Len(snk) < Limit /\ UNCHANGED pipMst /\ pipBus' = [src |-> t, snk |-> s]
      BY <2>3 DEF Pip!Wires
    <3>2. Head(src) \in PipBeat /\ Len(t) = Len(src) - 1 /\ Len(s) = Len(snk) + 1
      BY <1>1, <3>1, HeadTailProperties, AppendProperties
    <3>3. (s \o t) \o cur = (snk \o src) \o cur
      <4>1. snk \in Seq(PipBeat) /\ src \in Seq(PipBeat) /\ cur \in Seq(PipBeat) /\ src # <<>>
        BY <1>1, <3>1
      <4> HIDE DEF snk, src, cur
      <4> QED BY <4>1, WayMoves, SMTT(40)
    <3> HIDE DEF s, t
    <3>4. pipBus'.src = t /\ pipBus'.snk = s
      BY <3>1
    <3>5. PipWay' = (s \o t) \o cur
      BY <3>1, <3>4 DEF PipWay
    <3>6. Len(s) <= Limit /\ Len(t) <= Limit
      <4> DEFINE m == Len(snk)
                 n == Len(s)
                 k == Len(src)
                 j == Len(t)
      <4>1. m \in Nat /\ m < Limit /\ n = m + 1 /\ k \in Nat /\ k <= Limit /\ j = k - 1
        BY <2>1, <3>1, <3>2
      <4> HIDE DEF m, n, k, j
      <4>2. n <= Limit /\ j <= Limit
        BY <4>1, LinksAssumption
      <4> QED BY <4>2 DEF n, j
    <3>7. PipWay = (snk \o src) \o cur /\ pipMst'.cur = cur /\ pipMst'.q = pipMst.q /\ pipMst'.put = pipMst.put
      BY <3>1 DEF PipWay
    <3> HIDE DEF snk, src, cur
    <3> QED BY <2>1, <3>3, <3>4, <3>5, <3>6, <3>7
  <2> QED BY <2>2, <2>3
<1>4. PipCarried'
  <2>1. PipWhole'
    BY <1>2, <1>3 DEF PipCarried, PipWhole
  <2>2. Pip!Ended(pipMst.cur)' = Pip!Ended(pipMst'.cur)
    BY DEF Pip!Ended
  <2>3. PipRoom'
    BY <1>2, <1>3, <2>2 DEF PipCarried, PipRoom
  <2> QED BY <1>2, <2>1, <2>3 DEF PipCarried
<1>5. Pip!Chan' = Pip!Chan
  BY <1>2, <1>3, PipChan
<1> QED BY <1>2, <1>4, <1>5 DEF PacketStep, PipMoves

\* the slave takes a beat and finds nothing wrong with it,
LEMMA PipBeatCarries ==
  ASSUME PipInv, PipCarried, Pip!SlaveBeat
  PROVE  PipCarried' /\ PipMoves
<1> DEFINE snk == pipBus.snk
           src == pipBus.src
           cur == pipMst.cur
           beat == Head(snk)
           part == pipSlv.part
           way == (Tail(snk) \o src) \o cur
           x == pipSlv.q
           q == pipMst.q
           h == Pip!Held(pipMst.put)
           w == Pip!Ended(way)
           none == Pip!None
           l == Len(part)
<1>1. /\ pipSlv \in PipSlvType /\ pipBus \in [src : Seq(PipBeat), snk : Seq(PipBeat)]
      /\ snk \in Seq(PipBeat) /\ src \in Seq(PipBeat) /\ cur \in Seq(PipBeat) /\ part \in Seq(PipBeat)
      /\ x \in Seq(Int) /\ q \in Seq(Int) /\ h \in Seq(Int) /\ PipWay \in Seq(PipBeat) /\ none \in PipPkt
  BY PipShape, PipCounts
<1>2. /\ snk # <<>> /\ pipSlv.put = none /\ UNCHANGED <<pipMst, pipRst, pipOut>>
      /\ pipBus' = [pipBus EXCEPT !.snk = Tail(snk)]
      /\ pipAlarm' = Pip!Malformed(beat, part)
      /\ pipSlv' = IF beat.eop THEN [pipSlv EXCEPT !.part = <<>>, !.put = beat.tag, !.flight = pipSlv.flight + 1]
                   ELSE [pipSlv EXCEPT !.part = Append(part, beat)]
  BY DEF Pip!SlaveBeat
<1>3. beat \in PipBeat /\ Tail(snk) \in Seq(PipBeat) /\ <<beat>> \in Seq(PipBeat) /\ Len(Tail(snk)) = Len(snk) - 1
      /\ Len(snk) \in Nat
  BY <1>1, <1>2, HeadTailProperties
<1>4. pipBus'.snk = Tail(snk) /\ pipBus'.src = src
  BY <1>1, <1>2
<1>5. way \in Seq(PipBeat) /\ PipWay' = way /\ PipWay = <<beat>> \o way
  <2> DEFINE t == Tail(snk)
             v == t \o src
  <2>1. v \in Seq(PipBeat)
    BY <1>1, <1>3, ConcatProperties
  <2> HIDE DEF v
  <2>2. v \o cur \in Seq(PipBeat)
    BY <1>1, <2>1, ConcatProperties
  <2>3. (snk \o src) \o cur = <<beat>> \o way
    <3>1. snk \in Seq(PipBeat) /\ src \in Seq(PipBeat) /\ cur \in Seq(PipBeat) /\ snk # <<>>
      BY <1>1, <1>2
    <3> HIDE DEF snk, src, cur
    <3> QED BY <3>1, WayMoves, SMTT(40)
  <2>4. PipWay' = way
    BY <1>2, <1>4 DEF PipWay
  <2> QED BY <2>2, <2>3, <2>4 DEF PipWay, v
<1> HIDE DEF way
<1>6. PipWay # <<>> /\ Head(PipWay) = beat /\ Tail(PipWay) = way
  BY <1>3, <1>5, FirstTaken
<1>7. PICK c \in Seq(PipPacket) : InBeats(l, PipWay, c)
  BY DEF PipCarried, PipWhole
<1>8. l \in Nat /\ (l = 0 <=> part = <<>>)
  <2> HIDE DEF part
  <2> QED BY <1>1, EmptySeq
<1> DEFINE p == Head(c)
           n == p.len
<1>9. /\ c # <<>> /\ l + 1 <= n /\ BeatOf(beat, l + 1, p)
      /\ l + 1 = n => InBeats(0, way, Tail(c))
      /\ l + 1 # n => InBeats(l + 1, way, c)
  <2>1. \A r \in PipPacket : r.len \in Nat \ {0}
    BY DEF PipPacket
  <2> HIDE DEF l, beat, PipWay
  <2>2. /\ c # <<>> /\ l + 1 <= Head(c).len /\ BeatOf(Head(PipWay), l + 1, Head(c))
        /\ l + 1 = Head(c).len => InBeats(0, Tail(PipWay), Tail(c))
        /\ l + 1 # Head(c).len => InBeats(l + 1, Tail(PipWay), c)
    BY <1>1, <1>6, <1>7, <1>8, <2>1, BeatsLess
  <2> QED BY <1>6, <2>2
<1>10. p \in PipPacket /\ Tail(c) \in Seq(PipPacket) /\ n \in Nat
  <2>1. Head(c) \in PipPacket /\ Tail(c) \in Seq(PipPacket)
    BY <1>7, <1>9, HeadTailProperties
  <2>2. \A r \in PipPacket : r.len \in Nat
    BY DEF PipPacket
  <2> QED BY <2>1, <2>2
<1> HIDE DEF beat, p, n, l
<1>11. (beat.sop <=> l + 1 = 1) /\ (beat.eop <=> l + 1 = n) /\ beat.len = n /\ beat.tag \in Nat
  BY <1>3, <1>9 DEF BeatOf, PipBeat, n
<1>12. ~pipAlarm'
  <2>1. ~Pip!Malformed(beat, part)
    <3> HIDE DEF part
    <3>1. l = Len(part)
      BY DEF l, part
    <3> QED BY <1>8, <1>10, <1>11, <3>1 DEF Pip!Malformed, part
  <2> QED BY <1>2, <2>1
<1>13. PipRoom'
  <2>1. Len(Tail(snk)) <= Limit
    BY <1>3, LinksAssumption DEF PipCarried, PipRoom
  <2>2. Pip!Ended(pipMst.cur)' = Pip!Ended(pipMst'.cur)
    BY DEF Pip!Ended
  <2>3. pipSlv'.q = x
    BY <1>1, <1>2 DEF PipSlvType
  <2> QED BY <1>2, <1>4, <2>1, <2>2, <2>3 DEF PipCarried, PipRoom
<1>14. w \in Seq(Int)
  <2>1. w \in Seq(Nat)
    BY <1>5, EndedType
  <2> QED BY <2>1
<1>15. Pip!Ended(PipWay) = (IF beat.eop THEN <<beat.tag>> ELSE <<>>) \o w
  BY <1>3, <1>5, EndedConcat, EndedOne
<1>16. Pip!Held(none) = <<>> /\ Pip!Held(beat.tag) = <<beat.tag>>
  BY <1>11, PipHolds, PipCounts
<1> HIDE DEF w, none
<1>17. CASE beat.eop
  <2> DEFINE flight == pipSlv.flight + 1
             empty == <<>>
             put == beat.tag
  <2>1. pipSlv' = [pipSlv EXCEPT !.part = empty, !.put = put, !.flight = flight]
    BY <1>2, <1>17
  <2> HIDE DEF flight, empty, put
  <2>2. pipSlv'.part = empty /\ pipSlv'.put = put /\ pipSlv'.q = x
    BY <1>1, <2>1 DEF PipSlvType
  <2>3. PipWhole'
    <3>1. InBeats(0, PipWay', Tail(c)) /\ Len(pipSlv'.part) = 0
      BY <1>5, <1>9, <1>11, <1>17, <2>2 DEF empty
    <3> QED BY <1>10, <3>1 DEF PipWhole
  <2>4. Pip!Chan = Parts(x, <<>>, <<put>> \o w, q, h)
    BY <1>2, <1>15, <1>16, <1>17, PipChan DEF put
  <2>5. Pip!Chan' = Parts(x, <<put>>, w, q, h)
    BY <1>2, <1>5, <1>16, <2>2, PipChan DEF put, w
  <2> HIDE DEF x, q, h
  <2>6. Parts(x, <<>>, <<put>> \o w, q, h) = Parts(x, <<put>>, w, q, h)
    <3>1. x \in Seq(Int) /\ <<>> \in Seq(Int) /\ w \in Seq(Int) /\ q \in Seq(Int) /\ h \in Seq(Int) /\ put \in Int
      BY <1>1, <1>11, <1>14 DEF put
    <3> QED BY <3>1, PartsMove, SMTT(60)
  <2> QED BY <1>2, <1>12, <1>13, <2>3, <2>4, <2>5, <2>6 DEF PipCarried, PacketStep, PipMoves
<1>18. CASE ~beat.eop
  <2> DEFINE more == Append(part, beat)
  <2>1. pipSlv' = [pipSlv EXCEPT !.part = more]
    BY <1>2, <1>18
  <2>2. Len(more) = l + 1
    BY <1>1, <1>3, AppendProperties DEF l
  <2> HIDE DEF more
  <2>3. pipSlv'.part = more /\ pipSlv'.put = pipSlv.put /\ pipSlv'.q = x
    BY <1>1, <2>1 DEF PipSlvType
  <2>4. PipWhole'
    <3>1. InBeats(l + 1, PipWay', c) /\ Len(pipSlv'.part) = l + 1
      BY <1>5, <1>9, <1>11, <1>18, <2>2, <2>3
    <3> QED BY <1>7, <3>1 DEF PipWhole
  <2>5. Pip!Ended(PipWay) = w
    <3>1. <<>> \o w = w
      BY <1>14, ConcatEmptySeq
    <3> QED BY <1>15, <1>18, <3>1
  <2>6. Pip!Chan' = Pip!Chan
    BY <1>2, <1>5, <2>3, <2>5, PipChan DEF w
  <2> QED BY <1>2, <1>12, <1>13, <2>4, <2>6 DEF PipCarried, PacketStep, PipMoves
<1> QED BY <1>17, <1>18

\* and puts a packet it has whole.
LEMMA PipPutCarries ==
  ASSUME PipInv, PipCarried, Pip!SlavePut
  PROVE  PipCarried' /\ PipMoves
<1> DEFINE x == pipSlv.q
           put == pipSlv.put
           w == Pip!Ended(PipWay)
           q == pipMst.q
           h == Pip!Held(pipMst.put)
           new == Append(x, put)
           none == Pip!None
<1>1. /\ pipSlv \in PipSlvType /\ put \in PipPkt /\ none \in PipPkt
      /\ x \in Seq(Int) /\ w \in Seq(Int) /\ q \in Seq(Int) /\ h \in Seq(Int)
  BY PipShape, PipCounts
<1>2. /\ put # none /\ Len(x) < Limit /\ UNCHANGED <<pipMst, pipBus, pipRst, pipOut, pipAlarm>> /\ ~pipAlarm
      /\ pipSlv' = [pipSlv EXCEPT !.q = new, !.put = none]
  BY DEF Pip!SlavePut, PipCarried
<1>3. put \in Nat /\ Pip!Held(put) = <<put>> /\ Pip!Held(none) = <<>>
  BY <1>1, <1>2, PipHolds
<1>4. new = x \o <<put>> /\ Len(new) = Len(x) + 1 /\ Len(x) \in Nat
  BY <1>1, <1>3, AppendIsConcat, AppendProperties
<1> HIDE DEF new, none
<1>5. pipSlv'.q = new /\ pipSlv'.put = none /\ pipSlv'.part = pipSlv.part
  BY <1>1, <1>2 DEF PipSlvType
<1>6. PipWay' = PipWay
  BY <1>2 DEF PipWay
<1>7. PipCarried'
  <2>1. PipWhole'
    BY <1>5, <1>6 DEF PipCarried, PipWhole
  <2>2. Pip!Ended(pipMst.cur)' = Pip!Ended(pipMst'.cur)
    BY DEF Pip!Ended
  <2>3. Len(pipSlv'.q) <= Limit
    BY <1>2, <1>4, <1>5, LinksAssumption
  <2>4. PipRoom'
    BY <1>2, <2>2, <2>3 DEF PipCarried, PipRoom
  <2> QED BY <1>2, <2>1, <2>4 DEF PipCarried
<1>8. Pip!Chan = Parts(x, <<put>>, w, q, h)
  BY <1>3, PipChan
<1>9. Pip!Chan' = Parts(x \o <<put>>, <<>>, w, q, h)
  BY <1>2, <1>3, <1>4, <1>5, <1>6, PipChan
<1> HIDE DEF x, w, q, h, put
<1>10. Parts(x, <<put>>, w, q, h) = Parts(x \o <<put>>, <<>>, w, q, h)
  <2>1. x \in Seq(Int) /\ <<>> \in Seq(Int) /\ w \in Seq(Int) /\ q \in Seq(Int) /\ h \in Seq(Int) /\ put \in Int
    BY <1>1, <1>3
  <2> QED BY <2>1, PartsMove, SMTT(60)
<1> QED BY <1>2, <1>7, <1>8, <1>9, <1>10 DEF PacketStep, PipMoves

\* A reset leaves the call that is blocked and nothing else.
LEMMA PipResetCarries ==
  ASSUME PipInv, PipCarried, Pip!ResetOn \/ Pip!ResetOff
  PROVE  PipCarried' /\ PipMoves
<1>1. CASE Pip!ResetOff
  <2>1. /\ UNCHANGED <<pipMst, pipBus, pipSlv, pipOut, pipAlarm>>
        /\ pipRst /\ pipRst' = FALSE
    BY <1>1 DEF Pip!ResetOff
  <2>2. PipWay' = PipWay
    BY <2>1 DEF PipWay
  <2>3. Pip!Ended(pipMst.cur)' = Pip!Ended(pipMst'.cur)
    BY DEF Pip!Ended
  <2>4. PipCarried'
    BY <2>1, <2>2, <2>3 DEF PipCarried, PipWhole, PipRoom
  <2>5. Pip!Chan' = Pip!Chan
    BY <2>1, <2>2, PipChan
  <2> QED BY <2>1, <2>4, <2>5 DEF PacketStep, PipMoves
<1>2. CASE Pip!ResetOn
  <2> DEFINE x == pipSlv.q
             b == Pip!Held(pipSlv.put)
             w == Pip!Ended(PipWay)
             q == pipMst.q
             h == Pip!Held(pipMst.put)
             z == ((x \o b) \o w) \o q
             none == Pip!None
             debt == pipMst.debt \/ pipMst.put # none
             empty == <<>>
  <2>1. /\ pipMst \in PipMstType /\ none \in PipPkt /\ pipSlv.put \in PipPkt
        /\ x \in Seq(Int) /\ b \in Seq(Int) /\ w \in Seq(Int) /\ q \in Seq(Int) /\ h \in Seq(Int)
    BY PipShape, PipCounts
  <2>2. /\ ~pipRst /\ pipRst' = TRUE /\ UNCHANGED <<pipOut, pipAlarm>> /\ ~pipAlarm
        /\ pipMst' = [pipMst EXCEPT !.q = empty, !.cur = empty, !.flight = 0, !.debt = debt]
        /\ pipBus' = [src |-> empty, snk |-> empty]
        /\ pipSlv' = [part |-> empty, put |-> none, q |-> empty, flight |-> 0]
    BY <1>2 DEF Pip!ResetOn, PipCarried
  <2>3. empty \in Seq(PipBeat) /\ empty \in Seq(Int) /\ Len(empty) = 0 /\ empty \o empty = empty /\ empty = <<>>
    OBVIOUS
  <2>4. Pip!Ended(empty) = empty /\ Pip!Held(none) = empty
    BY <2>1, EndedEmpty, PipHolds
  <2> HIDE DEF debt, empty, none
  <2>5. /\ pipMst'.q = empty /\ pipMst'.cur = empty /\ pipMst'.put = pipMst.put
        /\ pipBus'.src = empty /\ pipBus'.snk = empty
        /\ pipSlv'.q = empty /\ pipSlv'.put = none /\ pipSlv'.part = empty
    BY <2>1, <2>2 DEF PipMstType
  <2>6. PipWay' = empty
    BY <2>3, <2>5 DEF PipWay
  <2>7. PipCarried'
    <3>1. PipWhole'
      <4>1. InBeats(0, empty, empty)
        BY <2>3, BeatsNone
      <4>2. empty \in Seq(PipPacket)
        BY <2>3
      <4>3. InBeats(Len(pipSlv'.part), PipWay', empty)
        BY <2>3, <2>5, <2>6, <4>1
      <4> QED BY <4>2, <4>3 DEF PipWhole
    <3>2. Pip!Ended(pipMst.cur)' = Pip!Ended(pipMst'.cur)
      BY DEF Pip!Ended
    <3>3. Len(Pip!Ended(pipMst'.cur)) = 0
      BY <2>3, <2>4, <2>5
    <3>4. PipRoom'
      BY <2>3, <2>5, <3>2, <3>3, LinksAssumption DEF PipRoom
    <3> QED BY <2>2, <3>1, <3>4 DEF PipCarried
  <2>8. Pip!Chan' = h
    <3>1. Pip!Chan' = Parts(empty, empty, empty, empty, h)
      BY <2>4, <2>5, <2>6, PipChan
    <3> HIDE DEF h
    <3>2. empty \o h = h
      BY <2>1, <2>3, ConcatEmptySeq
    <3> QED BY <2>3, <3>1, <3>2 DEF Parts
  <2>9. Pip!Chan = z \o h
    BY PipChan DEF Parts
  <2>10. Len(w) <= 2 * Limit + 1
    <3> DEFINE wires == pipBus.snk \o pipBus.src
    <3>1. wires \in Seq(PipBeat) /\ pipMst.cur \in Seq(PipBeat)
          /\ pipBus.snk \in Seq(PipBeat) /\ pipBus.src \in Seq(PipBeat)
      BY PipShape
    <3>2. Len(wires) = Len(pipBus.snk) + Len(pipBus.src) /\ Len(pipBus.snk) \in Nat /\ Len(pipBus.src) \in Nat
      BY <3>1, ConcatProperties
    <3> DEFINE u == Pip!Ended(wires)
               v == Pip!Ended(pipMst.cur)
    <3>3. w = u \o v
      <4>1. PipWay = wires \o pipMst.cur
        BY DEF PipWay
      <4> HIDE DEF wires
      <4> QED BY <3>1, <4>1, EndedConcat
    <3> HIDE DEF wires
    <3>4. u \in Seq(Nat) /\ v \in Seq(Nat) /\ Len(u) <= Len(wires)
      BY <3>1, EndedType
    <3>5. Len(v) <= 1 /\ Len(pipBus.snk) <= Limit /\ Len(pipBus.src) <= Limit
      BY DEF PipCarried, PipRoom
    <3> HIDE DEF u, v, w
    <3>6. Len(w) = Len(u) + Len(v) /\ Len(u) \in Nat /\ Len(v) \in Nat
      BY <3>3, <3>4, ConcatProperties
    <3> DEFINE a == Len(pipBus.snk)
               d == Len(pipBus.src)
               f == Len(u)
               g == Len(v)
               n == Len(w)
               e == Len(wires)
    <3>7. /\ a \in Nat /\ d \in Nat /\ f \in Nat /\ g \in Nat /\ n = f + g /\ e = a + d
          /\ f <= e /\ g <= 1 /\ a <= Limit /\ d <= Limit
      BY <3>2, <3>4, <3>5, <3>6 DEF v
    <3> HIDE DEF a, d, f, g, n, e
    <3>8. n <= 2 * Limit + 1
      BY <3>7, LinksAssumption
    <3> QED BY <3>8 DEF n
  <2>11. Len(b) \in 0 .. 1 /\ Len(x) <= Limit /\ Len(q) <= Limit
    BY <2>1, PipHolds DEF PipCarried, PipRoom
  <2> HIDE DEF x, b, w, q, h
  <2>12. z \in Seq(Int) /\ Len(z) = Len(x) + Len(b) + Len(w) + Len(q)
    BY <2>1, PartsType
  <2> HIDE DEF z
  <2>13. Len(z) \in 0 .. 4 * Limit + 2
    <3>1. Len(x) \in Nat /\ Len(w) \in Nat /\ Len(q) \in Nat
      BY <2>1
    <3> DEFINE i == Len(x)
               j == Len(b)
               k == Len(w)
               m == Len(q)
               n == Len(z)
    <3>2. /\ i \in Nat /\ j \in 0 .. 1 /\ k \in Nat /\ m \in Nat /\ n = i + j + k + m
          /\ i <= Limit /\ m <= Limit /\ k <= 2 * Limit + 1
      BY <2>10, <2>11, <2>12, <3>1
    <3> HIDE DEF i, j, k, m, n
    <3>3. n \in 0 .. 4 * Limit + 2
      BY <3>2, LinksAssumption
    <3> QED BY <3>3 DEF n
  <2>14. /\ Len(z) \in 0 .. Len(z \o h) /\ 0 \in 0 .. Len(z \o h) /\ 0 + Len(z) <= Len(z \o h)
         /\ Packets!Without(z \o h, 0, Len(z)) = h
    BY <2>1, <2>12, FrontLost
  <2>15. \E i \in 0 .. Len(Pip!Chan), n \in 0 .. 4 * Limit + 2 :
           i + n <= Len(Pip!Chan) /\ Pip!Chan' = Packets!Without(Pip!Chan, i, n)
    BY <2>8, <2>9, <2>13, <2>14
  <2> QED BY <2>2, <2>7, <2>15 DEF PacketStep, PipMoves
<1> QED BY <1>1, <1>2

LEMMA PipCarriedInit == Pip!Init => PipCarried
<1> SUFFICES ASSUME Pip!Init PROVE PipCarried
  OBVIOUS
<1> DEFINE empty == <<>>
<1>1. /\ empty \in Seq(PipPacket) /\ Len(empty) = 0 /\ empty \o empty = empty
      /\ Pip!Ended(empty) = empty /\ InBeats(0, empty, empty)
  BY EndedEmpty, BeatsNone
<1>2. /\ pipMst.q = empty /\ pipMst.cur = empty /\ pipBus.src = empty /\ pipBus.snk = empty
      /\ pipSlv.part = empty /\ pipSlv.q = empty /\ ~pipAlarm
  BY DEF Pip!Init
<1> HIDE DEF empty
<1>3. PipWhole
  <2>1. PipWay = empty
    BY <1>1, <1>2 DEF PipWay
  <2> QED BY <1>1, <1>2, <2>1 DEF PipWhole
<1> QED BY <1>1, <1>2, <1>3, LinksAssumption DEF PipCarried, PipRoom

LEMMA PipCarries ==
  ASSUME PipInv, PipCarried, [Pip!Next]_(Pip!vars)
  PROVE  PipCarried' /\ PipMoves
<1>1. CASE Pip!Next
  BY <1>1, PipUserCarries, PipGetCarries, PipWireCarries, PipBeatCarries, PipPutCarries, PipResetCarries
     DEF Pip!Next, Pip!Process
<1>2. CASE UNCHANGED Pip!vars
  <2>1. UNCHANGED <<pipMst, pipBus, pipSlv, pipRst, pipOut, pipAlarm>>
    BY <1>2 DEF Pip!vars
  <2>2. PipWay' = PipWay
    BY <2>1 DEF PipWay
  <2>3. Pip!Ended(pipMst.cur)' = Pip!Ended(pipMst'.cur)
    BY DEF Pip!Ended
  <2>4. PipCarried'
    BY <2>1, <2>2, <2>3 DEF PipCarried, PipWhole, PipRoom
  <2>5. Pip!Chan' = Pip!Chan
    BY <2>1, <2>2, PipChan
  <2> QED BY <2>1, <2>4, <2>5 DEF PacketStep, PipMoves
<1> QED BY <1>1, <1>2

-----------------------------------------------------------------------------
(* The DMA master counts its reads. *)

DmaWrCmd == [tag : Nat, len : Nat \ {0}, rsp : BOOLEAN]
DmaRdCmd == [tag : Nat, len : Nat \ {0}, floor : Nat]
DmaBeat == [tag : Nat, len : Nat, sop : BOOLEAN, eop : BOOLEAN]
DmaRdBeat == [tag : Nat, sop : BOOLEAN, eop : BOOLEAN, err : BOOLEAN, data : Nat]
DmaUsrType == [next : Nat, resets : Nat, acked : Nat, seen : Nat, hit : BOOLEAN]
DmaWrType ==
  [q : Seq(DmaWrCmd), cur : Seq(DmaBeat), cmd : Seq(DmaWrCmd), rspq : Seq(DmaWrCmd), res : Seq(Nat)]
DmaRdType ==
  [q : Seq(DmaRdCmd), cmd : Seq(DmaRdCmd), rspq : Seq(DmaRdCmd), part : Seq(DmaRdBeat),
   res : Seq([cmd : DmaRdCmd, data : Nat, err : BOOLEAN]), flight : Int]
DmaBusType == [wreq : Seq(DmaBeat), wrsp : Seq(Nat), rreq : Seq(DmaRdCmd), rrsp : Seq(DmaRdBeat)]
DmaRamType ==
  [mem : Nat, part : Seq(DmaBeat), wput : Seq(Nat), wrsp : Seq(Nat), rq : Seq(DmaRdCmd),
   cur : Seq(DmaRdBeat)]
DmaTypes ==
  /\ dmaUsr \in DmaUsrType /\ dmaWr \in DmaWrType /\ dmaRd \in DmaRdType
  /\ dmaBus \in DmaBusType /\ dmaRam \in DmaRamType

DmaInv == DmaTypes /\ Dma!DmaIdleIsIdle

LEMMA DmaInit == Dma!Init => DmaInv
  BY DEF Dma!Init, DmaInv, DmaTypes, DmaUsrType, DmaWrType, DmaRdType, DmaBusType, DmaRamType,
         Dma!DmaIdleIsIdle

LEMMA DmaBeats ==
  ASSUME NEW t \in Nat, NEW n \in Nat
  PROVE  Dma!Beats(t, n) \in Seq(DmaBeat) /\ \A i \in 1 .. n : Dma!Beats(t, n)[i] \in DmaBeat
<1> DEFINE b == [i \in 1 .. n |-> [tag |-> t, len |-> n, sop |-> i = 1, eop |-> i = n]]
<1>1. \A i \in 1 .. n : [tag |-> t, len |-> n, sop |-> i = 1, eop |-> i = n] \in DmaBeat
  BY DEF DmaBeat
<1>2. b \in [1 .. n -> DmaBeat]
  BY <1>1
<1>3. Dma!Beats(t, n) = b
  BY DEF Dma!Beats
<1> HIDE DEF b
<1>4. b \in Seq(DmaBeat)
  BY <1>2
<1>5. \A i \in 1 .. n : b[i] \in DmaBeat
  BY <1>2
<1> QED BY <1>3, <1>4, <1>5

\* Writes leave the reads alone.
LEMMA DmaWrites ==
  ASSUME DmaInv,
         \/ Dma!WriteCall \/ Dma!WriteGet \/ Dma!WriteBeat \/ Dma!WriteSent \/ Dma!WriteResp
         \/ Dma!WriteRspGet \/ Dma!RamWrite \/ Dma!RamWritten \/ Dma!RamWriteRsp
  PROVE  DmaInv'
<1>1. /\ dmaUsr \in DmaUsrType /\ dmaWr \in DmaWrType /\ dmaRd \in DmaRdType
      /\ dmaBus \in DmaBusType /\ dmaRam \in DmaRamType /\ Dma!DmaIdleIsIdle
  BY DEF DmaInv, DmaTypes
<1>2. CASE Dma!WriteCall
  <2>1. PICK n \in 1 .. 2, rsp \in BOOLEAN :
          dmaWr' = [dmaWr EXCEPT !.q = Append(@, [tag |-> dmaUsr.next, len |-> n, rsp |-> rsp])]
    BY <1>2 DEF Dma!WriteCall
  <2> DEFINE cmd == [tag |-> dmaUsr.next, len |-> n, rsp |-> rsp]
  <2>2. cmd \in DmaWrCmd
    BY <1>1 DEF DmaUsrType, DmaWrCmd
  <2>3. Append(dmaWr.q, cmd) \in Seq(DmaWrCmd)
    BY <1>1, <2>2, Given DEF DmaWrType
  <2>4. dmaWr' \in DmaWrType
    BY <1>1, <2>1, <2>3 DEF DmaWrType
  <2>5. dmaUsr' \in DmaUsrType /\ UNCHANGED <<dmaRd, dmaBus, dmaRam>>
    BY <1>1, <1>2 DEF Dma!WriteCall, DmaUsrType
  <2> QED BY <1>1, <2>4, <2>5 DEF DmaInv, DmaTypes, Dma!DmaIdleIsIdle
<1>3. CASE Dma!WriteGet
  <2> DEFINE cmd == Head(dmaWr.q)
             cur == Dma!Beats(cmd.tag, cmd.len)
  <2>1. /\ dmaWr.q # <<>> /\ UNCHANGED <<dmaUsr, dmaRd, dmaBus, dmaRam>>
        /\ dmaWr' = [dmaWr EXCEPT !.q = Tail(dmaWr.q), !.cmd = <<cmd>>, !.cur = cur]
    BY <1>3 DEF Dma!WriteGet
  <2>2. cmd \in DmaWrCmd /\ Tail(dmaWr.q) \in Seq(DmaWrCmd)
    BY <1>1, <2>1, Taken DEF DmaWrType
  <2>3. <<cmd>> \in Seq(DmaWrCmd) /\ cmd.tag \in Nat /\ cmd.len \in Nat
    BY <2>2 DEF DmaWrCmd
  <2>4. cur \in Seq(DmaBeat)
    BY <2>3, DmaBeats
  <2> HIDE DEF cmd, cur
  <2>5. dmaWr' \in DmaWrType
    BY <1>1, <2>1, <2>2, <2>3, <2>4 DEF DmaWrType
  <2> QED BY <1>1, <2>1, <2>5 DEF DmaInv, DmaTypes, Dma!DmaIdleIsIdle
<1>4. CASE Dma!WriteBeat
  <2>1. dmaWr.cur # <<>> /\ UNCHANGED <<dmaUsr, dmaRd, dmaRam>>
    BY <1>4 DEF Dma!WriteBeat
  <2>2. Head(dmaWr.cur) \in DmaBeat /\ Tail(dmaWr.cur) \in Seq(DmaBeat)
    BY <1>1, <2>1, Taken DEF DmaWrType
  <2>3. Append(dmaBus.wreq, Head(dmaWr.cur)) \in Seq(DmaBeat)
    BY <1>1, <2>2, Given DEF DmaBusType
  <2>4. dmaWr' \in DmaWrType
    BY <1>1, <1>4, <2>2 DEF Dma!WriteBeat, DmaWrType
  <2>5. dmaBus' \in DmaBusType
    BY <1>1, <1>4, <2>3 DEF Dma!WriteBeat, DmaBusType
  <2> QED BY <1>1, <2>1, <2>4, <2>5 DEF DmaInv, DmaTypes, Dma!DmaIdleIsIdle
<1>5. CASE Dma!WriteSent
  <2> DEFINE new == dmaWr.rspq \o dmaWr.cmd
             none == <<>>
  <2>1. new \in Seq(DmaWrCmd) /\ none \in Seq(DmaWrCmd)
    BY <1>1, Moved DEF DmaWrType
  <2>2. dmaWr' = [dmaWr EXCEPT !.cmd = none, !.rspq = new] /\ UNCHANGED <<dmaUsr, dmaRd, dmaBus, dmaRam>>
    BY <1>5 DEF Dma!WriteSent
  <2> HIDE DEF new, none
  <2>3. dmaWr' \in DmaWrType
    BY <1>1, <2>1, <2>2 DEF DmaWrType
  <2> QED BY <1>1, <2>2, <2>3 DEF DmaInv, DmaTypes, Dma!DmaIdleIsIdle
<1>6. CASE Dma!WriteResp
  <2> DEFINE tag == Head(dmaBus.wrsp)
             res == IF Head(dmaWr.rspq).rsp THEN Append(dmaWr.res, tag) ELSE dmaWr.res
  <2>1. /\ dmaWr.rspq # <<>> /\ dmaBus.wrsp # <<>> /\ UNCHANGED <<dmaUsr, dmaRd, dmaRam>>
        /\ dmaWr' = [dmaWr EXCEPT !.rspq = Tail(dmaWr.rspq), !.res = res]
        /\ dmaBus' = [dmaBus EXCEPT !.wrsp = Tail(dmaBus.wrsp)]
    BY <1>6 DEF Dma!WriteResp
  <2>2. Tail(dmaWr.rspq) \in Seq(DmaWrCmd) /\ tag \in Nat /\ Tail(dmaBus.wrsp) \in Seq(Nat)
    BY <1>1, <2>1, Taken DEF DmaWrType, DmaBusType
  <2>3. Append(dmaWr.res, tag) \in Seq(Nat)
    BY <1>1, <2>2, Given DEF DmaWrType
  <2>4. res \in Seq(Nat)
    BY <1>1, <2>3 DEF DmaWrType
  <2> HIDE DEF res
  <2>5. dmaWr' \in DmaWrType
    BY <1>1, <2>1, <2>2, <2>4 DEF DmaWrType
  <2>6. dmaBus' \in DmaBusType
    BY <1>1, <2>1, <2>2 DEF DmaBusType
  <2> QED BY <1>1, <2>1, <2>5, <2>6 DEF DmaInv, DmaTypes, Dma!DmaIdleIsIdle
<1>7. CASE Dma!WriteRspGet
  <2>1. dmaWr.res # <<>> /\ UNCHANGED <<dmaRd, dmaBus, dmaRam>>
    BY <1>7 DEF Dma!WriteRspGet
  <2>2. Head(dmaWr.res) \in Nat /\ Tail(dmaWr.res) \in Seq(Nat)
    BY <1>1, <2>1, Taken DEF DmaWrType
  <2>3. dmaUsr' \in DmaUsrType
    BY <1>1, <1>7, <2>2 DEF Dma!WriteRspGet, DmaUsrType
  <2>4. dmaWr' \in DmaWrType
    BY <1>1, <1>7, <2>2 DEF Dma!WriteRspGet, DmaWrType
  <2> QED BY <1>1, <2>1, <2>3, <2>4 DEF DmaInv, DmaTypes, Dma!DmaIdleIsIdle
<1>8. CASE Dma!RamWrite
  <2> DEFINE beat == Head(dmaBus.wreq)
  <2>1. /\ dmaBus.wreq # <<>> /\ UNCHANGED <<dmaUsr, dmaWr, dmaRd>>
        /\ dmaRam' = IF beat.eop THEN [dmaRam EXCEPT !.part = <<>>, !.mem = beat.tag, !.wput = <<beat.tag>>]
                     ELSE [dmaRam EXCEPT !.part = Append(dmaRam.part, beat)]
        /\ dmaBus' = [dmaBus EXCEPT !.wreq = Tail(dmaBus.wreq)]
    BY <1>8 DEF Dma!RamWrite
  <2>2. beat \in DmaBeat /\ Tail(dmaBus.wreq) \in Seq(DmaBeat)
    BY <1>1, <2>1, Taken DEF DmaBusType
  <2> HIDE DEF beat
  <2>3. Append(dmaRam.part, beat) \in Seq(DmaBeat) /\ beat.tag \in Nat /\ <<beat.tag>> \in Seq(Nat)
    <3>1. beat.tag \in Nat
      BY <2>2 DEF DmaBeat
    <3> QED BY <1>1, <2>2, <3>1, Given DEF DmaRamType
  <2>4. dmaRam' \in DmaRamType
    <3>1. CASE beat.eop
      <4> DEFINE none == <<>>
                 tag == beat.tag
                 put == <<tag>>
      <4>1. /\ none \in Seq(DmaBeat) /\ tag \in Nat /\ put \in Seq(Nat)
            /\ dmaRam' = [dmaRam EXCEPT !.part = none, !.mem = tag, !.wput = put]
        BY <2>1, <2>3, <3>1
      <4> HIDE DEF none, tag, put
      <4> QED BY <1>1, <4>1 DEF DmaRamType
    <3>2. CASE ~beat.eop
      BY <1>1, <2>1, <2>3, <3>2 DEF DmaRamType
    <3> QED BY <3>1, <3>2
  <2>5. dmaBus' \in DmaBusType
    BY <1>1, <2>1, <2>2 DEF DmaBusType
  <2> QED BY <1>1, <2>1, <2>4, <2>5 DEF DmaInv, DmaTypes, Dma!DmaIdleIsIdle
<1>9. CASE Dma!RamWritten
  <2> DEFINE new == dmaRam.wrsp \o dmaRam.wput
             none == <<>>
  <2>1. new \in Seq(Nat) /\ none \in Seq(Nat)
    BY <1>1, Moved DEF DmaRamType
  <2>2. dmaRam' = [dmaRam EXCEPT !.wput = none, !.wrsp = new] /\ UNCHANGED <<dmaUsr, dmaWr, dmaRd, dmaBus>>
    BY <1>9 DEF Dma!RamWritten
  <2> HIDE DEF new, none
  <2>3. dmaRam' \in DmaRamType
    BY <1>1, <2>1, <2>2 DEF DmaRamType
  <2> QED BY <1>1, <2>2, <2>3 DEF DmaInv, DmaTypes, Dma!DmaIdleIsIdle
<1>10. CASE Dma!RamWriteRsp
  <2>1. dmaRam.wrsp # <<>> /\ UNCHANGED <<dmaUsr, dmaWr, dmaRd>>
    BY <1>10 DEF Dma!RamWriteRsp
  <2>2. Head(dmaRam.wrsp) \in Nat /\ Tail(dmaRam.wrsp) \in Seq(Nat)
    BY <1>1, <2>1, Taken DEF DmaRamType
  <2>3. Append(dmaBus.wrsp, Head(dmaRam.wrsp)) \in Seq(Nat)
    BY <1>1, <2>2, Given DEF DmaBusType
  <2>4. dmaRam' \in DmaRamType
    BY <1>1, <1>10, <2>2 DEF Dma!RamWriteRsp, DmaRamType
  <2>5. dmaBus' \in DmaBusType
    BY <1>1, <1>10, <2>3 DEF Dma!RamWriteRsp, DmaBusType
  <2> QED BY <1>1, <2>1, <2>4, <2>5 DEF DmaInv, DmaTypes, Dma!DmaIdleIsIdle
<1> QED BY <1>2, <1>3, <1>4, <1>5, <1>6, <1>7, <1>8, <1>9, <1>10

\* A read is counted when it is called and until its answer is complete.
LEMMA DmaReads ==
  ASSUME DmaInv, Dma!ReadCall \/ Dma!ReadReq \/ Dma!ReadSent \/ Dma!ReadResp \/ Dma!ReadRspGet
  PROVE  DmaInv'
<1>1. /\ dmaUsr \in DmaUsrType /\ dmaWr \in DmaWrType /\ dmaRd \in DmaRdType
      /\ dmaBus \in DmaBusType /\ dmaRam \in DmaRamType
      /\ dmaRd.flight = Len(dmaRd.q) + Len(dmaRd.cmd) + Len(dmaRd.rspq)
  BY DEF DmaInv, DmaTypes, Dma!DmaIdleIsIdle
<1>2. Len(dmaRd.q) \in Nat /\ Len(dmaRd.cmd) \in Nat /\ Len(dmaRd.rspq) \in Nat /\ dmaRd.flight \in Int
  BY <1>1 DEF DmaRdType
<1> DEFINE f == dmaRd.flight
           a == Len(dmaRd.q)
           b == Len(dmaRd.cmd)
           c == Len(dmaRd.rspq)
<1>3. f \in Int /\ a \in Int /\ b \in Int /\ c \in Int /\ f = a + b + c
  BY <1>1, <1>2
<1> HIDE DEF f, a, b, c
<1>4. CASE Dma!ReadCall
  <2>1. PICK n \in 1 .. 2 :
          dmaRd' = [dmaRd EXCEPT !.flight = @ + 1,
                      !.q = Append(@, [tag |-> dmaUsr.next, len |-> n, floor |-> dmaUsr.acked])]
    BY <1>4 DEF Dma!ReadCall
  <2> DEFINE cmd == [tag |-> dmaUsr.next, len |-> n, floor |-> dmaUsr.acked]
             new == Append(dmaRd.q, cmd)
             flight == dmaRd.flight + 1
  <2>2. cmd \in DmaRdCmd
    BY <1>1 DEF DmaUsrType, DmaRdCmd
  <2>3. new \in Seq(DmaRdCmd) /\ Len(new) = Len(dmaRd.q) + 1
    BY <1>1, <2>2, Given DEF DmaRdType
  <2>4. dmaRd' = [dmaRd EXCEPT !.flight = flight, !.q = new] /\ flight \in Int
    BY <1>2, <2>1
  <2>5. dmaUsr' \in DmaUsrType /\ UNCHANGED <<dmaWr, dmaBus, dmaRam>>
    BY <1>1, <1>4 DEF Dma!ReadCall, DmaUsrType
  <2> HIDE DEF new, flight
  <2>6. /\ dmaRd' \in DmaRdType /\ dmaRd'.q = new /\ dmaRd'.cmd = dmaRd.cmd /\ dmaRd'.rspq = dmaRd.rspq
        /\ dmaRd'.flight = flight
    BY <1>1, <2>3, <2>4 DEF DmaRdType
  <2> QED
    <3>1. Dma!DmaIdleIsIdle'
      <4> DEFINE more == Len(new)
      <4>1. more \in Int /\ more = a + 1
        BY <1>3, <2>3 DEF a
      <4> HIDE DEF more
      <4>2. f + 1 = more + b + c
        BY <1>3, <4>1
      <4> QED BY <2>6, <4>2 DEF Dma!DmaIdleIsIdle, f, b, c, more, flight
    <3> QED BY <1>1, <2>5, <2>6, <3>1 DEF DmaInv, DmaTypes
<1>5. CASE Dma!ReadReq
  <2> DEFINE new == Append(dmaBus.rreq, Head(dmaRd.q))
             cmd == <<Head(dmaRd.q)>>
  <2>1. /\ dmaRd.cmd = <<>> /\ dmaRd.q # <<>> /\ UNCHANGED <<dmaUsr, dmaWr, dmaRam>>
        /\ dmaBus' = [dmaBus EXCEPT !.rreq = new]
        /\ dmaRd' = [dmaRd EXCEPT !.q = Tail(dmaRd.q), !.cmd = cmd]
    BY <1>5 DEF Dma!ReadReq
  <2>2. Head(dmaRd.q) \in DmaRdCmd /\ Tail(dmaRd.q) \in Seq(DmaRdCmd) /\ Len(Tail(dmaRd.q)) = Len(dmaRd.q) - 1
    BY <1>1, <2>1, Taken DEF DmaRdType
  <2>3. new \in Seq(DmaRdCmd) /\ cmd \in Seq(DmaRdCmd) /\ Len(cmd) = 1 /\ Len(dmaRd.cmd) = 0
    BY <1>1, <2>1, <2>2, Given DEF DmaBusType
  <2> HIDE DEF new, cmd
  <2>4. dmaBus' \in DmaBusType
    BY <1>1, <2>1, <2>3 DEF DmaBusType
  <2>5. /\ dmaRd' \in DmaRdType /\ dmaRd'.q = Tail(dmaRd.q) /\ dmaRd'.cmd = cmd /\ dmaRd'.rspq = dmaRd.rspq
        /\ dmaRd'.flight = dmaRd.flight
    BY <1>1, <2>1, <2>2, <2>3 DEF DmaRdType
  <2> QED
    <3>1. Dma!DmaIdleIsIdle'
      <4> DEFINE n == Len(Tail(dmaRd.q))
                 m == Len(cmd)
      <4>1. n \in Int /\ n = a - 1 /\ m = 1 /\ b = 0
        BY <1>3, <2>2, <2>3 DEF a, b
      <4> HIDE DEF n, m
      <4>2. f = n + m + c
        BY <1>3, <4>1
      <4> QED BY <2>5, <4>2 DEF Dma!DmaIdleIsIdle, f, c, n, m
    <3> QED BY <1>1, <2>1, <2>4, <2>5, <3>1 DEF DmaInv, DmaTypes
<1>6. CASE Dma!ReadSent
  <2> DEFINE new == dmaRd.rspq \o dmaRd.cmd
             none == <<>>
  <2>1. new \in Seq(DmaRdCmd) /\ Len(new) = Len(dmaRd.rspq) + Len(dmaRd.cmd) /\ Len(none) = 0
        /\ none \in Seq(DmaRdCmd)
    BY <1>1, Moved DEF DmaRdType
  <2>2. UNCHANGED <<dmaUsr, dmaWr, dmaBus, dmaRam>> /\ dmaRd' = [dmaRd EXCEPT !.cmd = none, !.rspq = new]
    BY <1>6 DEF Dma!ReadSent
  <2> HIDE DEF new, none
  <2>3. /\ dmaRd' \in DmaRdType /\ dmaRd'.q = dmaRd.q /\ dmaRd'.cmd = none /\ dmaRd'.rspq = new
        /\ dmaRd'.flight = dmaRd.flight
    BY <1>1, <2>1, <2>2 DEF DmaRdType
  <2> QED
    <3>1. Dma!DmaIdleIsIdle'
      <4> DEFINE n == Len(new)
                 m == Len(none)
      <4>1. n \in Int /\ n = c + b /\ m = 0
        BY <1>3, <2>1 DEF b, c
      <4> HIDE DEF n, m
      <4>2. f = a + m + n
        BY <1>3, <4>1
      <4> QED BY <2>3, <4>2 DEF Dma!DmaIdleIsIdle, f, a, n, m
    <3> QED BY <1>1, <2>2, <2>3, <3>1 DEF DmaInv, DmaTypes
<1>7. CASE Dma!ReadResp
  <2> DEFINE cmd == Head(dmaRd.rspq)
             beat == Head(dmaBus.rrsp)
             i == Len(dmaRd.part) + 1
             r == [cmd |-> cmd, data |-> beat.data, err |-> beat.err]
             res == Append(dmaRd.res, r)
             part == Append(dmaRd.part, beat)
             flight == dmaRd.flight - 1
  <2>1. /\ dmaRd.rspq # <<>> /\ dmaBus.rrsp # <<>> /\ UNCHANGED <<dmaUsr, dmaWr, dmaRam>>
        /\ dmaBus' = [dmaBus EXCEPT !.rrsp = Tail(dmaBus.rrsp)]
        /\ dmaRd' = IF i < cmd.len THEN [dmaRd EXCEPT !.part = part]
                    ELSE [dmaRd EXCEPT !.part = <<>>, !.rspq = Tail(dmaRd.rspq), !.flight = flight, !.res = res]
    BY <1>7 DEF Dma!ReadResp
  <2>2. /\ cmd \in DmaRdCmd /\ Tail(dmaRd.rspq) \in Seq(DmaRdCmd)
        /\ Len(Tail(dmaRd.rspq)) = Len(dmaRd.rspq) - 1
    BY <1>1, <2>1, Taken DEF DmaRdType
  <2>3. beat \in DmaRdBeat /\ Tail(dmaBus.rrsp) \in Seq(DmaRdBeat)
    BY <1>1, <2>1, Taken DEF DmaBusType
  <2>4. r \in [cmd : DmaRdCmd, data : Nat, err : BOOLEAN]
    <3> HIDE DEF cmd, beat
    <3> QED BY <2>2, <2>3 DEF DmaRdBeat
  <2>5. res \in Seq([cmd : DmaRdCmd, data : Nat, err : BOOLEAN]) /\ part \in Seq(DmaRdBeat) /\ flight \in Int
    <3> HIDE DEF r, beat
    <3> QED BY <1>1, <1>2, <2>3, <2>4, Given DEF DmaRdType
  <2>6. dmaBus' \in DmaBusType
    BY <1>1, <2>1, <2>3 DEF DmaBusType
  <2>7. flight = dmaRd.flight - 1
    OBVIOUS
  <2> HIDE DEF cmd, i, res, part, flight
  <2>8. CASE i < cmd.len
    <3>1. /\ dmaRd' \in DmaRdType /\ dmaRd'.q = dmaRd.q /\ dmaRd'.cmd = dmaRd.cmd
          /\ dmaRd'.rspq = dmaRd.rspq /\ dmaRd'.flight = dmaRd.flight
      BY <1>1, <2>1, <2>5, <2>8 DEF DmaRdType
    <3> QED BY <1>1, <2>1, <2>6, <3>1 DEF DmaInv, DmaTypes, Dma!DmaIdleIsIdle
  <2>9. CASE ~(i < cmd.len)
    <3>1. /\ dmaRd' \in DmaRdType /\ dmaRd'.q = dmaRd.q /\ dmaRd'.cmd = dmaRd.cmd
          /\ dmaRd'.rspq = Tail(dmaRd.rspq) /\ dmaRd'.flight = flight
      <4> DEFINE none == <<>>
                 rest == Tail(dmaRd.rspq)
                 m == [dmaRd EXCEPT !.part = none, !.rspq = rest]
      <4>1. none \in Seq(DmaRdBeat) /\ rest \in Seq(DmaRdCmd) /\ dmaRd' = [m EXCEPT !.flight = flight, !.res = res]
        BY <2>1, <2>2, <2>9
      <4> HIDE DEF none, rest
      <4>2. m \in DmaRdType /\ m.q = dmaRd.q /\ m.cmd = dmaRd.cmd /\ m.rspq = rest
        BY <1>1, <4>1 DEF DmaRdType
      <4> HIDE DEF m
      <4>3. /\ dmaRd' \in DmaRdType /\ dmaRd'.q = m.q /\ dmaRd'.cmd = m.cmd /\ dmaRd'.rspq = m.rspq
            /\ dmaRd'.flight = flight
        BY <2>5, <4>1, <4>2 DEF DmaRdType
      <4> QED BY <4>2, <4>3 DEF rest
    <3> QED
      <4>1. Dma!DmaIdleIsIdle'
        <5> DEFINE n == Len(Tail(dmaRd.rspq))
        <5>1. n \in Int /\ n = c - 1
          BY <1>3, <2>2 DEF c
        <5> HIDE DEF n
        <5>2. f - 1 = a + b + n
          BY <1>3, <5>1
        <5> QED BY <2>7, <3>1, <5>2 DEF Dma!DmaIdleIsIdle, f, a, b, n
      <4> QED BY <1>1, <2>1, <2>6, <3>1, <4>1 DEF DmaInv, DmaTypes
  <2> QED BY <2>8, <2>9
<1>8. CASE Dma!ReadRspGet
  <2> DEFINE r == Head(dmaRd.res)
             seen == IF r.err THEN dmaUsr.seen ELSE r.data
  <2>1. /\ dmaRd.res # <<>> /\ UNCHANGED <<dmaWr, dmaBus, dmaRam>>
        /\ dmaUsr' = [dmaUsr EXCEPT !.seen = seen]
        /\ dmaRd' = [dmaRd EXCEPT !.res = Tail(dmaRd.res)]
    BY <1>8 DEF Dma!ReadRspGet
  <2>2. /\ r \in [cmd : DmaRdCmd, data : Nat, err : BOOLEAN]
        /\ Tail(dmaRd.res) \in Seq([cmd : DmaRdCmd, data : Nat, err : BOOLEAN])
    BY <1>1, <2>1, Taken DEF DmaRdType
  <2>3. seen \in Nat
    BY <1>1, <2>2 DEF DmaUsrType
  <2> HIDE DEF seen
  <2>4. dmaUsr' \in DmaUsrType
    BY <1>1, <2>1, <2>3 DEF DmaUsrType
  <2>5. /\ dmaRd' \in DmaRdType /\ dmaRd'.q = dmaRd.q /\ dmaRd'.cmd = dmaRd.cmd
        /\ dmaRd'.rspq = dmaRd.rspq /\ dmaRd'.flight = dmaRd.flight
    BY <1>1, <2>1, <2>2 DEF DmaRdType
  <2> QED BY <1>1, <2>1, <2>4, <2>5 DEF DmaInv, DmaTypes, Dma!DmaIdleIsIdle
<1> QED BY <1>4, <1>5, <1>6, <1>7, <1>8

\* The memory, and a reset.
LEMMA DmaRamReads ==
  ASSUME DmaInv, Dma!RamRead \/ Dma!RamReadMem \/ Dma!RamReadRsp
  PROVE  DmaInv'
<1>1. /\ dmaUsr \in DmaUsrType /\ dmaWr \in DmaWrType /\ dmaRd \in DmaRdType
      /\ dmaBus \in DmaBusType /\ dmaRam \in DmaRamType /\ Dma!DmaIdleIsIdle
  BY DEF DmaInv, DmaTypes
<1>2. CASE Dma!RamRead
  <2>1. dmaBus.rreq # <<>> /\ UNCHANGED <<dmaUsr, dmaWr, dmaRd>>
    BY <1>2 DEF Dma!RamRead
  <2>2. Head(dmaBus.rreq) \in DmaRdCmd /\ Tail(dmaBus.rreq) \in Seq(DmaRdCmd)
    BY <1>1, <2>1, Taken DEF DmaBusType
  <2>3. Append(dmaRam.rq, Head(dmaBus.rreq)) \in Seq(DmaRdCmd)
    BY <1>1, <2>2, Given DEF DmaRamType
  <2>4. dmaRam' \in DmaRamType
    BY <1>1, <1>2, <2>3 DEF Dma!RamRead, DmaRamType
  <2>5. dmaBus' \in DmaBusType
    BY <1>1, <1>2, <2>2 DEF Dma!RamRead, DmaBusType
  <2> QED BY <1>1, <2>1, <2>4, <2>5 DEF DmaInv, DmaTypes, Dma!DmaIdleIsIdle
<1>3. CASE Dma!RamReadMem
  <2> DEFINE r == Head(dmaRam.rq)
             err == r.tag \in Faulty
             beats == Dma!Beats(r.tag, r.len)
             cur == [i \in 1 .. r.len |-> [tag |-> r.tag, sop |-> beats[i].sop, eop |-> beats[i].eop, err |-> err,
                                           data |-> IF err THEN 0 ELSE dmaRam.mem]]
  <2>1. /\ dmaRam.rq # <<>> /\ UNCHANGED <<dmaUsr, dmaWr, dmaRd, dmaBus>>
        /\ dmaRam' = [dmaRam EXCEPT !.rq = Tail(dmaRam.rq), !.cur = cur]
    BY <1>3 DEF Dma!RamReadMem
  <2>2. r \in DmaRdCmd /\ Tail(dmaRam.rq) \in Seq(DmaRdCmd) /\ dmaRam.mem \in Nat
    BY <1>1, <2>1, Taken DEF DmaRamType
  <2> HIDE DEF r
  <2>3. r.tag \in Nat /\ r.len \in Nat
    BY <2>2 DEF DmaRdCmd
  <2>4. cur \in Seq(DmaRdBeat)
    <3>1. \A i \in 1 .. r.len : beats[i] \in DmaBeat
      BY <2>3, DmaBeats
    <3> HIDE DEF beats
    <3>2. \A i \in 1 .. r.len : beats[i].sop \in BOOLEAN /\ beats[i].eop \in BOOLEAN
      BY <3>1 DEF DmaBeat
    <3>3. err \in BOOLEAN /\ (IF err THEN 0 ELSE dmaRam.mem) \in Nat
      BY <2>2
    <3> DEFINE e == err
               data == IF err THEN 0 ELSE dmaRam.mem
    <3> HIDE DEF e, data
    <3>4. e \in BOOLEAN /\ data \in Nat
      BY <3>3 DEF e, data
    <3>5. \A i \in 1 .. r.len :
            [tag |-> r.tag, sop |-> beats[i].sop, eop |-> beats[i].eop, err |-> e, data |-> data] \in DmaRdBeat
      BY <2>3, <3>2, <3>4 DEF DmaRdBeat
    <3> DEFINE c == [i \in 1 .. r.len |-> [tag |-> r.tag, sop |-> beats[i].sop, eop |-> beats[i].eop, err |-> e,
                                           data |-> data]]
    <3>6. c \in [1 .. r.len -> DmaRdBeat]
      BY <3>5
    <3>7. c \in Seq(DmaRdBeat)
      <4> HIDE DEF c
      <4> QED BY <2>3, <3>6
    <3>8. cur = c
      BY DEF e, data
    <3> QED BY <3>7, <3>8
  <2> HIDE DEF cur
  <2>5. dmaRam' \in DmaRamType
    BY <1>1, <2>1, <2>2, <2>4 DEF DmaRamType
  <2> QED BY <1>1, <2>1, <2>5 DEF DmaInv, DmaTypes, Dma!DmaIdleIsIdle
<1>4. CASE Dma!RamReadRsp
  <2>1. dmaRam.cur # <<>> /\ UNCHANGED <<dmaUsr, dmaWr, dmaRd>>
    BY <1>4 DEF Dma!RamReadRsp
  <2>2. Head(dmaRam.cur) \in DmaRdBeat /\ Tail(dmaRam.cur) \in Seq(DmaRdBeat)
    BY <1>1, <2>1, Taken DEF DmaRamType
  <2>3. Append(dmaBus.rrsp, Head(dmaRam.cur)) \in Seq(DmaRdBeat)
    BY <1>1, <2>2, Given DEF DmaBusType
  <2>4. dmaRam' \in DmaRamType
    BY <1>1, <1>4, <2>2 DEF Dma!RamReadRsp, DmaRamType
  <2>5. dmaBus' \in DmaBusType
    BY <1>1, <1>4, <2>3 DEF Dma!RamReadRsp, DmaBusType
  <2> QED BY <1>1, <2>1, <2>4, <2>5 DEF DmaInv, DmaTypes, Dma!DmaIdleIsIdle
<1> QED BY <1>2, <1>3, <1>4

LEMMA DmaReset ==
  ASSUME DmaInv, Dma!Reset
  PROVE  DmaInv'
<1> DEFINE flushed == dmaWr.q \o dmaWr.cmd \o dmaWr.rspq
           none == <<>>
<1>1. /\ dmaUsr \in DmaUsrType /\ dmaWr \in DmaWrType /\ dmaRd \in DmaRdType
      /\ dmaBus \in DmaBusType /\ dmaRam \in DmaRamType
  BY DEF DmaInv, DmaTypes
<1>2. PICK kept \in 0 .. Len(dmaBus.wrsp) :
        /\ dmaBus' = [wreq |-> none, wrsp |-> SubSeq(dmaBus.wrsp, 1, kept), rreq |-> none, rrsp |-> none]
        /\ dmaUsr' = [dmaUsr EXCEPT !.resets = @ + 1, !.hit = (flushed # <<>> \/ kept > 0)]
  BY DEF Dma!Reset
<1>3. /\ dmaWr' = [dmaWr EXCEPT !.q = none, !.cur = none, !.cmd = none, !.rspq = none, !.res = none]
      /\ dmaRd' = [dmaRd EXCEPT !.q = none, !.cmd = none, !.rspq = none, !.part = none, !.flight = 0]
      /\ dmaRam' = [dmaRam EXCEPT !.part = none, !.wput = none, !.wrsp = none, !.rq = none, !.cur = none]
  BY DEF Dma!Reset
<1>4. Len(none) = 0 /\ \A S : none \in Seq(S)
  OBVIOUS
<1> HIDE DEF none
<1>5. SubSeq(dmaBus.wrsp, 1, kept) \in Seq(Nat)
  <2>1. \A i \in 1 .. kept : dmaBus.wrsp[i] \in Nat
    BY <1>1 DEF DmaBusType
  <2>2. 1 \in Int /\ kept \in Int
    OBVIOUS
  <2> QED BY <2>1, <2>2, SubSeqProperties
<1>6. PICK hit \in BOOLEAN : dmaUsr' = [dmaUsr EXCEPT !.resets = @ + 1, !.hit = hit]
  <2>1. (flushed # <<>> \/ kept > 0) \in BOOLEAN
    OBVIOUS
  <2> QED BY <1>2, <2>1
<1>7. dmaUsr' \in DmaUsrType
  <2> DEFINE resets == dmaUsr.resets + 1
  <2>1. resets \in Nat /\ dmaUsr' = [dmaUsr EXCEPT !.resets = resets, !.hit = hit]
    BY <1>1, <1>6 DEF DmaUsrType
  <2> HIDE DEF resets
  <2> QED BY <1>1, <2>1 DEF DmaUsrType
<1>8. dmaBus' \in DmaBusType
  BY <1>2, <1>4, <1>5 DEF DmaBusType
<1>9. dmaWr' \in DmaWrType /\ dmaRam' \in DmaRamType
  BY <1>1, <1>3, <1>4 DEF DmaWrType, DmaRamType
<1>10. dmaRd' \in DmaRdType /\ dmaRd'.q = none /\ dmaRd'.cmd = none /\ dmaRd'.rspq = none /\ dmaRd'.flight = 0
  <2> DEFINE m == [dmaRd EXCEPT !.q = none, !.cmd = none, !.rspq = none]
             zero == 0
  <2>1. zero \in Int /\ dmaRd' = [m EXCEPT !.part = none, !.flight = zero]
    BY <1>3
  <2>2. m \in DmaRdType /\ m.q = none /\ m.cmd = none /\ m.rspq = none
    BY <1>1, <1>4 DEF DmaRdType
  <2> HIDE DEF m, zero
  <2>3. /\ dmaRd' \in DmaRdType /\ dmaRd'.q = m.q /\ dmaRd'.cmd = m.cmd /\ dmaRd'.rspq = m.rspq
        /\ dmaRd'.flight = zero
    BY <1>4, <2>1, <2>2 DEF DmaRdType
  <2> QED BY <2>2, <2>3 DEF zero
<1> QED BY <1>4, <1>7, <1>8, <1>9, <1>10 DEF DmaInv, DmaTypes, Dma!DmaIdleIsIdle

LEMMA DmaStep == DmaInv /\ [Dma!Next]_(Dma!vars) => DmaInv'
<1> SUFFICES ASSUME DmaInv, [Dma!Next]_(Dma!vars) PROVE DmaInv'
  OBVIOUS
<1>1. CASE Dma!Next
  BY <1>1, DmaWrites, DmaReads, DmaRamReads, DmaReset DEF Dma!Next, Dma!User, Dma!Master, Dma!Ram
<1>2. CASE UNCHANGED Dma!vars
  BY <1>2 DEF Dma!vars, DmaInv, DmaTypes, Dma!DmaIdleIsIdle
<1> QED BY <1>1, <1>2

-----------------------------------------------------------------------------
(* Responses of the DMA bus are told by their place. *)

Tags(s) == [i \in DOMAIN s |-> s[i].tag]

\* The commands that wait for a response are, in order, those that have been
\* answered but for the way back and those still on their way beat by beat.
DmaAnswers == (dmaBus.wrsp \o dmaRam.wrsp) \o dmaRam.wput
DmaWrCarried ==
  /\ dmaWr.cmd = <<>> => dmaWr.cur = <<>>
  /\ \E c, d \in Seq(DmaWrCmd) :
       /\ InBeats(Len(dmaRam.part), dmaBus.wreq \o dmaWr.cur, c)
       /\ dmaWr.rspq \o dmaWr.cmd = d \o c
       /\ Tags(d) = DmaAnswers

\* Those of the reads are on the way back beat by beat, in memory, or on their way.
DmaRdCarried ==
  \E c \in Seq(DmaRdCmd) :
    /\ InBeats(Len(dmaRd.part), dmaBus.rrsp \o dmaRam.cur, c)
    /\ dmaRd.rspq \o dmaRd.cmd = (c \o dmaRam.rq) \o dmaBus.rreq

\* A reset that hits a write leaves the next one a response too many.
DmaCarried ==
  /\ dmaAlarm => dmaUsr.hit
  /\ ~dmaUsr.hit => DmaWrCarried /\ DmaRdCarried

DmaQuiet == ~dmaAlarm' /\ dmaUsr'.hit = dmaUsr.hit

LEMMA TagsType ==
  ASSUME NEW s \in Seq(DmaWrCmd)
  PROVE  /\ Tags(s) \in Seq(Nat) /\ Len(Tags(s)) = Len(s) /\ Len(s) \in Nat
         /\ \A i \in 1 .. Len(s) : Tags(s)[i] = s[i].tag
         /\ \A e \in DmaWrCmd : e.tag \in Nat /\ Tags(Append(s, e)) = Append(Tags(s), e.tag)
         /\ s # <<>> => Tags(s) # <<>> /\ Head(Tags(s)) = Head(s).tag /\ Tags(Tail(s)) = Tail(Tags(s))
         /\ Tags(s) # <<>> => s # <<>>
<1>1. \A e \in DmaWrCmd : e.tag \in Nat
  BY DEF DmaWrCmd
<1>2. Len(s) \in Nat /\ DOMAIN s = 1 .. Len(s) /\ \A i \in 1 .. Len(s) : s[i] \in DmaWrCmd
  OBVIOUS
<1>3. ASSUME NEW t \in Seq(DmaWrCmd)
      PROVE  /\ Tags(t) \in Seq(Nat) /\ Len(Tags(t)) = Len(t) /\ Len(t) \in Nat
             /\ \A i \in 1 .. Len(t) : Tags(t)[i] = t[i].tag
  <2> DEFINE m == Len(t)
             f == [i \in 1 .. m |-> t[i].tag]
  <2>1. m \in Nat /\ DOMAIN t = 1 .. m /\ \A i \in 1 .. m : t[i].tag \in Nat
    BY <1>1
  <2>2. Tags(t) = f
    BY <2>1 DEF Tags
  <2> HIDE DEF m
  <2>3. f \in [1 .. m -> Nat] /\ \A i \in 1 .. m : f[i] = t[i].tag
    BY <2>1
  <2> HIDE DEF f
  <2>4. f \in Seq(Nat) /\ Len(f) = m
    BY <2>1, <2>3
  <2> QED BY <2>1, <2>2, <2>3, <2>4 DEF m
<1>4. ASSUME NEW e \in DmaWrCmd PROVE Tags(Append(s, e)) = Append(Tags(s), e.tag)
  <2> DEFINE n == Len(s)
             t == Append(s, e)
             a == Tags(t)
             b == Append(Tags(s), e.tag)
  <2>1. /\ t \in Seq(DmaWrCmd) /\ Len(t) = n + 1 /\ t[n + 1] = e /\ n \in Nat
        /\ \A i \in 1 .. n : t[i] = s[i]
    BY AppendProperties
  <2>2. Tags(s) \in Seq(Nat) /\ Len(Tags(s)) = n /\ \A i \in 1 .. n : Tags(s)[i] = s[i].tag
    BY <1>3
  <2>3. /\ b \in Seq(Nat) /\ Len(b) = n + 1 /\ b[n + 1] = e.tag
        /\ \A i \in 1 .. n : b[i] = s[i].tag
    <3> DEFINE u == Tags(s)
    <3> HIDE DEF u, n
    <3>1. u \in Seq(Nat) /\ Len(u) = n /\ e.tag \in Nat /\ \A i \in 1 .. n : u[i] = s[i].tag
      BY <1>1, <2>2 DEF u
    <3>2. /\ Append(u, e.tag) \in Seq(Nat) /\ Len(Append(u, e.tag)) = n + 1 /\ Append(u, e.tag)[n + 1] = e.tag
          /\ \A i \in 1 .. n : Append(u, e.tag)[i] = u[i]
      BY <3>1, AppendProperties
    <3> QED BY <3>1, <3>2 DEF u
  <2> HIDE DEF t
  <2>4. a \in Seq(Nat) /\ Len(a) = n + 1 /\ \A i \in 1 .. n + 1 : a[i] = t[i].tag
    BY <1>3, <2>1
  <2> HIDE DEF a, b, n
  <2>5. \A i \in 1 .. n + 1 : a[i] = b[i]
    <3> SUFFICES ASSUME NEW i \in 1 .. n + 1 PROVE a[i] = b[i]
      OBVIOUS
    <3>1. i = n + 1 \/ i \in 1 .. n
      BY <2>1
    <3> QED BY <2>1, <2>3, <2>4, <3>1
  <2>6. a = b
    BY <2>3, <2>4, <2>5, SeqEqual
  <2> QED BY <2>6 DEF a, b, t
<1>5. ASSUME s # <<>> PROVE Tags(s) # <<>> /\ Head(Tags(s)) = Head(s).tag /\ Tags(Tail(s)) = Tail(Tags(s))
  <2> DEFINE n == Len(s)
             t == Tail(s)
             u == Tags(s)
             a == Tags(t)
             b == Tail(u)
  <2>1. /\ t \in Seq(DmaWrCmd) /\ Len(t) = n - 1 /\ n \in Nat \ {0} /\ Head(s) = s[1]
        /\ \A i \in 1 .. n - 1 : t[i] = s[i + 1]
    BY <1>5, HeadTailProperties
  <2>2. u \in Seq(Nat) /\ Len(u) = n /\ \A i \in 1 .. n : u[i] = s[i].tag
    BY <1>3
  <2> HIDE DEF t, u, n
  <2>3. u # <<>> /\ Head(u) = s[1].tag
    BY <2>1, <2>2
  <2>4. b \in Seq(Nat) /\ Len(b) = n - 1 /\ \A i \in 1 .. n - 1 : b[i] = u[i + 1]
    BY <2>2, <2>3, HeadTailProperties
  <2>5. a \in Seq(Nat) /\ Len(a) = n - 1 /\ \A i \in 1 .. n - 1 : a[i] = t[i].tag
    BY <1>3, <2>1
  <2> HIDE DEF a, b
  <2>6. \A i \in 1 .. n - 1 : a[i] = b[i]
    <3> SUFFICES ASSUME NEW i \in 1 .. n - 1 PROVE a[i] = b[i]
      OBVIOUS
    <3> DEFINE j == i + 1
    <3>1. j \in 1 .. n
      BY <2>1
    <3>2. b[i] = u[j] /\ t[i] = s[j]
      BY <2>1, <2>4
    <3> HIDE DEF j
    <3> QED BY <2>2, <2>5, <3>1, <3>2
  <2>7. a = b
    BY <2>4, <2>5, <2>6, SeqEqual
  <2> QED BY <2>1, <2>3, <2>7 DEF a, b, t, u
<1>6. Tags(s) # <<>> => s # <<>>
  <2> DEFINE u == Tags(s)
  <2>1. u \in Seq(Nat) /\ Len(u) = Len(s)
    BY <1>3
  <2> HIDE DEF u
  <2>2. u # <<>> => s # <<>>
    BY <2>1, EmptySeq
  <2> QED BY <2>2 DEF u
<1> QED BY <1>1, <1>2, <1>3, <1>4, <1>5, <1>6

LEMMA DmaWrSame ==
  ASSUME DmaWrCarried,
         dmaWr'.cmd = dmaWr.cmd, dmaWr'.cur = dmaWr.cur, dmaWr'.rspq = dmaWr.rspq,
         dmaRam'.part = dmaRam.part, dmaRam'.wrsp = dmaRam.wrsp, dmaRam'.wput = dmaRam.wput,
         dmaBus'.wreq = dmaBus.wreq, dmaBus'.wrsp = dmaBus.wrsp
  PROVE  DmaWrCarried'
<1>1. DmaAnswers' = DmaAnswers
  BY DEF DmaAnswers
<1> QED BY <1>1 DEF DmaWrCarried

LEMMA DmaRdSame ==
  ASSUME DmaRdCarried,
         dmaRd'.part = dmaRd.part, dmaRd'.rspq = dmaRd.rspq, dmaRd'.cmd = dmaRd.cmd,
         dmaRam'.cur = dmaRam.cur, dmaRam'.rq = dmaRam.rq,
         dmaBus'.rrsp = dmaBus.rrsp, dmaBus'.rreq = dmaBus.rreq
  PROVE  DmaRdCarried'
  BY DEF DmaRdCarried

LEMMA DmaShape ==
  ASSUME DmaInv
  PROVE  /\ dmaUsr \in DmaUsrType /\ dmaWr \in DmaWrType /\ dmaRd \in DmaRdType
         /\ dmaBus \in DmaBusType /\ dmaRam \in DmaRamType
         /\ dmaWr.q \in Seq(DmaWrCmd) /\ dmaWr.cur \in Seq(DmaBeat) /\ dmaWr.cmd \in Seq(DmaWrCmd)
         /\ dmaWr.rspq \in Seq(DmaWrCmd)
         /\ dmaRd.q \in Seq(DmaRdCmd) /\ dmaRd.cmd \in Seq(DmaRdCmd) /\ dmaRd.rspq \in Seq(DmaRdCmd)
         /\ dmaRd.part \in Seq(DmaRdBeat)
         /\ dmaBus.wreq \in Seq(DmaBeat) /\ dmaBus.wrsp \in Seq(Nat) /\ dmaBus.rreq \in Seq(DmaRdCmd)
         /\ dmaBus.rrsp \in Seq(DmaRdBeat)
         /\ dmaRam.part \in Seq(DmaBeat) /\ dmaRam.wput \in Seq(Nat) /\ dmaRam.wrsp \in Seq(Nat)
         /\ dmaRam.rq \in Seq(DmaRdCmd) /\ dmaRam.cur \in Seq(DmaRdBeat)
  BY DEF DmaInv, DmaTypes, DmaWrType, DmaRdType, DmaBusType, DmaRamType

\* The beats of a packet are what InBeats says.
LEMMA DmaCut ==
  ASSUME NEW t \in Nat, NEW n \in Nat, NEW p, p.tag = t, p.len = n
  PROVE  /\ Dma!Beats(t, n) \in Seq(DmaBeat) /\ Len(Dma!Beats(t, n)) = n
         /\ \A i \in 1 .. n : BeatOf(Dma!Beats(t, n)[i], i, p)
<1> DEFINE b == Dma!Beats(t, n)
<1>1. b = [i \in 1 .. n |-> [tag |-> t, len |-> n, sop |-> i = 1, eop |-> i = n]]
  BY DEF Dma!Beats
<1>2. b \in Seq(DmaBeat)
  BY DmaBeats
<1> HIDE DEF b
<1>3. Len(b) = n
  BY <1>1, <1>2
<1>4. ASSUME NEW i \in 1 .. n PROVE BeatOf(b[i], i, p)
  <2> DEFINE beat == b[i]
  <2>1. beat = [tag |-> t, len |-> n, sop |-> i = 1, eop |-> i = n]
    BY <1>1
  <2> HIDE DEF beat
  <2>2. BeatOf(beat, i, p)
    BY <2>1 DEF BeatOf
  <2> QED BY <2>2 DEF beat
<1> QED BY <1>2, <1>3, <1>4 DEF b


\* What the user does changes neither.
LEMMA DmaUserCarries ==
  ASSUME DmaInv, DmaWrCarried, DmaRdCarried, ~dmaAlarm,
         Dma!WriteCall \/ Dma!WriteRspGet \/ Dma!ReadCall \/ Dma!ReadRspGet
  PROVE  DmaQuiet /\ DmaWrCarried' /\ DmaRdCarried'
<1>1. dmaUsr \in DmaUsrType /\ dmaWr \in DmaWrType /\ dmaRd \in DmaRdType
  BY DmaShape
<1>2. DmaQuiet /\ UNCHANGED <<dmaBus, dmaRam>>
  BY <1>1 DEF Dma!WriteCall, Dma!WriteRspGet, Dma!ReadCall, Dma!ReadRspGet, DmaQuiet, DmaUsrType
<1>3. dmaWr'.cmd = dmaWr.cmd /\ dmaWr'.cur = dmaWr.cur /\ dmaWr'.rspq = dmaWr.rspq
  BY <1>1 DEF Dma!WriteCall, Dma!WriteRspGet, Dma!ReadCall, Dma!ReadRspGet, DmaWrType
<1>4. dmaRd'.part = dmaRd.part /\ dmaRd'.rspq = dmaRd.rspq /\ dmaRd'.cmd = dmaRd.cmd
  BY <1>1 DEF Dma!WriteCall, Dma!WriteRspGet, Dma!ReadCall, Dma!ReadRspGet, DmaRdType
<1>5. DmaWrCarried'
  BY <1>2, <1>3, DmaWrSame
<1>6. DmaRdCarried'
  BY <1>2, <1>4, DmaRdSame
<1> QED BY <1>2, <1>5, <1>6

\* The master sends the next write beat by beat,
LEMMA DmaWriteGetCarries ==
  ASSUME DmaInv, DmaWrCarried, DmaRdCarried, ~dmaAlarm, Dma!WriteGet
  PROVE  DmaQuiet /\ DmaWrCarried' /\ DmaRdCarried'
<1> DEFINE p == Head(dmaWr.q)
           beats == Dma!Beats(p.tag, p.len)
           way == dmaBus.wreq \o dmaWr.cur
           rspq == dmaWr.rspq
<1>1. /\ dmaWr \in DmaWrType /\ dmaBus.wreq \in Seq(DmaBeat) /\ dmaWr.q \in Seq(DmaWrCmd)
      /\ rspq \in Seq(DmaWrCmd) /\ dmaRam.part \in Seq(DmaBeat)
  BY DmaShape
<1>2. /\ dmaWr.cmd = <<>> /\ dmaWr.q # <<>> /\ UNCHANGED <<dmaUsr, dmaRd, dmaBus, dmaRam, dmaAlarm>>
      /\ dmaWr' = [dmaWr EXCEPT !.q = Tail(dmaWr.q), !.cmd = <<p>>, !.cur = beats]
  BY DEF Dma!WriteGet
<1>3. p \in DmaWrCmd /\ p.tag \in Nat /\ p.len \in Nat \ {0} /\ <<p>> \in Seq(DmaWrCmd)
  <2>1. p \in DmaWrCmd
    BY <1>1, <1>2, Taken
  <2> HIDE DEF p
  <2> QED BY <2>1 DEF DmaWrCmd
<1> HIDE DEF p
<1>4. beats \in Seq(DmaBeat) /\ Len(beats) = p.len /\ \A i \in 1 .. p.len : BeatOf(beats[i], i, p)
  BY <1>3, DmaCut
<1> HIDE DEF beats
<1>5. dmaWr'.cmd = <<p>> /\ dmaWr'.cur = beats /\ dmaWr'.rspq = rspq
  BY <1>1, <1>2 DEF DmaWrType
<1>6. way = dmaBus.wreq /\ rspq \o dmaWr.cmd = rspq
  <2>1. dmaWr.cur = <<>>
    BY <1>2 DEF DmaWrCarried
  <2> HIDE DEF rspq
  <2> QED BY <1>1, <1>2, <2>1, ConcatEmptySeq
<1>7. PICK c, d \in Seq(DmaWrCmd) :
        InBeats(Len(dmaRam.part), way, c) /\ rspq = d \o c /\ Tags(d) = DmaAnswers
  BY <1>6 DEF DmaWrCarried
<1> HIDE DEF way
<1> DEFINE e == Append(c, p)
<1>8. InBeats(Len(dmaRam.part), dmaBus.wreq \o beats, e)
  <2> DEFINE l == Len(dmaRam.part)
             wreq == dmaBus.wreq
  <2>1. l \in Nat /\ wreq \in Seq(DmaBeat) /\ InBeats(l, wreq, c)
    BY <1>1, <1>6, <1>7
  <2> HIDE DEF l, wreq
  <2>2. \A r \in DmaWrCmd : r.len \in Nat \ {0}
    BY DEF DmaWrCmd
  <2>3. InBeats(l, wreq \o beats, Append(c, p))
    BY <1>3, <1>4, <2>1, <2>2, BeatsMore
  <2> QED BY <2>3 DEF l, wreq
<1>9. rspq \o <<p>> = d \o e /\ e \in Seq(DmaWrCmd)
  <2>1. d \o Append(c, p) = Append(d \o c, p) /\ Append(c, p) \in Seq(DmaWrCmd)
    BY <1>3, <1>7, PutAfter, SMTT(40)
  <2>2. rspq \o <<p>> = Append(rspq, p)
    <3> HIDE DEF rspq
    <3> QED BY <1>1, <1>3, AppendIsConcat
  <2> QED BY <1>7, <2>1, <2>2
<1> HIDE DEF e
<1>10. DmaWrCarried'
  <2>1. /\ InBeats(Len(dmaRam'.part), dmaBus'.wreq \o dmaWr'.cur, e)
        /\ dmaWr'.rspq \o dmaWr'.cmd = d \o e /\ Tags(d) = DmaAnswers'
    BY <1>2, <1>5, <1>7, <1>8, <1>9 DEF DmaAnswers
  <2>2. dmaWr'.cmd # <<>>
    BY <1>5
  <2> QED BY <1>7, <1>9, <2>1, <2>2 DEF DmaWrCarried
<1>11. DmaRdCarried'
  BY <1>2, DmaRdSame
<1> QED BY <1>2, <1>10, <1>11 DEF DmaQuiet

LEMMA DmaWriteSendCarries ==
  ASSUME DmaInv, DmaWrCarried, DmaRdCarried, ~dmaAlarm, Dma!WriteBeat \/ Dma!WriteSent
  PROVE  DmaQuiet /\ DmaWrCarried' /\ DmaRdCarried'
<1> DEFINE wreq == dmaBus.wreq
           cur == dmaWr.cur
           rspq == dmaWr.rspq
           cmd == dmaWr.cmd
<1>1. /\ dmaWr \in DmaWrType /\ dmaBus \in DmaBusType /\ wreq \in Seq(DmaBeat) /\ cur \in Seq(DmaBeat)
      /\ rspq \in Seq(DmaWrCmd) /\ cmd \in Seq(DmaWrCmd)
  BY DmaShape
<1>2. CASE Dma!WriteBeat
  <2> DEFINE new == Append(wreq, Head(cur))
             rest == Tail(cur)
  <2>1. /\ cur # <<>> /\ UNCHANGED <<dmaUsr, dmaRd, dmaRam, dmaAlarm>>
        /\ dmaBus' = [dmaBus EXCEPT !.wreq = new] /\ dmaWr' = [dmaWr EXCEPT !.cur = rest]
    BY <1>2 DEF Dma!WriteBeat
  <2>2. new \o rest = wreq \o cur
    <3> HIDE DEF wreq, cur
    <3> QED BY <1>1, <2>1, MoveOn
  <2> HIDE DEF new, rest
  <2>3. dmaBus'.wreq = new /\ dmaBus'.wrsp = dmaBus.wrsp /\ dmaBus'.rrsp = dmaBus.rrsp /\ dmaBus'.rreq = dmaBus.rreq
        /\ dmaWr'.cur = rest /\ dmaWr'.cmd = cmd /\ dmaWr'.rspq = rspq
    BY <1>1, <2>1 DEF DmaBusType, DmaWrType
  <2>4. dmaBus'.wreq \o dmaWr'.cur = dmaBus.wreq \o dmaWr.cur
    BY <2>2, <2>3
  <2>5. DmaAnswers' = DmaAnswers
    BY <2>1, <2>3 DEF DmaAnswers
  <2>6. cmd # <<>>
    BY <2>1 DEF DmaWrCarried
  <2>7. DmaWrCarried'
    BY <2>1, <2>3, <2>4, <2>5, <2>6 DEF DmaWrCarried
  <2>8. DmaRdCarried'
    BY <2>1, <2>3, DmaRdSame
  <2> QED BY <2>1, <2>7, <2>8 DEF DmaQuiet
<1>3. CASE Dma!WriteSent
  <2> DEFINE new == rspq \o cmd
             empty == <<>>
  <2>1. /\ cur = <<>> /\ UNCHANGED <<dmaUsr, dmaRd, dmaBus, dmaRam, dmaAlarm>>
        /\ dmaWr' = [dmaWr EXCEPT !.cmd = empty, !.rspq = new]
    BY <1>3 DEF Dma!WriteSent
  <2>2. new \in Seq(DmaWrCmd)
    BY <1>1, Moved
  <2> HIDE DEF new
  <2>3. new \o empty = new
    BY <2>2, ConcatEmptySeq
  <2> HIDE DEF empty
  <2>4. dmaWr'.cmd = empty /\ dmaWr'.rspq = new /\ dmaWr'.cur = cur
    BY <1>1, <2>1 DEF DmaWrType
  <2>5. dmaWr'.rspq \o dmaWr'.cmd = dmaWr.rspq \o dmaWr.cmd
    BY <2>3, <2>4 DEF new
  <2>6. DmaAnswers' = DmaAnswers
    BY <2>1 DEF DmaAnswers
  <2>7. DmaWrCarried'
    BY <2>1, <2>4, <2>5, <2>6 DEF DmaWrCarried
  <2>8. DmaRdCarried'
    BY <2>1, DmaRdSame
  <2> QED BY <2>1, <2>7, <2>8 DEF DmaQuiet
<1> QED BY <1>2, <1>3

\* memory takes a beat and finds nothing wrong with it,
LEMMA DmaRamWriteCarries ==
  ASSUME DmaInv, DmaWrCarried, DmaRdCarried, ~dmaAlarm, Dma!RamWrite
  PROVE  DmaQuiet /\ DmaWrCarried' /\ DmaRdCarried'
<1> DEFINE wreq == dmaBus.wreq
           cur == dmaWr.cur
           beat == Head(wreq)
           part == dmaRam.part
           l == Len(part)
           way == wreq \o cur
           rest == Tail(wreq) \o cur
           front == dmaBus.wrsp \o dmaRam.wrsp
<1>1. /\ dmaRam \in DmaRamType /\ dmaBus \in DmaBusType /\ wreq \in Seq(DmaBeat) /\ cur \in Seq(DmaBeat)
      /\ part \in Seq(DmaBeat) /\ dmaWr.rspq \in Seq(DmaWrCmd) /\ dmaWr.cmd \in Seq(DmaWrCmd)
      /\ dmaBus.wrsp \in Seq(Nat) /\ dmaRam.wrsp \in Seq(Nat)
  BY DmaShape
<1>2. /\ wreq # <<>> /\ dmaRam.wput = <<>> /\ UNCHANGED <<dmaUsr, dmaWr, dmaRd>>
      /\ dmaBus' = [dmaBus EXCEPT !.wreq = Tail(wreq)]
      /\ dmaAlarm' = Dma!Malformed(beat, part)
      /\ dmaRam' = IF beat.eop THEN [dmaRam EXCEPT !.part = <<>>, !.mem = beat.tag, !.wput = <<beat.tag>>]
                   ELSE [dmaRam EXCEPT !.part = Append(part, beat)]
  BY DEF Dma!RamWrite
<1>3. beat \in DmaBeat /\ way \in Seq(DmaBeat) /\ way # <<>> /\ Head(way) = beat /\ Tail(way) = rest
  <2> HIDE DEF wreq, cur
  <2> QED BY <1>1, <1>2, Taken, TakeFirst
<1>4. l \in Nat /\ (l = 0 <=> part = <<>>)
  <2> HIDE DEF part
  <2> QED BY <1>1, EmptySeq
<1>5. PICK c, d \in Seq(DmaWrCmd) :
        InBeats(l, way, c) /\ dmaWr.rspq \o dmaWr.cmd = d \o c /\ Tags(d) = DmaAnswers
  BY DEF DmaWrCarried
<1> HIDE DEF l, beat, way, rest
<1> DEFINE p == Head(c)
           n == p.len
<1>6. /\ c # <<>> /\ l + 1 <= n /\ BeatOf(beat, l + 1, p)
      /\ l + 1 = n => InBeats(0, rest, Tail(c))
      /\ l + 1 # n => InBeats(l + 1, rest, c)
  <2>1. \A r \in DmaWrCmd : r.len \in Nat \ {0}
    BY DEF DmaWrCmd
  <2>2. /\ c # <<>> /\ l + 1 <= Head(c).len /\ BeatOf(Head(way), l + 1, Head(c))
        /\ l + 1 = Head(c).len => InBeats(0, Tail(way), Tail(c))
        /\ l + 1 # Head(c).len => InBeats(l + 1, Tail(way), c)
    BY <1>3, <1>4, <1>5, <2>1, BeatsLess
  <2> QED BY <1>3, <2>2
<1>7. p \in DmaWrCmd /\ Tail(c) \in Seq(DmaWrCmd) /\ p.tag \in Nat /\ n \in Nat
  <2>1. p \in DmaWrCmd /\ Tail(c) \in Seq(DmaWrCmd)
    BY <1>5, <1>6, Taken
  <2> HIDE DEF p
  <2> QED BY <2>1 DEF DmaWrCmd
<1> HIDE DEF p, n
<1>8. (beat.sop <=> l + 1 = 1) /\ (beat.eop <=> l + 1 = n) /\ beat.len = n /\ beat.tag = p.tag
  BY <1>3, <1>6 DEF BeatOf, DmaBeat, n
<1>9. ~dmaAlarm'
  <2>1. l = Len(part)
    BY DEF l
  <2> HIDE DEF part
  <2>2. ~Dma!Malformed(beat, part)
    BY <1>4, <1>7, <1>8, <2>1 DEF Dma!Malformed, part
  <2> QED BY <1>2, <2>2 DEF part
<1>10. /\ dmaBus'.wreq = Tail(wreq) /\ dmaBus'.wrsp = dmaBus.wrsp /\ dmaBus'.rrsp = dmaBus.rrsp
       /\ dmaBus'.rreq = dmaBus.rreq
  BY <1>1, <1>2 DEF DmaBusType
<1>11. dmaRam'.wrsp = dmaRam.wrsp /\ dmaRam'.cur = dmaRam.cur /\ dmaRam'.rq = dmaRam.rq
  BY <1>1, <1>2 DEF DmaRamType
<1>12. DmaRdCarried'
  BY <1>2, <1>10, <1>11, DmaRdSame
<1>13. front \in Seq(Nat) /\ DmaAnswers = front \o <<>> /\ front \o <<>> = front
  <2>1. front \in Seq(Nat)
    BY <1>1, Moved
  <2>2. DmaAnswers = front \o <<>>
    BY <1>2 DEF DmaAnswers
  <2> HIDE DEF front
  <2> QED BY <2>1, <2>2, ConcatEmptySeq
<1>14. DmaAnswers' = front \o dmaRam'.wput
  BY <1>10, <1>11 DEF DmaAnswers
<1>15. dmaBus'.wreq \o dmaWr'.cur = rest
  BY <1>2, <1>10 DEF rest
<1> HIDE DEF front, wreq, cur
<1>16. CASE beat.eop
  <2> DEFINE tag == beat.tag
             put == <<tag>>
             none == <<>>
             e == Append(d, p)
  <2>1. tag \in Nat /\ tag = p.tag
    BY <1>7, <1>8
  <2>2. dmaRam' = [dmaRam EXCEPT !.part = none, !.mem = tag, !.wput = put]
    BY <1>2, <1>16
  <2>3. Len(none) = 0
    OBVIOUS
  <2> HIDE DEF tag, none
  <2>4. dmaRam'.part = none /\ dmaRam'.wput = put
    BY <1>1, <2>2 DEF DmaRamType
  <2>5. InBeats(Len(dmaRam'.part), dmaBus'.wreq \o dmaWr'.cur, Tail(c))
    BY <1>6, <1>8, <1>15, <1>16, <2>3, <2>4
  <2>6. e \in Seq(DmaWrCmd) /\ e \o Tail(c) = d \o c
    BY <1>5, <1>6, MoveOn, SMTT(40) DEF p
  <2>7. Tags(e) = DmaAnswers'
    <3>1. Tags(e) = Append(Tags(d), p.tag)
      BY <1>5, <1>7, TagsType
    <3>2. front \o put = Append(front, tag)
      BY <1>13, <2>1, AppendIsConcat
    <3> QED BY <1>5, <1>13, <1>14, <2>1, <2>4, <3>1, <3>2
  <2> HIDE DEF e
  <2>8. DmaWrCarried'
    <3>1. dmaWr'.rspq \o dmaWr'.cmd = e \o Tail(c)
      BY <1>2, <1>5, <2>6
    <3>2. dmaWr'.cmd = <<>> => dmaWr'.cur = <<>>
      BY <1>2 DEF DmaWrCarried
    <3> QED BY <1>7, <2>5, <2>6, <2>7, <3>1, <3>2 DEF DmaWrCarried
  <2> QED BY <1>2, <1>9, <1>12, <2>8 DEF DmaQuiet
<1>17. CASE ~beat.eop
  <2> DEFINE more == Append(part, beat)
  <2>1. dmaRam' = [dmaRam EXCEPT !.part = more]
    BY <1>2, <1>17
  <2>2. Len(more) = l + 1
    BY <1>1, <1>3, Given DEF l
  <2> HIDE DEF more
  <2>3. dmaRam'.part = more /\ dmaRam'.wput = dmaRam.wput
    BY <1>1, <2>1 DEF DmaRamType
  <2>4. InBeats(Len(dmaRam'.part), dmaBus'.wreq \o dmaWr'.cur, c)
    BY <1>6, <1>8, <1>15, <1>17, <2>2, <2>3
  <2>5. Tags(d) = DmaAnswers'
    BY <1>2, <1>5, <1>13, <1>14, <2>3
  <2>6. DmaWrCarried'
    <3>1. dmaWr'.rspq \o dmaWr'.cmd = d \o c
      BY <1>2, <1>5
    <3>2. dmaWr'.cmd = <<>> => dmaWr'.cur = <<>>
      BY <1>2 DEF DmaWrCarried
    <3> QED BY <1>5, <2>4, <2>5, <3>1, <3>2 DEF DmaWrCarried
  <2> QED BY <1>2, <1>9, <1>12, <2>6 DEF DmaQuiet
<1> QED BY <1>16, <1>17


\* the number of what is stored goes back,
LEMMA DmaRamAnswerCarries ==
  ASSUME DmaInv, DmaWrCarried, DmaRdCarried, ~dmaAlarm, Dma!RamWritten \/ Dma!RamWriteRsp
  PROVE  DmaQuiet /\ DmaWrCarried' /\ DmaRdCarried'
<1> DEFINE x == dmaBus.wrsp
           y == dmaRam.wrsp
           z == dmaRam.wput
<1>1. /\ dmaRam \in DmaRamType /\ dmaBus \in DmaBusType
      /\ x \in Seq(Nat) /\ y \in Seq(Nat) /\ z \in Seq(Nat)
  BY DmaShape
<1>2. CASE Dma!RamWritten
  <2> DEFINE new == y \o z
             empty == <<>>
             all == x \o new
  <2>1. /\ UNCHANGED <<dmaUsr, dmaWr, dmaRd, dmaBus, dmaAlarm>>
        /\ dmaRam' = [dmaRam EXCEPT !.wput = empty, !.wrsp = new]
    BY <1>2 DEF Dma!RamWritten
  <2>2. (x \o y) \o z = x \o new /\ new \in Seq(Nat)
    <3> HIDE DEF x, y, z
    <3> QED BY <1>1, SeqAssoc, SMTT(40)
  <2> HIDE DEF new
  <2>3. all \in Seq(Nat)
    <3> HIDE DEF x
    <3> QED BY <1>1, <2>2, SeqAssoc
  <2> HIDE DEF all
  <2>4. all \o empty = all
    BY <2>3, ConcatEmptySeq
  <2> HIDE DEF empty
  <2>5. /\ dmaRam'.wput = empty /\ dmaRam'.wrsp = new /\ dmaRam'.part = dmaRam.part
        /\ dmaRam'.cur = dmaRam.cur /\ dmaRam'.rq = dmaRam.rq
    BY <1>1, <2>1 DEF DmaRamType
  <2>6. DmaAnswers' = DmaAnswers
    BY <2>1, <2>2, <2>4, <2>5 DEF DmaAnswers, all
  <2>7. DmaWrCarried'
    BY <2>1, <2>5, <2>6 DEF DmaWrCarried
  <2>8. DmaRdCarried'
    BY <2>1, <2>5, DmaRdSame
  <2> QED BY <2>1, <2>7, <2>8 DEF DmaQuiet
<1>3. CASE Dma!RamWriteRsp
  <2> DEFINE new == Append(x, Head(y))
             rest == Tail(y)
  <2>1. /\ y # <<>> /\ UNCHANGED <<dmaUsr, dmaWr, dmaRd, dmaAlarm>>
        /\ dmaBus' = [dmaBus EXCEPT !.wrsp = new] /\ dmaRam' = [dmaRam EXCEPT !.wrsp = rest]
    BY <1>3 DEF Dma!RamWriteRsp
  <2>2. new \o rest = x \o y
    <3> HIDE DEF x, y
    <3> QED BY <1>1, <2>1, MoveOn
  <2> HIDE DEF new, rest
  <2>3. /\ dmaRam'.wrsp = rest /\ dmaRam'.wput = z /\ dmaRam'.part = dmaRam.part
        /\ dmaRam'.cur = dmaRam.cur /\ dmaRam'.rq = dmaRam.rq
        /\ dmaBus'.wrsp = new /\ dmaBus'.wreq = dmaBus.wreq /\ dmaBus'.rrsp = dmaBus.rrsp
        /\ dmaBus'.rreq = dmaBus.rreq
    BY <1>1, <2>1 DEF DmaRamType, DmaBusType
  <2>4. DmaAnswers' = DmaAnswers
    BY <2>2, <2>3 DEF DmaAnswers
  <2>5. DmaWrCarried'
    BY <2>1, <2>3, <2>4 DEF DmaWrCarried
  <2>6. DmaRdCarried'
    BY <2>1, <2>3, DmaRdSame
  <2> QED BY <2>1, <2>5, <2>6 DEF DmaQuiet
<1> QED BY <1>2, <1>3

\* and the oldest of the commands is the one it answers.
LEMMA DmaWriteRespCarries ==
  ASSUME DmaInv, DmaWrCarried, DmaRdCarried, ~dmaAlarm, Dma!WriteResp
  PROVE  DmaQuiet /\ DmaWrCarried' /\ DmaRdCarried'
<1> DEFINE x == dmaBus.wrsp
           y == dmaRam.wrsp
           z == dmaRam.wput
           rspq == dmaWr.rspq
           cmd == dmaWr.cmd
<1>1. /\ dmaWr \in DmaWrType /\ dmaBus \in DmaBusType
      /\ x \in Seq(Nat) /\ y \in Seq(Nat) /\ z \in Seq(Nat)
      /\ rspq \in Seq(DmaWrCmd) /\ cmd \in Seq(DmaWrCmd)
  BY DmaShape
<1>2. /\ rspq # <<>> /\ x # <<>> /\ UNCHANGED <<dmaUsr, dmaRd, dmaRam>>
      /\ dmaWr' = [dmaWr EXCEPT !.rspq = Tail(rspq),
                     !.res = IF Head(rspq).rsp THEN Append(@, Head(x)) ELSE @]
      /\ dmaAlarm' = (Head(x) # Head(rspq).tag)
      /\ dmaBus' = [dmaBus EXCEPT !.wrsp = Tail(x)]
  BY DEF Dma!WriteResp
<1>3. PICK c, d \in Seq(DmaWrCmd) :
        /\ InBeats(Len(dmaRam.part), dmaBus.wreq \o dmaWr.cur, c)
        /\ rspq \o cmd = d \o c /\ Tags(d) = DmaAnswers
  BY DEF DmaWrCarried
<1>4. dmaWr'.rspq = Tail(rspq) /\ dmaWr'.cmd = cmd /\ dmaWr'.cur = dmaWr.cur
  BY <1>1, <1>2 DEF DmaWrType
<1>5. /\ dmaBus'.wrsp = Tail(x) /\ dmaBus'.wreq = dmaBus.wreq /\ dmaBus'.rrsp = dmaBus.rrsp
      /\ dmaBus'.rreq = dmaBus.rreq
  BY <1>1, <1>2 DEF DmaBusType
<1>6. DmaAnswers = (x \o y) \o z /\ DmaAnswers' = (Tail(x) \o y) \o z
  BY <1>2, <1>5 DEF DmaAnswers
<1> HIDE DEF x, y, z, rspq, cmd
<1>7. DmaAnswers # <<>> /\ Head(DmaAnswers) = Head(x) /\ DmaAnswers' = Tail(DmaAnswers)
  <2> DEFINE u == x \o y
             t == Tail(x) \o y
  <2>1. u \in Seq(Nat) /\ u # <<>> /\ Head(u) = Head(x) /\ Tail(u) = t
    BY <1>1, <1>2, TakeFirst
  <2> HIDE DEF u, t
  <2>2. u \o z # <<>> /\ Head(u \o z) = Head(u) /\ Tail(u \o z) = Tail(u) \o z
    BY <1>1, <2>1, TakeFirst
  <2> QED BY <1>6, <2>1, <2>2 DEF u, t
<1>8. d # <<>> /\ Head(d).tag = Head(x) /\ Tags(Tail(d)) = DmaAnswers'
  BY <1>3, <1>7, TagsType
<1>9. Head(rspq) = Head(d) /\ Tail(rspq) \o cmd = Tail(d) \o c
  <2>1. Head(rspq \o cmd) = Head(rspq) /\ Tail(rspq \o cmd) = Tail(rspq) \o cmd
    BY <1>1, <1>2, TakeFirst
  <2>2. Head(d \o c) = Head(d) /\ Tail(d \o c) = Tail(d) \o c
    BY <1>3, <1>8, TakeFirst
  <2> QED BY <1>3, <2>1, <2>2
<1>10. ~dmaAlarm'
  BY <1>2, <1>8, <1>9
<1>11. Tail(d) \in Seq(DmaWrCmd)
  BY <1>3, <1>8, Taken
<1>12. DmaWrCarried'
  <2>1. dmaWr'.cmd = <<>> => dmaWr'.cur = <<>>
    BY <1>4 DEF DmaWrCarried, cmd
  <2>2. InBeats(Len(dmaRam'.part), dmaBus'.wreq \o dmaWr'.cur, c)
    BY <1>2, <1>3, <1>4, <1>5
  <2>3. dmaWr'.rspq \o dmaWr'.cmd = Tail(d) \o c
    BY <1>4, <1>9
  <2> QED BY <1>3, <1>8, <1>11, <2>1, <2>2, <2>3 DEF DmaWrCarried
<1>13. DmaRdCarried'
  BY <1>2, <1>5, DmaRdSame
<1> QED BY <1>2, <1>10, <1>12, <1>13 DEF DmaQuiet

\* A read is asked for,
LEMMA DmaReadReqCarries ==
  ASSUME DmaInv, DmaWrCarried, DmaRdCarried, ~dmaAlarm, Dma!ReadReq \/ Dma!ReadSent
  PROVE  DmaQuiet /\ DmaWrCarried' /\ DmaRdCarried'
<1> DEFINE rspq == dmaRd.rspq
           cmd == dmaRd.cmd
           rreq == dmaBus.rreq
<1>1. /\ dmaRd \in DmaRdType /\ dmaBus \in DmaBusType /\ dmaRd.q \in Seq(DmaRdCmd)
      /\ rspq \in Seq(DmaRdCmd) /\ cmd \in Seq(DmaRdCmd) /\ rreq \in Seq(DmaRdCmd)
      /\ dmaRam.rq \in Seq(DmaRdCmd)
  BY DmaShape
<1>2. PICK c \in Seq(DmaRdCmd) :
        /\ InBeats(Len(dmaRd.part), dmaBus.rrsp \o dmaRam.cur, c)
        /\ rspq \o cmd = (c \o dmaRam.rq) \o rreq
  BY DEF DmaRdCarried
<1>3. CASE Dma!ReadReq
  <2> DEFINE p == Head(dmaRd.q)
             one == <<p>>
             new == Append(rreq, p)
             way == c \o dmaRam.rq
  <2>1. /\ cmd = <<>> /\ dmaRd.q # <<>> /\ UNCHANGED <<dmaUsr, dmaWr, dmaRam, dmaAlarm>>
        /\ dmaBus' = [dmaBus EXCEPT !.rreq = new]
        /\ dmaRd' = [dmaRd EXCEPT !.q = Tail(dmaRd.q), !.cmd = one]
    BY <1>3 DEF Dma!ReadReq
  <2>2. p \in DmaRdCmd
    BY <1>1, <2>1, Taken
  <2> HIDE DEF p
  <2>3. way \in Seq(DmaRdCmd)
    BY <1>1, <1>2, Moved
  <2> HIDE DEF way
  <2>4. rspq \o one = way \o new
    <3> HIDE DEF rspq, rreq
    <3>1. rspq \o cmd = rspq
      <4> HIDE DEF cmd
      <4> QED BY <1>1, <2>1, ConcatEmptySeq
    <3>2. rspq \o one = Append(rspq, p)
      BY <1>1, <2>2, AppendIsConcat
    <3>3. way \o Append(rreq, p) = Append(way \o rreq, p)
      BY <1>1, <2>2, <2>3, PutAfter, SMTT(40)
    <3> QED BY <1>2, <3>1, <3>2, <3>3 DEF way
  <2> HIDE DEF new, one
  <2>5. /\ dmaRd'.cmd = one /\ dmaRd'.rspq = rspq /\ dmaRd'.part = dmaRd.part
        /\ dmaBus'.rreq = new /\ dmaBus'.rrsp = dmaBus.rrsp /\ dmaBus'.wreq = dmaBus.wreq
        /\ dmaBus'.wrsp = dmaBus.wrsp
    BY <1>1, <2>1 DEF DmaRdType, DmaBusType
  <2>6. InBeats(Len(dmaRd'.part), dmaBus'.rrsp \o dmaRam'.cur, c)
    BY <1>2, <2>1, <2>5
  <2>7. dmaRd'.rspq \o dmaRd'.cmd = (c \o dmaRam'.rq) \o dmaBus'.rreq
    BY <2>1, <2>4, <2>5 DEF way
  <2>8. DmaRdCarried'
    BY <1>2, <2>6, <2>7 DEF DmaRdCarried
  <2>9. DmaWrCarried'
    BY <2>1, <2>5, DmaWrSame
  <2> QED BY <2>1, <2>8, <2>9 DEF DmaQuiet
<1>4. CASE Dma!ReadSent
  <2> DEFINE new == rspq \o cmd
             empty == <<>>
  <2>1. /\ UNCHANGED <<dmaUsr, dmaWr, dmaBus, dmaRam, dmaAlarm>>
        /\ dmaRd' = [dmaRd EXCEPT !.cmd = empty, !.rspq = new]
    BY <1>4 DEF Dma!ReadSent
  <2>2. new \in Seq(DmaRdCmd)
    BY <1>1, Moved
  <2> HIDE DEF new
  <2>3. new \o empty = new
    BY <2>2, ConcatEmptySeq
  <2> HIDE DEF empty
  <2>4. dmaRd'.cmd = empty /\ dmaRd'.rspq = new /\ dmaRd'.part = dmaRd.part
    BY <1>1, <2>1 DEF DmaRdType
  <2>5. dmaRd'.rspq \o dmaRd'.cmd = rspq \o cmd
    BY <2>3, <2>4 DEF new
  <2>6. InBeats(Len(dmaRd'.part), dmaBus'.rrsp \o dmaRam'.cur, c)
    BY <1>2, <2>1, <2>4
  <2>7. dmaRd'.rspq \o dmaRd'.cmd = (c \o dmaRam'.rq) \o dmaBus'.rreq
    BY <1>2, <2>1, <2>5
  <2>8. DmaRdCarried'
    BY <1>2, <2>6, <2>7 DEF DmaRdCarried
  <2>9. DmaWrCarried'
    BY <2>1, DmaWrSame
  <2> QED BY <2>1, <2>8, <2>9 DEF DmaQuiet
<1> QED BY <1>3, <1>4


\* memory answers it beat by beat,
LEMMA DmaRamReadCarries ==
  ASSUME DmaInv, DmaWrCarried, DmaRdCarried, ~dmaAlarm, Dma!RamRead \/ Dma!RamReadRsp
  PROVE  DmaQuiet /\ DmaWrCarried' /\ DmaRdCarried'
<1> DEFINE asked == dmaRd.rspq \o dmaRd.cmd
           rreq == dmaBus.rreq
           rrsp == dmaBus.rrsp
           rq == dmaRam.rq
           cur == dmaRam.cur
<1>1. /\ dmaRam \in DmaRamType /\ dmaBus \in DmaBusType
      /\ rreq \in Seq(DmaRdCmd) /\ rq \in Seq(DmaRdCmd)
      /\ rrsp \in Seq(DmaRdBeat) /\ cur \in Seq(DmaRdBeat)
  BY DmaShape
<1>2. PICK c \in Seq(DmaRdCmd) : InBeats(Len(dmaRd.part), rrsp \o cur, c) /\ asked = (c \o rq) \o rreq
  BY DEF DmaRdCarried
<1>3. CASE Dma!RamRead
  <2> DEFINE new == Append(rq, Head(rreq))
             rest == Tail(rreq)
  <2>1. /\ rreq # <<>> /\ UNCHANGED <<dmaUsr, dmaWr, dmaRd, dmaAlarm>>
        /\ dmaRam' = [dmaRam EXCEPT !.rq = new] /\ dmaBus' = [dmaBus EXCEPT !.rreq = rest]
    BY <1>3 DEF Dma!RamRead
  <2>2. (c \o rq) \o rreq = (c \o new) \o rest
    <3> HIDE DEF rreq, rq
    <3>1. new \in Seq(DmaRdCmd) /\ rest \in Seq(DmaRdCmd) /\ new \o rest = rq \o rreq
      BY <1>1, <2>1, MoveOn, SMTT(60)
    <3> HIDE DEF new, rest
    <3>2. (c \o rq) \o rreq = c \o (rq \o rreq)
      BY <1>1, <1>2, SeqAssoc, SMTT(40)
    <3>3. (c \o new) \o rest = c \o (new \o rest)
      <4>1. c \in Seq(DmaRdCmd) /\ new \in Seq(DmaRdCmd) /\ rest \in Seq(DmaRdCmd)
        BY <3>1
      <4> QED BY <4>1, SeqAssoc, SMTT(40)
    <3> QED BY <3>1, <3>2, <3>3
  <2> HIDE DEF new, rest
  <2>3. /\ dmaRam'.rq = new /\ dmaRam'.cur = cur /\ dmaRam'.part = dmaRam.part
        /\ dmaRam'.wrsp = dmaRam.wrsp /\ dmaRam'.wput = dmaRam.wput
        /\ dmaBus'.rreq = rest /\ dmaBus'.rrsp = rrsp /\ dmaBus'.wreq = dmaBus.wreq
        /\ dmaBus'.wrsp = dmaBus.wrsp
    BY <1>1, <2>1 DEF DmaRamType, DmaBusType
  <2>4. DmaRdCarried'
    BY <1>2, <2>1, <2>2, <2>3 DEF DmaRdCarried
  <2>5. DmaWrCarried'
    BY <2>1, <2>3, DmaWrSame
  <2> QED BY <2>1, <2>4, <2>5 DEF DmaQuiet
<1>4. CASE Dma!RamReadRsp
  <2> DEFINE new == Append(rrsp, Head(cur))
             rest == Tail(cur)
  <2>1. /\ cur # <<>> /\ UNCHANGED <<dmaUsr, dmaWr, dmaRd, dmaAlarm>>
        /\ dmaBus' = [dmaBus EXCEPT !.rrsp = new] /\ dmaRam' = [dmaRam EXCEPT !.cur = rest]
    BY <1>4 DEF Dma!RamReadRsp
  <2>2. new \o rest = rrsp \o cur
    <3> HIDE DEF rrsp, cur
    <3> QED BY <1>1, <2>1, MoveOn
  <2> HIDE DEF new, rest
  <2>3. /\ dmaRam'.cur = rest /\ dmaRam'.rq = rq /\ dmaRam'.part = dmaRam.part
        /\ dmaRam'.wrsp = dmaRam.wrsp /\ dmaRam'.wput = dmaRam.wput
        /\ dmaBus'.rrsp = new /\ dmaBus'.rreq = rreq /\ dmaBus'.wreq = dmaBus.wreq
        /\ dmaBus'.wrsp = dmaBus.wrsp
    BY <1>1, <2>1 DEF DmaRamType, DmaBusType
  <2>4. DmaRdCarried'
    BY <1>2, <2>1, <2>2, <2>3 DEF DmaRdCarried
  <2>5. DmaWrCarried'
    BY <2>1, <2>3, DmaWrSame
  <2> QED BY <2>1, <2>4, <2>5 DEF DmaQuiet
<1> QED BY <1>3, <1>4

LEMMA DmaRamReadMemCarries ==
  ASSUME DmaInv, DmaWrCarried, DmaRdCarried, ~dmaAlarm, Dma!RamReadMem
  PROVE  DmaQuiet /\ DmaWrCarried' /\ DmaRdCarried'
<1> DEFINE asked == dmaRd.rspq \o dmaRd.cmd
           rrsp == dmaBus.rrsp
           rq == dmaRam.rq
           l == Len(dmaRd.part)
           r == Head(rq)
           err == r.tag \in Faulty
           data == IF err THEN 0 ELSE dmaRam.mem
           cut == Dma!Beats(r.tag, r.len)
           beats == [i \in 1 .. r.len |->
                       [tag |-> r.tag, sop |-> cut[i].sop, eop |-> cut[i].eop, err |-> err, data |-> data]]
<1>1. /\ dmaRam \in DmaRamType /\ dmaBus \in DmaBusType /\ rq \in Seq(DmaRdCmd)
      /\ rrsp \in Seq(DmaRdBeat) /\ dmaRd.part \in Seq(DmaRdBeat) /\ dmaRam.mem \in Nat
  BY DmaShape DEF DmaRamType
<1>2. /\ dmaRam.cur = <<>> /\ rq # <<>> /\ UNCHANGED <<dmaUsr, dmaWr, dmaRd, dmaBus, dmaAlarm>>
      /\ dmaRam' = [dmaRam EXCEPT !.rq = Tail(rq), !.cur = beats]
  BY DEF Dma!RamReadMem
<1>3. rrsp \o dmaRam.cur = rrsp
  <2> HIDE DEF rrsp
  <2> QED BY <1>1, <1>2, ConcatEmptySeq
<1>4. PICK c \in Seq(DmaRdCmd) : InBeats(l, rrsp, c) /\ asked = (c \o rq) \o dmaBus.rreq
  BY <1>3 DEF DmaRdCarried
<1>5. l \in Nat /\ r \in DmaRdCmd
  BY <1>1, <1>2, Taken
<1>6. err \in BOOLEAN /\ data \in Nat
  BY <1>1
<1> HIDE DEF l, r, err, data
<1>7. r.tag \in Nat /\ r.len \in Nat \ {0}
  BY <1>5 DEF DmaRdCmd
<1>8. \A i \in 1 .. r.len : cut[i] \in DmaBeat /\ BeatOf(cut[i], i, r)
  BY <1>7, DmaCut, DmaBeats
<1> HIDE DEF cut
<1>9. \A i \in 1 .. r.len : cut[i].sop \in BOOLEAN /\ cut[i].eop \in BOOLEAN
  BY <1>8 DEF DmaBeat
<1>10. \A i \in 1 .. r.len :
         [tag |-> r.tag, sop |-> cut[i].sop, eop |-> cut[i].eop, err |-> err, data |-> data] \in DmaRdBeat
  BY <1>6, <1>7, <1>9 DEF DmaRdBeat
<1>11. beats \in [1 .. r.len -> DmaRdBeat]
  BY <1>10
<1>12. ASSUME NEW i \in 1 .. r.len PROVE BeatOf(beats[i], i, r)
  <2> DEFINE beat == beats[i]
  <2>1. beat = [tag |-> r.tag, sop |-> cut[i].sop, eop |-> cut[i].eop, err |-> err, data |-> data]
    OBVIOUS
  <2> HIDE DEF beat
  <2>2. (cut[i].sop <=> i = 1) /\ (cut[i].eop <=> i = r.len)
    BY <1>8 DEF BeatOf
  <2>3. beat.tag = r.tag /\ beat.sop = cut[i].sop /\ beat.eop = cut[i].eop
    BY <2>1
  <2>4. "len" \notin DOMAIN beat
    BY <2>1
  <2>5. BeatOf(beat, i, r)
    BY <2>2, <2>3, <2>4 DEF BeatOf
  <2> QED BY <2>5 DEF beat
<1> HIDE DEF beats
<1>13. beats \in Seq(DmaRdBeat) /\ Len(beats) = r.len
  BY <1>7, <1>11
<1> DEFINE e == Append(c, r)
<1>14. InBeats(l, rrsp \o beats, e)
  <2>1. \A p \in DmaRdCmd : p.len \in Nat \ {0}
    BY DEF DmaRdCmd
  <2> HIDE DEF rrsp
  <2> QED BY <1>1, <1>4, <1>5, <1>7, <1>12, <1>13, <2>1, BeatsMore
<1>15. e \in Seq(DmaRdCmd) /\ e \o Tail(rq) = c \o rq
  <2>1. Append(c, Head(rq)) \in Seq(DmaRdCmd) /\ Append(c, Head(rq)) \o Tail(rq) = c \o rq
    <3> HIDE DEF rq
    <3> QED BY <1>1, <1>2, <1>4, MoveOn, SMTT(40)
  <2> QED BY <2>1 DEF r
<1> HIDE DEF e
<1>16. /\ dmaRam'.rq = Tail(rq) /\ dmaRam'.cur = beats /\ dmaRam'.part = dmaRam.part
       /\ dmaRam'.wrsp = dmaRam.wrsp /\ dmaRam'.wput = dmaRam.wput
  BY <1>1, <1>2 DEF DmaRamType
<1>17. DmaRdCarried'
  <2>1. InBeats(Len(dmaRd'.part), dmaBus'.rrsp \o dmaRam'.cur, e)
    BY <1>2, <1>14, <1>16 DEF l
  <2>2. dmaRd'.rspq \o dmaRd'.cmd = (e \o dmaRam'.rq) \o dmaBus'.rreq
    BY <1>2, <1>4, <1>15, <1>16
  <2> QED BY <1>15, <2>1, <2>2 DEF DmaRdCarried
<1>18. DmaWrCarried'
  BY <1>2, <1>16, DmaWrSame
<1> QED BY <1>2, <1>17, <1>18 DEF DmaQuiet

\* and the oldest of the reads gets its answer whole.
LEMMA DmaReadRespCarries ==
  ASSUME DmaInv, DmaWrCarried, DmaRdCarried, ~dmaAlarm, Dma!ReadResp
  PROVE  DmaQuiet /\ DmaWrCarried' /\ DmaRdCarried'
<1> DEFINE rspq == dmaRd.rspq
           cmd == dmaRd.cmd
           rrsp == dmaBus.rrsp
           rreq == dmaBus.rreq
           rq == dmaRam.rq
           cur == dmaRam.cur
           part == dmaRd.part
           l == Len(part)
           first == Head(rspq)
           beat == Head(rrsp)
           way == rrsp \o cur
           rest == Tail(rrsp) \o cur
           none == <<>>
           more == Append(part, beat)
           after == Tail(rspq)
<1>1. /\ dmaRd \in DmaRdType /\ dmaBus \in DmaBusType
      /\ rspq \in Seq(DmaRdCmd) /\ cmd \in Seq(DmaRdCmd) /\ rreq \in Seq(DmaRdCmd) /\ rq \in Seq(DmaRdCmd)
      /\ rrsp \in Seq(DmaRdBeat) /\ cur \in Seq(DmaRdBeat) /\ part \in Seq(DmaRdBeat)
  BY DmaShape
<1>2. /\ rspq # <<>> /\ rrsp # <<>> /\ UNCHANGED <<dmaUsr, dmaWr, dmaRam>>
      /\ dmaBus' = [dmaBus EXCEPT !.rrsp = Tail(rrsp)]
      /\ dmaAlarm' = (beat.tag # first.tag \/ (l + 1 = 1 /\ ~beat.sop) \/ (l + 1 = first.len /\ ~beat.eop))
      /\ l + 1 < first.len => dmaRd' = [dmaRd EXCEPT !.part = more]
      /\ ~(l + 1 < first.len) =>
           dmaRd' = [dmaRd EXCEPT !.part = none, !.rspq = after, !.flight = @ - 1,
                       !.res = Append(@, [cmd |-> first, data |-> beat.data, err |-> beat.err])]
  BY DEF Dma!ReadResp
<1>3. PICK c \in Seq(DmaRdCmd) : InBeats(l, way, c) /\ rspq \o cmd = (c \o rq) \o rreq
  BY DEF DmaRdCarried
<1>4. beat \in DmaRdBeat /\ way \in Seq(DmaRdBeat) /\ way # <<>> /\ Head(way) = beat /\ Tail(way) = rest
  <2> HIDE DEF rrsp, cur
  <2>1. beat \in DmaRdBeat
    BY <1>1, <1>2, Taken
  <2> HIDE DEF beat
  <2>2. rrsp \o cur \in Seq(DmaRdBeat) /\ rrsp \o cur # <<>> /\ Head(rrsp \o cur) = Head(rrsp)
        /\ Tail(rrsp \o cur) = Tail(rrsp) \o cur
    BY <1>1, <1>2, TakeFirst, SMTT(40)
  <2> QED BY <2>1, <2>2 DEF beat
<1>5. l \in Nat /\ Len(more) = l + 1
  <2> HIDE DEF beat, part
  <2> QED BY <1>1, <1>4, Given
<1>6. /\ c # <<>> /\ l + 1 <= Head(c).len /\ BeatOf(beat, l + 1, Head(c))
      /\ l + 1 = Head(c).len => InBeats(0, rest, Tail(c))
      /\ l + 1 # Head(c).len => InBeats(l + 1, rest, c)
  <2>1. \A r \in DmaRdCmd : r.len \in Nat \ {0}
    BY DEF DmaRdCmd
  <2> HIDE DEF way, l, beat, rest
  <2>2. /\ c # <<>> /\ l + 1 <= Head(c).len /\ BeatOf(Head(way), l + 1, Head(c))
        /\ l + 1 = Head(c).len => InBeats(0, Tail(way), Tail(c))
        /\ l + 1 # Head(c).len => InBeats(l + 1, Tail(way), c)
    BY <1>3, <1>4, <1>5, <2>1, BeatsLess
  <2> QED BY <1>4, <2>2
<1>7. first = Head(c) /\ after \o cmd = (Tail(c) \o rq) \o rreq /\ Tail(c) \in Seq(DmaRdCmd) /\ first \in DmaRdCmd
  <2> DEFINE u == c \o rq
             t == Tail(c) \o rq
  <2> HIDE DEF rspq, cmd, rreq, rq
  <2>1. Head(rspq \o cmd) = Head(rspq) /\ Tail(rspq \o cmd) = Tail(rspq) \o cmd
    BY <1>1, <1>2, TakeFirst
  <2>2. u \in Seq(DmaRdCmd) /\ u # <<>> /\ Head(u) = Head(c) /\ Tail(u) = t
    BY <1>1, <1>3, <1>6, TakeFirst
  <2> HIDE DEF u, t
  <2>3. Head(u \o rreq) = Head(u) /\ Tail(u \o rreq) = Tail(u) \o rreq
    BY <1>1, <2>2, TakeFirst
  <2>4. Tail(c) \in Seq(DmaRdCmd) /\ Head(rspq) \in DmaRdCmd
    BY <1>1, <1>2, <1>3, <1>6, Taken
  <2> QED BY <1>3, <2>1, <2>2, <2>3, <2>4 DEF u, t
<1> HIDE DEF way, l, beat, rest, first, after, more, none
<1>8. first.len \in Nat /\ l + 1 <= first.len
  BY <1>6, <1>7 DEF DmaRdCmd
<1>9. beat.tag = first.tag /\ (beat.sop <=> l + 1 = 1) /\ (beat.eop <=> l + 1 = first.len)
  BY <1>6, <1>7 DEF BeatOf
<1>10. ~dmaAlarm'
  BY <1>2, <1>9
<1>11. /\ dmaBus'.rrsp = Tail(rrsp) /\ dmaBus'.rreq = rreq /\ dmaBus'.wreq = dmaBus.wreq
       /\ dmaBus'.wrsp = dmaBus.wrsp
  BY <1>1, <1>2 DEF DmaBusType
<1>12. dmaBus'.rrsp \o dmaRam'.cur = rest
  BY <1>2, <1>11 DEF rest
<1>13. DmaWrCarried'
  BY <1>2, <1>11, DmaWrSame
<1>14. CASE l + 1 < first.len
  <2>1. dmaRd'.part = more /\ dmaRd'.rspq = rspq /\ dmaRd'.cmd = cmd
    BY <1>1, <1>2, <1>14 DEF DmaRdType
  <2>2. l + 1 # Head(c).len
    BY <1>5, <1>7, <1>8, <1>14
  <2>3. InBeats(Len(dmaRd'.part), dmaBus'.rrsp \o dmaRam'.cur, c)
    BY <1>5, <1>6, <1>12, <2>1, <2>2
  <2>4. dmaRd'.rspq \o dmaRd'.cmd = (c \o dmaRam'.rq) \o dmaBus'.rreq
    BY <1>2, <1>3, <1>11, <2>1
  <2>5. DmaRdCarried'
    BY <1>3, <2>3, <2>4 DEF DmaRdCarried
  <2> QED BY <1>2, <1>10, <1>13, <2>5 DEF DmaQuiet
<1>15. CASE ~(l + 1 < first.len)
  <2> DEFINE m == [dmaRd EXCEPT !.part = none, !.rspq = after]
             res == Append(dmaRd.res, [cmd |-> first, data |-> beat.data, err |-> beat.err])
             flight == dmaRd.flight - 1
  <2>1. dmaRd' = [m EXCEPT !.flight = flight, !.res = res]
    BY <1>2, <1>15
  <2>2. /\ DOMAIN m = {"q", "cmd", "rspq", "part", "res", "flight"}
        /\ m.part = none /\ m.rspq = after /\ m.cmd = cmd
    BY <1>1 DEF DmaRdType
  <2> HIDE DEF m, res, flight
  <2>3. dmaRd'.part = none /\ dmaRd'.rspq = after /\ dmaRd'.cmd = cmd
    BY <2>1, <2>2
  <2>4. l + 1 = Head(c).len
    BY <1>5, <1>7, <1>8, <1>15
  <2>5. Len(none) = 0
    BY DEF none
  <2>6. InBeats(Len(dmaRd'.part), dmaBus'.rrsp \o dmaRam'.cur, Tail(c))
    BY <1>6, <1>12, <2>3, <2>4, <2>5
  <2>7. dmaRd'.rspq \o dmaRd'.cmd = (Tail(c) \o dmaRam'.rq) \o dmaBus'.rreq
    BY <1>2, <1>7, <1>11, <2>3
  <2>8. DmaRdCarried'
    BY <1>7, <2>6, <2>7 DEF DmaRdCarried
  <2> QED BY <1>2, <1>10, <1>13, <2>8 DEF DmaQuiet
<1> QED BY <1>14, <1>15


\* A reset that hits no write leaves nothing behind.
LEMMA DmaResetCarries ==
  ASSUME DmaInv, Dma!Reset
  PROVE  DmaCarried'
<1> DEFINE flushed == dmaWr.q \o dmaWr.cmd \o dmaWr.rspq
           none == <<>>
<1>1. /\ dmaUsr \in DmaUsrType /\ dmaWr \in DmaWrType /\ dmaRd \in DmaRdType
      /\ dmaRam \in DmaRamType /\ dmaBus.wrsp \in Seq(Nat)
  BY DmaShape
<1>2. PICK kept \in 0 .. Len(dmaBus.wrsp) :
        /\ dmaBus' = [wreq |-> none, wrsp |-> SubSeq(dmaBus.wrsp, 1, kept), rreq |-> none, rrsp |-> none]
        /\ dmaAlarm' = (flushed # <<>>)
        /\ dmaUsr' = [dmaUsr EXCEPT !.resets = @ + 1, !.hit = (flushed # <<>> \/ kept > 0)]
  BY DEF Dma!Reset
<1>3. /\ dmaWr' = [dmaWr EXCEPT !.q = none, !.cur = none, !.cmd = none, !.rspq = none, !.res = none]
      /\ dmaRd' = [dmaRd EXCEPT !.q = none, !.cmd = none, !.rspq = none, !.part = none, !.flight = 0]
      /\ dmaRam' = [dmaRam EXCEPT !.part = none, !.wput = none, !.wrsp = none, !.rq = none, !.cur = none]
  BY DEF Dma!Reset
<1>4. dmaUsr'.hit = (flushed # <<>> \/ kept > 0)
  BY <1>1, <1>2 DEF DmaUsrType
<1>5. /\ Len(none) = 0 /\ none \o none = none /\ InBeats(0, none, none) /\ none = <<>>
      /\ none \in Seq(DmaWrCmd) /\ none \in Seq(DmaRdCmd) /\ Tags(none) = none
  <2>1. none \in Seq(Nat) /\ Len(none) = 0 /\ none \in Seq(DmaWrCmd) /\ none \in Seq(DmaRdCmd)
    OBVIOUS
  <2>2. none \o none = none
    BY <2>1, ConcatEmptySeq
  <2>3. Tags(none) \in Seq(Nat) /\ Len(Tags(none)) = 0
    BY <2>1, TagsType
  <2> DEFINE t == Tags(none)
  <2>4. t = <<>>
    <3> HIDE DEF t
    <3>1. t \in Seq(Nat) /\ Len(t) = 0
      BY <2>3 DEF t
    <3> QED BY <3>1, EmptySeq
  <2> QED BY <2>1, <2>2, <2>4, BeatsNone
<1>6. ~dmaUsr'.hit => SubSeq(dmaBus.wrsp, 1, kept) = none
  <2> SUFFICES ASSUME ~dmaUsr'.hit PROVE SubSeq(dmaBus.wrsp, 1, kept) = none
    OBVIOUS
  <2>1. kept = 0
    <3>1. Len(dmaBus.wrsp) \in Nat
      BY <1>1
    <3>2. ~(kept > 0)
      BY <1>4
    <3> QED BY <3>1, <3>2
  <2>2. SubSeq(dmaBus.wrsp, 1, 0) = <<>>
    BY <1>1, SubSeqEmpty
  <2> QED BY <2>1, <2>2
<1> DEFINE kp == SubSeq(dmaBus.wrsp, 1, kept)
<1>7. kp = SubSeq(dmaBus.wrsp, 1, kept)
  OBVIOUS
<1> HIDE DEF none, kp
<1>8. /\ dmaBus'.wreq = none /\ dmaBus'.wrsp = kp /\ dmaBus'.rreq = none /\ dmaBus'.rrsp = none
  BY <1>2, <1>7
<1>9. dmaWr'.cur = none /\ dmaWr'.cmd = none /\ dmaWr'.rspq = none
  BY <1>1, <1>3 DEF DmaWrType
<1>10. dmaRam'.part = none /\ dmaRam'.wput = none /\ dmaRam'.wrsp = none /\ dmaRam'.rq = none /\ dmaRam'.cur = none
  BY <1>1, <1>3 DEF DmaRamType
<1>11. dmaRd'.cmd = none /\ dmaRd'.rspq = none /\ dmaRd'.part = none
  <2> DEFINE m == [dmaRd EXCEPT !.q = none, !.cmd = none, !.rspq = none]
             zero == 0
  <2>1. dmaRd' = [m EXCEPT !.part = none, !.flight = zero]
    BY <1>3
  <2>2. /\ DOMAIN m = {"q", "cmd", "rspq", "part", "res", "flight"} /\ m.cmd = none /\ m.rspq = none
    BY <1>1 DEF DmaRdType
  <2> HIDE DEF m, zero
  <2> QED BY <2>1, <2>2
<1>12. ASSUME ~dmaUsr'.hit PROVE DmaWrCarried' /\ DmaRdCarried'
  <2>1. kp = none
    BY <1>6, <1>7, <1>12
  <2>2. DmaAnswers' = none
    BY <1>5, <1>8, <1>10, <2>1 DEF DmaAnswers
  <2>3. DmaWrCarried'
    BY <1>5, <1>8, <1>9, <1>10, <2>2 DEF DmaWrCarried
  <2>4. DmaRdCarried'
    BY <1>5, <1>8, <1>10, <1>11 DEF DmaRdCarried
  <2> QED BY <2>3, <2>4
<1>13. dmaAlarm' => dmaUsr'.hit
  BY <1>2, <1>4
<1> QED BY <1>12, <1>13 DEF DmaCarried

LEMMA DmaCarriedInit == Dma!Init => DmaCarried
<1> SUFFICES ASSUME Dma!Init PROVE DmaCarried
  OBVIOUS
<1> DEFINE none == <<>>
<1>1. /\ Len(none) = 0 /\ none \o none = none /\ InBeats(0, none, none) /\ none = <<>>
      /\ none \in Seq(DmaWrCmd) /\ none \in Seq(DmaRdCmd) /\ Tags(none) = none
  <2>1. none \in Seq(Nat) /\ Len(none) = 0 /\ none \in Seq(DmaWrCmd) /\ none \in Seq(DmaRdCmd)
    OBVIOUS
  <2>2. none \o none = none
    BY <2>1, ConcatEmptySeq
  <2>3. Tags(none) \in Seq(Nat) /\ Len(Tags(none)) = 0
    BY <2>1, TagsType
  <2> DEFINE t == Tags(none)
  <2>4. t = <<>>
    <3> HIDE DEF t
    <3>1. t \in Seq(Nat) /\ Len(t) = 0
      BY <2>3 DEF t
    <3> QED BY <3>1, EmptySeq
  <2> QED BY <2>1, <2>2, <2>4, BeatsNone
<1>2. /\ ~dmaAlarm /\ dmaWr.cur = none /\ dmaWr.cmd = none /\ dmaWr.rspq = none
      /\ dmaRd.cmd = none /\ dmaRd.rspq = none /\ dmaRd.part = none
      /\ dmaBus.wreq = none /\ dmaBus.wrsp = none /\ dmaBus.rreq = none /\ dmaBus.rrsp = none
      /\ dmaRam.part = none /\ dmaRam.wput = none /\ dmaRam.wrsp = none /\ dmaRam.rq = none /\ dmaRam.cur = none
  BY DEF Dma!Init
<1> HIDE DEF none
<1>3. DmaAnswers = none
  BY <1>1, <1>2 DEF DmaAnswers
<1>4. DmaWrCarried
  BY <1>1, <1>2, <1>3 DEF DmaWrCarried
<1>5. DmaRdCarried
  BY <1>1, <1>2 DEF DmaRdCarried
<1> QED BY <1>2, <1>4, <1>5 DEF DmaCarried

\* After a reset that hits a write no step but a reset forgets it.
LEMMA DmaHitStays ==
  ASSUME DmaInv, dmaUsr.hit, Dma!User \/ Dma!Master \/ Dma!Ram
  PROVE  dmaUsr'.hit
<1>1. dmaUsr \in DmaUsrType
  BY DmaShape
<1>2. CASE Dma!WriteCall
  BY <1>1, <1>2 DEF Dma!WriteCall, DmaUsrType
<1>3. CASE Dma!WriteRspGet
  BY <1>1, <1>3 DEF Dma!WriteRspGet, DmaUsrType
<1>4. CASE Dma!ReadCall
  BY <1>1, <1>4 DEF Dma!ReadCall, DmaUsrType
<1>5. CASE Dma!ReadRspGet
  BY <1>1, <1>5 DEF Dma!ReadRspGet, DmaUsrType
<1>6. CASE Dma!Master
  <2>1. dmaUsr' = dmaUsr
    BY <1>6 DEF Dma!Master, Dma!WriteGet, Dma!WriteBeat, Dma!WriteSent, Dma!WriteResp,
                Dma!ReadReq, Dma!ReadSent, Dma!ReadResp
  <2> QED BY <2>1
<1>7. CASE Dma!Ram
  <2>1. dmaUsr' = dmaUsr
    BY <1>7 DEF Dma!Ram, Dma!RamWrite, Dma!RamWritten, Dma!RamWriteRsp,
                Dma!RamRead, Dma!RamReadMem, Dma!RamReadRsp
  <2> QED BY <2>1
<1> QED BY <1>2, <1>3, <1>4, <1>5, <1>6, <1>7 DEF Dma!User

LEMMA DmaCarries == DmaInv /\ DmaCarried /\ [Dma!Next]_(Dma!vars) => DmaCarried'
<1> SUFFICES ASSUME DmaInv, DmaCarried, [Dma!Next]_(Dma!vars) PROVE DmaCarried'
  OBVIOUS
<1>1. CASE Dma!Reset
  BY <1>1, DmaResetCarries
<1>2. CASE ~dmaAlarm /\ (Dma!User \/ Dma!Master \/ Dma!Ram)
  <2>1. CASE dmaUsr.hit
    BY <1>2, <2>1, DmaHitStays DEF DmaCarried
  <2>2. CASE ~dmaUsr.hit
    <3>1. DmaWrCarried /\ DmaRdCarried
      BY <2>2 DEF DmaCarried
    <3>2. CASE Dma!User
      <4>1. DmaQuiet /\ DmaWrCarried' /\ DmaRdCarried'
        BY <1>2, <3>1, <3>2, DmaUserCarries DEF Dma!User
      <4> QED BY <4>1 DEF DmaCarried, DmaQuiet
    <3>3. CASE Dma!Master
      <4>1. DmaQuiet /\ DmaWrCarried' /\ DmaRdCarried'
        BY <1>2, <3>1, <3>3, DmaWriteGetCarries, DmaWriteSendCarries, DmaWriteRespCarries, DmaReadReqCarries,
           DmaReadRespCarries DEF Dma!Master
      <4> QED BY <4>1 DEF DmaCarried, DmaQuiet
    <3>4. CASE Dma!Ram
      <4>1. DmaQuiet /\ DmaWrCarried' /\ DmaRdCarried'
        BY <1>2, <3>1, <3>4, DmaRamWriteCarries, DmaRamAnswerCarries, DmaRamReadCarries,
           DmaRamReadMemCarries DEF Dma!Ram
      <4> QED BY <4>1 DEF DmaCarried, DmaQuiet
    <3> QED BY <1>2, <3>2, <3>3, <3>4
  <2> QED BY <2>1, <2>2
<1>3. CASE UNCHANGED Dma!vars
  <2>1. /\ dmaUsr' = dmaUsr /\ dmaWr' = dmaWr /\ dmaRd' = dmaRd /\ dmaBus' = dmaBus /\ dmaRam' = dmaRam
        /\ dmaAlarm' = dmaAlarm
    BY <1>3 DEF Dma!vars
  <2>2. (DmaWrCarried => DmaWrCarried') /\ (DmaRdCarried => DmaRdCarried')
    BY <2>1, DmaWrSame, DmaRdSame
  <2> QED BY <2>1, <2>2 DEF DmaCarried
<1> QED BY <1>1, <1>2, <1>3 DEF Dma!Next

-----------------------------------------------------------------------------
(* The scheduling of the transmit queue. *)

\* The last descriptors of chains among those the engine has taken.
BtqEnds(buf) == {i \in DOMAIN buf : ~buf[i].next}
BtqEngDomain == DOMAIN btqEng = {"todo", "put", "new", "buf", "chains", "reading", "bitmap", "sch"}
BtqHwDomain == DOMAIN btqHw = {"turn", "done", "got", "fin", "err"}
BtqCtxDomain == DOMAIN btqCtx = {"pi", "ci", "localCi", "out", "status"}
BtqShape ==
  /\ BtqEngDomain /\ BtqHwDomain /\ BtqCtxDomain
  /\ btqEng.sch \in Nat /\ btqEng.new \in Nat /\ btqEng.bitmap \in 0 .. 2
  /\ btqHw.turn \in {"none", "asked", "rsp"}
\* What is read is asked for, and the chains are those whose end was taken.
BtqChains ==
  /\ btqEng.reading => btqHw.turn = "asked"
  /\ \E S : btqEng.buf \in Seq(S)
  /\ btqEng.chains = Cardinality(BtqEnds(btqEng.buf))
\* One that is told that the queue is empty is about to forget it.
BtqToForget ==
  btqHw.turn = "rsp" /\ btqHw.done /\ btqEng.bitmap = 1 /\ btqEng.chains > 0 /\ btqCtx.status = "doing"
    => btqEng.put \/ btqEng.new > 0
BtqInv == BtqShape /\ BtqChains /\ BtqToForget /\ Btq!BtqNotForgotten

LEMMA BtqEndsCount ==
  ASSUME NEW S, NEW b \in Seq(S)
  PROVE  /\ Cardinality(BtqEnds(b)) = Count(b, {d \in S : ~d.next})
         /\ Cardinality(BtqEnds(b)) \in Nat
<1>1. \A i \in DOMAIN b : b[i] \in S
  OBVIOUS
<1>2. BtqEnds(b) = Places(b, {d \in S : ~d.next})
  BY <1>1 DEF BtqEnds, Places
<1> QED BY <1>2, CountType DEF Count

LEMMA BtqEndsAppend ==
  ASSUME NEW S, NEW b \in Seq(S), NEW d
  PROVE  /\ Append(b, d) \in Seq(S \cup {d})
         /\ d.next => Cardinality(BtqEnds(Append(b, d))) = Cardinality(BtqEnds(b))
         /\ ~d.next => Cardinality(BtqEnds(Append(b, d))) = Cardinality(BtqEnds(b)) + 1
<1> DEFINE R == S \cup {d}
           T == {e \in R : ~e.next}
           new == Append(b, d)
<1>1. b \in Seq(R) /\ d \in R
  OBVIOUS
<1>2. (d \in T) <=> ~d.next
  BY <1>1
<1> HIDE DEF R
<1>3. new \in Seq(R)
  BY <1>1, AppendProperties
<1>4. Cardinality(BtqEnds(b)) = Count(b, T) /\ Cardinality(BtqEnds(b)) \in Nat
  BY <1>1, BtqEndsCount
<1>5. Count(new, T) = Count(b, T) + (IF d \in T THEN 1 ELSE 0)
  <2> HIDE DEF T
  <2> QED BY <1>1, CountAppend
<1> HIDE DEF new
<1>6. Cardinality(BtqEnds(new)) = Count(new, T)
  BY <1>3, BtqEndsCount
<1> HIDE DEF T
<1>7. /\ d.next => Count(new, T) = Count(b, T)
      /\ ~d.next => Count(new, T) = Count(b, T) + 1
  BY <1>2, <1>4, <1>5
<1> QED BY <1>3, <1>4, <1>6, <1>7 DEF new, R

LEMMA BtqEndsTail ==
  ASSUME NEW S, NEW b \in Seq(S), b # <<>>
  PROVE  /\ Tail(b) \in Seq(S)
         /\ Head(b).next => Cardinality(BtqEnds(Tail(b))) = Cardinality(BtqEnds(b))
         /\ ~Head(b).next => Cardinality(BtqEnds(Tail(b))) = Cardinality(BtqEnds(b)) - 1
         /\ Len(b) = 1 => Cardinality(BtqEnds(Tail(b))) = 0
<1> DEFINE T == {e \in S : ~e.next}
           rest == Tail(b)
           d == Head(b)
<1>1. rest \in Seq(S) /\ d \in S /\ Len(rest) = Len(b) - 1 /\ Len(b) \in Nat
  BY HeadTailProperties
<1>2. (d \in T) <=> ~d.next
  BY <1>1
<1>3. Cardinality(BtqEnds(b)) = Count(b, T) /\ Cardinality(BtqEnds(b)) \in Nat
  BY BtqEndsCount
<1>4. Count(rest, T) = Count(b, T) - (IF d \in T THEN 1 ELSE 0)
  <2> HIDE DEF T
  <2> QED BY CountTail
<1> HIDE DEF rest, d
<1>5. Cardinality(BtqEnds(rest)) = Count(rest, T)
  BY <1>1, BtqEndsCount
<1> HIDE DEF T
<1>6. /\ d.next => Count(rest, T) = Count(b, T)
      /\ ~d.next => Count(rest, T) = Count(b, T) - 1
  BY <1>2, <1>3, <1>4
<1>7. Len(b) = 1 => Cardinality(BtqEnds(rest)) = 0
  <2> SUFFICES ASSUME Len(b) = 1 PROVE Cardinality(BtqEnds(rest)) = 0
    OBVIOUS
  <2>1. rest = <<>>
    BY <1>1, EmptySeq
  <2>2. BtqEnds(rest) = {}
    BY <2>1 DEF BtqEnds
  <2> QED BY <2>2, FS_EmptySet
<1> QED BY <1>1, <1>3, <1>5, <1>6, <1>7 DEF rest, d

LEMMA BtqInit == Btq!Init => BtqInv
<1> SUFFICES ASSUME Btq!Init PROVE BtqInv
  OBVIOUS
<1>1. /\ btqEng = [todo |-> 0, put |-> FALSE, new |-> 0, buf |-> <<>>, chains |-> 0, reading |-> FALSE,
                   bitmap |-> 0, sch |-> 0]
      /\ btqHw = [turn |-> "none", done |-> FALSE, got |-> <<>>, fin |-> 0, err |-> FALSE]
      /\ btqCtx = [pi |-> 0, ci |-> 0, localCi |-> 0, out |-> 0, status |-> "doing"]
  BY DEF Btq!Init, Btq!CtxInit, Btq!EngInit
<1>2. BtqShape
  BY <1>1 DEF BtqShape, BtqEngDomain, BtqHwDomain, BtqCtxDomain
<1>3. BtqEnds(btqEng.buf) = {}
  BY <1>1 DEF BtqEnds
<1>4. btqEng.buf \in Seq({})
  BY <1>1
<1>5. BtqChains
  BY <1>1, <1>3, <1>4, FS_EmptySet DEF BtqChains
<1>6. BtqToForget /\ Btq!BtqNotForgotten
  BY <1>1 DEF BtqToForget, Btq!BtqNotForgotten
<1> QED BY <1>2, <1>5, <1>6 DEF BtqInv

\* What does not touch the scheduling; the queue may be stopped.
LEMMA BtqSame ==
  ASSUME BtqInv, BtqEngDomain', BtqHwDomain', BtqCtxDomain',
         UNCHANGED <<btqEng.put, btqEng.new, btqEng.buf, btqEng.chains, btqEng.reading, btqEng.bitmap, btqEng.sch>>,
         UNCHANGED <<btqHw.turn, btqHw.done>>,
         btqCtx.status' = btqCtx.status \/ btqCtx.status' = "stopping"
  PROVE  BtqInv'
<1>1. BtqShape'
  BY DEF BtqInv, BtqShape
<1>2. BtqChains'
  BY DEF BtqInv, BtqChains
<1>3. BtqToForget'
  BY DEF BtqInv, BtqToForget
<1>4. Btq!BtqNotForgotten'
  BY DEF BtqInv, Btq!BtqNotForgotten
<1> QED BY <1>1, <1>2, <1>3, <1>4 DEF BtqInv

LEMMA BtqAside ==
  ASSUME BtqInv,
         \/ Btq!Gen \/ Btq!BurstTx \/ Btq!WaitFinish \/ Btq!DestroyQueue \/ Btq!EngRound
         \/ Btq!DutDesc \/ Btq!DutUsed \/ Btq!DutFlush \/ Btq!DutError
  PROVE  BtqInv'
<1>1. BtqEngDomain /\ BtqHwDomain /\ BtqCtxDomain
  BY DEF BtqInv, BtqShape
<1>2. CASE UNCHANGED <<btqEng, btqHw, btqCtx>>
  BY <1>2 DEF BtqInv, BtqShape, BtqChains, BtqToForget, Btq!BtqNotForgotten, BtqEngDomain, BtqHwDomain, BtqCtxDomain
<1>3. CASE \E pi : btqCtx' = [btqCtx EXCEPT !.pi = pi] /\ UNCHANGED <<btqEng, btqHw>>
  BY <1>1, <1>3, BtqSame DEF BtqEngDomain, BtqHwDomain, BtqCtxDomain
<1>4. CASE \E ci : btqCtx' = [btqCtx EXCEPT !.ci = ci] /\ UNCHANGED <<btqEng, btqHw>>
  BY <1>1, <1>4, BtqSame DEF BtqEngDomain, BtqHwDomain, BtqCtxDomain
<1>5. CASE Btq!EngRound
  <2>1. PICK n : btqEng' = [btqEng EXCEPT !.todo = n]
    BY <1>5 DEF Btq!EngRound
  <2>2. UNCHANGED <<btqCtx, btqHw>>
    BY <1>5 DEF Btq!EngRound
  <2> QED BY <1>1, <2>1, <2>2, BtqSame DEF BtqEngDomain, BtqHwDomain, BtqCtxDomain
<1>6. CASE Btq!DutDesc
  <2>1. UNCHANGED btqEng
    BY <1>6 DEF Btq!DutDesc
  <2>2. \/ \E e : btqHw' = [btqHw EXCEPT !.err = e] /\ btqCtx' = [btqCtx EXCEPT !.status = "stopping"]
        \/ \E f, c : btqHw' = [btqHw EXCEPT !.fin = f] /\ btqCtx' = [btqCtx EXCEPT !.ci = c]
    BY <1>6 DEF Btq!DutDesc
  <2>3. CASE \E e : btqHw' = [btqHw EXCEPT !.err = e] /\ btqCtx' = [btqCtx EXCEPT !.status = "stopping"]
    BY <1>1, <2>1, <2>3, BtqSame DEF BtqEngDomain, BtqHwDomain, BtqCtxDomain
  <2>4. CASE \E f, c : btqHw' = [btqHw EXCEPT !.fin = f] /\ btqCtx' = [btqCtx EXCEPT !.ci = c]
    BY <1>1, <2>1, <2>4, BtqSame DEF BtqEngDomain, BtqHwDomain, BtqCtxDomain
  <2> QED BY <2>2, <2>3, <2>4
<1>7. CASE Btq!BurstTx
  <2>1. UNCHANGED <<btqEng, btqHw>>
    BY <1>7, Zenon DEF Btq!BurstTx
  <2>2. UNCHANGED btqCtx \/ \E pi : btqCtx' = [btqCtx EXCEPT !.pi = pi]
    BY <1>7, Zenon DEF Btq!BurstTx, Btq!Post
  <2> QED BY <1>2, <1>3, <2>1, <2>2
<1>8. CASE Btq!DutFlush
  BY <1>4, <1>8 DEF Btq!DutFlush
<1>9. CASE Btq!Gen \/ Btq!WaitFinish \/ Btq!DestroyQueue \/ Btq!DutUsed \/ Btq!DutError
  BY <1>2, <1>9 DEF Btq!Gen, Btq!WaitFinish, Btq!DestroyQueue, Btq!DutUsed, Btq!DutError
<1> QED BY <1>5, <1>6, <1>7, <1>8, <1>9

\* A restart leaves nothing taken; what is read was asked for before.
LEMMA BtqRecovers ==
  ASSUME BtqInv, Btq!Recover
  PROVE  BtqInv'
<1>1. BtqShape /\ BtqChains
  BY DEF BtqInv
<1>2. /\ btqEng' = [btqEng EXCEPT !.buf = <<>>, !.chains = 0]
      /\ btqHw' = [btqHw EXCEPT !.got = <<>>, !.fin = 0, !.err = FALSE]
  BY DEF Btq!Recover
<1>3. DOMAIN btqCtx' = DOMAIN btqCtx
  BY <1>1 DEF Btq!Recover, Btq!Started, BtqShape, BtqCtxDomain
<1>4. /\ BtqEngDomain' /\ BtqHwDomain' /\ BtqCtxDomain'
      /\ btqEng'.buf = <<>> /\ btqEng'.chains = 0 /\ btqEng'.reading = btqEng.reading
      /\ btqEng'.new = btqEng.new /\ btqEng'.bitmap = btqEng.bitmap /\ btqEng'.sch = btqEng.sch
      /\ btqHw'.turn = btqHw.turn
  BY <1>1, <1>2, <1>3 DEF BtqShape, BtqEngDomain, BtqHwDomain, BtqCtxDomain
<1>5. BtqShape'
  BY <1>1, <1>4 DEF BtqShape
<1>6. BtqEnds(btqEng'.buf) = {} /\ btqEng'.buf \in Seq({})
  BY <1>4 DEF BtqEnds
<1>7. BtqChains'
  BY <1>1, <1>4, <1>6, FS_EmptySet DEF BtqChains
<1>8. BtqToForget' /\ Btq!BtqNotForgotten'
  BY <1>4 DEF BtqInv, BtqToForget, Btq!BtqNotForgotten
<1> QED BY <1>5, <1>7, <1>8 DEF BtqInv

\* The end of a chain is told before the next descriptor is taken.
LEMMA BtqTakes ==
  ASSUME BtqInv, Btq!EngTake
  PROVE  BtqInv'
<1> DEFINE d == Head(btqTxq.queue)
           buf == Append(btqEng.buf, d)
           k == IF d.next THEN 0 ELSE 1
<1>1. BtqShape /\ BtqChains
  BY DEF BtqInv
<1>2. /\ btqEng' = [btqEng EXCEPT !.todo = @ - 1, !.buf = buf, !.put = ~d.next, !.chains = @ + k]
      /\ UNCHANGED <<btqCtx, btqHw>>
  BY DEF Btq!EngTake
<1>3. ~btqEng.put
  BY DEF Btq!EngTake
<1>4. PICK S : btqEng.buf \in Seq(S)
  BY <1>1 DEF BtqChains
<1>5. /\ Append(btqEng.buf, d) \in Seq(S \cup {d})
      /\ d.next => Cardinality(BtqEnds(Append(btqEng.buf, d))) = Cardinality(BtqEnds(btqEng.buf))
      /\ ~d.next => Cardinality(BtqEnds(Append(btqEng.buf, d))) = Cardinality(BtqEnds(btqEng.buf)) + 1
      /\ Cardinality(BtqEnds(btqEng.buf)) \in Nat
  <2> HIDE DEF d
  <2> QED BY <1>4, BtqEndsAppend, BtqEndsCount
<1> HIDE DEF d
<1>6. k \in {0, 1} /\ (d.next => k = 0) /\ (~d.next => k = 1)
  OBVIOUS
<1> HIDE DEF k
<1>7. /\ buf \in Seq(S \cup {d}) /\ Cardinality(BtqEnds(buf)) = btqEng.chains + k /\ btqEng.chains \in Nat
  BY <1>1, <1>5, <1>6 DEF BtqChains
<1> HIDE DEF buf
<1>8. /\ BtqEngDomain' /\ btqEng'.buf = buf /\ btqEng'.chains = btqEng.chains + k
      /\ (btqEng'.put <=> ~d.next) /\ btqEng'.reading = btqEng.reading
      /\ btqEng'.new = btqEng.new /\ btqEng'.bitmap = btqEng.bitmap /\ btqEng'.sch = btqEng.sch
  BY <1>1, <1>2 DEF BtqShape, BtqEngDomain
<1>9. BtqShape'
  BY <1>1, <1>2, <1>8 DEF BtqShape, BtqHwDomain, BtqCtxDomain
<1>10. BtqChains'
  BY <1>1, <1>2, <1>7, <1>8 DEF BtqChains
<1>11. btqEng'.put \/ btqEng'.chains = btqEng.chains
  BY <1>6, <1>7, <1>8
<1>12. BtqToForget'
  BY <1>2, <1>3, <1>8, <1>11 DEF BtqInv, BtqToForget
<1>13. Btq!BtqNotForgotten'
  BY <1>2, <1>3, <1>8, <1>11 DEF BtqInv, Btq!BtqNotForgotten
<1> QED BY <1>9, <1>10, <1>12, <1>13 DEF BtqInv

LEMMA BtqPuts ==
  ASSUME BtqInv, Btq!PutNewChain
  PROVE  BtqInv'
<1>1. BtqShape /\ BtqChains
  BY DEF BtqInv
<1>2. btqEng' = [btqEng EXCEPT !.put = FALSE, !.new = @ + 1] /\ UNCHANGED <<btqCtx, btqHw>>
  BY DEF Btq!PutNewChain
<1>3. /\ BtqEngDomain' /\ btqEng'.buf = btqEng.buf /\ btqEng'.chains = btqEng.chains
      /\ btqEng'.reading = btqEng.reading /\ btqEng'.new = btqEng.new + 1
      /\ btqEng'.bitmap = btqEng.bitmap /\ btqEng'.sch = btqEng.sch
  BY <1>1, <1>2 DEF BtqShape, BtqEngDomain
<1>4. btqEng.new + 1 \in Nat /\ btqEng.new + 1 > 0
  BY <1>1 DEF BtqShape
<1>5. BtqShape'
  BY <1>1, <1>2, <1>3, <1>4 DEF BtqShape, BtqHwDomain, BtqCtxDomain
<1>6. BtqChains'
  BY <1>1, <1>2, <1>3 DEF BtqChains
<1>7. BtqToForget' /\ Btq!BtqNotForgotten'
  BY <1>2, <1>3, <1>4 DEF BtqInv, BtqToForget, Btq!BtqNotForgotten
<1> QED BY <1>5, <1>6, <1>7 DEF BtqInv

\* The answer of the unit and the news of a chain, in either order.
LEMMA BtqSchedules ==
  ASSUME BtqInv, Btq!TakeRsp \/ Btq!TakeNew \/ Btq!NotifyReq
  PROVE  BtqInv'
<1>1. BtqShape /\ BtqChains /\ Btq!BtqNotForgotten /\ BtqToForget
  BY DEF BtqInv
<1> DEFINE sch == btqEng.sch
           new == btqEng.new
<1>2. sch \in Nat /\ new \in Nat /\ btqEng.bitmap \in {0, 1, 2} /\ btqHw.turn \in {"none", "asked", "rsp"}
  BY <1>1 DEF BtqShape
<1>3. /\ btqEng.bitmap = 0 => sch = 0 /\ btqHw.turn = "none"
      /\ btqEng.bitmap # 0 /\ btqHw.turn = "none" => sch = 1
      /\ btqEng.bitmap # 0 /\ btqHw.turn # "none" => sch = 0
  BY <1>1, <1>2 DEF Btq!BtqNotForgotten
<1>4. CASE Btq!TakeRsp
  <2>1. btqHw.turn = "rsp" /\ btqHw' = [btqHw EXCEPT !.turn = "none"] /\ UNCHANGED btqCtx
    BY <1>4 DEF Btq!TakeRsp
  <2>2. btqEng.bitmap \in {1, 2} /\ sch = 0
    BY <1>2, <1>3, <2>1
  <2>3. btqHw'.turn = "none" /\ BtqHwDomain'
    BY <1>1, <2>1 DEF BtqShape, BtqHwDomain
  <2>4. ~btqEng.reading
    BY <1>1, <2>1 DEF BtqChains
  <2>5. \/ /\ \E b \in {1, 2} : btqEng' = [btqEng EXCEPT !.sch = sch + 1, !.bitmap = b]
        \/ btqHw.done /\ btqEng.bitmap = 1 /\ btqEng' = [btqEng EXCEPT !.bitmap = 0]
    BY <1>4, <2>2 DEF Btq!TakeRsp
  <2>6. CASE \E b \in {1, 2} : btqEng' = [btqEng EXCEPT !.sch = sch + 1, !.bitmap = b]
    <3>1. PICK b \in {1, 2} : btqEng' = [btqEng EXCEPT !.sch = sch + 1, !.bitmap = b]
      BY <2>6
    <3>2. /\ BtqEngDomain' /\ btqEng'.buf = btqEng.buf /\ btqEng'.chains = btqEng.chains
          /\ btqEng'.reading = btqEng.reading /\ btqEng'.new = new
          /\ btqEng'.bitmap = b /\ btqEng'.sch = 1
      BY <1>1, <2>2, <3>1 DEF BtqShape, BtqEngDomain
    <3>3. BtqShape'
      BY <1>1, <1>2, <2>1, <2>3, <3>2 DEF BtqShape, BtqCtxDomain
    <3>4. BtqChains'
      BY <1>1, <2>4, <3>2 DEF BtqChains
    <3>5. BtqToForget' /\ Btq!BtqNotForgotten'
      BY <2>3, <3>2 DEF BtqToForget, Btq!BtqNotForgotten
    <3> QED BY <3>3, <3>4, <3>5 DEF BtqInv
  <2>7. CASE btqHw.done /\ btqEng.bitmap = 1 /\ btqEng' = [btqEng EXCEPT !.bitmap = 0]
    <3>1. /\ BtqEngDomain' /\ btqEng'.buf = btqEng.buf /\ btqEng'.chains = btqEng.chains
          /\ btqEng'.reading = btqEng.reading /\ btqEng'.new = new /\ btqEng'.put = btqEng.put
          /\ btqEng'.bitmap = 0 /\ btqEng'.sch = 0
      BY <1>1, <2>2, <2>7 DEF BtqShape, BtqEngDomain
    <3>2. BtqShape'
      BY <1>1, <1>2, <2>1, <2>3, <3>1 DEF BtqShape, BtqCtxDomain
    <3>3. BtqChains'
      BY <1>1, <2>4, <3>1 DEF BtqChains
    <3>4. BtqToForget'
      BY <2>3 DEF BtqToForget
    <3>5. Btq!BtqNotForgotten'
      BY <1>1, <2>1, <2>3, <2>7, <3>1 DEF BtqToForget, Btq!BtqNotForgotten
    <3> QED BY <3>2, <3>3, <3>4, <3>5 DEF BtqInv
  <2> QED BY <2>5, <2>6, <2>7
<1>5. CASE Btq!TakeNew
  <2>1. new > 0 /\ UNCHANGED <<btqCtx, btqHw>>
    BY <1>5 DEF Btq!TakeNew
  <2>2. new - 1 \in Nat
    BY <1>2, <2>1
  <2>3. CASE btqEng.bitmap = 0
    <3>1. btqEng' = [btqEng EXCEPT !.new = new - 1, !.sch = sch + 1, !.bitmap = 1]
      BY <1>5, <2>3 DEF Btq!TakeNew
    <3>2. sch = 0 /\ btqHw.turn = "none"
      BY <1>3, <2>3
    <3>3. /\ BtqEngDomain' /\ btqEng'.buf = btqEng.buf /\ btqEng'.chains = btqEng.chains
          /\ btqEng'.reading = btqEng.reading /\ btqEng'.new = new - 1
          /\ btqEng'.bitmap = 1 /\ btqEng'.sch = 1
      BY <1>1, <3>1, <3>2 DEF BtqShape, BtqEngDomain
    <3>4. BtqShape'
      BY <1>1, <2>1, <2>2, <3>3 DEF BtqShape, BtqHwDomain, BtqCtxDomain
    <3>5. BtqChains'
      BY <1>1, <2>1, <3>3 DEF BtqChains
    <3>6. BtqToForget' /\ Btq!BtqNotForgotten'
      BY <2>1, <3>2, <3>3 DEF BtqToForget, Btq!BtqNotForgotten
    <3> QED BY <3>4, <3>5, <3>6 DEF BtqInv
  <2>4. CASE btqEng.bitmap # 0
    <3>1. btqEng' = [btqEng EXCEPT !.new = new - 1, !.bitmap = 2]
      BY <1>5, <2>4 DEF Btq!TakeNew
    <3>2. /\ BtqEngDomain' /\ btqEng'.buf = btqEng.buf /\ btqEng'.chains = btqEng.chains
          /\ btqEng'.reading = btqEng.reading /\ btqEng'.new = new - 1
          /\ btqEng'.bitmap = 2 /\ btqEng'.sch = sch
      BY <1>1, <3>1 DEF BtqShape, BtqEngDomain
    <3>3. BtqShape'
      BY <1>1, <1>2, <2>1, <2>2, <3>2 DEF BtqShape, BtqHwDomain, BtqCtxDomain
    <3>4. BtqChains'
      BY <1>1, <2>1, <3>2 DEF BtqChains
    <3>5. BtqToForget' /\ Btq!BtqNotForgotten'
      BY <1>1, <2>1, <2>4, <3>2 DEF BtqToForget, Btq!BtqNotForgotten
    <3> QED BY <3>3, <3>4, <3>5 DEF BtqInv
  <2> QED BY <2>3, <2>4
<1>6. CASE Btq!NotifyReq
  <2>1. /\ sch > 0 /\ btqHw.turn = "none" /\ UNCHANGED btqCtx
        /\ btqEng' = [btqEng EXCEPT !.sch = sch - 1] /\ btqHw' = [btqHw EXCEPT !.turn = "asked"]
    BY <1>6 DEF Btq!NotifyReq
  <2>2. btqEng.bitmap # 0 /\ sch = 1
    BY <1>2, <1>3, <2>1
  <2>3. /\ BtqEngDomain' /\ btqEng'.buf = btqEng.buf /\ btqEng'.chains = btqEng.chains
        /\ btqEng'.reading = btqEng.reading /\ btqEng'.new = new
        /\ btqEng'.bitmap = btqEng.bitmap /\ btqEng'.sch = 0 /\ BtqHwDomain' /\ btqHw'.turn = "asked"
    BY <1>1, <2>1, <2>2 DEF BtqShape, BtqEngDomain, BtqHwDomain
  <2>4. BtqShape'
    BY <1>1, <1>2, <2>1, <2>3 DEF BtqShape, BtqCtxDomain
  <2>5. BtqChains'
    BY <1>1, <2>3 DEF BtqChains
  <2>6. BtqToForget' /\ Btq!BtqNotForgotten'
    BY <2>2, <2>3 DEF BtqToForget, Btq!BtqNotForgotten
  <2> QED BY <2>4, <2>5, <2>6 DEF BtqInv
<1> QED BY <1>4, <1>5, <1>6

\* The unit reads a chain or is told that there is none.
LEMMA BtqReads ==
  ASSUME BtqInv, Btq!RdNdesc \/ Btq!RdDesc
  PROVE  BtqInv'
<1>1. BtqShape /\ BtqChains /\ Btq!BtqNotForgotten
  BY DEF BtqInv
<1>2. CASE Btq!RdNdesc
  <2>1. btqHw.turn = "asked" /\ ~btqEng.reading /\ UNCHANGED btqCtx
    BY <1>2 DEF Btq!RdNdesc
  <2>2. CASE btqEng.chains > 0 /\ btqCtx.status = "doing"
    <3>1. btqEng' = [btqEng EXCEPT !.reading = TRUE] /\ UNCHANGED btqHw
      BY <1>2, <2>2 DEF Btq!RdNdesc
    <3>2. /\ BtqEngDomain' /\ btqEng'.buf = btqEng.buf /\ btqEng'.chains = btqEng.chains
          /\ btqEng'.new = btqEng.new /\ btqEng'.put = btqEng.put
          /\ btqEng'.bitmap = btqEng.bitmap /\ btqEng'.sch = btqEng.sch
      BY <1>1, <3>1 DEF BtqShape, BtqEngDomain
    <3>3. BtqShape'
      BY <1>1, <2>1, <3>1, <3>2 DEF BtqShape, BtqHwDomain, BtqCtxDomain
    <3>4. BtqChains'
      BY <1>1, <2>1, <3>1, <3>2 DEF BtqChains
    <3>5. BtqToForget' /\ Btq!BtqNotForgotten'
      BY <1>1, <2>1, <3>1, <3>2 DEF BtqToForget, Btq!BtqNotForgotten
    <3> QED BY <3>3, <3>4, <3>5 DEF BtqInv
  <2>3. CASE ~(btqEng.chains > 0 /\ btqCtx.status = "doing")
    <3>1. btqHw' = [btqHw EXCEPT !.turn = "rsp", !.done = TRUE] /\ UNCHANGED btqEng
      BY <1>2, <2>3 DEF Btq!RdNdesc
    <3>2. BtqHwDomain' /\ btqHw'.turn = "rsp"
      BY <1>1, <3>1 DEF BtqShape, BtqHwDomain
    <3>3. BtqShape'
      BY <1>1, <2>1, <3>1, <3>2 DEF BtqShape, BtqEngDomain, BtqCtxDomain
    <3>4. BtqChains'
      BY <1>1, <2>1, <3>1 DEF BtqChains
    <3>5. BtqToForget' /\ Btq!BtqNotForgotten'
      BY <1>1, <2>1, <2>3, <3>1, <3>2 DEF BtqToForget, Btq!BtqNotForgotten
    <3> QED BY <3>3, <3>4, <3>5 DEF BtqInv
  <2> QED BY <2>2, <2>3
<1>3. CASE Btq!RdDesc
  <2> DEFINE d == Head(btqEng.buf)
             rest == Tail(btqEng.buf)
  <2>1. btqEng.reading /\ btqEng.buf # <<>> /\ btqHw.turn = "asked"
    BY <1>1, <1>3 DEF Btq!RdDesc, BtqChains
  <2>2. PICK out, localCi : btqCtx' = [btqCtx EXCEPT !.out = out, !.localCi = localCi]
    BY <1>3 DEF Btq!RdDesc
  <2>3. BtqCtxDomain' /\ btqCtx'.status = btqCtx.status
    BY <1>1, <2>2 DEF BtqShape, BtqCtxDomain
  <2>4. PICK S : btqEng.buf \in Seq(S)
    BY <1>1 DEF BtqChains
  <2>5. /\ rest \in Seq(S)
        /\ d.next => Cardinality(BtqEnds(rest)) = btqEng.chains
        /\ ~d.next => Cardinality(BtqEnds(rest)) = btqEng.chains - 1
        /\ Len(btqEng.buf) = 1 => Cardinality(BtqEnds(rest)) = 0
    BY <1>1, <2>1, <2>4, BtqEndsTail DEF BtqChains
  <2>6. CASE d.next
    <3>1. /\ btqEng' = [btqEng EXCEPT !.buf = rest]
          /\ \E got : btqHw' = [btqHw EXCEPT !.got = got]
      BY <1>3, <2>6 DEF Btq!RdDesc
    <3>2. /\ BtqEngDomain' /\ btqEng'.buf = rest /\ btqEng'.chains = btqEng.chains
          /\ btqEng'.reading = btqEng.reading /\ btqEng'.new = btqEng.new /\ btqEng'.put = btqEng.put
          /\ btqEng'.bitmap = btqEng.bitmap /\ btqEng'.sch = btqEng.sch
      BY <1>1, <3>1 DEF BtqShape, BtqEngDomain
    <3>3. BtqHwDomain' /\ btqHw'.turn = "asked"
      BY <1>1, <2>1, <3>1 DEF BtqShape, BtqHwDomain
    <3>4. BtqShape'
      BY <1>1, <2>3, <3>2, <3>3 DEF BtqShape
    <3>5. BtqChains'
      BY <2>5, <2>6, <3>2, <3>3 DEF BtqChains
    <3>6. BtqToForget' /\ Btq!BtqNotForgotten'
      BY <1>1, <2>1, <2>3, <3>2, <3>3 DEF BtqToForget, Btq!BtqNotForgotten
    <3> QED BY <3>4, <3>5, <3>6 DEF BtqInv
  <2>7. CASE ~d.next
    <3>1. /\ btqEng' = [btqEng EXCEPT !.buf = rest, !.chains = btqEng.chains - 1, !.reading = FALSE]
          /\ \E got : btqHw' = [btqHw EXCEPT !.got = got, !.turn = "rsp", !.done = (Len(btqEng.buf) = 1)]
      BY <1>3, <2>7 DEF Btq!RdDesc
    <3>2. /\ BtqEngDomain' /\ btqEng'.buf = rest /\ btqEng'.chains = btqEng.chains - 1
          /\ ~btqEng'.reading /\ btqEng'.new = btqEng.new /\ btqEng'.put = btqEng.put
          /\ btqEng'.bitmap = btqEng.bitmap /\ btqEng'.sch = btqEng.sch
      BY <1>1, <3>1 DEF BtqShape, BtqEngDomain
    <3>3. BtqHwDomain' /\ btqHw'.turn = "rsp" /\ (btqHw'.done <=> Len(btqEng.buf) = 1)
      BY <1>1, <3>1 DEF BtqShape, BtqHwDomain
    <3>4. BtqShape'
      BY <1>1, <2>3, <3>2, <3>3 DEF BtqShape
    <3>5. BtqChains'
      BY <2>5, <2>7, <3>2, <3>3 DEF BtqChains
    <3>6. btqHw'.done => btqEng'.chains = 0
      BY <2>5, <2>7, <3>2, <3>3
    <3>7. BtqToForget'
      BY <3>6 DEF BtqToForget
    <3>8. btqEng.bitmap # 0
      BY <1>1, <2>1 DEF BtqShape, Btq!BtqNotForgotten
    <3>9. Btq!BtqNotForgotten'
      BY <1>1, <2>1, <2>3, <3>2, <3>3, <3>8 DEF Btq!BtqNotForgotten
    <3> QED BY <3>4, <3>5, <3>7, <3>9 DEF BtqInv
  <2> QED BY <2>6, <2>7
<1> QED BY <1>2, <1>3

LEMMA BtqStep == BtqInv /\ [Btq!Next]_(Btq!vars) => BtqInv'
<1> SUFFICES ASSUME BtqInv, [Btq!Next]_(Btq!vars) PROVE BtqInv'
  OBVIOUS
<1>1. CASE Btq!Next
  BY <1>1, BtqAside, BtqRecovers, BtqTakes, BtqPuts, BtqSchedules, BtqReads
     DEF Btq!Next, Btq!Worker, Btq!Engine, Btq!Dut
<1>2. CASE UNCHANGED Btq!vars
  BY <1>2 DEF Btq!vars, BtqInv, BtqShape, BtqChains, BtqToForget, Btq!BtqNotForgotten,
              BtqEngDomain, BtqHwDomain, BtqCtxDomain
<1> QED BY <1>1, <1>2

-----------------------------------------------------------------------------
(* The theorems. *)

LinkInv ==
  /\ bench = "stream" => StrInv
  /\ bench = "sav" => SavInv
  /\ bench = "beq" => PipInv /\ PipCarried
  /\ bench = "dma" => DmaInv /\ DmaCarried
  /\ bench = "beqtxq" => BtqInv

LEMMA LinkInvInit == LinkInit => LinkInv
  BY StreamAlone, SavAlone, BeqAlone, DmaAlone, BeqTxqAlone, StrInit, SavInit, PipInit, PipCarriedInit,
     DmaInit, DmaCarriedInit, BtqInit DEF LinkInv

LEMMA LinkInvStep == LinkInv /\ [LinkNext]_linkVars => LinkInv'
<1> SUFFICES ASSUME LinkInv, [LinkNext]_linkVars PROVE LinkInv'
  OBVIOUS
<1>1. UNCHANGED bench
  BY SameBench
<1>2. bench = "stream" => StrInv'
  BY StreamAlone, StrStep DEF LinkInv
<1>3. bench = "sav" => SavInv'
  BY SavAlone, SavStep DEF LinkInv
<1>4. bench = "beq" => PipInv' /\ PipCarried'
  BY BeqAlone, PipStep, PipCarries DEF LinkInv
<1>5. bench = "dma" => DmaInv' /\ DmaCarried'
  BY DmaAlone, DmaStep, DmaCarries DEF LinkInv
<1>6. bench = "beqtxq" => BtqInv'
  BY BeqTxqAlone, BtqStep DEF LinkInv
<1> QED BY <1>1, <1>2, <1>3, <1>4, <1>5, <1>6 DEF LinkInv

LEMMA LinkInvHolds == LinkSafety => []LinkInv
<1>1. LinkInit => LinkInv
  BY LinkInvInit
<1>2. LinkInv /\ [LinkNext]_linkVars => LinkInv'
  BY LinkInvStep
<1> QED BY <1>1, <1>2, PTL DEF LinkSafety

\* The queues of the valid/ready bus (sim/common/stream_bus.py) stay within
\* their limit, its monitor misses no transfer, and the sink of the bus with
\* back pressure holds at most the items of one pause more than its limit.
THEOREM QueuesStayBounded == LinkSafety => []QueuesBounded
<1>1. StrInv => Str!StrQueuesBounded /\ Str!StrMonitorSeesAll
  BY DEF StrInv, StrRoom, Str!StrQueuesBounded
<1>2. SavInv => Sav!SavSinkBounded
  <2> SUFFICES ASSUME SavInv PROVE Sav!SavSinkBounded
    OBVIOUS
  <2>1. Len(savSnk.q) \in Nat /\ savSnk.cnt \in 0 .. MaxPause
    BY DEF SavInv, SavTypes, SavSnkType
  <2>2. Len(savSnk.q) <= Limit + savSnk.cnt \/ Len(savSnk.q) < Limit
    BY DEF SavInv, SavRoom
  <2> DEFINE len == Len(savSnk.q)
             cnt == savSnk.cnt
  <2>3. len \in Nat /\ cnt \in 0 .. MaxPause /\ (len <= Limit + cnt \/ len < Limit)
    BY <2>1, <2>2
  <2> HIDE DEF len, cnt
  <2>4. len <= Limit + MaxPause
    BY <2>3, LinksAssumption
  <2> QED BY <2>4 DEF Sav!SavSinkBounded, len
<1>3. LinkInv => QueuesBounded
  BY <1>1, <1>2 DEF LinkInv, QueuesBounded
<1> QED BY <1>3, LinkInvHolds, PTL

\* A driver that says it is idle has sent what it was given, a transactor's
\* count of what is in flight is what it holds, and the scheduling of a
\* transmit queue forgets none that has a chain (sim/test_beq_txq).
THEOREM IdleStaysIdle == LinkSafety => []IdleIsIdle
<1>1. LinkInv => IdleIsIdle
  BY PipIdle DEF LinkInv, IdleIsIdle, StrInv, SavInv, DmaInv, BtqInv
<1> QED BY <1>1, LinkInvHolds, PTL

\* The wires of either bus carry what is sent once and in order, and lose at
\* most the item on them to a reset: they implement FifoLink.
THEOREM WiresCarry == LinkSafety => WiresAreFifos
<1> DEFINE chan == IF bench = "stream" THEN Str!Chan ELSE IF bench = "sav" THEN Sav!Chan ELSE <<>>
           out == IF bench = "stream" THEN strOut ELSE IF bench = "sav" THEN savOut ELSE -1
           rst == IF bench = "stream" THEN strRst ELSE IF bench = "sav" THEN savRst ELSE TRUE
<1>1. LinkInit => Wires!Init
  <2> SUFFICES ASSUME LinkInit PROVE Wires!Init
    OBVIOUS
  <2>1. CASE bench = "stream"
    <3>1. strSnk.q = <<>> /\ ~strSrc.vld /\ strSrc.q = <<>> /\ strOut = -1 /\ strRst = TRUE
      BY <2>1, StreamAlone DEF Str!Init
    <3>2. Str!Chan = <<>>
      BY <3>1 DEF Str!Chan
    <3> QED BY <2>1, <3>1, <3>2 DEF Wires!Init
  <2>2. CASE bench = "sav"
    <3>1. savSnk.q = <<>> /\ ~savSrc.vld /\ savSrc.q = <<>> /\ savOut = -1 /\ savRst = TRUE
      BY <2>2, SavAlone DEF Sav!Init
    <3>2. Sav!Chan = <<>>
      BY <3>1 DEF Sav!Chan
    <3> QED BY <2>2, <3>1, <3>2 DEF Wires!Init
  <2>3. CASE bench # "stream" /\ bench # "sav"
    BY <2>3 DEF Wires!Init
  <2> QED BY <2>1, <2>2, <2>3
<1>2. LinkInv /\ [LinkNext]_linkVars => [Wires!Next]_<<chan, out, rst>>
  <2> SUFFICES ASSUME LinkInv, [LinkNext]_linkVars PROVE [Wires!Next]_<<chan, out, rst>>
    OBVIOUS
  <2>1. UNCHANGED bench
    BY SameBench
  <2>2. CASE bench = "stream"
    <3>1. /\ Str!Chan \in Seq(Int)
          /\ LinkStep(Str!Chan, Str!Chan', strOut, strOut', strRst, strRst')
      BY <2>2, StreamAlone, StrChan DEF LinkInv
    <3> QED BY <2>1, <2>2, <3>1, StreamWires
  <2>3. CASE bench = "sav"
    <3>1. /\ Sav!Chan \in Seq(Int)
          /\ LinkStep(Sav!Chan, Sav!Chan', savOut, savOut', savRst, savRst')
      BY <2>3, SavAlone, SavChan DEF LinkInv
    <3> QED BY <2>1, <2>3, <3>1, SavWires
  <2>4. CASE bench # "stream" /\ bench # "sav"
    BY <2>1, <2>4
  <2> QED BY <2>2, <2>3, <2>4
<1> QED BY <1>1, <1>2, LinkInvHolds, PTL DEF LinkSafety, WiresAreFifos, Wires!Spec

\* No sink of the bus with back pressure has more than it can take, the slave
\* finds no packet in pieces (monitors/beq_data_bus.py), and the DMA master no
\* response that is another's (drivers/tlp_adap_dma_bus.py), but for what a reset
\* leaves that hits a write.
THEOREM BusAlarmsAreReal == LinkSafety => []NoBusAlarm
<1>1. LinkInv => NoBusAlarm
  BY DEF LinkInv, NoBusAlarm, SavInv, PipCarried, DmaCarried, Pip!PipNoFalseAlarm, Dma!DmaNoFalseAlarm
<1> QED BY <1>1, LinkInvHolds, PTL

LEMMA PacketWires ==
  ASSUME bench = "beq", UNCHANGED bench, Pip!Chan \in Seq(Int), PipMoves
  PROVE  [Packets!Next]_<<IF bench = "beq" THEN Pip!Chan ELSE <<>>, IF bench = "beq" THEN pipOut ELSE -1,
                          IF bench = "beq" THEN pipRst ELSE TRUE>>
<1>1. CASE Pip!Chan' = Pip!Chan /\ pipOut' = pipOut /\ pipRst' = pipRst
  BY <1>1
<1>2. CASE UNCHANGED <<pipOut, pipRst>> /\ \E e \in Nat : Pip!Chan' = Append(Pip!Chan, e)
  BY <1>2, AppendFront DEF Packets!Next, Packets!Put
<1>3. CASE UNCHANGED pipRst /\ Pip!Chan # <<>> /\ pipOut' = Head(Pip!Chan) /\ Pip!Chan' = Tail(Pip!Chan)
  BY <1>3 DEF Packets!Next, Packets!Take
<1>4. CASE /\ ~pipRst /\ pipRst' = TRUE /\ UNCHANGED pipOut
           /\ \E i \in 0 .. Len(Pip!Chan), n \in 0 .. 4 * Limit + 2 :
                i + n <= Len(Pip!Chan) /\ Pip!Chan' = Packets!Without(Pip!Chan, i, n)
  BY <1>4 DEF Packets!Next, Packets!ResetOn
<1>5. CASE pipRst /\ pipRst' = FALSE /\ UNCHANGED <<Pip!Chan, pipOut>>
  BY <1>5 DEF Packets!Next, Packets!ResetOff
<1> QED BY <1>1, <1>2, <1>3, <1>4, <1>5 DEF PipMoves, PacketStep

\* A pair of transactors carries whole packets once and in order, and loses no
\* piece of one to a reset: it implements FifoLink.
THEOREM PacketsCarry == LinkSafety => PacketsAreFifos
<1> DEFINE chan == IF bench = "beq" THEN Pip!Chan ELSE <<>>
           out == IF bench = "beq" THEN pipOut ELSE -1
           rst == IF bench = "beq" THEN pipRst ELSE TRUE
<1>1. LinkInit => Packets!Init
  <2> SUFFICES ASSUME LinkInit PROVE Packets!Init
    OBVIOUS
  <2>1. CASE bench = "beq"
    <3> DEFINE empty == <<>>
    <3>1. /\ pipMst.q = empty /\ pipMst.put = Pip!None /\ pipSlv.q = empty /\ pipSlv.put = Pip!None
          /\ pipMst.cur = empty /\ pipBus.src = empty /\ pipBus.snk = empty
          /\ pipOut = -1 /\ pipRst = TRUE
      BY <2>1, BeqAlone DEF Pip!Init, Pip!None
    <3>2. Pip!Held(pipMst.put) = empty /\ Pip!Held(pipSlv.put) = empty
      BY <3>1 DEF Pip!Held
    <3>3. Pip!Ended(empty) = empty /\ empty \in Seq(Int) /\ empty \o empty = empty
      BY EndedEmpty
    <3> HIDE DEF empty
    <3>4. PipWay = empty
      BY <3>1, <3>3 DEF PipWay
    <3>5. Pip!Chan = empty
      BY <3>1, <3>2, <3>3, <3>4, PipChan DEF Parts
    <3> QED BY <2>1, <3>1, <3>5 DEF Packets!Init, empty
  <2>2. CASE bench # "beq"
    BY <2>2 DEF Packets!Init
  <2> QED BY <2>1, <2>2
<1>2. LinkInv /\ [LinkNext]_linkVars => [Packets!Next]_<<chan, out, rst>>
  <2> SUFFICES ASSUME LinkInv, [LinkNext]_linkVars PROVE [Packets!Next]_<<chan, out, rst>>
    OBVIOUS
  <2>1. UNCHANGED bench
    BY SameBench
  <2>2. CASE bench = "beq"
    <3>1. PipInv /\ PipCarried /\ [Pip!Next]_(Pip!vars)
      BY <2>2, BeqAlone DEF LinkInv
    <3>2. Pip!Chan \in Seq(Int) /\ PipMoves
      BY <3>1, PipShape, PipCarries
    <3> QED BY <2>1, <2>2, <3>2, PacketWires
  <2>3. CASE bench # "beq"
    BY <2>1, <2>3
  <2> QED BY <2>2, <2>3
<1> QED BY <1>1, <1>2, LinkInvHolds, PTL DEF LinkSafety, PacketsAreFifos, Packets!Spec
=============================================================================
