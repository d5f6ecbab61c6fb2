-------------------------- MODULE NotifyPath_proofs --------------------------
(***************************************************************************)
(* The notification path for every number of queues, width of the indices, *)
(* size of ring, threshold and depth of FIFO: no kick is lost, the DMA of  *)
(* a queue is counted right, the avail ring engine is awake, the index     *)
(* follows the driver.                                                     *)
(***************************************************************************)
EXTENDS NotifyPath, EngineLemmas

-----------------------------------------------------------------------------
(* The inductive invariant. *)

\* The machines' registers hold one value each.
RegInv ==
  /\ Len(idxNotify) <= 1 /\ Len(errReq) <= 1 /\ Len(notifyRsp) <= 1
  /\ Len(dbReq) <= 1 /\ Len(socReq) <= 1
  /\ dbStat = "SOC" => socReq # <<>>
  /\ dbStat = "DOORBELL" => doorbells # <<>>
  /\ op # <<>> => idxNotify = <<>> /\ errReq = <<>> /\ notifyRsp = <<>>

\* Where the operation comes from, and that nobody else took it meanwhile.
Origin(o) ==
  /\ o.type = "KICK_NOTIFY" => o.q \in want /\ o.q \notin serving /\ ~o.err
  /\ o.type = "WR_NOTIFY_RSP" => wrRspFf # <<>> /\ o.q = Head(wrRspFf) /\ ~o.err
  /\ o.type = "RD_NOTIFY_RSP" => rdFlagsFf # <<>> /\ Head(rdFlagsFf) = [q |-> o.q, err |-> o.err]
  /\ o.type = "RD_IDX_RSP" =>
       rdIdxFf # <<>> /\ Head(rdIdxFf) = [q |-> o.q, idx |-> o.idx, err |-> o.err]

\* How old its sample may be: one change of the status.
Aged(o) ==
  /\ o.forced => o.status = "STOPPING" /\ (status[o.q] = "IDLE" \/ forced[o.q])
  /\ o.status = "STARTING" => status[o.q] \in {"STARTING", "DOING"} \/ forced[o.q]
  /\ o.status = "DOING" => status[o.q] \in {"DOING", "STOPPING"}
  /\ o.status = "STOPPING" =>
       \/ status[o.q] \in {"STOPPING", "IDLE"}
       \/ status[o.q] = "DOING" /\ ~o.forced /\ "resume" \in Env
  /\ o.status = "IDLE" => status[o.q] \in {"IDLE", "STARTING"}
  /\ o.status # "IDLE" => o.ctx = ctx[o.q]
  /\ o.status = "STARTING" => o.ctx.dmaOut = 0 /\ ~o.ctx.noNotify /\ ~o.ctx.noChange

OpInv == \A i \in DOMAIN op : Origin(op[i]) /\ Aged(op[i])

\* What the context of a queue in each status looks like.
CtxInv ==
  \A q \in Q :
    /\ forced[q] => status[q] = "STOPPING"
    /\ status[q] = "STARTING" =>
         ctx[q].availIdx = availUi[q] /\ ~ctx[q].noNotify /\ ~ctx[q].noChange
    /\ status[q] \in {"IDLE", "STARTING"} => ctx[q].dmaOut = 0
    /\ ctx[q].noChange => NoChangeWired

\* One place for each queue that is served.
Answered(q) == \E i \in DOMAIN notifyRsp : notifyRsp[i].q = q

ServeInv ==
  \A q \in Q :
    /\ ctx[q].dmaOut = OpenDma(q)
    /\ OpenDma(q) \in {0, 1}
    /\ OpenDma(q) = 1 => q \in serving /\ ~Answered(q)
    /\ Answered(q) => q \in serving
    /\ q \in serving /\ ~Answered(q) => OpenDma(q) = 1

\* The avail ring engine does not sleep, even while the queue is stopping.
AwakeInv ==
  \A q \in Q : status[q] \in {"DOING", "STOPPING"} /\ availUi[q] # ctx[q].availIdx
                 => q \in ringToken \/ Holds(idxNotify, q)

\* Pointer of the avail ring, mirrored index, index on its way, index of the
\* driver: in this order round the ring, and not further apart than it is long.
OrderInv ==
  /\ \A q \in Q :
       /\ Minus(ctx[q].availIdx, availUi[q]) + Minus(hostIdx[q], ctx[q].availIdx)
            = Minus(hostIdx[q], availUi[q])
       /\ Minus(hostIdx[q], availUi[q]) <= QSize
  /\ \A i \in DOMAIN rdIdxFf : ~rdIdxFf[i].err =>
       LET q == rdIdxFf[i].q
       IN  Minus(rdIdxFf[i].idx, ctx[q].availIdx) + Minus(hostIdx[q], rdIdxFf[i].idx)
             = Minus(hostIdx[q], ctx[q].availIdx)

\* Without a failed read there is no error.
ErrInv == "dma_err" \notin Env =>
  /\ errReq = <<>>
  /\ \A i \in DOMAIN rdIdxFf : ~rdIdxFf[i].err
  /\ \A i \in DOMAIN rdFlagsFf : ~rdFlagsFf[i].err

\* The first half, which holds for every environment and wiring.
BaseInv == TypeOK /\ RegInv /\ OpInv /\ CtxInv /\ ServeInv /\ AwakeInv /\ OrderInv /\ ErrInv

(***************************************************************************)
(* The second half, about the kicks of a queue that runs, or is stopping   *)
(* and may be resumed.  FlagsOn: the driver's notifications are on, or     *)
(* the last write of the flags on its way switches them on.                *)
(***************************************************************************)
Runs(q) == \/ status[q] = "DOING"
           \/ status[q] = "STOPPING" /\ ~forced[q] /\ "resume" \in Env
Kicked(q) == q \in want \/ Holds(socReq, q) \/ Holds(dbReq, q) \/ Holds(doorbells, q)
Landed(q) == \A i \in DOMAIN landing : landing[i].q # q
FlagsOn(q) ==
  \/ Landed(q) /\ ~hostFlags[q]
  \/ \E i \in DOMAIN landing :
       /\ landing[i] = [q |-> q, flags |-> FALSE]
       /\ \A j \in DOMAIN landing : j > i => landing[j].q # q
GivenUp(q) ==
  q \notin serving \/ \E i \in DOMAIN notifyRsp : notifyRsp[i] = [q |-> q, done |-> TRUE]

\* Flags switched on by the engine are on in the host.  While they are on, DMA
\* is open only after an index stood still, and an index that was read is the
\* driver's unless a kick is coming.  A queue is given up only with the flags
\* on, and the driver's index seen.
KickInvOf(q) ==
  /\ ctx[q].noChange /\ ~ctx[q].noNotify => FlagsOn(q)
  /\ OpenDma(q) = 1 /\ ~ctx[q].noNotify => ctx[q].noChange
  /\ \A i \in DOMAIN rdIdxFf : rdIdxFf[i].q = q /\ ~ctx[q].noNotify =>
       /\ Landed(q)
       /\ rdIdxFf[i].err \/ rdIdxFf[i].idx = hostIdx[q] \/ q \in posted \/ Kicked(q)
  /\ GivenUp(q) /\ ~Kicked(q) /\ ~Holds(errReq, q) =>
       /\ ~ctx[q].noNotify /\ ctx[q].noChange /\ Landed(q)
       /\ ctx[q].availIdx = hostIdx[q] \/ q \in posted

KickInv == \A q \in Q : Runs(q) => KickInvOf(q)

-----------------------------------------------------------------------------
(* What an operation may do. *)

\* The fields of an operation have the types of their registers.
LEMMA OpFields ==
  ASSUME NEW o \in Op
  PROVE  /\ o.type \in Types /\ o.q \in Q /\ o.idx \in Idx /\ o.err \in BOOLEAN
         /\ o.status \in Statuses /\ o.forced \in BOOLEAN /\ o.ctx \in CtxWord /\ o.diff \in Idx
         /\ o.ctx.availIdx \in Idx /\ o.ctx.noNotify \in BOOLEAN
         /\ o.ctx.noChange \in BOOLEAN /\ o.ctx.dmaOut \in 0 .. 127
  BY DEF Op, CtxWord

\* What it sends, by its type.
LEMMA Commands ==
  ASSUME NEW o \in Op
  PROVE  /\ o.type = "KICK_NOTIFY" =>
              \/ Command(o) = "none" /\ o.diff > Threshold /\ o.ctx.noNotify
              \/ /\ Command(o) = "wr_flags" /\ (o.ctx.noNotify => o.ctx.noChange)
                 /\ ~(o.diff > Threshold /\ o.ctx.noNotify)
              \/ /\ Command(o) = "rd_idx" /\ o.ctx.noChange # o.ctx.noNotify
                 /\ ~(o.diff > Threshold)
         /\ o.type = "WR_NOTIFY_RSP" => Command(o) = "rd_flags"
         /\ o.type = "RD_NOTIFY_RSP" =>
              \/ Command(o) = "none" /\ o.diff > Threshold
              \/ Command(o) = "rd_idx" /\ ~(o.diff > Threshold)
         /\ o.type = "RD_IDX_RSP" => Command(o) = "none"
<1>1. o.diff \in Int /\ Threshold \in Nat
  BY OpFields, IdxEngineAssumption DEF Idx
<1>2. o.diff <= Threshold <=> ~(o.diff > Threshold)
  BY <1>1
<1>3. o.ctx.noChange \in BOOLEAN /\ o.ctx.noNotify \in BOOLEAN
  BY OpFields
<1>4. CASE o.type = "KICK_NOTIFY"
  <2>1. CASE o.diff > Threshold
    BY <1>2, <1>3, <1>4, <2>1 DEF Command
  <2>2. CASE ~(o.diff > Threshold)
    BY <1>2, <1>3, <1>4, <2>2 DEF Command
  <2> QED BY <2>1, <2>2
<1>5. CASE o.type # "KICK_NOTIFY"
  BY <1>2, <1>5 DEF Command
<1> QED BY <1>4, <1>5

\* An operation answers the scheduler exactly if it opens no DMA.
LEMMA AnswersIfNone ==
  ASSUME NEW o \in Op
  PROVE  /\ Issued(o) \in {"none", "wr_flags", "rd_flags", "rd_idx"}
         /\ Answers(o) <=> Issued(o) = "none"
         /\ Issued(o) # "none" => o.status = "DOING" /\ Issued(o) = Command(o)
<1>1. o.type \in Types
  BY OpFields
<1>2. CASE o.type = "KICK_NOTIFY"
  BY <1>2, Commands DEF Issued, Answers
<1>3. CASE o.type = "WR_NOTIFY_RSP"
  BY <1>3, Commands DEF Issued, Answers
<1>4. CASE o.type = "RD_NOTIFY_RSP"
  BY <1>4, Commands DEF Issued, Answers
<1>5. CASE o.type = "RD_IDX_RSP"
  BY <1>5, Commands DEF Issued, Answers
<1> QED BY <1>1, <1>2, <1>3, <1>4, <1>5 DEF Types

\* The words that are written are words of the RAM.
LEMMA NewCtxType ==
  ASSUME NEW o \in Op
  PROVE  NewCtx(o) \in CtxWord
<1>1. NewIdx(o) \in Idx /\ NewNoNotify(o) \in BOOLEAN
  BY OpFields DEF NewIdx, NewNoNotify
<1>2. (NoChangeWired /\ NewNoChange(o)) \in BOOLEAN
  BY OpFields, IdxEngineAssumption DEF NewNoChange
<1>3. NewDmaOut(o) \in 0 .. 127
  <2>1. \A n \in Int : n % 128 \in 0 .. 127
    OBVIOUS
  <2>2. o.ctx.dmaOut + (IF Issued(o) # "none" THEN 1 ELSE 0)
          - (IF o.type # "KICK_NOTIFY" THEN 1 ELSE 0) \in Int
    BY OpFields
  <2> QED BY <2>1, <2>2 DEF NewDmaOut
<1> QED BY <1>1, <1>2, <1>3 DEF NewCtx, CtxWord

\* The difference of two indices is an index.
LEMMA MinusType ==
  ASSUME NEW a \in Idx, NEW b \in Idx
  PROVE  Minus(a, b) \in Idx
  BY IdxEngineAssumption, DivMod DEF Minus, Idx

-----------------------------------------------------------------------------
(* Open DMA, in the three sets and FIFOs it passes through. *)

RdN(q)   == Cardinality({r \in rdReq : r.q = q})
WrN(q)   == Cardinality({w \in wrReq : w.q = q})
IdxN(q)  == Cardinality({i \in DOMAIN rdIdxFf : rdIdxFf[i].q = q})
FlagN(q) == Cardinality({i \in DOMAIN rdFlagsFf : rdFlagsFf[i].q = q})
RspN(q)  == Cardinality({i \in DOMAIN wrRspFf : wrRspFf[i] = q})

\* The five places in which the DMA of a queue can be open.
LEMMA OpenSum == \A q : OpenDma(q) = RdN(q) + WrN(q) + IdxN(q) + FlagN(q) + RspN(q)
  BY DEF OpenDma, RdN, WrN, IdxN, FlagN, RspN

IdxRsps == [q : Q, idx : Idx, err : BOOLEAN]
FlagRsps == [q : Q, err : BOOLEAN]
IdxOf(q)  == {x \in IdxRsps : x.q = q}
FlagOf(q) == {x \in FlagRsps : x.q = q}

\* How many entries of each response FIFO belong to a queue: indices,
LEMMA IdxNCount ==
  ASSUME NEW q, rdIdxFf \in Seq(IdxRsps)
  PROVE  IdxN(q) = Count(rdIdxFf, IdxOf(q))
<1>1. \A i \in DOMAIN rdIdxFf : rdIdxFf[i] \in IdxRsps
  OBVIOUS
<1>2. {i \in DOMAIN rdIdxFf : rdIdxFf[i].q = q} = Places(rdIdxFf, IdxOf(q))
  BY <1>1 DEF Places, IdxOf
<1> QED BY <1>2 DEF IdxN, Count

\* flags,
LEMMA FlagNCount ==
  ASSUME NEW q, rdFlagsFf \in Seq(FlagRsps)
  PROVE  FlagN(q) = Count(rdFlagsFf, FlagOf(q))
<1>1. \A i \in DOMAIN rdFlagsFf : rdFlagsFf[i] \in FlagRsps
  OBVIOUS
<1>2. {i \in DOMAIN rdFlagsFf : rdFlagsFf[i].q = q} = Places(rdFlagsFf, FlagOf(q))
  BY <1>1 DEF Places, FlagOf
<1> QED BY <1>2 DEF FlagN, Count

\* and write responses.
LEMMA RspNCount ==
  ASSUME NEW q
  PROVE  RspN(q) = Count(wrRspFf, {q})
<1>1. {i \in DOMAIN wrRspFf : wrRspFf[i] = q} = Places(wrRspFf, {q})
  BY DEF Places
<1> QED BY <1>1 DEF RspN, Count

\* Two elements are finitely many.
LEMMA PairFinite ==
  ASSUME NEW a, NEW b
  PROVE  IsFiniteSet({a} \cup {b})
  BY FS_Singleton, FS_AddElement

\* A queue has finitely many requests, so each number is one.
LEMMA OpenFinite ==
  ASSUME TypeOK, NEW q \in Q
  PROVE  /\ IsFiniteSet({r \in rdReq : r.q = q}) /\ IsFiniteSet({w \in wrReq : w.q = q})
         /\ RdN(q) \in Nat /\ WrN(q) \in Nat /\ IdxN(q) \in Nat
         /\ FlagN(q) \in Nat /\ RspN(q) \in Nat
<1>1. IsFiniteSet({[q |-> q, kind |-> "idx"]} \cup {[q |-> q, kind |-> "flags"]})
  BY PairFinite
<1>2. {r \in rdReq : r.q = q} \subseteq {[q |-> q, kind |-> "idx"]} \cup {[q |-> q, kind |-> "flags"]}
  BY DEF TypeOK, EngTypeOK, Kinds
<1>3. IsFiniteSet({[q |-> q, flags |-> TRUE]} \cup {[q |-> q, flags |-> FALSE]})
  BY PairFinite, Zenon
<1>4. {w \in wrReq : w.q = q} \subseteq {[q |-> q, flags |-> TRUE]} \cup {[q |-> q, flags |-> FALSE]}
  BY DEF TypeOK, EngTypeOK
<1>5. IsFiniteSet({r \in rdReq : r.q = q}) /\ IsFiniteSet({w \in wrReq : w.q = q})
  BY <1>1, <1>2, <1>3, <1>4, FS_Subset
<1>6. RdN(q) \in Nat /\ WrN(q) \in Nat
  BY <1>5, FS_CardinalityType DEF RdN, WrN
<1>7. rdIdxFf \in Seq(IdxRsps) /\ rdFlagsFf \in Seq(FlagRsps) /\ wrRspFf \in Seq(Q)
  BY DEF TypeOK, EngTypeOK, IdxRsps, FlagRsps
<1>8. IdxN(q) \in Nat /\ FlagN(q) \in Nat /\ RspN(q) \in Nat
  BY <1>7, CountType, IdxNCount, FlagNCount, RspNCount
<1> QED BY <1>5, <1>6, <1>8

\* A queue without open DMA is nowhere.
LEMMA NoneOpen ==
  ASSUME TypeOK, NEW q \in Q
  PROVE  /\ RdN(q) = 0 <=> \A r \in rdReq : r.q # q
         /\ WrN(q) = 0 <=> \A w \in wrReq : w.q # q
         /\ IdxN(q) = 0 <=> \A i \in DOMAIN rdIdxFf : rdIdxFf[i].q # q
         /\ FlagN(q) = 0 <=> \A i \in DOMAIN rdFlagsFf : rdFlagsFf[i].q # q
         /\ RspN(q) = 0 <=> \A i \in DOMAIN wrRspFf : wrRspFf[i] # q
<1>1. RdN(q) = 0 <=> {r \in rdReq : r.q = q} = {}
  BY OpenFinite, FS_EmptySet DEF RdN
<1>2. WrN(q) = 0 <=> {w \in wrReq : w.q = q} = {}
  BY OpenFinite, FS_EmptySet DEF WrN
<1>3. rdIdxFf \in Seq(IdxRsps) /\ rdFlagsFf \in Seq(FlagRsps) /\ wrRspFf \in Seq(Q)
  BY DEF TypeOK, EngTypeOK, IdxRsps, FlagRsps
<1>4. IdxN(q) = 0 <=> \A i \in DOMAIN rdIdxFf : rdIdxFf[i] \notin IdxOf(q)
  BY <1>3, CountZero, IdxNCount
<1>5. FlagN(q) = 0 <=> \A i \in DOMAIN rdFlagsFf : rdFlagsFf[i] \notin FlagOf(q)
  BY <1>3, CountZero, FlagNCount
<1>6. RspN(q) = 0 <=> \A i \in DOMAIN wrRspFf : wrRspFf[i] \notin {q}
  BY <1>3, CountZero, RspNCount
<1>7. /\ \A i \in DOMAIN rdIdxFf : rdIdxFf[i] \notin IdxOf(q) <=> rdIdxFf[i].q # q
      /\ \A i \in DOMAIN rdFlagsFf : rdFlagsFf[i] \notin FlagOf(q) <=> rdFlagsFf[i].q # q
  BY <1>3 DEF IdxOf, FlagOf
<1>8. (\A r \in rdReq : r.q # q) <=> {r \in rdReq : r.q = q} = {}
  OBVIOUS
<1>9. (\A w \in wrReq : w.q # q) <=> {w \in wrReq : w.q = q} = {}
  OBVIOUS
<1>10. IdxN(q) = 0 <=> \A i \in DOMAIN rdIdxFf : rdIdxFf[i].q # q
  BY <1>4, <1>7
<1>11. FlagN(q) = 0 <=> \A i \in DOMAIN rdFlagsFf : rdFlagsFf[i].q # q
  BY <1>5, <1>7
<1> QED BY <1>1, <1>2, <1>6, <1>8, <1>9, <1>10, <1>11

\* The sum bounds its parts.
LEMMA OpenParts ==
  ASSUME TypeOK, NEW q \in Q
  PROVE  /\ OpenDma(q) \in Nat
         /\ OpenDma(q) = 0 => RdN(q) = 0 /\ WrN(q) = 0 /\ IdxN(q) = 0 /\ FlagN(q) = 0 /\ RspN(q) = 0
         /\ OpenDma(q) <= 1 /\ RdN(q) # 0 =>
              RdN(q) = 1 /\ WrN(q) = 0 /\ IdxN(q) = 0 /\ FlagN(q) = 0 /\ RspN(q) = 0
         /\ OpenDma(q) <= 1 /\ WrN(q) # 0 =>
              RdN(q) = 0 /\ WrN(q) = 1 /\ IdxN(q) = 0 /\ FlagN(q) = 0 /\ RspN(q) = 0
         /\ OpenDma(q) <= 1 /\ IdxN(q) # 0 =>
              RdN(q) = 0 /\ WrN(q) = 0 /\ IdxN(q) = 1 /\ FlagN(q) = 0 /\ RspN(q) = 0
         /\ OpenDma(q) <= 1 /\ FlagN(q) # 0 =>
              RdN(q) = 0 /\ WrN(q) = 0 /\ IdxN(q) = 0 /\ FlagN(q) = 1 /\ RspN(q) = 0
         /\ OpenDma(q) <= 1 /\ RspN(q) # 0 =>
              RdN(q) = 0 /\ WrN(q) = 0 /\ IdxN(q) = 0 /\ FlagN(q) = 0 /\ RspN(q) = 1
<1>1. RdN(q) \in Nat /\ WrN(q) \in Nat /\ IdxN(q) \in Nat /\ FlagN(q) \in Nat /\ RspN(q) \in Nat
  BY OpenFinite
<1>2. OpenDma(q) = RdN(q) + WrN(q) + IdxN(q) + FlagN(q) + RspN(q)
  BY OpenSum, Zenon
<1> QED BY <1>1, <1>2

-----------------------------------------------------------------------------
(* Indices that wrap. *)

\* The difference of two indices, without and with a wrap.
LEMMA MinusCases ==
  ASSUME NEW a \in Idx, NEW b \in Idx
  PROVE  /\ a >= b => Minus(a, b) = a - b
         /\ a < b => Minus(a, b) = a - b + IdxMod
<1>1. IdxMod \in Nat \ {0} /\ a \in Int /\ b \in Int /\ a - b \in Int
      /\ 0 <= a /\ a < IdxMod /\ 0 <= b /\ b < IdxMod
  BY IdxEngineAssumption DEF Idx
<1>2. CASE a >= b
  <2>1. (a - b) % IdxMod = a - b
    BY <1>1, <1>2, ModLow
  <2> QED BY <1>1, <1>2, <2>1 DEF Minus
<1>3. CASE a < b
  <2> DEFINE x == a - b
  <2>0. x \in Int /\ x < 0 /\ 0 <= x + IdxMod /\ IdxMod \in Nat \ {0}
    BY <1>1, <1>3
  <2>1. x % IdxMod = x + IdxMod
    <3> HIDE DEF x
    <3> QED BY <2>0, ModNeg
  <2> QED BY <1>1, <1>3, <2>1 DEF Minus
<1> QED BY <1>1, <1>2, <1>3

\* The next index, without and with a wrap.
LEMMA IncCases ==
  ASSUME NEW a \in Idx
  PROVE  /\ (a + 1) % IdxMod \in Idx
         /\ a + 1 < IdxMod => (a + 1) % IdxMod = a + 1
         /\ a + 1 = IdxMod => (a + 1) % IdxMod = 0
<1>1. IdxMod \in Nat \ {0} /\ a \in Int /\ a + 1 \in Int /\ 0 <= a /\ a < IdxMod
  BY IdxEngineAssumption DEF Idx
<1>2. a + 1 < IdxMod => (a + 1) % IdxMod = a + 1
  BY <1>1, ModLow
<1>3. ASSUME a + 1 = IdxMod PROVE (a + 1) % IdxMod = (a + 1) - IdxMod
  <2> DEFINE x == a + 1
  <2>1. x \in Int /\ IdxMod <= x /\ x - IdxMod < IdxMod /\ IdxMod \in Nat \ {0}
    BY <1>1, <1>3
  <2> HIDE DEF x
  <2>2. x % IdxMod = x - IdxMod
    BY <2>1, ModHigh
  <2> QED BY <2>2 DEF x
<1>4. (a + 1) % IdxMod \in Idx
  BY <1>1, DivMod DEF Idx
<1> QED BY <1>1, <1>2, <1>3, <1>4

\* Two indices differ by less than a turn, and by nothing if they are equal.
LEMMA MinusZero ==
  ASSUME NEW a \in Idx, NEW b \in Idx
  PROVE  Minus(a, b) \in Nat /\ Minus(a, b) < IdxMod /\ (Minus(a, b) = 0 <=> a = b)
  BY MinusCases, IdxEngineAssumption DEF Idx

\* The front moves away,
LEMMA MinusIncLeft ==
  ASSUME NEW a \in Idx, NEW b \in Idx, Minus(a, b) + 1 < IdxMod
  PROVE  Minus((a + 1) % IdxMod, b) = Minus(a, b) + 1
<1>1. IdxMod \in Nat \ {0} /\ a \in 0 .. IdxMod - 1 /\ b \in 0 .. IdxMod - 1
  BY IdxEngineAssumption DEF Idx
<1> DEFINE c == (a + 1) % IdxMod
<1>2. /\ c \in Idx
      /\ a + 1 < IdxMod => c = a + 1
      /\ a + 1 = IdxMod => c = 0
  BY IncCases
<1>3. /\ c >= b => Minus(c, b) = c - b
      /\ c < b => Minus(c, b) = c - b + IdxMod
      /\ a >= b => Minus(a, b) = a - b
      /\ a < b => Minus(a, b) = a - b + IdxMod
  BY <1>2, MinusCases
<1> HIDE DEF c
<1>4. c \in 0 .. IdxMod - 1
  BY <1>2 DEF Idx
<1>5. Minus(c, b) = Minus(a, b) + 1
  BY <1>1, <1>2, <1>3, <1>4
<1> QED BY <1>5 DEF c

\* and the back catches up.
LEMMA MinusIncRight ==
  ASSUME NEW a \in Idx, NEW b \in Idx, a # b
  PROVE  Minus(a, (b + 1) % IdxMod) = Minus(a, b) - 1
<1>1. IdxMod \in Nat \ {0} /\ a \in 0 .. IdxMod - 1 /\ b \in 0 .. IdxMod - 1
  BY IdxEngineAssumption DEF Idx
<1> DEFINE c == (b + 1) % IdxMod
<1>2. /\ c \in Idx
      /\ b + 1 < IdxMod => c = b + 1
      /\ b + 1 = IdxMod => c = 0
  BY IncCases
<1>3. /\ a >= c => Minus(a, c) = a - c
      /\ a < c => Minus(a, c) = a - c + IdxMod
      /\ a >= b => Minus(a, b) = a - b
      /\ a < b => Minus(a, b) = a - b + IdxMod
  BY <1>2, MinusCases
<1> HIDE DEF c
<1>4. c \in 0 .. IdxMod - 1
  BY <1>2 DEF Idx
<1>5. Minus(a, c) = Minus(a, b) - 1
  BY <1>1, <1>2, <1>3, <1>4
<1> QED BY <1>5 DEF c

\* Distances add up as long as they do not go round.
LEMMA MinusAdd ==
  ASSUME NEW a \in Idx, NEW b \in Idx, NEW c \in Idx,
         Minus(b, a) + Minus(c, b) < IdxMod
  PROVE  Minus(c, a) = Minus(b, a) + Minus(c, b)
<1>1. /\ IdxMod \in Nat \ {0} /\ a \in 0 .. IdxMod - 1
      /\ b \in 0 .. IdxMod - 1 /\ c \in 0 .. IdxMod - 1
  BY IdxEngineAssumption DEF Idx
<1>2. /\ c >= a => Minus(c, a) = c - a
      /\ c < a => Minus(c, a) = c - a + IdxMod
      /\ c >= b => Minus(c, b) = c - b
      /\ c < b => Minus(c, b) = c - b + IdxMod
      /\ b >= a => Minus(b, a) = b - a
      /\ b < a => Minus(b, a) = b - a + IdxMod
  BY MinusCases
<1> QED BY <1>1, <1>2

-----------------------------------------------------------------------------
(* Each part of the invariant has its variables. *)

\* A step that leaves the registers alone keeps RegInv;
LEMMA FrameReg ==
  RegInv /\ UNCHANGED <<idxNotify, errReq, notifyRsp, dbReq, socReq, dbStat, doorbells, op>>
    => RegInv'
  BY DEF RegInv

\* one that leaves the operation, its sources and the context alone keeps OpInv;
LEMMA FrameOp ==
  OpInv /\ UNCHANGED <<op, want, serving, wrRspFf, rdFlagsFf, rdIdxFf, status, forced, ctx>>
    => OpInv'
  BY DEF OpInv, Origin, Aged

\* one that leaves the context alone keeps CtxInv;
LEMMA FrameCtx == CtxInv /\ UNCHANGED <<status, forced, ctx, availUi>> => CtxInv'
  BY DEF CtxInv

\* one that moves no DMA and no service keeps ServeInv;
LEMMA FrameServe ==
  ServeInv /\ UNCHANGED <<ctx, rdReq, wrReq, rdIdxFf, rdFlagsFf, wrRspFf, serving, notifyRsp>>
    => ServeInv'
<1> SUFFICES ASSUME ServeInv,
                    UNCHANGED <<ctx, rdReq, wrReq, rdIdxFf, rdFlagsFf, wrRspFf, serving, notifyRsp>>
             PROVE  ServeInv'
  OBVIOUS
<1>1. \A q : OpenDma(q)' = OpenDma(q)
  BY DEF OpenDma
<1>2. \A q : Answered(q)' <=> Answered(q)
  BY DEF Answered
<1> QED BY <1>1, <1>2 DEF ServeInv

\* one that leaves the avail ring and the index alone keeps AwakeInv;
LEMMA FrameAwake ==
  AwakeInv /\ UNCHANGED <<status, availUi, ctx, ringToken, idxNotify>> => AwakeInv'
  BY DEF AwakeInv, Holds

\* one that moves no index keeps OrderInv;
LEMMA FrameOrder ==
  OrderInv /\ UNCHANGED <<ctx, availUi, hostIdx, rdIdxFf>> => OrderInv'
  BY DEF OrderInv

\* and one that reads nothing keeps ErrInv.
LEMMA FrameErr == ErrInv /\ UNCHANGED <<errReq, rdIdxFf, rdFlagsFf>> => ErrInv'
  BY DEF ErrInv

-----------------------------------------------------------------------------
(* Types of what is often asked for. *)

\* The words of one queue have their types,
LEMMA QueueTyped ==
  ASSUME TypeOK, NEW q \in Q
  PROVE  /\ ctx[q] \in CtxWord /\ ctx[q].availIdx \in Idx /\ ctx[q].noNotify \in BOOLEAN
         /\ ctx[q].noChange \in BOOLEAN /\ ctx[q].dmaOut \in 0 .. 127
         /\ hostIdx[q] \in Idx /\ availUi[q] \in Idx
         /\ status[q] \in Statuses /\ forced[q] \in BOOLEAN
<1>1. ctx[q] \in CtxWord
  BY DEF TypeOK, EngTypeOK
<1>2. hostIdx[q] \in Idx /\ availUi[q] \in Idx /\ status[q] \in Statuses /\ forced[q] \in BOOLEAN
  BY DEF TypeOK, EngTypeOK
<1> QED BY <1>1, <1>2 DEF CtxWord

Landings == [q : Q, flags : BOOLEAN]
Rsps == [q : Q, done : BOOLEAN]

\* and so have the FIFOs and registers,
LEMMA FifoTyped ==
  ASSUME TypeOK
  PROVE  /\ rdIdxFf \in Seq(IdxRsps) /\ rdFlagsFf \in Seq(FlagRsps) /\ wrRspFf \in Seq(Q)
         /\ landing \in Seq(Landings) /\ doorbells \in Seq(Q) /\ socReq \in Seq(Q)
         /\ dbReq \in Seq(Q) /\ idxNotify \in Seq(Q) /\ errReq \in Seq(Q)
         /\ notifyRsp \in Seq(Rsps) /\ op \in Seq(Op)
  BY DEF TypeOK, EngTypeOK, IdxRsps, FlagRsps, Landings, Rsps

\* and the entries of the index FIFO.
LEMMA IdxTyped ==
  ASSUME TypeOK, NEW i \in DOMAIN rdIdxFf
  PROVE  /\ rdIdxFf[i] \in IdxRsps /\ rdIdxFf[i].q \in Q /\ rdIdxFf[i].idx \in Idx
         /\ rdIdxFf[i].err \in BOOLEAN
<1>1. rdIdxFf[i] \in IdxRsps
  BY FifoTyped, ElementOfSeq, LenProperties
<1> QED BY <1>1 DEF IdxRsps

-----------------------------------------------------------------------------
(* The beginning. *)

\* The invariant holds in the beginning: nothing is open, all indices are 0.
LEMMA InitBaseInv == Init => BaseInv
<1> SUFFICES ASSUME Init PROVE BaseInv
  OBVIOUS
<1> USE DEF Init, EngInit, DbInit
<1>0. 0 \in Idx
  BY IdxEngineAssumption DEF Idx
<1>1. TypeOK
  <2>1. CtxInit(0) \in CtxWord
    BY <1>0 DEF CtxInit, CtxWord
  <2> QED BY <1>0, <2>1 DEF TypeOK, EngTypeOK, Sch!TypeOK, Statuses, DbRR!MaskInit
<1>2. RegInv
  BY DEF RegInv
<1>3. OpInv
  BY DEF OpInv
<1>4. CtxInv
  BY DEF CtxInv, CtxInit
<1>5. ServeInv
  <2> SUFFICES ASSUME NEW q \in Q PROVE OpenDma(q) = 0
    BY DEF ServeInv, Answered, CtxInit
  <2>1. RdN(q) = 0 /\ WrN(q) = 0 /\ IdxN(q) = 0 /\ FlagN(q) = 0 /\ RspN(q) = 0
    BY <1>1, NoneOpen
  <2> QED BY <2>1, OpenSum
<1>6. AwakeInv
  BY DEF AwakeInv, CtxInit
<1>7. OrderInv
  <2>1. Minus(0, 0) = 0
    BY <1>0, MinusZero
  <2> QED BY <2>1, IdxEngineAssumption DEF OrderInv, CtxInit
<1>8. ErrInv
  BY DEF ErrInv
<1> QED BY <1>1, <1>2, <1>3, <1>4, <1>5, <1>6, <1>7, <1>8 DEF BaseInv

-----------------------------------------------------------------------------
(* The driver, the doorbells and the scheduler. *)

\* A register that is not empty holds one entry.
LEMMA OneEntry ==
  ASSUME NEW S, NEW s \in Seq(S), s # <<>>, Len(s) <= 1
  PROVE  DOMAIN s = {1} /\ s[1] \in S /\ Head(s) = s[1] /\ s = <<s[1]>>
<1>1. Len(s) \in Nat /\ Len(s) # 0 /\ DOMAIN s = 1 .. Len(s)
  BY EmptySeq, LenProperties
<1>2. ASSUME NEW n \in Nat, n # 0, n <= 1 PROVE n = 1 /\ 1 .. n = {1}
  BY <1>2
<1>3. Len(s) = 1 /\ DOMAIN s = {1}
  BY <1>1, <1>2, Zenon
<1>4. s[1] \in S /\ Head(s) = s[1]
  BY <1>3, ElementOfSeq
<1> QED BY <1>3, <1>4

\* A push leaves a FIFO that is not empty.
LEMMA AppendSome ==
  ASSUME NEW S, NEW s \in Seq(S), NEW x \in S
  PROVE  Append(s, x) \in Seq(S) /\ Append(s, x) # <<>>
<1>1. Append(s, x) \in Seq(S) /\ Len(Append(s, x)) = Len(s) + 1 /\ Len(s) \in Nat /\ Len(<<>>) = 0
  BY AppendProperties, LenProperties
<1> QED BY <1>1

\* Nothing but the driver's index moves, and not past the ring.
LEMMA PostInv ==
  ASSUME BaseInv, NEW q \in Q, Post(q)
  PROVE  BaseInv'
<1>1. /\ hostIdx' = [hostIdx EXCEPT ![q] = (@ + 1) % IdxMod]
      /\ posted' = posted \cup {q}
      /\ Minus(hostIdx[q], availUi[q]) < QSize
      /\ UNCHANGED <<engVars, dbVars, hostFlags, landing, doorbells, schVars, swVars, availUi, ringToken>>
  BY DEF Post
<1> USE DEF engVars, dbVars, schVars, swVars, BaseInv
<1>2. hostIdx[q] \in Idx /\ (hostIdx[q] + 1) % IdxMod \in Idx
  BY IncCases DEF TypeOK
<1>3. TypeOK'
  BY <1>1, <1>2 DEF TypeOK, EngTypeOK, Sch!TypeOK
<1>4. RegInv' /\ OpInv' /\ CtxInv' /\ ServeInv' /\ AwakeInv' /\ ErrInv'
  <2>1. RegInv'
    BY <1>1, FrameReg
  <2>2. OpInv'
    BY <1>1, FrameOp
  <2>3. CtxInv' /\ AwakeInv' /\ ErrInv'
    BY <1>1, FrameCtx, FrameAwake, FrameErr
  <2>4. ServeInv'
    BY <1>1, FrameServe
  <2> QED BY <2>1, <2>2, <2>3, <2>4
<1>5. OrderInv'
  <2>0. /\ \A p \in Q : hostIdx[p] \in Idx /\ availUi[p] \in Idx /\ ctx[p].availIdx \in Idx
        /\ \A i \in DOMAIN rdIdxFf : rdIdxFf[i] \in IdxRsps
        /\ QSize \in Nat /\ QSize < IdxMod /\ IdxMod \in Nat
    BY IdxEngineAssumption, QueueTyped, IdxTyped
  <2>1. \A p \in Q \ {q} : hostIdx'[p] = hostIdx[p]
    BY <1>1 DEF TypeOK
  <2>2. hostIdx'[q] = (hostIdx[q] + 1) % IdxMod
    BY <1>1 DEF TypeOK
  <2>3. /\ Minus(ctx[q].availIdx, availUi[q]) + Minus(hostIdx[q], ctx[q].availIdx)
             = Minus(hostIdx[q], availUi[q])
        /\ Minus(ctx[q].availIdx, availUi[q]) \in Nat
        /\ Minus(hostIdx[q], ctx[q].availIdx) \in Nat
        /\ Minus(hostIdx[q], availUi[q]) \in Nat
    BY <2>0, MinusZero DEF OrderInv
  <2>4. /\ Minus(hostIdx[q], availUi[q]) + 1 < IdxMod
        /\ Minus(hostIdx[q], ctx[q].availIdx) + 1 < IdxMod
    BY <1>1, <2>0, <2>3
  <2>5. /\ Minus(hostIdx'[q], availUi[q]) = Minus(hostIdx[q], availUi[q]) + 1
        /\ Minus(hostIdx'[q], ctx[q].availIdx) = Minus(hostIdx[q], ctx[q].availIdx) + 1
    BY <2>0, <2>2, <2>4, MinusIncLeft
  <2>6. ASSUME NEW p \in Q
        PROVE  /\ Minus(ctx'[p].availIdx, availUi'[p]) + Minus(hostIdx'[p], ctx'[p].availIdx)
                    = Minus(hostIdx'[p], availUi'[p])
               /\ Minus(hostIdx'[p], availUi'[p]) <= QSize
    <3>1. CASE p = q
      BY <1>1, <2>0, <2>3, <2>5, <3>1
    <3>2. CASE p # q
      BY <1>1, <2>1, <3>2 DEF OrderInv
    <3> QED BY <3>1, <3>2
  <2>7. ASSUME NEW i \in DOMAIN rdIdxFf, ~rdIdxFf[i].err, NEW p \in Q, p = rdIdxFf[i].q
        PROVE  Minus(rdIdxFf[i].idx, ctx[p].availIdx) + Minus(hostIdx'[p], rdIdxFf[i].idx)
                 = Minus(hostIdx'[p], ctx[p].availIdx)
    <3>1. rdIdxFf[i].idx \in Idx
      BY <2>0 DEF IdxRsps
    <3>2. Minus(rdIdxFf[i].idx, ctx[p].availIdx) + Minus(hostIdx[p], rdIdxFf[i].idx)
            = Minus(hostIdx[p], ctx[p].availIdx)
      BY <2>7 DEF OrderInv
    <3>3. CASE p = q
      <4>1. /\ Minus(rdIdxFf[i].idx, ctx[p].availIdx) \in Nat
            /\ Minus(hostIdx[p], rdIdxFf[i].idx) \in Nat
        BY <2>0, <3>1, MinusZero
      <4>2. Minus(hostIdx[p], rdIdxFf[i].idx) + 1 < IdxMod
        BY <2>0, <2>3, <2>4, <3>2, <3>3, <4>1
      <4>3. Minus(hostIdx'[p], rdIdxFf[i].idx) = Minus(hostIdx[p], rdIdxFf[i].idx) + 1
        BY <2>0, <2>2, <3>1, <3>3, <4>2, MinusIncLeft
      <4> QED BY <2>5, <3>2, <3>3, <4>1, <4>3, <2>3
    <3>4. CASE p # q
      BY <2>1, <3>2, <3>4
    <3> QED BY <3>3, <3>4
  <2>8. \A i \in DOMAIN rdIdxFf : rdIdxFf[i].q \in Q
    BY <2>0 DEF IdxRsps
  <2> QED BY <1>1, <2>6, <2>7, <2>8 DEF OrderInv
<1> QED BY <1>3, <1>4, <1>5

\* The rest of the driver and of the doorbells touches nothing of the engine.
LEMMA CheckFlagsInv ==
  ASSUME BaseInv, NEW q \in Q, CheckFlags(q)
  PROVE  BaseInv'
<1>1. /\ posted' = posted \ {q}
      /\ doorbells' = doorbells \/ doorbells' = Append(doorbells, q)
      /\ UNCHANGED <<engVars, dbVars, hostIdx, hostFlags, landing, schVars, swVars, availUi, ringToken>>
  BY DEF CheckFlags
<1> USE DEF engVars, dbVars, schVars, swVars, BaseInv
<1>2. TypeOK'
  <2>1. doorbells' \in Seq(Q)
    <3>1. doorbells \in Seq(Q) /\ Append(doorbells, q) \in Seq(Q)
      BY FifoTyped, AppendProperties
    <3> QED BY <1>1, <3>1
  <2> QED BY <1>1, <2>1 DEF TypeOK, EngTypeOK, Sch!TypeOK
<1>3. RegInv'
  <2>1. doorbells # <<>> => doorbells' # <<>>
    <3>1. doorbells \in Seq(Q) /\ Append(doorbells, q) # <<>>
      BY FifoTyped, AppendSome
    <3> QED BY <1>1, <3>1
  <2> QED BY <1>1, <2>1 DEF RegInv
<1>4. OpInv' /\ CtxInv' /\ AwakeInv' /\ OrderInv' /\ ErrInv'
  BY <1>1, FrameOp, FrameCtx, FrameAwake, FrameOrder, FrameErr
<1>5. ServeInv'
  BY <1>1, FrameServe
<1> QED BY <1>2, <1>3, <1>4, <1>5

\* A write of the flags lands in host memory: none of the parts speaks of it.
LEMMA LandInv ==
  ASSUME BaseInv, Land
  PROVE  BaseInv'
<1>1. /\ landing # <<>> /\ landing' = Tail(landing)
      /\ hostFlags' = [hostFlags EXCEPT ![Head(landing).q] = Head(landing).flags]
      /\ UNCHANGED <<engVars, dbVars, hostIdx, posted, doorbells, schVars, swVars, availUi, ringToken>>
  BY DEF Land
<1> USE DEF engVars, dbVars, schVars, swVars, BaseInv
<1>2. TypeOK'
  <2>1. Head(landing) \in Landings /\ Tail(landing) \in Seq(Landings)
    <3>1. landing \in Seq(Landings)
      BY FifoTyped
    <3> QED BY <1>1, <3>1
  <2>2. hostFlags' \in [Q -> BOOLEAN]
    BY <1>1, <2>1 DEF TypeOK, Landings
  <2> QED BY <1>1, <2>1, <2>2 DEF TypeOK, EngTypeOK, Sch!TypeOK, Landings
<1>3. RegInv' /\ OpInv' /\ CtxInv' /\ AwakeInv' /\ OrderInv' /\ ErrInv'
  BY <1>1, FrameReg, FrameOp, FrameCtx, FrameAwake, FrameOrder, FrameErr
<1>4. ServeInv'
  BY <1>1, FrameServe
<1> QED BY <1>2, <1>3, <1>4

\* The arbiter of virtio_db_sch grants a source that asks.
LEMMA DbGrant ==
  ASSUME NEW lines \in SUBSET {0, 1}, lines # {}, NEW mask \in SUBSET {0, 1}
  PROVE  DbRR!Grant(lines, mask) \in lines
<1>1. ASSUME NEW S \in SUBSET {0, 1}, S # {}
      PROVE  DbRR!Lowest(S) \in S
  <2>1. \E i \in S : \A j \in S : i <= j
    <3>1. CASE 0 \in S
      BY <1>1, <3>1
    <3>2. CASE 0 \notin S
      <4>1. S = {1}
        BY <1>1, <3>2
      <4> QED BY <4>1
    <3> QED BY <3>1, <3>2
  <2> QED BY <2>1 DEF DbRR!Lowest
<1>2. CASE lines \cap mask = {}
  BY <1>1, <1>2 DEF DbRR!Grant
<1>3. CASE lines \cap mask # {}
  BY <1>1, <1>3 DEF DbRR!Grant
<1> QED BY <1>2, <1>3

\* The arbiter of virtio_db_sch chooses a source that has a request.
LEMMA DoorbellArbitrateInv ==
  ASSUME BaseInv, DoorbellArbitrate
  PROVE  BaseInv'
<1> DEFINE g == DbRR!Grant(DbLines, dbMask)
<1>1. /\ DbLines # {}
      /\ dbStat' = IF g = SocPort THEN "SOC" ELSE "DOORBELL"
      /\ dbMask' = DbRR!NextMask(g)
      /\ UNCHANGED <<dbReq, engVars, hostVars, schVars, swVars, availUi, ringToken>>
  BY DEF DoorbellArbitrate, DbArbitrate
<1>2. g \in DbLines
  BY <1>1, DbGrant DEF BaseInv, TypeOK, DbLines, SocPort, DoorbellPort
<1> HIDE DEF g
<1> USE DEF engVars, hostVars, schVars, swVars, BaseInv
<1>3. TypeOK'
  <2>1. dbMask' \subseteq {0, 1}
    BY <1>1 DEF DbRR!NextMask, DbRR!Port
  <2> QED BY <1>1, <2>1 DEF TypeOK, EngTypeOK, Sch!TypeOK
<1>4. RegInv'
  <2>1. dbStat' = "SOC" => socReq # <<>>
    BY <1>1, <1>2 DEF DbLines, SocPort, DoorbellPort
  <2>2. dbStat' = "DOORBELL" => doorbells # <<>>
    BY <1>1, <1>2 DEF DbLines, SocPort, DoorbellPort
  <2> QED BY <1>1, <2>1, <2>2 DEF RegInv
<1>5. OpInv' /\ CtxInv' /\ AwakeInv' /\ OrderInv' /\ ErrInv'
  BY <1>1, FrameOp, FrameCtx, FrameAwake, FrameOrder, FrameErr
<1>6. ServeInv'
  BY <1>1, FrameServe
<1> QED BY <1>3, <1>4, <1>5, <1>6

\* The register takes the queue of the source that was granted.
LEMMA DbLoadInv ==
  ASSUME BaseInv, TakeDoorbell \/ TakeSocNotify
  PROVE  BaseInv'
<1> USE DEF engVars, hostVars, schVars, swVars, BaseInv
<1>1. /\ dbReq' \in Seq(Q) /\ Len(dbReq') <= 1
      /\ doorbells' \in Seq(Q) /\ socReq' \in Seq(Q) /\ Len(socReq') <= 1
      /\ dbStat' = "IDLE" /\ dbMask' = dbMask
      /\ UNCHANGED <<engVars, hostIdx, hostFlags, posted, landing, schVars, status, forced,
                     availUi, ringToken>>
  <2>0. doorbells \in Seq(Q) /\ socReq \in Seq(Q) /\ Len(socReq) <= 1
    BY DEF TypeOK, RegInv
  <2>1. CASE TakeDoorbell
    <3>1. doorbells # <<>>
      BY <2>1 DEF TakeDoorbell, DbLoad, RegInv
    <3> QED BY <2>0, <2>1, <3>1 DEF TakeDoorbell, DbLoad
  <2>2. CASE TakeSocNotify
    <3>1. socReq # <<>>
      BY <2>2 DEF TakeSocNotify, DbLoad, RegInv
    <3> QED BY <2>0, <2>2, <3>1 DEF TakeSocNotify, DbLoad
  <2> QED BY <2>1, <2>2
<1>2. TypeOK'
  BY <1>1 DEF TypeOK, EngTypeOK, Sch!TypeOK
<1>3. RegInv'
  BY <1>1 DEF RegInv
<1>4. OpInv' /\ CtxInv' /\ AwakeInv' /\ OrderInv' /\ ErrInv'
  BY <1>1, FrameOp, FrameCtx, FrameAwake, FrameOrder, FrameErr
<1>5. ServeInv'
  BY <1>1, FrameServe
<1> QED BY <1>2, <1>3, <1>4, <1>5

\* A request only adds to what the scheduler wants.
LEMMA SchReqInv ==
  ASSUME BaseInv, SchReq
  PROVE  BaseInv'
<1>1. /\ dbReq # <<>> /\ dbReq' = <<>>
      /\ want' = want \cup {dbReq[1]}
      /\ UNCHANGED <<dbStat, dbMask, serving, engVars, hostVars, swVars, availUi, ringToken>>
  BY DEF SchReq, DbTaken, Sch!Request
<1> USE DEF engVars, hostVars, schVars, swVars, BaseInv
<1>2. dbReq[1] \in Q
  BY <1>1, OneEntry DEF TypeOK, RegInv
<1>3. TypeOK'
  BY <1>1, <1>2 DEF TypeOK, EngTypeOK, Sch!TypeOK
<1>4. RegInv'
  BY <1>1 DEF RegInv
<1>5. OpInv'
  BY <1>1 DEF OpInv, Origin, Aged
<1>6. CtxInv' /\ AwakeInv' /\ OrderInv' /\ ErrInv'
  BY <1>1, FrameCtx, FrameAwake, FrameOrder, FrameErr
<1>7. ServeInv'
  BY <1>1, FrameServe
<1> QED BY <1>3, <1>4, <1>5, <1>6, <1>7

-----------------------------------------------------------------------------
(* The engine between two operations. *)

\* The ready registers are Boolean.
LEMMA FreshReadyType == FreshReady \in [Kinds \cup {"wr"} -> BOOLEAN]
<1>1. \A k : (Inflight[k] < FIFO_DEPTH - Margin) \in BOOLEAN
  OBVIOUS
<1> QED BY <1>1 DEF FreshReady

\* The ready registers are renewed.
LEMMA EngineReadyInv ==
  ASSUME BaseInv, EngineReady
  PROVE  BaseInv'
<1>1. /\ ready' = FreshReady
      /\ UNCHANGED <<ctx, op, rdIdxFf, rdFlagsFf, wrRspFf, rdReq, wrReq, idxNotify, errReq, notifyRsp>>
      /\ UNCHANGED <<dbVars, hostVars, swVars, availUi, ringToken, schVars>>
  BY DEF EngineReady, LatchReady, OthersUnchanged
<1> USE DEF dbVars, hostVars, schVars, swVars, BaseInv
<1>2. TypeOK'
  BY <1>1, FreshReadyType DEF TypeOK, EngTypeOK, Sch!TypeOK
<1>3. RegInv' /\ OpInv' /\ CtxInv' /\ AwakeInv' /\ OrderInv' /\ ErrInv'
  BY <1>1, FrameReg, FrameOp, FrameCtx, FrameAwake, FrameOrder, FrameErr
<1>4. ServeInv'
  BY <1>1, FrameServe
<1> QED BY <1>2, <1>3, <1>4

\* An operation begins with a fresh sample.
LEMMA BeginInv ==
  ASSUME BaseInv, NEW type \in Types, NEW q \in Q, NEW idx \in Idx, NEW err \in BOOLEAN,
         IdleGate, Begin(type, q, idx, err), OthersUnchanged, UNCHANGED schVars,
         type = "KICK_NOTIFY" => q \in want /\ q \notin serving /\ ~err,
         type = "WR_NOTIFY_RSP" => wrRspFf # <<>> /\ q = Head(wrRspFf) /\ ~err,
         type = "RD_NOTIFY_RSP" => rdFlagsFf # <<>> /\ Head(rdFlagsFf) = [q |-> q, err |-> err],
         type = "RD_IDX_RSP" =>
           rdIdxFf # <<>> /\ Head(rdIdxFf) = [q |-> q, idx |-> idx, err |-> err]
  PROVE  BaseInv'
<1>0. Sampled(type, q, idx, err) \in Op
  <2>1. TypeOK
    BY DEF BaseInv
  <2>2. Minus(ctx[q].availIdx, availUi[q]) \in Idx
    BY <2>1, QueueTyped, MinusType
  <2> QED BY <2>1, <2>2, QueueTyped DEF Sampled, Op
<1>3. PICK o \in Op : o = Sampled(type, q, idx, err)
  BY <1>0
<1>1. /\ op' = <<o>>
      /\ UNCHANGED <<ctx, rdIdxFf, rdFlagsFf, wrRspFf, rdReq, wrReq, ready, idxNotify, errReq, notifyRsp>>
      /\ UNCHANGED <<dbVars, hostVars, swVars, availUi, ringToken, schVars>>
  BY <1>3 DEF Begin, OthersUnchanged
<1>2. /\ o.type = type /\ o.q = q /\ o.idx = idx /\ o.err = err /\ o.status = status[q]
      /\ o.forced = forced[q] /\ o.ctx = ctx[q]
  BY <1>3 DEF Sampled
<1> USE DEF dbVars, hostVars, schVars, swVars, BaseInv
<1>4. TypeOK'
  <2>1. op' \in Seq(Op) /\ Len(op') <= 1
    BY <1>1, <1>3
  <2> QED BY <1>1, <2>1 DEF TypeOK, EngTypeOK, Sch!TypeOK
<1>5. RegInv'
  BY <1>1 DEF RegInv, IdleGate
<1>6. OpInv'
  <2>1. status[q] \in Statuses /\ forced[q] \in BOOLEAN
    BY QueueTyped
  <2>2. Origin(o)'
    BY <1>1, <1>2 DEF Origin
  <2>3. Aged(o)'
    BY <1>1, <1>2, <2>1 DEF Aged, Statuses, CtxInv
  <2>4. \A i \in DOMAIN op' : op'[i] = o
    BY <1>1
  <2> QED BY <2>2, <2>3, <2>4 DEF OpInv
<1>7. CtxInv' /\ AwakeInv' /\ OrderInv' /\ ErrInv'
  BY <1>1, FrameCtx, FrameAwake, FrameOrder, FrameErr
<1>8. ServeInv'
  BY <1>1, FrameServe
<1> QED BY <1>4, <1>5, <1>6, <1>7, <1>8

\* A response is selected; its operation is that of the head of the FIFO.
LEMMA EngineRspInv ==
  ASSUME BaseInv, EngineRsp
  PROVE  BaseInv'
<1>1. IdleGate /\ OthersUnchanged /\ UNCHANGED schVars
  BY DEF EngineRsp, SelectRsp
<1>2. /\ rdIdxFf \in Seq(IdxRsps) /\ rdFlagsFf \in Seq(FlagRsps) /\ wrRspFf \in Seq(Q)
      /\ 0 \in Idx
  BY FifoTyped, IdxEngineAssumption DEF BaseInv, Idx
<1>3. CASE IdxRspReady /\ LET r == Head(rdIdxFf) IN Begin("RD_IDX_RSP", r.q, r.idx, r.err)
  <2>1. rdIdxFf # <<>>
    BY <1>3 DEF IdxRspReady
  <2>2. PICK r \in IdxRsps : r = Head(rdIdxFf)
    BY <1>2, <2>1
  <2>3. r.q \in Q /\ r.idx \in Idx /\ r.err \in BOOLEAN /\ r = [q |-> r.q, idx |-> r.idx, err |-> r.err]
    BY DEF IdxRsps
  <2>4. Begin("RD_IDX_RSP", r.q, r.idx, r.err)
    BY <1>3, <2>2
  <2> QED BY <1>1, <2>1, <2>2, <2>3, <2>4, BeginInv DEF Types
<1>4. CASE FlagsRspReady /\ LET r == Head(rdFlagsFf) IN Begin("RD_NOTIFY_RSP", r.q, 0, r.err)
  <2>1. rdFlagsFf # <<>>
    BY <1>4 DEF FlagsRspReady
  <2>2. PICK r \in FlagRsps : r = Head(rdFlagsFf)
    BY <1>2, <2>1
  <2>3. r.q \in Q /\ r.err \in BOOLEAN /\ r = [q |-> r.q, err |-> r.err]
    BY DEF FlagRsps
  <2>4. Begin("RD_NOTIFY_RSP", r.q, 0, r.err)
    BY <1>4, <2>2
  <2> QED BY <1>1, <1>2, <2>1, <2>2, <2>3, <2>4, BeginInv DEF Types
<1>5. CASE WrRspReady /\ Begin("WR_NOTIFY_RSP", Head(wrRspFf), 0, FALSE)
  <2>1. wrRspFf # <<>>
    BY <1>5 DEF WrRspReady
  <2>2. PICK q \in Q : q = Head(wrRspFf)
    BY <1>2, <2>1
  <2>3. Begin("WR_NOTIFY_RSP", q, 0, FALSE)
    BY <1>5, <2>2
  <2> QED BY <1>1, <1>2, <2>1, <2>2, <2>3, BeginInv DEF Types
<1> QED BY <1>3, <1>4, <1>5 DEF EngineRsp, SelectRsp

\* A kick is selected; the scheduler still wants the queue.
LEMMA EngineKickInv ==
  ASSUME BaseInv, NEW q \in Q, EngineKick(q)
  PROVE  BaseInv'
<1>1. /\ IdleGate /\ OthersUnchanged /\ UNCHANGED schVars
      /\ Begin("KICK_NOTIFY", q, 0, FALSE)
      /\ q \in want /\ q \notin serving
  BY DEF EngineKick, SelectKick
<1>2. 0 \in Idx
  BY IdxEngineAssumption DEF Idx
<1> QED BY <1>1, <1>2, BeginInv DEF Types

\* The scheduler gets its queue back.
LEMMA EngineAnsweredInv ==
  ASSUME BaseInv, EngineAnswered
  PROVE  BaseInv'
<1>1. /\ notifyRsp # <<>> /\ notifyRsp' = <<>>
      /\ notifyRsp[1].q \in serving
      /\ serving' = serving \ {notifyRsp[1].q}
      /\ want' = IF notifyRsp[1].done THEN want ELSE want \cup {notifyRsp[1].q}
      /\ UNCHANGED <<ctx, op, rdIdxFf, rdFlagsFf, wrRspFf, rdReq, wrReq, ready, idxNotify, errReq>>
      /\ UNCHANGED <<dbVars, hostVars, swVars, availUi, ringToken>>
  BY DEF EngineAnswered, Sch!Release, OthersUnchanged
<1> USE DEF dbVars, hostVars, schVars, swVars, BaseInv
<1>2. notifyRsp \in Seq(Rsps) /\ Len(notifyRsp) <= 1
  BY FifoTyped DEF RegInv
<1>3. PICK r \in Rsps : notifyRsp[1] = r /\ DOMAIN notifyRsp = {1}
  BY <1>1, <1>2, OneEntry
<1>4. r.q \in Q /\ r.q \in serving /\ serving' = serving \ {r.q}
      /\ want' = IF r.done THEN want ELSE want \cup {r.q}
  BY <1>1, <1>3 DEF Rsps
<1>5. TypeOK'
  <2>1. notifyRsp' \in Seq([q : Q, done : BOOLEAN])
    BY <1>1
  <2> QED BY <1>1, <1>4, <2>1 DEF TypeOK, EngTypeOK, Sch!TypeOK
<1>6. op = <<>>
  BY <1>1 DEF RegInv
<1>7. RegInv' /\ OpInv'
  <2>1. RegInv'
    BY <1>1 DEF RegInv
  <2>2. OpInv'
    BY <1>1, <1>6 DEF OpInv
  <2> QED BY <2>1, <2>2
<1>8. CtxInv' /\ AwakeInv' /\ OrderInv' /\ ErrInv'
  BY <1>1, FrameCtx, FrameAwake, FrameOrder, FrameErr
<1>9. ServeInv'
  <2>1. \A q : OpenDma(q)' = OpenDma(q)
    BY <1>1 DEF OpenDma
  <2>2. \A q : Answered(q) <=> q = r.q
    BY <1>3 DEF Answered
  <2>3. \A q : ~Answered(q)'
    BY <1>1 DEF Answered
  <2> SUFFICES ASSUME NEW q \in Q
               PROVE  /\ ctx'[q].dmaOut = OpenDma(q)'
                      /\ OpenDma(q)' \in {0, 1}
                      /\ OpenDma(q)' = 1 => q \in serving' /\ ~Answered(q)'
                      /\ Answered(q)' => q \in serving'
                      /\ q \in serving' /\ ~Answered(q)' => OpenDma(q)' = 1
    BY DEF ServeInv
  <2>4. CASE q = r.q
    BY <1>1, <1>4, <2>1, <2>2, <2>3, <2>4 DEF ServeInv
  <2>5. CASE q # r.q
    BY <1>1, <1>4, <2>1, <2>2, <2>3, <2>5 DEF ServeInv
  <2> QED BY <2>4, <2>5
<1> QED BY <1>5, <1>7, <1>8, <1>9

\* The avail ring's scheduler holds the queue from now on.
LEMMA IdxNotifyTakenInv ==
  ASSUME BaseInv, IdxNotifyTaken
  PROVE  BaseInv'
<1>1. /\ idxNotify # <<>> /\ idxNotify' = <<>>
      /\ ringToken' = ringToken \cup {idxNotify[1]}
      /\ UNCHANGED <<ctx, op, rdIdxFf, rdFlagsFf, wrRspFf, rdReq, wrReq, ready, errReq, notifyRsp>>
      /\ UNCHANGED <<dbVars, hostVars, schVars, swVars, availUi>>
  BY DEF IdxNotifyTaken
<1> USE DEF dbVars, hostVars, schVars, swVars, BaseInv
<1>2. idxNotify \in Seq(Q) /\ Len(idxNotify) <= 1
  BY FifoTyped DEF RegInv
<1>3. idxNotify[1] \in Q /\ DOMAIN idxNotify = {1}
  BY <1>1, <1>2, OneEntry
<1>4. TypeOK'
  BY <1>1, <1>3 DEF TypeOK, EngTypeOK, Sch!TypeOK
<1>5. RegInv'
  BY <1>1 DEF RegInv
<1>6. AwakeInv'
  <2>1. \A q : Holds(idxNotify, q) => q \in ringToken'
    BY <1>1, <1>3 DEF Holds
  <2> QED BY <1>1, <2>1 DEF AwakeInv
<1>7. OpInv' /\ CtxInv' /\ OrderInv' /\ ErrInv'
  BY <1>1, FrameOp, FrameCtx, FrameOrder, FrameErr
<1>8. ServeInv'
  BY <1>1, FrameServe
<1> QED BY <1>4, <1>5, <1>6, <1>7, <1>8

\* The avail ring engine moves its pointer towards the index, and lets go of
\* the queue when it has reached it.
LEMMA RingServeInv ==
  ASSUME BaseInv, NEW q \in Q, RingServe(q)
  PROVE  BaseInv'
<1>1. /\ UNCHANGED <<engVars, dbVars, hostVars, schVars, swVars>>
      /\ \/ /\ status[q] = "DOING" /\ availUi[q] # ctx[q].availIdx
            /\ availUi' = [availUi EXCEPT ![q] = (@ + 1) % IdxMod]
            /\ UNCHANGED ringToken
         \/ /\ status[q] = "IDLE" \/ (status[q] = "DOING" /\ availUi[q] = ctx[q].availIdx)
            /\ ringToken' = ringToken \ {q}
            /\ UNCHANGED availUi
      /\ q \in ringToken
  BY DEF RingServe
<1> USE DEF engVars, dbVars, hostVars, schVars, swVars, BaseInv
<1>2. \A p \in Q : availUi[p] \in Idx /\ ctx[p].availIdx \in Idx /\ hostIdx[p] \in Idx
  BY QueueTyped
<1>3. (availUi[q] + 1) % IdxMod \in Idx
  BY <1>2, IncCases
<1>4. TypeOK'
  <2>1. availUi' \in [Q -> Idx] /\ ringToken' \subseteq Q
    BY <1>1, <1>3 DEF TypeOK, EngTypeOK
  <2> QED BY <1>1, <2>1 DEF TypeOK, EngTypeOK, Sch!TypeOK
<1>5. RegInv' /\ OpInv' /\ ErrInv'
  BY <1>1, FrameReg, FrameOp, FrameErr
<1>6. ServeInv'
  BY <1>1, FrameServe
<1>7. CASE ringToken' = ringToken \ {q} /\ UNCHANGED availUi
  <2>1. CtxInv' /\ OrderInv'
    BY <1>1, <1>7, FrameCtx, FrameOrder
  <2>2. AwakeInv'
    BY <1>1, <1>7 DEF AwakeInv, Holds
  <2> QED BY <1>4, <1>5, <1>6, <2>1, <2>2
<1>8. CASE /\ status[q] = "DOING" /\ availUi[q] # ctx[q].availIdx
           /\ availUi' = [availUi EXCEPT ![q] = (@ + 1) % IdxMod]
           /\ UNCHANGED ringToken
  <2>1. /\ availUi'[q] = (availUi[q] + 1) % IdxMod
        /\ \A p \in Q \ {q} : availUi'[p] = availUi[p]
    BY <1>8 DEF TypeOK, EngTypeOK
  <2>2. CtxInv'
    BY <1>1, <1>8, <2>1 DEF CtxInv
  <2>3. AwakeInv'
    <3>1. q \in ringToken'
      BY <1>1, <1>8
    <3> QED BY <1>1, <1>8, <2>1, <3>1 DEF AwakeInv, Holds
  <2>4. OrderInv'
    <3>1. /\ Minus(ctx[q].availIdx, availUi[q]) + Minus(hostIdx[q], ctx[q].availIdx)
               = Minus(hostIdx[q], availUi[q])
          /\ Minus(hostIdx[q], availUi[q]) <= QSize
      BY DEF OrderInv
    <3>2. /\ Minus(ctx[q].availIdx, availUi[q]) \in Nat /\ Minus(ctx[q].availIdx, availUi[q]) # 0
          /\ Minus(hostIdx[q], ctx[q].availIdx) \in Nat
          /\ Minus(hostIdx[q], availUi[q]) \in Nat
      BY <1>2, <1>8, MinusZero
    <3>3. hostIdx[q] # availUi[q]
      BY <1>2, <3>1, <3>2, MinusZero
    <3>4. /\ Minus(ctx[q].availIdx, availUi'[q]) = Minus(ctx[q].availIdx, availUi[q]) - 1
          /\ Minus(hostIdx[q], availUi'[q]) = Minus(hostIdx[q], availUi[q]) - 1
      BY <1>2, <1>8, <2>1, <3>3, MinusIncRight
    <3>5. /\ Minus(ctx[q].availIdx, availUi'[q]) + Minus(hostIdx[q], ctx[q].availIdx)
               = Minus(hostIdx[q], availUi'[q])
          /\ Minus(hostIdx[q], availUi'[q]) <= QSize
      BY <3>1, <3>2, <3>4, IdxEngineAssumption
    <3> QED BY <1>1, <2>1, <3>5 DEF OrderInv
  <2> QED BY <1>4, <1>5, <1>6, <2>2, <2>3, <2>4
<1> QED BY <1>1, <1>7, <1>8

-----------------------------------------------------------------------------
(* virtio_ctx.  A status moves only while no operation has an older sample. *)

\* The moves other than a start.
Moves(q, st, f) ==
  \/ status[q] = "STARTING" /\ st = "DOING" /\ ~f
  \/ status[q] = "STARTING" /\ st = "STOPPING" /\ f
  \/ status[q] = "DOING" /\ st = "DOING" /\ ~f
  \/ status[q] = "DOING" /\ st = "STOPPING"
  \/ status[q] = "STOPPING" /\ st = "DOING" /\ ~f /\ ~forced[q] /\ "resume" \in Env
  \/ status[q] = "STOPPING" /\ st = "IDLE" /\ ~f /\ ctx[q].dmaOut = 0
  \/ status[q] = "STOPPING" /\ st = "STOPPING" /\ f

\* A move of the status keeps what is said of samples, contexts and the avail ring.
LEMMA StatusMoves ==
  ASSUME BaseInv, NEW q \in Q, NEW st \in Statuses, NEW f \in BOOLEAN,
         Moves(q, st, f), SetStatus(q, st, f),
         UNCHANGED <<ctx, op, rdIdxFf, rdFlagsFf, wrRspFf, want, serving, availUi, ringToken, idxNotify>>
  PROVE  /\ status' \in [Q -> Statuses] /\ forced' \in [Q -> BOOLEAN]
         /\ OpInv' /\ CtxInv' /\ AwakeInv'
<1>1. /\ NotStale(q)
      /\ status' = [status EXCEPT ![q] = st] /\ forced' = [forced EXCEPT ![q] = f]
  BY DEF SetStatus
<1>2. status \in [Q -> Statuses] /\ forced \in [Q -> BOOLEAN] /\ op \in Seq(Op)
  BY DEF BaseInv, TypeOK, EngTypeOK
<1>3. /\ status'[q] = st /\ forced'[q] = f
      /\ \A p \in Q \ {q} : status'[p] = status[p] /\ forced'[p] = forced[p]
      /\ status' \in [Q -> Statuses] /\ forced' \in [Q -> BOOLEAN]
  BY <1>1, <1>2
<1>4. OpInv'
  <2> SUFFICES ASSUME NEW i \in DOMAIN op PROVE Origin(op[i])' /\ Aged(op[i])'
    BY DEF OpInv
  <2>1. PICK o \in Op : o = op[i]
    BY <1>2, LenProperties, ElementOfSeq
  <2>2. Origin(o) /\ Aged(o)
    BY <2>1 DEF BaseInv, OpInv
  <2>3. o.q \in Q
    BY OpFields
  <2>4. Origin(o)'
    BY <2>2 DEF Origin
  <2>5. Aged(o)'
    <3>1. CASE o.q # q
      <4>1. status'[o.q] = status[o.q] /\ forced'[o.q] = forced[o.q] /\ ctx'[o.q] = ctx[o.q]
        BY <1>3, <2>3, <3>1
      <4> QED BY <2>2, <4>1 DEF Aged
    <3>2. CASE o.q = q
      <4>1. o.status = status[q] /\ o.forced = forced[q]
        BY <1>1, <2>1, <3>2 DEF NotStale
      <4>2. o.forced \in BOOLEAN /\ (forced[q] => status[q] = "STOPPING")
        BY OpFields DEF BaseInv, CtxInv
      <4> QED BY <1>3, <2>2, <3>2, <4>1, <4>2 DEF Aged, Moves
    <3> QED BY <3>1, <3>2
  <2>6. op'[i] = o
    BY <2>1
  <2> QED BY <2>1, <2>4, <2>5, <2>6
<1>5. CtxInv'
  <2> SUFFICES ASSUME NEW p \in Q
               PROVE  /\ forced'[p] => status'[p] = "STOPPING"
                      /\ status'[p] = "STARTING" =>
                           ctx[p].availIdx = availUi[p] /\ ~ctx[p].noNotify /\ ~ctx[p].noChange
                      /\ status'[p] \in {"IDLE", "STARTING"} => ctx[p].dmaOut = 0
                      /\ ctx[p].noChange => NoChangeWired
    BY DEF CtxInv
  <2>1. CASE p = q
    BY <1>3, <2>1 DEF BaseInv, CtxInv, Moves
  <2>2. CASE p # q
    BY <1>3, <2>2 DEF BaseInv, CtxInv
  <2> QED BY <2>1, <2>2
<1>6. AwakeInv'
  <2> SUFFICES ASSUME NEW p \in Q, status'[p] \in {"DOING", "STOPPING"}, availUi[p] # ctx[p].availIdx
               PROVE  p \in ringToken \/ Holds(idxNotify, p)
    BY DEF AwakeInv, Holds
  <2>1. CASE p = q
    BY <1>3, <2>1 DEF BaseInv, AwakeInv, CtxInv, Moves
  <2>2. CASE p # q
    BY <1>3, <2>2 DEF BaseInv, AwakeInv
  <2> QED BY <2>1, <2>2
<1> QED BY <1>3, <1>4, <1>5, <1>6

\* SOC_NOTIFY, stop, resume and the end of a stop.
LEMMA SoftwareInv ==
  ASSUME BaseInv, NEW q \in Q, SocNotify(q) \/ SwStop(q) \/ SwResume(q) \/ SwSeesIdle(q)
  PROVE  BaseInv'
<1> USE DEF engVars, dbVars, hostVars, schVars, BaseInv
<1>1. PICK st \in Statuses, f \in BOOLEAN :
        /\ Moves(q, st, f) /\ SetStatus(q, st, f)
        /\ UNCHANGED <<engVars, dbVars, hostVars, schVars, availUi, ringToken>>
        /\ socReq' = socReq \/ socReq' = <<q>>
  <2>1. CASE SocNotify(q)
    <3>1. Moves(q, "DOING", FALSE) /\ SetStatus(q, "DOING", FALSE)
      BY <2>1 DEF SocNotify, Moves
    <3> QED BY <2>1, <3>1 DEF SocNotify, Statuses
  <2>2. CASE SwStop(q)
    <3>1. PICK f \in BOOLEAN : (status[q] = "STARTING" => f) /\ SetStatus(q, "STOPPING", f)
      BY <2>2 DEF SwStop
    <3>2. Moves(q, "STOPPING", f)
      BY <2>2, <3>1 DEF SwStop, Moves
    <3> QED BY <2>2, <3>1, <3>2 DEF SwStop, Statuses
  <2>3. CASE SwResume(q)
    <3>1. Moves(q, "DOING", FALSE) /\ SetStatus(q, "DOING", FALSE)
      BY <2>3 DEF SwResume, Moves
    <3> QED BY <2>3, <3>1 DEF SwResume, Statuses
  <2>4. CASE SwSeesIdle(q)
    <3>1. Moves(q, "IDLE", FALSE) /\ SetStatus(q, "IDLE", FALSE)
      BY <2>4 DEF SwSeesIdle, Moves
    <3> QED BY <2>4, <3>1 DEF SwSeesIdle, Statuses
  <2> QED BY <2>1, <2>2, <2>3, <2>4
<1>2. /\ status' \in [Q -> Statuses] /\ forced' \in [Q -> BOOLEAN]
      /\ OpInv' /\ CtxInv' /\ AwakeInv'
  BY <1>1, StatusMoves
<1>3. /\ socReq' \in Seq(Q) /\ Len(socReq') <= 1 /\ (socReq # <<>> => socReq' # <<>>)
  <2>1. socReq \in Seq(Q) /\ Len(socReq) <= 1
    BY FifoTyped DEF RegInv
  <2>2. <<q>> \in Seq(Q) /\ Len(<<q>>) = 1 /\ <<q>> # <<>>
    OBVIOUS
  <2>3. CASE socReq' = socReq
    BY <2>1, <2>3
  <2>4. CASE socReq' = <<q>>
    BY <2>2, <2>4
  <2> QED BY <1>1, <2>3, <2>4
<1>4. TypeOK'
  BY <1>1, <1>2, <1>3 DEF TypeOK, EngTypeOK, Sch!TypeOK
<1>5. RegInv'
  BY <1>1, <1>3 DEF RegInv
<1>6. OrderInv' /\ ErrInv'
  BY <1>1, FrameOrder, FrameErr
<1>7. ServeInv'
  BY <1>1, FrameServe
<1> QED BY <1>2, <1>4, <1>5, <1>6, <1>7

\* The error of an operation stops its queue.
LEMMA ErrStopInv ==
  ASSUME BaseInv, ErrStop
  PROVE  BaseInv'
<1> USE DEF dbVars, hostVars, schVars, BaseInv
<1>1. /\ errReq # <<>> /\ errReq' = <<>>
      /\ UNCHANGED <<ctx, op, rdIdxFf, rdFlagsFf, wrRspFf, rdReq, wrReq, ready, idxNotify, notifyRsp>>
      /\ UNCHANGED <<dbVars, hostVars, schVars, socReq, availUi, ringToken>>
  BY DEF ErrStop
<1>2. PICK q \in Q : q = errReq[1]
  <2>1. errReq \in Seq(Q) /\ Len(errReq) <= 1
    BY FifoTyped DEF RegInv
  <2> QED BY <1>1, <2>1, OneEntry
<1>3. /\ status' \in [Q -> Statuses] /\ forced' \in [Q -> BOOLEAN]
      /\ OpInv' /\ CtxInv' /\ AwakeInv'
  <2>1. CASE status[q] = "DOING" \/ (status[q] = "STOPPING" /\ ~forced[q])
    <3>1. SetStatus(q, "STOPPING", TRUE) /\ Moves(q, "STOPPING", TRUE)
      BY <1>2, <2>1 DEF ErrStop, Moves
    <3>2. "STOPPING" \in Statuses /\ TRUE \in BOOLEAN
      BY DEF Statuses
    <3> QED BY <1>1, <3>1, <3>2, StatusMoves
  <2>2. CASE ~(status[q] = "DOING" \/ (status[q] = "STOPPING" /\ ~forced[q]))
    <3>1. UNCHANGED <<status, forced>>
      BY <1>2, <2>2 DEF ErrStop
    <3>2. OpInv' /\ CtxInv' /\ AwakeInv'
      BY <1>1, <3>1, FrameOp, FrameCtx, FrameAwake
    <3> QED BY <3>1, <3>2 DEF TypeOK, EngTypeOK
  <2> QED BY <2>1, <2>2
<1>4. TypeOK'
  <2>1. errReq' \in Seq(Q)
    BY <1>1
  <2> QED BY <1>1, <1>3, <2>1 DEF TypeOK, EngTypeOK, Sch!TypeOK
<1>5. RegInv'
  BY <1>1 DEF RegInv
<1>6. OrderInv' /\ ErrInv'
  BY <1>1, FrameOrder DEF ErrInv
<1>7. ServeInv'
  BY <1>1, FrameServe
<1> QED BY <1>3, <1>4, <1>5, <1>6, <1>7

\* A start gives the queue a fresh context; nothing of it is open then.
LEMMA SwStartInv ==
  ASSUME BaseInv, NEW q \in Q, SwStart(q)
  PROVE  BaseInv'
<1> USE DEF dbVars, hostVars, schVars, BaseInv
<1>1. /\ status[q] = "IDLE" /\ NotStale(q)
      /\ status' = [status EXCEPT ![q] = "STARTING"] /\ forced' = [forced EXCEPT ![q] = FALSE]
      /\ ctx' = [ctx EXCEPT ![q] = CtxInit(availUi[q])]
      /\ UNCHANGED <<op, rdIdxFf, rdFlagsFf, wrRspFf, rdReq, wrReq, ready, idxNotify, errReq, notifyRsp>>
      /\ UNCHANGED <<dbVars, hostVars, schVars, socReq, availUi, ringToken>>
  BY DEF SwStart, SetStatus
<1>2. /\ status \in [Q -> Statuses] /\ forced \in [Q -> BOOLEAN] /\ ctx \in [Q -> CtxWord]
      /\ op \in Seq(Op)
  BY DEF TypeOK, EngTypeOK
<1>3. /\ CtxInit(availUi[q]) \in CtxWord /\ availUi[q] \in Idx
      /\ CtxInit(availUi[q]).availIdx = availUi[q] /\ CtxInit(availUi[q]).dmaOut = 0
      /\ ~CtxInit(availUi[q]).noNotify /\ ~CtxInit(availUi[q]).noChange
  BY QueueTyped DEF CtxInit, CtxWord
<1>4. /\ status'[q] = "STARTING" /\ forced'[q] = FALSE /\ ctx'[q] = CtxInit(availUi[q])
      /\ \A p \in Q \ {q} : status'[p] = status[p] /\ forced'[p] = forced[p] /\ ctx'[p] = ctx[p]
      /\ status' \in [Q -> Statuses] /\ forced' \in [Q -> BOOLEAN] /\ ctx' \in [Q -> CtxWord]
  BY <1>1, <1>2, <1>3 DEF Statuses
<1>5. TypeOK'
  BY <1>1, <1>4 DEF TypeOK, EngTypeOK, Sch!TypeOK
<1>6. RegInv' /\ ErrInv'
  BY <1>1, FrameReg, FrameErr
<1>7. OpInv'
  <2> SUFFICES ASSUME NEW i \in DOMAIN op PROVE Origin(op[i])' /\ Aged(op[i])'
    BY <1>1 DEF OpInv
  <2>1. PICK o \in Op : o = op[i]
    BY <1>2, LenProperties, ElementOfSeq
  <2>2. Origin(o) /\ Aged(o) /\ o.q \in Q
    BY <2>1, OpFields DEF OpInv
  <2>3. Origin(o)'
    BY <1>1, <2>2 DEF Origin
  <2>4. Aged(o)'
    <3>1. CASE o.q # q
      <4>1. status'[o.q] = status[o.q] /\ forced'[o.q] = forced[o.q] /\ ctx'[o.q] = ctx[o.q]
        BY <1>4, <2>2, <3>1
      <4> QED BY <2>2, <4>1 DEF Aged
    <3>2. CASE o.q = q
      <4>1. o.status = "IDLE" /\ o.forced = forced[q] /\ ~forced[q]
        BY <1>1, <2>1, <3>2 DEF NotStale, CtxInv
      <4> QED BY <1>4, <3>2, <4>1 DEF Aged
    <3> QED BY <3>1, <3>2
  <2>5. op'[i] = o
    BY <1>1, <2>1
  <2> QED BY <2>1, <2>3, <2>4, <2>5
<1>8. CtxInv'
  BY <1>1, <1>3, <1>4 DEF CtxInv
<1>9. AwakeInv'
  BY <1>1, <1>4 DEF AwakeInv, Holds
<1>10. OpenDma(q) = 0
  BY <1>1 DEF CtxInv, ServeInv
<1>11. ServeInv'
  <2>1. \A p : OpenDma(p)' = OpenDma(p)
    BY <1>1 DEF OpenDma
  <2>2. \A p : Answered(p)' <=> Answered(p)
    BY <1>1 DEF Answered
  <2>3. \A p \in Q : ctx'[p].dmaOut = OpenDma(p)
    BY <1>3, <1>4, <1>10 DEF ServeInv
  <2> QED BY <1>1, <2>1, <2>2, <2>3 DEF ServeInv
<1>12. OrderInv'
  <2>1. /\ Minus(availUi[q], availUi[q]) = 0 /\ Minus(hostIdx[q], availUi[q]) \in Nat
    BY QueueTyped, MinusZero
  <2>2. \A i \in DOMAIN rdIdxFf : rdIdxFf[i].q # q /\ rdIdxFf[i].q \in Q
    <3>1. IdxN(q) = 0
      BY <1>10, OpenParts
    <3> QED BY <3>1, NoneOpen, IdxTyped
  <2>3. \A p \in Q : /\ Minus(ctx'[p].availIdx, availUi[p]) + Minus(hostIdx[p], ctx'[p].availIdx)
                          = Minus(hostIdx[p], availUi[p])
                     /\ Minus(hostIdx[p], availUi[p]) <= QSize
    <3> TAKE p \in Q
    <3>1. CASE p = q
      BY <1>3, <1>4, <2>1, <3>1 DEF OrderInv
    <3>2. CASE p # q
      BY <1>4, <3>2 DEF OrderInv
    <3> QED BY <3>1, <3>2
  <2>4. \A i \in DOMAIN rdIdxFf : ctx'[rdIdxFf[i].q] = ctx[rdIdxFf[i].q]
    BY <1>4, <2>2
  <2> QED BY <1>1, <2>3, <2>4 DEF OrderInv
<1> QED BY <1>5, <1>6, <1>7, <1>8, <1>9, <1>11, <1>12

-----------------------------------------------------------------------------
(* DMA: what arrives in a FIFO has left a set. *)

\* A push does not change the head.
LEMMA HeadAppend ==
  ASSUME NEW S, NEW s \in Seq(S), NEW x \in S
  PROVE  s # <<>> => Append(s, x) # <<>> /\ Head(Append(s, x)) = Head(s)
<1> SUFFICES ASSUME s # <<>> PROVE Append(s, x) # <<>> /\ Head(Append(s, x)) = Head(s)
  OBVIOUS
<1>1. Append(s, x) \in Seq(S) /\ Append(s, x) # <<>>
  BY AppendSome
<1>2. Len(s) \in Nat /\ Len(s) # 0 /\ DOMAIN s = 1 .. Len(s)
  BY EmptySeq, LenProperties
<1>3. Append(s, x)[1] = s[1]
  BY <1>2, AppendProperties
<1> QED BY <1>1, <1>3

\* How often a queue is in a FIFO of responses.
LEMMA IdxPlaces ==
  ASSUME NEW s \in Seq(IdxRsps), NEW q
  PROVE  Cardinality({i \in DOMAIN s : s[i].q = q}) = Count(s, IdxOf(q))
<1>1. \A i \in DOMAIN s : s[i] \in IdxRsps
  OBVIOUS
<1>2. {i \in DOMAIN s : s[i].q = q} = Places(s, IdxOf(q))
  BY <1>1 DEF Places, IdxOf
<1> QED BY <1>2 DEF Count

\* The same for flags,
LEMMA FlagPlaces ==
  ASSUME NEW s \in Seq(FlagRsps), NEW q
  PROVE  Cardinality({i \in DOMAIN s : s[i].q = q}) = Count(s, FlagOf(q))
<1>1. \A i \in DOMAIN s : s[i] \in FlagRsps
  OBVIOUS
<1>2. {i \in DOMAIN s : s[i].q = q} = Places(s, FlagOf(q))
  BY <1>1 DEF Places, FlagOf
<1> QED BY <1>2 DEF Count

\* and for write responses.
LEMMA RspPlaces ==
  ASSUME NEW s, NEW q
  PROVE  Cardinality({i \in DOMAIN s : s[i] = q}) = Count(s, {q})
<1>1. {i \in DOMAIN s : s[i] = q} = Places(s, {q})
  BY DEF Places
<1> QED BY <1>1 DEF Count

\* The requests of a queue.
OfQueue(R, q) == {r \in R : r.q = q}

\* One that leaves the set is counted out,
LEMMA LeavesSet ==
  ASSUME NEW R, NEW x \in R, NEW q, IsFiniteSet(OfQueue(R, q))
  PROVE  Cardinality(OfQueue(R \ {x}, q))
           = Cardinality(OfQueue(R, q)) - (IF x.q = q THEN 1 ELSE 0)
<1>0. Cardinality(OfQueue(R, q)) \in Nat
  BY FS_CardinalityType
<1>1. OfQueue(R \ {x}, q) = OfQueue(R, q) \ {x}
  BY DEF OfQueue
<1>2. Cardinality(OfQueue(R, q) \ {x})
        = IF x \in OfQueue(R, q) THEN Cardinality(OfQueue(R, q)) - 1 ELSE Cardinality(OfQueue(R, q))
  BY FS_RemoveElement
<1>3. x \in OfQueue(R, q) <=> x.q = q
  BY DEF OfQueue
<1>4. CASE x.q = q
  BY <1>1, <1>2, <1>3, <1>4
<1>5. CASE x.q # q
  BY <1>0, <1>1, <1>2, <1>3, <1>5
<1> QED BY <1>4, <1>5

\* and so does one that enters.
LEMMA EntersSet ==
  ASSUME NEW R, NEW x, x \notin R, NEW q, IsFiniteSet(OfQueue(R, q))
  PROVE  Cardinality(OfQueue(R \cup {x}, q))
           = Cardinality(OfQueue(R, q)) + (IF x.q = q THEN 1 ELSE 0)
<1>0. Cardinality(OfQueue(R, q)) \in Nat
  BY FS_CardinalityType
<1>1. Cardinality(OfQueue(R, q) \cup {x})
        = IF x \in OfQueue(R, q) THEN Cardinality(OfQueue(R, q)) ELSE Cardinality(OfQueue(R, q)) + 1
  BY FS_AddElement
<1>2. x \notin OfQueue(R, q)
  BY DEF OfQueue
<1>3. CASE x.q = q
  <2>1. OfQueue(R \cup {x}, q) = OfQueue(R, q) \cup {x}
    BY <1>3 DEF OfQueue
  <2> QED BY <1>1, <1>2, <1>3, <2>1
<1>4. CASE x.q # q
  <2>1. OfQueue(R \cup {x}, q) = OfQueue(R, q)
    BY <1>4 DEF OfQueue
  <2> QED BY <1>0, <1>4, <2>1
<1> QED BY <1>3, <1>4

\* A write is answered: it moves from its set to its FIFO.
LEMMA DmaWrRspInv ==
  ASSUME BaseInv, NEW w \in wrReq, DmaWrRsp(w)
  PROVE  BaseInv'
<1> USE DEF dbVars, hostVars, schVars, swVars, BaseInv
<1>1. /\ wrReq' = wrReq \ {w} /\ wrRspFf' = Append(wrRspFf, w.q)
      /\ UNCHANGED <<ctx, op, rdIdxFf, rdFlagsFf, rdReq, ready, idxNotify, errReq, notifyRsp>>
      /\ UNCHANGED <<dbVars, hostVars, schVars, swVars, availUi, ringToken>>
  BY DEF DmaWrRsp
<1>2. w.q \in Q /\ wrRspFf \in Seq(Q) /\ wrRspFf' \in Seq(Q)
  <2>1. w.q \in Q
    BY DEF TypeOK, EngTypeOK
  <2> QED BY <1>1, <2>1, FifoTyped, AppendProperties
<1>3. TypeOK'
  <2>1. wrReq' \subseteq [q : Q, flags : BOOLEAN]
    BY <1>1 DEF TypeOK, EngTypeOK
  <2> QED BY <1>1, <1>2, <2>1 DEF TypeOK, EngTypeOK, Sch!TypeOK
<1>4. RegInv' /\ CtxInv' /\ AwakeInv' /\ OrderInv' /\ ErrInv'
  BY <1>1, FrameReg, FrameCtx, FrameAwake, FrameOrder, FrameErr
<1>5. OpInv'
  <2>1. wrRspFf # <<>> => wrRspFf' # <<>> /\ Head(wrRspFf') = Head(wrRspFf)
    BY <1>1, <1>2, HeadAppend
  <2> QED BY <1>1, <2>1 DEF OpInv, Origin, Aged
<1>6. ASSUME NEW q \in Q PROVE OpenDma(q)' = OpenDma(q)
  <2>1. Cardinality({x \in wrReq' : x.q = q}) = WrN(q) - (IF w.q = q THEN 1 ELSE 0)
    <3>1. IsFiniteSet(OfQueue(wrReq, q))
      BY OpenFinite DEF OfQueue
    <3>2. Cardinality(OfQueue(wrReq \ {w}, q))
            = Cardinality(OfQueue(wrReq, q)) - (IF w.q = q THEN 1 ELSE 0)
      BY <3>1, LeavesSet
    <3> QED BY <1>1, <3>2 DEF WrN, OfQueue
  <2>2. Cardinality({i \in DOMAIN wrRspFf' : wrRspFf'[i] = q}) = RspN(q) + (IF w.q = q THEN 1 ELSE 0)
    <3>1. Count(wrRspFf', {q}) = Count(wrRspFf, {q}) + (IF w.q \in {q} THEN 1 ELSE 0)
      BY <1>1, <1>2, CountAppend
    <3>2. w.q \in {q} <=> w.q = q
      OBVIOUS
    <3> QED BY <3>1, <3>2, RspPlaces, RspNCount
  <2>3. OpenDma(q)' = RdN(q) + Cardinality({x \in wrReq' : x.q = q}) + IdxN(q) + FlagN(q)
                        + Cardinality({i \in DOMAIN wrRspFf' : wrRspFf'[i] = q})
    BY <1>1 DEF OpenDma, RdN, IdxN, FlagN
  <2>4. RdN(q) \in Nat /\ WrN(q) \in Nat /\ IdxN(q) \in Nat /\ FlagN(q) \in Nat /\ RspN(q) \in Nat
    BY OpenFinite
  <2>5. OpenDma(q) = RdN(q) + WrN(q) + IdxN(q) + FlagN(q) + RspN(q)
    BY OpenSum, Zenon
  <2> QED BY <2>1, <2>2, <2>3, <2>4, <2>5
<1>7. ServeInv'
  <2>1. \A q : Answered(q)' <=> Answered(q)
    BY <1>1 DEF Answered
  <2> QED BY <1>1, <1>6, <2>1 DEF ServeInv
<1> QED BY <1>3, <1>4, <1>5, <1>7

\* A read arrives with the index of that moment.
LEMMA DmaRdRspInv ==
  ASSUME BaseInv, NEW r \in rdReq, DmaRdRsp(r)
  PROVE  BaseInv'
<1> USE DEF dbVars, hostVars, schVars, swVars, BaseInv
<1>1. PICK err \in DmaErr, idx \in Idx :
        /\ err \/ idx = hostIdx[r.q]
        /\ \/ /\ r.kind = "idx"
              /\ rdIdxFf' = Append(rdIdxFf, [q |-> r.q, idx |-> idx, err |-> err])
              /\ UNCHANGED rdFlagsFf
           \/ /\ r.kind # "idx"
              /\ rdFlagsFf' = Append(rdFlagsFf, [q |-> r.q, err |-> err])
              /\ UNCHANGED rdIdxFf
  <2>1. r.q \in Q
    BY DEF TypeOK, EngTypeOK
  <2>2. hostIdx[r.q] \in Idx
    BY <2>1, QueueTyped
  <2> QED BY <2>2 DEF DmaRdRsp
<1>2. /\ rdReq' = rdReq \ {r}
      /\ UNCHANGED <<ctx, op, wrRspFf, wrReq, ready, idxNotify, errReq, notifyRsp>>
      /\ UNCHANGED <<dbVars, hostVars, schVars, swVars, availUi, ringToken>>
  BY DEF DmaRdRsp
<1>3. /\ r.q \in Q /\ err \in BOOLEAN /\ ("dma_err" \notin Env => ~err)
      /\ rdIdxFf \in Seq(IdxRsps) /\ rdFlagsFf \in Seq(FlagRsps)
      /\ [q |-> r.q, idx |-> idx, err |-> err] \in IdxRsps
      /\ [q |-> r.q, err |-> err] \in FlagRsps
  <2>1. r.q \in Q
    BY DEF TypeOK, EngTypeOK
  <2>2. err \in BOOLEAN /\ ("dma_err" \notin Env => ~err)
    BY DEF DmaErr
  <2> QED BY <2>1, <2>2, FifoTyped DEF IdxRsps, FlagRsps
<1> DEFINE x == [q |-> r.q, idx |-> idx, err |-> err]
           y == [q |-> r.q, err |-> err]
<1>4. x.q = r.q /\ x.idx = idx /\ x.err = err /\ y.q = r.q /\ y.err = err
  OBVIOUS
<1>5. rdIdxFf' \in Seq(IdxRsps) /\ rdFlagsFf' \in Seq(FlagRsps)
  BY <1>1, <1>3, AppendProperties
<1>6. TypeOK'
  <2>1. rdReq' \subseteq [q : Q, kind : Kinds]
    BY <1>2 DEF TypeOK, EngTypeOK
  <2> QED BY <1>2, <1>5, <2>1 DEF TypeOK, EngTypeOK, Sch!TypeOK, IdxRsps, FlagRsps
<1>7. RegInv' /\ CtxInv' /\ AwakeInv'
  BY <1>2, FrameReg, FrameCtx, FrameAwake
<1>8. OpInv'
  <2>1. /\ rdIdxFf # <<>> => rdIdxFf' # <<>> /\ Head(rdIdxFf') = Head(rdIdxFf)
        /\ rdFlagsFf # <<>> => rdFlagsFf' # <<>> /\ Head(rdFlagsFf') = Head(rdFlagsFf)
    BY <1>1, <1>3, HeadAppend
  <2> QED BY <1>2, <2>1 DEF OpInv, Origin, Aged
<1>9. ASSUME NEW i \in DOMAIN rdIdxFf', rdIdxFf'[i] # x \/ r.kind # "idx"
      PROVE  i \in DOMAIN rdIdxFf /\ rdIdxFf'[i] = rdIdxFf[i]
  <2>1. CASE r.kind = "idx"
    <3>1. rdIdxFf' = Append(rdIdxFf, x)
      BY <1>1, <2>1
    <3> HIDE DEF x
    <3>2. /\ DOMAIN rdIdxFf = 1 .. Len(rdIdxFf) /\ DOMAIN rdIdxFf' = 1 .. Len(rdIdxFf) + 1
          /\ Len(rdIdxFf) \in Nat /\ rdIdxFf'[Len(rdIdxFf) + 1] = x
          /\ \A k \in 1 .. Len(rdIdxFf) : rdIdxFf'[k] = rdIdxFf[k]
      BY <1>3, <3>1, AppendProperties, LenProperties DEF x
    <3> QED BY <1>9, <2>1, <3>2
  <2>2. CASE r.kind # "idx"
    BY <1>1, <2>2
  <2> QED BY <2>1, <2>2
<1>10. OrderInv'
  <2>1. ASSUME NEW i \in DOMAIN rdIdxFf', ~rdIdxFf'[i].err, NEW q, q = rdIdxFf'[i].q
        PROVE  Minus(rdIdxFf'[i].idx, ctx[q].availIdx) + Minus(hostIdx[q], rdIdxFf'[i].idx)
                 = Minus(hostIdx[q], ctx[q].availIdx)
    <3>1. CASE r.kind = "idx" /\ rdIdxFf'[i] = x
      <4>1. q = r.q /\ rdIdxFf'[i].idx = hostIdx[q]
        BY <1>1, <1>4, <2>1, <3>1
      <4>2. Minus(hostIdx[q], hostIdx[q]) = 0 /\ Minus(hostIdx[q], ctx[q].availIdx) \in Nat
        BY <1>3, <4>1, QueueTyped, MinusZero
      <4> QED BY <4>1, <4>2
    <3>2. CASE ~(r.kind = "idx" /\ rdIdxFf'[i] = x)
      <4>1. i \in DOMAIN rdIdxFf /\ rdIdxFf'[i] = rdIdxFf[i]
        BY <1>9, <3>2
      <4> QED BY <2>1, <4>1 DEF OrderInv
    <3> QED BY <3>1, <3>2
  <2> QED BY <1>2, <2>1 DEF OrderInv
<1>11. ErrInv'
  <2> SUFFICES ASSUME "dma_err" \notin Env PROVE ErrInv'
    BY DEF ErrInv
  <2>1. \A i \in DOMAIN rdIdxFf' : ~rdIdxFf'[i].err
    <3> TAKE i \in DOMAIN rdIdxFf'
    <3>1. CASE rdIdxFf'[i] = x
      BY <1>3, <1>4, <3>1
    <3>2. CASE rdIdxFf'[i] # x
      BY <1>9, <3>2 DEF ErrInv
    <3> QED BY <3>1, <3>2
  <2>2. \A i \in DOMAIN rdFlagsFf' : ~rdFlagsFf'[i].err
    <3>1. CASE r.kind = "idx"
      BY <1>1, <3>1 DEF ErrInv
    <3>2. CASE r.kind # "idx"
      <4>1. rdFlagsFf' = Append(rdFlagsFf, y)
        BY <1>1, <3>2
      <4> HIDE DEF y
      <4>2. /\ DOMAIN rdFlagsFf = 1 .. Len(rdFlagsFf) /\ DOMAIN rdFlagsFf' = 1 .. Len(rdFlagsFf) + 1
            /\ Len(rdFlagsFf) \in Nat /\ rdFlagsFf'[Len(rdFlagsFf) + 1] = y
            /\ \A k \in 1 .. Len(rdFlagsFf) : rdFlagsFf'[k] = rdFlagsFf[k]
        BY <1>3, <4>1, AppendProperties, LenProperties DEF y
      <4> QED BY <1>3, <1>4, <4>2 DEF ErrInv
    <3> QED BY <3>1, <3>2
  <2> QED BY <1>2, <2>1, <2>2 DEF ErrInv
<1>12. ASSUME NEW q \in Q PROVE OpenDma(q)' = OpenDma(q)
  <2>1. Cardinality({z \in rdReq' : z.q = q}) = RdN(q) - (IF r.q = q THEN 1 ELSE 0)
    <3>1. IsFiniteSet(OfQueue(rdReq, q))
      BY OpenFinite DEF OfQueue
    <3>2. Cardinality(OfQueue(rdReq \ {r}, q))
            = Cardinality(OfQueue(rdReq, q)) - (IF r.q = q THEN 1 ELSE 0)
      BY <3>1, LeavesSet
    <3> QED BY <1>2, <3>2 DEF RdN, OfQueue
  <2>2. Cardinality({i \in DOMAIN rdIdxFf' : rdIdxFf'[i].q = q})
          = IdxN(q) + (IF r.kind = "idx" /\ r.q = q THEN 1 ELSE 0)
    <3>1. Cardinality({i \in DOMAIN rdIdxFf' : rdIdxFf'[i].q = q}) = Count(rdIdxFf', IdxOf(q))
      BY <1>5, IdxPlaces
    <3>2. IdxN(q) = Count(rdIdxFf, IdxOf(q)) /\ IdxN(q) \in Nat
      BY <1>3, IdxNCount, OpenFinite
    <3>3. x \in IdxOf(q) <=> r.q = q
      BY <1>3, <1>4 DEF IdxOf
    <3>4. CASE r.kind = "idx"
      <4>1. rdIdxFf' = Append(rdIdxFf, x)
        BY <1>1, <3>4
      <4>2. Count(Append(rdIdxFf, x), IdxOf(q))
              = Count(rdIdxFf, IdxOf(q)) + (IF x \in IdxOf(q) THEN 1 ELSE 0)
        BY <1>3, CountAppend
      <4> QED BY <3>1, <3>2, <3>3, <3>4, <4>1, <4>2
    <3>5. CASE r.kind # "idx"
      BY <1>1, <3>1, <3>2, <3>5
    <3> QED BY <3>4, <3>5
  <2>3. Cardinality({i \in DOMAIN rdFlagsFf' : rdFlagsFf'[i].q = q})
          = FlagN(q) + (IF r.kind # "idx" /\ r.q = q THEN 1 ELSE 0)
    <3>1. Cardinality({i \in DOMAIN rdFlagsFf' : rdFlagsFf'[i].q = q}) = Count(rdFlagsFf', FlagOf(q))
      BY <1>5, FlagPlaces
    <3>2. FlagN(q) = Count(rdFlagsFf, FlagOf(q)) /\ FlagN(q) \in Nat
      BY <1>3, FlagNCount, OpenFinite
    <3>3. y \in FlagOf(q) <=> r.q = q
      BY <1>3, <1>4 DEF FlagOf
    <3>4. CASE r.kind # "idx"
      <4>1. rdFlagsFf' = Append(rdFlagsFf, y)
        BY <1>1, <3>4
      <4>2. Count(Append(rdFlagsFf, y), FlagOf(q))
              = Count(rdFlagsFf, FlagOf(q)) + (IF y \in FlagOf(q) THEN 1 ELSE 0)
        BY <1>3, CountAppend
      <4> QED BY <3>1, <3>2, <3>3, <3>4, <4>1, <4>2
    <3>5. CASE r.kind = "idx"
      BY <1>1, <3>1, <3>2, <3>5
    <3> QED BY <3>4, <3>5
  <2>4. OpenDma(q)' = Cardinality({z \in rdReq' : z.q = q}) + WrN(q)
                        + Cardinality({i \in DOMAIN rdIdxFf' : rdIdxFf'[i].q = q})
                        + Cardinality({i \in DOMAIN rdFlagsFf' : rdFlagsFf'[i].q = q}) + RspN(q)
    BY <1>2 DEF OpenDma, WrN, RspN
  <2>5. RdN(q) \in Nat /\ WrN(q) \in Nat /\ IdxN(q) \in Nat /\ FlagN(q) \in Nat /\ RspN(q) \in Nat
    BY OpenFinite
  <2>6. OpenDma(q) = RdN(q) + WrN(q) + IdxN(q) + FlagN(q) + RspN(q)
    BY OpenSum, Zenon
  <2> QED BY <2>1, <2>2, <2>3, <2>4, <2>5, <2>6
<1>13. ServeInv'
  <2>1. \A q : Answered(q)' <=> Answered(q)
    BY <1>2 DEF Answered
  <2> QED BY <1>2, <1>12, <2>1 DEF ServeInv
<1> QED BY <1>6, <1>7, <1>8, <1>10, <1>11, <1>13


-----------------------------------------------------------------------------
(* The end of an operation. *)

Reads(o) == IF Issued(o) = "rd_idx" THEN {[q |-> o.q, kind |-> "idx"]}
            ELSE IF Issued(o) = "rd_flags" THEN {[q |-> o.q, kind |-> "flags"]} ELSE {}
Writes(o) == IF Issued(o) = "wr_flags" THEN {[q |-> o.q, flags |-> ~o.ctx.noNotify]} ELSE {}

\* EngineComplete, of operation o.
Completes(o) ==
  /\ op = <<o>> /\ op' = <<>>
  /\ rdReq' = rdReq \cup Reads(o) /\ wrReq' = wrReq \cup Writes(o)
  /\ ctx' = IF o.status \in {"DOING", "STOPPING"} THEN [ctx EXCEPT ![o.q] = NewCtx(o)] ELSE ctx
  /\ rdIdxFf' = IF o.type = "RD_IDX_RSP" THEN Tail(rdIdxFf) ELSE rdIdxFf
  /\ rdFlagsFf' = IF o.type = "RD_NOTIFY_RSP" THEN Tail(rdFlagsFf) ELSE rdFlagsFf
  /\ wrRspFf' = IF o.type = "WR_NOTIFY_RSP" THEN Tail(wrRspFf) ELSE wrRspFf
  /\ idxNotify' = IF WakesRing(o) THEN <<o.q>> ELSE <<>>
  /\ errReq' = IF OpError(o) THEN <<o.q>> ELSE <<>>
  /\ notifyRsp' = IF Answers(o) THEN <<[q |-> o.q, done |-> Done(o)]>> ELSE <<>>
  /\ ready' = FreshReady
  /\ o.type = "KICK_NOTIFY" => serving' = serving \cup {o.q} /\ want' \in {want, want \ {o.q}}
  /\ o.type # "KICK_NOTIFY" => UNCHANGED <<want, serving>>
  /\ landing' = IF Issued(o) = "wr_flags"
                THEN Append(landing, [q |-> o.q, flags |-> ~o.ctx.noNotify]) ELSE landing
  /\ UNCHANGED <<dbStat, dbMask, dbReq, hostIdx, hostFlags, posted, doorbells>>
  /\ UNCHANGED <<status, forced, socReq, availUi, ringToken>>

\* EngineComplete is the end of the one operation there is.
LEMMA CompleteStep ==
  ASSUME BaseInv, EngineComplete
  PROVE  \E o \in Op : Completes(o) /\ Origin(o) /\ Aged(o)
<1>1. op # <<>> /\ op \in Seq(Op) /\ Len(op) <= 1
  BY DEF EngineComplete, Complete, BaseInv, TypeOK, EngTypeOK
<1>2. PICK o \in Op : o = op[1] /\ op = <<o>> /\ DOMAIN op = {1}
  BY <1>1, OneEntry
<1>3. Origin(o) /\ Aged(o)
  BY <1>2 DEF BaseInv, OpInv
<1>4. Completes(o)
  <2>1. Complete /\ op[1] = o
    BY <1>2 DEF EngineComplete
  <2>2. /\ op' = <<>> /\ ready' = FreshReady
        /\ rdReq' = rdReq \cup Reads(o) /\ wrReq' = wrReq \cup Writes(o)
        /\ ctx' = IF o.status \in {"DOING", "STOPPING"}
                  THEN [ctx EXCEPT ![o.q] = NewCtx(o)] ELSE ctx
        /\ rdIdxFf' = IF o.type = "RD_IDX_RSP" THEN Tail(rdIdxFf) ELSE rdIdxFf
        /\ rdFlagsFf' = IF o.type = "RD_NOTIFY_RSP" THEN Tail(rdFlagsFf) ELSE rdFlagsFf
        /\ wrRspFf' = IF o.type = "WR_NOTIFY_RSP" THEN Tail(wrRspFf) ELSE wrRspFf
        /\ idxNotify' = IF WakesRing(o) THEN <<o.q>> ELSE <<>>
        /\ errReq' = IF OpError(o) THEN <<o.q>> ELSE <<>>
        /\ notifyRsp' = IF Answers(o) THEN <<[q |-> o.q, done |-> Done(o)]>> ELSE <<>>
    BY <2>1 DEF Complete, Reads, Writes
  <2>3. /\ o.type = "KICK_NOTIFY" => serving' = serving \cup {o.q} /\ want' \in {want, want \ {o.q}}
        /\ o.type # "KICK_NOTIFY" => UNCHANGED <<want, serving>>
    BY <2>1 DEF EngineComplete, Sch!Take, schVars
  <2>4. /\ landing' = IF Issued(o) = "wr_flags"
                      THEN Append(landing, [q |-> o.q, flags |-> ~o.ctx.noNotify]) ELSE landing
        /\ UNCHANGED <<dbStat, dbMask, dbReq, hostIdx, hostFlags, posted, doorbells>>
        /\ UNCHANGED <<status, forced, socReq, availUi, ringToken>>
    BY <2>1 DEF EngineComplete, dbVars, swVars
  <2> QED BY <1>2, <2>2, <2>3, <2>4 DEF Completes
<1> QED BY <1>3, <1>4

\* The DMA that an operation consumes is the only one its queue has.
LEMMA Consumed ==
  ASSUME BaseInv, NEW o \in Op, Origin(o), Aged(o)
  PROVE  /\ OpenDma(o.q) = IF o.type = "KICK_NOTIFY" THEN 0 ELSE 1
         /\ RdN(o.q) = 0 /\ WrN(o.q) = 0
         /\ IdxN(o.q) = IF o.type = "RD_IDX_RSP" THEN 1 ELSE 0
         /\ FlagN(o.q) = IF o.type = "RD_NOTIFY_RSP" THEN 1 ELSE 0
         /\ RspN(o.q) = IF o.type = "WR_NOTIFY_RSP" THEN 1 ELSE 0
         /\ o.type # "KICK_NOTIFY" => o.status \in {"DOING", "STOPPING"} /\ o.q \in serving
         /\ o.status # "IDLE" => o.ctx = ctx[o.q]
         /\ o.ctx.dmaOut = ctx[o.q].dmaOut \/ o.status = "IDLE"
<1>1. TypeOK /\ o.q \in Q /\ o.type \in Types /\ o.status \in Statuses
  BY OpFields DEF BaseInv
<1>2. /\ ctx[o.q].dmaOut = OpenDma(o.q) /\ OpenDma(o.q) \in {0, 1} /\ OpenDma(o.q) <= 1
      /\ OpenDma(o.q) = 1 => o.q \in serving
  BY <1>1 DEF BaseInv, ServeInv
<1>3. o.status \in {"IDLE", "STARTING"} => OpenDma(o.q) = 0
  BY <1>1, <1>2 DEF Aged, BaseInv, CtxInv
<1>4. /\ rdIdxFf \in Seq(IdxRsps) /\ rdFlagsFf \in Seq(FlagRsps) /\ wrRspFf \in Seq(Q)
  BY <1>1, FifoTyped
<1>5. CASE o.type = "KICK_NOTIFY"
  <2>1. OpenDma(o.q) = 0
    BY <1>2, <1>5 DEF Origin
  <2>2. RdN(o.q) = 0 /\ WrN(o.q) = 0 /\ IdxN(o.q) = 0 /\ FlagN(o.q) = 0 /\ RspN(o.q) = 0
    BY <1>1, <2>1, OpenParts
  <2> QED BY <1>5, <2>1, <2>2 DEF Aged
<1>6. CASE o.type = "RD_IDX_RSP"
  <2>1. 1 \in DOMAIN rdIdxFf /\ rdIdxFf[1].q = o.q
    BY <1>4, <1>6, EmptySeq, LenProperties DEF Origin
  <2>2. IdxN(o.q) # 0
    BY <1>1, <2>1, NoneOpen
  <2>3. RdN(o.q) = 0 /\ WrN(o.q) = 0 /\ IdxN(o.q) = 1 /\ FlagN(o.q) = 0 /\ RspN(o.q) = 0
    BY <1>1, <1>2, <2>2, OpenParts
  <2>4. OpenDma(o.q) = 1
    BY <1>1, <1>2, <2>2, OpenParts
  <2> QED BY <1>1, <1>2, <1>3, <1>6, <2>3, <2>4 DEF Aged, Statuses
<1>7. CASE o.type = "RD_NOTIFY_RSP"
  <2>1. 1 \in DOMAIN rdFlagsFf /\ rdFlagsFf[1].q = o.q
    BY <1>4, <1>7, EmptySeq, LenProperties DEF Origin
  <2>2. FlagN(o.q) # 0
    BY <1>1, <2>1, NoneOpen
  <2>3. RdN(o.q) = 0 /\ WrN(o.q) = 0 /\ IdxN(o.q) = 0 /\ FlagN(o.q) = 1 /\ RspN(o.q) = 0
    BY <1>1, <1>2, <2>2, OpenParts
  <2>4. OpenDma(o.q) = 1
    BY <1>1, <1>2, <2>2, OpenParts
  <2> QED BY <1>1, <1>2, <1>3, <1>7, <2>3, <2>4 DEF Aged, Statuses
<1>8. CASE o.type = "WR_NOTIFY_RSP"
  <2>1. 1 \in DOMAIN wrRspFf /\ wrRspFf[1] = o.q
    BY <1>4, <1>8, EmptySeq, LenProperties DEF Origin
  <2>2. RspN(o.q) # 0
    BY <1>1, <2>1, NoneOpen
  <2>3. RdN(o.q) = 0 /\ WrN(o.q) = 0 /\ IdxN(o.q) = 0 /\ FlagN(o.q) = 0 /\ RspN(o.q) = 1
    BY <1>1, <1>2, <2>2, OpenParts
  <2>4. OpenDma(o.q) = 1
    BY <1>1, <1>2, <2>2, OpenParts
  <2> QED BY <1>1, <1>2, <1>3, <1>8, <2>3, <2>4 DEF Aged, Statuses
<1> QED BY <1>1, <1>5, <1>6, <1>7, <1>8 DEF Types

\* What the FIFOs and sets hold of each queue afterwards.
LEMMA CompleteFifos ==
  ASSUME BaseInv, NEW o \in Op, Completes(o), Origin(o), NEW p \in Q
  PROVE  /\ Cardinality({i \in DOMAIN rdIdxFf' : rdIdxFf'[i].q = p})
              = IdxN(p) - (IF o.type = "RD_IDX_RSP" /\ o.q = p THEN 1 ELSE 0)
         /\ Cardinality({i \in DOMAIN rdFlagsFf' : rdFlagsFf'[i].q = p})
              = FlagN(p) - (IF o.type = "RD_NOTIFY_RSP" /\ o.q = p THEN 1 ELSE 0)
         /\ Cardinality({i \in DOMAIN wrRspFf' : wrRspFf'[i] = p})
              = RspN(p) - (IF o.type = "WR_NOTIFY_RSP" /\ o.q = p THEN 1 ELSE 0)
         /\ rdIdxFf' \in Seq(IdxRsps) /\ rdFlagsFf' \in Seq(FlagRsps) /\ wrRspFf' \in Seq(Q)
<1>1. /\ rdIdxFf \in Seq(IdxRsps) /\ rdFlagsFf \in Seq(FlagRsps) /\ wrRspFf \in Seq(Q)
      /\ IdxN(p) = Count(rdIdxFf, IdxOf(p)) /\ FlagN(p) = Count(rdFlagsFf, FlagOf(p))
      /\ RspN(p) = Count(wrRspFf, {p})
      /\ IdxN(p) \in Nat /\ FlagN(p) \in Nat /\ RspN(p) \in Nat
  BY FifoTyped, IdxNCount, FlagNCount, RspNCount, OpenFinite DEF BaseInv
<1>2. /\ rdIdxFf' \in Seq(IdxRsps)
      /\ Cardinality({i \in DOMAIN rdIdxFf' : rdIdxFf'[i].q = p})
           = IdxN(p) - (IF o.type = "RD_IDX_RSP" /\ o.q = p THEN 1 ELSE 0)
  <2>1. CASE o.type = "RD_IDX_RSP"
    <3>1. rdIdxFf # <<>> /\ Head(rdIdxFf) = [q |-> o.q, idx |-> o.idx, err |-> o.err]
          /\ rdIdxFf' = Tail(rdIdxFf)
      BY <2>1 DEF Origin, Completes
    <3>2. rdIdxFf' \in Seq(IdxRsps) /\ Head(rdIdxFf) \in IdxRsps
      BY <1>1, <3>1
    <3>3. Head(rdIdxFf) \in IdxOf(p) <=> o.q = p
      BY <3>1, <3>2 DEF IdxOf
    <3>4. Count(rdIdxFf', IdxOf(p)) = IdxN(p) - (IF Head(rdIdxFf) \in IdxOf(p) THEN 1 ELSE 0)
      BY <1>1, <3>1, CountTail
    <3>5. Cardinality({i \in DOMAIN rdIdxFf' : rdIdxFf'[i].q = p}) = Count(rdIdxFf', IdxOf(p))
      BY <3>2, IdxPlaces
    <3> QED BY <2>1, <3>2, <3>3, <3>4, <3>5
  <2>2. CASE o.type # "RD_IDX_RSP"
    <3>1. rdIdxFf' = rdIdxFf
      BY <2>2 DEF Completes
    <3> QED BY <1>1, <2>2, <3>1 DEF IdxN
  <2> QED BY <2>1, <2>2
<1>3. /\ rdFlagsFf' \in Seq(FlagRsps)
      /\ Cardinality({i \in DOMAIN rdFlagsFf' : rdFlagsFf'[i].q = p})
           = FlagN(p) - (IF o.type = "RD_NOTIFY_RSP" /\ o.q = p THEN 1 ELSE 0)
  <2>1. CASE o.type = "RD_NOTIFY_RSP"
    <3>1. rdFlagsFf # <<>> /\ Head(rdFlagsFf) = [q |-> o.q, err |-> o.err]
          /\ rdFlagsFf' = Tail(rdFlagsFf)
      BY <2>1 DEF Origin, Completes
    <3>2. rdFlagsFf' \in Seq(FlagRsps) /\ Head(rdFlagsFf) \in FlagRsps
      BY <1>1, <3>1
    <3>3. Head(rdFlagsFf) \in FlagOf(p) <=> o.q = p
      BY <3>1, <3>2 DEF FlagOf
    <3>4. Count(rdFlagsFf', FlagOf(p)) = FlagN(p) - (IF Head(rdFlagsFf) \in FlagOf(p) THEN 1 ELSE 0)
      BY <1>1, <3>1, CountTail
    <3>5. Cardinality({i \in DOMAIN rdFlagsFf' : rdFlagsFf'[i].q = p}) = Count(rdFlagsFf', FlagOf(p))
      BY <3>2, FlagPlaces
    <3> QED BY <2>1, <3>2, <3>3, <3>4, <3>5
  <2>2. CASE o.type # "RD_NOTIFY_RSP"
    <3>1. rdFlagsFf' = rdFlagsFf
      BY <2>2 DEF Completes
    <3> QED BY <1>1, <2>2, <3>1 DEF FlagN
  <2> QED BY <2>1, <2>2
<1>4. /\ wrRspFf' \in Seq(Q)
      /\ Cardinality({i \in DOMAIN wrRspFf' : wrRspFf'[i] = p})
           = RspN(p) - (IF o.type = "WR_NOTIFY_RSP" /\ o.q = p THEN 1 ELSE 0)
  <2>1. CASE o.type = "WR_NOTIFY_RSP"
    <3>1. wrRspFf # <<>> /\ Head(wrRspFf) = o.q /\ wrRspFf' = Tail(wrRspFf)
      BY <2>1 DEF Origin, Completes
    <3>2. wrRspFf' \in Seq(Q)
      BY <1>1, <3>1
    <3>3. Head(wrRspFf) \in {p} <=> o.q = p
      BY <3>1
    <3>4. Count(wrRspFf', {p}) = RspN(p) - (IF Head(wrRspFf) \in {p} THEN 1 ELSE 0)
      BY <1>1, <3>1, CountTail
    <3>5. Cardinality({i \in DOMAIN wrRspFf' : wrRspFf'[i] = p}) = Count(wrRspFf', {p})
      BY RspPlaces
    <3> QED BY <2>1, <3>2, <3>3, <3>4, <3>5
  <2>2. CASE o.type # "WR_NOTIFY_RSP"
    <3>1. wrRspFf' = wrRspFf
      BY <2>2 DEF Completes
    <3> QED BY <1>1, <2>2, <3>1 DEF RspN
  <2> QED BY <2>1, <2>2
<1> QED BY <1>2, <1>3, <1>4

\* What the sets of requests hold of each queue afterwards.
LEMMA CompleteSets ==
  ASSUME BaseInv, NEW o \in Op, Completes(o), Origin(o), Aged(o), NEW p \in Q
  PROVE  /\ Cardinality({r \in rdReq' : r.q = p})
              = RdN(p) + (IF Issued(o) \in {"rd_idx", "rd_flags"} /\ o.q = p THEN 1 ELSE 0)
         /\ Cardinality({w \in wrReq' : w.q = p})
              = WrN(p) + (IF Issued(o) = "wr_flags" /\ o.q = p THEN 1 ELSE 0)
<1>1. /\ IsFiniteSet(OfQueue(rdReq, p)) /\ IsFiniteSet(OfQueue(wrReq, p))
      /\ RdN(p) = Cardinality(OfQueue(rdReq, p)) /\ WrN(p) = Cardinality(OfQueue(wrReq, p))
      /\ RdN(p) \in Nat /\ WrN(p) \in Nat
  BY OpenFinite DEF BaseInv, OfQueue, RdN, WrN
<1>2. (\A r \in rdReq : r.q # o.q) /\ (\A w \in wrReq : w.q # o.q)
  <2>1. o.q \in Q /\ TypeOK
    BY OpFields DEF BaseInv
  <2> QED BY <2>1, Consumed, NoneOpen
<1>3. Cardinality(OfQueue(rdReq', p))
        = RdN(p) + (IF Issued(o) \in {"rd_idx", "rd_flags"} /\ o.q = p THEN 1 ELSE 0)
  <2>1. CASE Issued(o) \in {"rd_idx", "rd_flags"}
    <3>1. PICK r : rdReq' = rdReq \cup {r} /\ r.q = o.q
      <4>1. rdReq' = rdReq \cup Reads(o)
        BY DEF Completes
      <4>2. CASE Issued(o) = "rd_idx"
        <5>1. Reads(o) = {[q |-> o.q, kind |-> "idx"]}
          BY <4>2 DEF Reads
        <5>2. [q |-> o.q, kind |-> "idx"].q = o.q
          OBVIOUS
        <5> QED BY <4>1, <5>1, <5>2
      <4>3. CASE Issued(o) = "rd_flags"
        <5>1. Reads(o) = {[q |-> o.q, kind |-> "flags"]}
          BY <4>3 DEF Reads
        <5>2. [q |-> o.q, kind |-> "flags"].q = o.q
          OBVIOUS
        <5> QED BY <4>1, <5>1, <5>2
      <4> QED BY <2>1, <4>2, <4>3
    <3>2. r \notin rdReq
      BY <1>2, <3>1
    <3>3. Cardinality(OfQueue(rdReq \cup {r}, p))
            = Cardinality(OfQueue(rdReq, p)) + (IF r.q = p THEN 1 ELSE 0)
      BY <1>1, <3>2, EntersSet
    <3> QED BY <1>1, <2>1, <3>1, <3>3
  <2>2. CASE Issued(o) \notin {"rd_idx", "rd_flags"}
    <3>1. rdReq' = rdReq
      BY <2>2 DEF Completes, Reads
    <3> QED BY <1>1, <2>2, <3>1
  <2> QED BY <2>1, <2>2
<1>4. Cardinality(OfQueue(wrReq', p))
        = WrN(p) + (IF Issued(o) = "wr_flags" /\ o.q = p THEN 1 ELSE 0)
  <2>1. CASE Issued(o) = "wr_flags"
    <3>1. PICK w : wrReq' = wrReq \cup {w} /\ w.q = o.q
      BY <2>1 DEF Completes, Writes
    <3>2. w \notin wrReq
      BY <1>2, <3>1
    <3>3. Cardinality(OfQueue(wrReq \cup {w}, p))
            = Cardinality(OfQueue(wrReq, p)) + (IF w.q = p THEN 1 ELSE 0)
      BY <1>1, <3>2, EntersSet
    <3> QED BY <1>1, <2>1, <3>1, <3>3
  <2>2. CASE Issued(o) # "wr_flags"
    <3>1. wrReq' = wrReq
      BY <2>2 DEF Completes, Writes
    <3> QED BY <1>1, <2>2, <3>1
  <2> QED BY <2>1, <2>2
<1> QED BY <1>3, <1>4 DEF OfQueue

\* The counter of the context follows.
LEMMA CompleteServe ==
  ASSUME BaseInv, NEW o \in Op, Completes(o), Origin(o), Aged(o)
  PROVE  /\ ServeInv'
         /\ ctx' \in [Q -> CtxWord]
         /\ \A p \in Q \ {o.q} : ctx'[p] = ctx[p]
         /\ OpenDma(o.q)' = IF Issued(o) = "none" THEN 0 ELSE 1
<1>1. o.q \in Q /\ o.type \in Types /\ o.status \in Statuses /\ ctx \in [Q -> CtxWord] /\ TypeOK
  BY OpFields DEF BaseInv, TypeOK, EngTypeOK
<1>2. /\ Issued(o) \in {"none", "wr_flags", "rd_flags", "rd_idx"}
      /\ Answers(o) <=> Issued(o) = "none"
      /\ Issued(o) # "none" => o.status = "DOING"
  BY AnswersIfNone
<1>3. /\ OpenDma(o.q) = IF o.type = "KICK_NOTIFY" THEN 0 ELSE 1
      /\ RdN(o.q) = 0 /\ WrN(o.q) = 0
      /\ IdxN(o.q) = IF o.type = "RD_IDX_RSP" THEN 1 ELSE 0
      /\ FlagN(o.q) = IF o.type = "RD_NOTIFY_RSP" THEN 1 ELSE 0
      /\ RspN(o.q) = IF o.type = "WR_NOTIFY_RSP" THEN 1 ELSE 0
      /\ o.type # "KICK_NOTIFY" => o.status \in {"DOING", "STOPPING"} /\ o.q \in serving
      /\ o.status # "IDLE" => o.ctx = ctx[o.q]
  BY Consumed
<1>4. /\ ctx' \in [Q -> CtxWord]
      /\ \A p \in Q \ {o.q} : ctx'[p] = ctx[p]
      /\ o.status \in {"DOING", "STOPPING"} => ctx'[o.q] = NewCtx(o)
      /\ o.status \notin {"DOING", "STOPPING"} => ctx'[o.q] = ctx[o.q]
  <2>1. NewCtx(o) \in CtxWord
    BY NewCtxType
  <2> QED BY <1>1, <2>1 DEF Completes
<1>5. ASSUME NEW p \in Q
      PROVE  OpenDma(p)' = (RdN(p) + (IF Issued(o) \in {"rd_idx", "rd_flags"} /\ o.q = p THEN 1 ELSE 0))
                + (WrN(p) + (IF Issued(o) = "wr_flags" /\ o.q = p THEN 1 ELSE 0))
                + (IdxN(p) - (IF o.type = "RD_IDX_RSP" /\ o.q = p THEN 1 ELSE 0))
                + (FlagN(p) - (IF o.type = "RD_NOTIFY_RSP" /\ o.q = p THEN 1 ELSE 0))
                + (RspN(p) - (IF o.type = "WR_NOTIFY_RSP" /\ o.q = p THEN 1 ELSE 0))
  BY CompleteFifos, CompleteSets DEF OpenDma
<1>6. ASSUME NEW p \in Q, p # o.q PROVE OpenDma(p)' = OpenDma(p)
  <2>1. /\ RdN(p) \in Nat /\ WrN(p) \in Nat /\ IdxN(p) \in Nat /\ FlagN(p) \in Nat /\ RspN(p) \in Nat
    BY <1>1, OpenFinite
  <2>2. OpenDma(p) = RdN(p) + WrN(p) + IdxN(p) + FlagN(p) + RspN(p)
    BY OpenSum, Zenon
  <2> QED BY <1>5, <1>6, <2>1, <2>2
<1>7. OpenDma(o.q)' = IF Issued(o) = "none" THEN 0 ELSE 1
  <2>1. PICK d : d = o.q /\ d \in Q
    BY <1>1
  <2>2. OpenDma(d)' = (RdN(d) + (IF Issued(o) \in {"rd_idx", "rd_flags"} /\ o.q = d THEN 1 ELSE 0))
                + (WrN(d) + (IF Issued(o) = "wr_flags" /\ o.q = d THEN 1 ELSE 0))
                + (IdxN(d) - (IF o.type = "RD_IDX_RSP" /\ o.q = d THEN 1 ELSE 0))
                + (FlagN(d) - (IF o.type = "RD_NOTIFY_RSP" /\ o.q = d THEN 1 ELSE 0))
                + (RspN(d) - (IF o.type = "WR_NOTIFY_RSP" /\ o.q = d THEN 1 ELSE 0))
    BY <1>5, <2>1
  <2>3. (IdxN(d) - (IF o.type = "RD_IDX_RSP" /\ o.q = d THEN 1 ELSE 0)) = 0
        /\ (FlagN(d) - (IF o.type = "RD_NOTIFY_RSP" /\ o.q = d THEN 1 ELSE 0)) = 0
        /\ (RspN(d) - (IF o.type = "WR_NOTIFY_RSP" /\ o.q = d THEN 1 ELSE 0)) = 0
        /\ RdN(d) = 0 /\ WrN(d) = 0
    BY <1>3, <2>1
  <2>4. OpenDma(d)' = IF Issued(o) = "none" THEN 0 ELSE 1
    BY <1>2, <2>1, <2>2, <2>3
  <2> QED BY <2>1, <2>4
<1>8. ctx'[o.q].dmaOut = IF Issued(o) = "none" THEN 0 ELSE 1
  <2>1. ctx[o.q].dmaOut = OpenDma(o.q)
    BY <1>1 DEF BaseInv, ServeInv
  <2>2. CASE o.status \in {"DOING", "STOPPING"}
    <3>1. ctx'[o.q].dmaOut = NewDmaOut(o)
      BY <1>4, <2>2 DEF NewCtx
    <3>2. o.ctx.dmaOut = IF o.type = "KICK_NOTIFY" THEN 0 ELSE 1
      BY <1>3, <2>1, <2>2
    <3>3. o.ctx.dmaOut + (IF Issued(o) # "none" THEN 1 ELSE 0)
             - (IF o.type # "KICK_NOTIFY" THEN 1 ELSE 0) = IF Issued(o) = "none" THEN 0 ELSE 1
      BY <3>2
    <3>4. 0 % 128 = 0 /\ 1 % 128 = 1
      OBVIOUS
    <3> QED BY <3>1, <3>3, <3>4 DEF NewDmaOut
  <2>3. CASE o.status \notin {"DOING", "STOPPING"}
    <3>1. o.type = "KICK_NOTIFY" /\ Issued(o) = "none"
      BY <1>2, <1>3, <2>3
    <3> QED BY <1>3, <1>4, <2>1, <2>3, <3>1
  <2> QED BY <2>2, <2>3
<1>9. /\ o.q \in serving'
      /\ \A p \in Q : p # o.q => (p \in serving' <=> p \in serving)
  <2>1. CASE o.type = "KICK_NOTIFY"
    BY <2>1 DEF Completes
  <2>2. CASE o.type # "KICK_NOTIFY"
    BY <1>3, <2>2 DEF Completes
  <2> QED BY <2>1, <2>2
<1>10. \A p \in Q : ~Answered(p) /\ (Answered(p)' <=> p = o.q /\ Issued(o) = "none")
  <2>1. notifyRsp = <<>>
    <3>1. op # <<>>
      BY DEF Completes
    <3> QED BY <3>1 DEF BaseInv, RegInv
  <2>2. CASE Issued(o) = "none"
    <3>1. notifyRsp' = <<[q |-> o.q, done |-> Done(o)]>>
      BY <1>2, <2>2 DEF Completes
    <3> QED BY <2>1, <2>2, <3>1 DEF Answered
  <2>3. CASE Issued(o) # "none"
    <3>1. notifyRsp' = <<>>
      BY <1>2, <2>3 DEF Completes
    <3> QED BY <2>1, <2>3, <3>1 DEF Answered
  <2> QED BY <2>2, <2>3
<1>11. ServeInv'
  <2> SUFFICES ASSUME NEW p \in Q
               PROVE  /\ ctx'[p].dmaOut = OpenDma(p)'
                      /\ OpenDma(p)' \in {0, 1}
                      /\ OpenDma(p)' = 1 => p \in serving' /\ ~Answered(p)'
                      /\ Answered(p)' => p \in serving'
                      /\ p \in serving' /\ ~Answered(p)' => OpenDma(p)' = 1
    BY DEF ServeInv
  <2>1. CASE p = o.q
    BY <1>7, <1>8, <1>9, <1>10, <2>1
  <2>2. CASE p # o.q
    BY <1>4, <1>6, <1>9, <1>10, <2>2 DEF BaseInv, ServeInv
  <2> QED BY <2>1, <2>2
<1> QED BY <1>4, <1>7, <1>11

\* The registers, and the types.
LEMMA CompleteType ==
  ASSUME BaseInv, NEW o \in Op, Completes(o), Origin(o), Aged(o)
  PROVE  TypeOK' /\ RegInv' /\ OpInv'
<1>1. o.q \in Q /\ o.ctx.noNotify \in BOOLEAN /\ TypeOK
  BY OpFields DEF BaseInv
<1>2. ctx' \in [Q -> CtxWord]
  BY CompleteServe
<1>3. rdIdxFf' \in Seq(IdxRsps) /\ rdFlagsFf' \in Seq(FlagRsps) /\ wrRspFf' \in Seq(Q)
  BY <1>1, CompleteFifos
<1>4. rdReq' \subseteq [q : Q, kind : Kinds] /\ wrReq' \subseteq [q : Q, flags : BOOLEAN]
  <2>1. rdReq \subseteq [q : Q, kind : Kinds] /\ wrReq \subseteq [q : Q, flags : BOOLEAN]
    BY <1>1 DEF TypeOK, EngTypeOK
  <2>2. Reads(o) \subseteq [q : Q, kind : Kinds]
    BY <1>1 DEF Reads, Kinds
  <2>3. Writes(o) \subseteq [q : Q, flags : BOOLEAN]
    <3>1. [q |-> o.q, flags |-> ~o.ctx.noNotify] \in [q : Q, flags : BOOLEAN]
      BY <1>1
    <3> QED BY <3>1 DEF Writes
  <2> QED BY <2>1, <2>2, <2>3 DEF Completes
<1>5. /\ idxNotify' \in Seq(Q) /\ Len(idxNotify') <= 1
      /\ errReq' \in Seq(Q) /\ Len(errReq') <= 1
  BY <1>1 DEF Completes
<1>6. notifyRsp' \in Seq([q : Q, done : BOOLEAN]) /\ Len(notifyRsp') <= 1
  <2>1. Done(o) \in BOOLEAN
    BY OpFields DEF Done
  <2>2. [q |-> o.q, done |-> Done(o)] \in [q : Q, done : BOOLEAN]
    BY <1>1, <2>1
  <2>3. CASE Answers(o)
    BY <2>2, <2>3 DEF Completes
  <2>4. CASE ~Answers(o)
    BY <2>4 DEF Completes
  <2> QED BY <2>3, <2>4
<1>7. landing' \in Seq([q : Q, flags : BOOLEAN])
  <2>1. [q |-> o.q, flags |-> ~o.ctx.noNotify] \in [q : Q, flags : BOOLEAN]
    BY <1>1
  <2>2. landing \in Seq([q : Q, flags : BOOLEAN])
    BY <1>1 DEF TypeOK
  <2>3. Append(landing, [q |-> o.q, flags |-> ~o.ctx.noNotify]) \in Seq([q : Q, flags : BOOLEAN])
    BY <2>1, <2>2, AppendProperties
  <2> QED BY <2>2, <2>3 DEF Completes
<1>8. want' \subseteq Q /\ serving' \subseteq Q
  <2>1. want \subseteq Q /\ serving \subseteq Q
    BY <1>1 DEF TypeOK, Sch!TypeOK
  <2> QED BY <1>1, <2>1 DEF Completes
<1>9. ready' \in [Kinds \cup {"wr"} -> BOOLEAN]
  BY FreshReadyType DEF Completes
<1>10. /\ op' = <<>>
       /\ UNCHANGED <<dbStat, dbMask, dbReq, hostIdx, hostFlags, posted, doorbells>>
       /\ UNCHANGED <<status, forced, socReq, availUi, ringToken>>
  BY DEF Completes
<1>11. op' \in Seq(Op) /\ Len(op') <= 1
  BY <1>10
<1>12. TypeOK'
  <2>1. EngTypeOK'
    BY <1>1, <1>2, <1>3, <1>4, <1>5, <1>6, <1>9, <1>10, <1>11 DEF TypeOK, EngTypeOK, IdxRsps, FlagRsps
  <2> QED BY <1>1, <1>7, <1>8, <1>10, <2>1 DEF TypeOK, Sch!TypeOK
<1>13. RegInv'
  BY <1>5, <1>6, <1>10 DEF BaseInv, RegInv
<1>14. OpInv'
  BY <1>10 DEF OpInv
<1> QED BY <1>12, <1>13, <1>14

\* A new index goes to the avail ring.
LEMMA CompleteAwake ==
  ASSUME BaseInv, NEW o \in Op, Completes(o), Origin(o), Aged(o)
  PROVE  AwakeInv' /\ CtxInv'
<1>1. /\ o.q \in Q /\ o.type \in Types /\ o.status \in Statuses /\ TypeOK
      /\ \A p \in Q \ {o.q} : ctx'[p] = ctx[p]
      /\ UNCHANGED <<status, forced, availUi, ringToken>>
      /\ idxNotify = <<>>
  <2>1. op # <<>> /\ UNCHANGED <<status, forced, availUi, ringToken>>
    BY DEF Completes
  <2> QED BY <2>1, CompleteServe, OpFields DEF BaseInv, RegInv
<1>2. /\ o.status \in {"DOING", "STOPPING"} => ctx'[o.q] = NewCtx(o) /\ o.ctx = ctx[o.q]
      /\ o.status \notin {"DOING", "STOPPING"} => ctx'[o.q] = ctx[o.q]
  BY <1>1, Consumed DEF Completes, TypeOK, EngTypeOK
<1>3. AwakeInv'
  <2> SUFFICES ASSUME NEW p \in Q, status[p] \in {"DOING", "STOPPING"},
                      availUi[p] # ctx'[p].availIdx
               PROVE  p \in ringToken \/ Holds(idxNotify', p)
    BY <1>1 DEF AwakeInv, Holds
  <2>1. CASE ctx'[p].availIdx = ctx[p].availIdx
    BY <1>1, <2>1 DEF BaseInv, AwakeInv, Holds
  <2>2. CASE ctx'[p].availIdx # ctx[p].availIdx
    <3>1. p = o.q /\ o.status \in {"DOING", "STOPPING"}
      BY <1>1, <1>2, <2>2
    <3>2. NewIdx(o) # o.ctx.availIdx
      BY <1>2, <2>2, <3>1 DEF NewCtx
    <3>3. WakesRing(o)
      BY <3>2 DEF NewIdx, WakesRing
    <3>4. idxNotify' = <<o.q>>
      BY <3>3 DEF Completes
    <3> QED BY <3>1, <3>4 DEF Holds
  <2> QED BY <2>1, <2>2
<1>4. CtxInv'
  <2> SUFFICES ASSUME NEW p \in Q
               PROVE  /\ forced[p] => status[p] = "STOPPING"
                      /\ status[p] = "STARTING" =>
                           ctx'[p].availIdx = availUi[p] /\ ~ctx'[p].noNotify /\ ~ctx'[p].noChange
                      /\ status[p] \in {"IDLE", "STARTING"} => ctx'[p].dmaOut = 0
                      /\ ctx'[p].noChange => NoChangeWired
    BY <1>1 DEF CtxInv
  <2>1. CASE ctx'[p] = ctx[p]
    BY <2>1 DEF BaseInv, CtxInv
  <2>2. CASE ctx'[p] # ctx[p]
    <3>1. p = o.q /\ o.status \in {"DOING", "STOPPING"} /\ ctx'[p] = NewCtx(o)
      BY <1>1, <1>2, <2>2
    <3>2. forced[p] => status[p] = "STOPPING"
      BY DEF BaseInv, CtxInv
    <3>3. ctx'[p].noChange => NoChangeWired
      <4>1. NewCtx(o).noChange = (NoChangeWired /\ NewNoChange(o))
        BY DEF NewCtx
      <4>2. ctx'[p].noChange = (NoChangeWired /\ NewNoChange(o))
        BY <3>1, <4>1
      <4> QED BY <4>2, Zenon
    <3>4. status[p] \in {"DOING", "STOPPING", "IDLE"}
      BY <3>1 DEF Aged
    <3>5. status[p] = "IDLE" => ctx'[p].dmaOut = 0
      <4> SUFFICES ASSUME status[p] = "IDLE" PROVE ctx'[p].dmaOut = 0
        OBVIOUS
      <4>1. o.status = "STOPPING"
        BY <3>1 DEF Aged
      <4>2. Issued(o) = "none"
        BY <4>1 DEF Issued
      <4>3. OpenDma(o.q)' = 0 /\ ServeInv'
        BY <4>2, CompleteServe
      <4>4. PICK d : d = o.q /\ d \in Q
        BY <1>1
      <4>5. OpenDma(d)' = 0 /\ ctx'[d].dmaOut = OpenDma(d)'
        BY <4>3, <4>4 DEF ServeInv
      <4> QED BY <3>1, <4>4, <4>5
    <3> QED BY <3>2, <3>3, <3>4, <3>5
  <2> QED BY <2>1, <2>2
<1> QED BY <1>3, <1>4

\* What is left of the index FIFO belongs to other queues, if it was served.
LEMMA LeftOver ==
  ASSUME BaseInv, NEW o \in Op, Completes(o), Origin(o), Aged(o), NEW i \in DOMAIN rdIdxFf'
  PROVE  /\ \E j \in DOMAIN rdIdxFf : rdIdxFf'[i] = rdIdxFf[j]
         /\ rdIdxFf'[i].q \in Q
         /\ o.type = "RD_IDX_RSP" => rdIdxFf'[i].q # o.q
<1>1. /\ rdIdxFf \in Seq(IdxRsps) /\ o.q \in Q /\ TypeOK
      /\ \A j \in DOMAIN rdIdxFf : rdIdxFf[j].q \in Q
  BY FifoTyped, OpFields, IdxTyped DEF BaseInv
<1>2. CASE o.type = "RD_IDX_RSP"
  <2>1. rdIdxFf # <<>> /\ rdIdxFf' = Tail(rdIdxFf)
    BY <1>2 DEF Completes, Origin
  <2>2. /\ Len(rdIdxFf) \in Nat \ {0} /\ DOMAIN rdIdxFf = 1 .. Len(rdIdxFf)
        /\ DOMAIN Tail(rdIdxFf) = 1 .. Len(rdIdxFf) - 1
        /\ \A k \in 1 .. Len(rdIdxFf) - 1 : Tail(rdIdxFf)[k] = rdIdxFf[k + 1]
    BY <1>1, <2>1
  <2>3. i + 1 \in DOMAIN rdIdxFf /\ rdIdxFf'[i] = rdIdxFf[i + 1]
    BY <2>1, <2>2
  <2>4. rdIdxFf'[i].q # o.q
    <3>1. IdxN(o.q) = 1
      BY <1>2, Consumed
    <3>2. Count(rdIdxFf', IdxOf(o.q)) = 0
      <4>1. /\ Head(rdIdxFf) = [q |-> o.q, idx |-> o.idx, err |-> o.err]
            /\ Head(rdIdxFf) \in IdxRsps
        BY <1>1, <1>2, <2>1 DEF Origin
      <4>2. Head(rdIdxFf) \in IdxOf(o.q)
        BY <4>1 DEF IdxOf
      <4>3. Count(rdIdxFf, IdxOf(o.q)) = 1
        BY <1>1, <3>1, IdxNCount
      <4>4. Count(Tail(rdIdxFf), IdxOf(o.q))
              = Count(rdIdxFf, IdxOf(o.q)) - (IF Head(rdIdxFf) \in IdxOf(o.q) THEN 1 ELSE 0)
        BY <1>1, <2>1, CountTail
      <4> QED BY <2>1, <4>2, <4>3, <4>4
    <3>3. rdIdxFf' \in Seq(IdxRsps) /\ rdIdxFf'[i] \in IdxRsps
      <4>1. Tail(rdIdxFf) \in Seq(IdxRsps)
        BY <1>1, <2>1
      <4>2. rdIdxFf'[i] = rdIdxFf[i + 1] /\ rdIdxFf[i + 1] \in IdxRsps
        BY <1>1, <2>3
      <4> QED BY <2>1, <4>1, <4>2
    <3>4. rdIdxFf'[i] \notin IdxOf(o.q)
      BY <3>2, <3>3, CountZero
    <3> QED BY <3>3, <3>4 DEF IdxOf
  <2> QED BY <1>1, <2>3, <2>4
<1>3. CASE o.type # "RD_IDX_RSP"
  BY <1>1, <1>3 DEF Completes
<1> QED BY <1>2, <1>3

\* The index of a response lies between the mirrored one and the driver's.
LEMMA RspBetween ==
  ASSUME BaseInv, NEW o \in Op, Origin(o), Aged(o), o.type = "RD_IDX_RSP", ~o.err
  PROVE  /\ o.ctx.availIdx = ctx[o.q].availIdx
         /\ Minus(o.idx, ctx[o.q].availIdx) + Minus(hostIdx[o.q], o.idx)
              = Minus(hostIdx[o.q], ctx[o.q].availIdx)
         /\ Minus(o.idx, ctx[o.q].availIdx) <= QSize
<1>1. /\ rdIdxFf \in Seq(IdxRsps) /\ o.q \in Q /\ o.idx \in Idx /\ TypeOK
  BY FifoTyped, OpFields DEF BaseInv
<1>2. /\ 1 \in DOMAIN rdIdxFf /\ rdIdxFf[1].q = o.q /\ rdIdxFf[1].idx = o.idx /\ ~rdIdxFf[1].err
  <2>1. rdIdxFf # <<>> /\ rdIdxFf[1] = [q |-> o.q, idx |-> o.idx, err |-> o.err]
    BY <1>1 DEF Origin
  <2>2. 1 \in DOMAIN rdIdxFf
    BY <1>1, <2>1, EmptySeq, LenProperties
  <2> QED BY <2>1, <2>2
<1>3. o.ctx.availIdx = ctx[o.q].availIdx
  BY Consumed
<1>4. Minus(o.idx, ctx[o.q].availIdx) + Minus(hostIdx[o.q], o.idx)
        = Minus(hostIdx[o.q], ctx[o.q].availIdx)
  BY <1>2 DEF BaseInv, OrderInv
<1>5. /\ Minus(ctx[o.q].availIdx, availUi[o.q]) + Minus(hostIdx[o.q], ctx[o.q].availIdx)
           = Minus(hostIdx[o.q], availUi[o.q])
      /\ Minus(hostIdx[o.q], availUi[o.q]) <= QSize
  BY <1>1 DEF BaseInv, OrderInv
<1>6. /\ Minus(o.idx, ctx[o.q].availIdx) \in Nat /\ Minus(hostIdx[o.q], o.idx) \in Nat
      /\ Minus(ctx[o.q].availIdx, availUi[o.q]) \in Nat
      /\ Minus(hostIdx[o.q], ctx[o.q].availIdx) \in Nat
      /\ Minus(hostIdx[o.q], availUi[o.q]) \in Nat
  BY <1>1, QueueTyped, MinusZero
<1>7. QSize \in Int
  BY IdxEngineAssumption
<1>8. ASSUME NEW a \in Nat, NEW b \in Nat, NEW c \in Nat, NEW d \in Nat, NEW e \in Nat,
             a + b = d, c + d = e, e <= QSize
      PROVE  a <= QSize
  BY <1>7, <1>8
<1>9. Minus(o.idx, ctx[o.q].availIdx) <= QSize
  BY <1>4, <1>5, <1>6, <1>8
<1> QED BY <1>3, <1>4, <1>9

\* The mirrored index takes the place of the one that was read, between the
\* pointer of the avail ring and the index of the driver.
LEMMA CompleteOrder ==
  ASSUME BaseInv, NEW o \in Op, Completes(o), Origin(o), Aged(o)
  PROVE  OrderInv'
<1>1. /\ o.q \in Q /\ o.idx \in Idx /\ TypeOK /\ ctx \in [Q -> CtxWord]
      /\ \A p \in Q \ {o.q} : ctx'[p] = ctx[p]
      /\ UNCHANGED <<availUi, hostIdx>>
  BY CompleteServe, OpFields DEF BaseInv, Completes, TypeOK, EngTypeOK
<1>2. \A p \in Q : hostIdx[p] \in Idx /\ availUi[p] \in Idx /\ ctx[p].availIdx \in Idx
  BY <1>1, QueueTyped
<1>3. \/ ctx'[o.q].availIdx = ctx[o.q].availIdx
      \/ o.type = "RD_IDX_RSP" /\ ~o.err /\ ctx'[o.q].availIdx = o.idx
  <2>1. CASE o.status \in {"DOING", "STOPPING"}
    <3>1. ctx'[o.q].availIdx = NewIdx(o) /\ o.ctx = ctx[o.q]
      BY <1>1, <2>1, Consumed DEF Completes, NewCtx
    <3> QED BY <3>1 DEF NewIdx, OpError
  <2>2. CASE o.status \notin {"DOING", "STOPPING"}
    BY <2>2 DEF Completes
  <2> QED BY <2>1, <2>2
<1>4. ASSUME NEW p \in Q
      PROVE  /\ Minus(ctx'[p].availIdx, availUi[p]) + Minus(hostIdx[p], ctx'[p].availIdx)
                  = Minus(hostIdx[p], availUi[p])
             /\ Minus(hostIdx[p], availUi[p]) <= QSize
  <2>1. /\ Minus(ctx[p].availIdx, availUi[p]) + Minus(hostIdx[p], ctx[p].availIdx)
             = Minus(hostIdx[p], availUi[p])
        /\ Minus(hostIdx[p], availUi[p]) <= QSize
    BY DEF BaseInv, OrderInv
  <2>2. CASE ctx'[p].availIdx = ctx[p].availIdx
    BY <2>1, <2>2
  <2>3. CASE ctx'[p].availIdx # ctx[p].availIdx
    <3>1. p = o.q /\ o.type = "RD_IDX_RSP" /\ ~o.err /\ ctx'[p].availIdx = o.idx
      BY <1>1, <1>3, <2>3
    <3>2. Minus(o.idx, ctx[p].availIdx) + Minus(hostIdx[p], o.idx) = Minus(hostIdx[p], ctx[p].availIdx)
      BY <3>1, RspBetween
    <3>3. /\ Minus(o.idx, ctx[p].availIdx) \in Nat /\ Minus(hostIdx[p], o.idx) \in Nat
          /\ Minus(ctx[p].availIdx, availUi[p]) \in Nat
          /\ Minus(hostIdx[p], ctx[p].availIdx) \in Nat
          /\ Minus(hostIdx[p], availUi[p]) \in Nat
      BY <1>1, <1>2, MinusZero
    <3>4. QSize \in Nat /\ QSize < IdxMod /\ IdxMod \in Nat
      BY IdxEngineAssumption
    <3>5. Minus(ctx[p].availIdx, availUi[p]) + Minus(o.idx, ctx[p].availIdx) < IdxMod
      BY <2>1, <3>2, <3>3, <3>4
    <3>6. Minus(o.idx, availUi[p]) = Minus(ctx[p].availIdx, availUi[p]) + Minus(o.idx, ctx[p].availIdx)
      BY <1>1, <1>2, <3>5, MinusAdd
    <3>7. Minus(o.idx, availUi[p]) + Minus(hostIdx[p], o.idx) = Minus(hostIdx[p], availUi[p])
      BY <2>1, <3>2, <3>3, <3>6
    <3> QED BY <2>1, <3>1, <3>7
  <2> QED BY <2>2, <2>3
<1>5. ASSUME NEW i \in DOMAIN rdIdxFf', ~rdIdxFf'[i].err, NEW q, q = rdIdxFf'[i].q
      PROVE  Minus(rdIdxFf'[i].idx, ctx'[q].availIdx) + Minus(hostIdx[q], rdIdxFf'[i].idx)
               = Minus(hostIdx[q], ctx'[q].availIdx)
  <2>1. PICK j \in DOMAIN rdIdxFf : rdIdxFf'[i] = rdIdxFf[j]
    BY LeftOver
  <2>2. q \in Q /\ (o.type = "RD_IDX_RSP" => q # o.q)
    BY <1>5, LeftOver
  <2>3. ctx'[q].availIdx = ctx[q].availIdx
    BY <1>1, <1>3, <2>2
  <2> QED BY <1>5, <2>1, <2>3 DEF BaseInv, OrderInv
<1> QED BY <1>1, <1>4, <1>5 DEF OrderInv

\* Without a failed read the operation finds no error.
LEMMA CompleteErr ==
  ASSUME BaseInv, NEW o \in Op, Completes(o), Origin(o), Aged(o)
  PROVE  ErrInv'
<1> SUFFICES ASSUME "dma_err" \notin Env PROVE ErrInv'
  BY DEF ErrInv
<1>1. /\ \A i \in DOMAIN rdIdxFf : ~rdIdxFf[i].err
      /\ \A i \in DOMAIN rdFlagsFf : ~rdFlagsFf[i].err
      /\ rdIdxFf \in Seq(IdxRsps) /\ rdFlagsFf \in Seq(FlagRsps)
  BY FifoTyped DEF BaseInv, ErrInv
<1>2. /\ rdIdxFf # <<>> => Head(rdIdxFf) = rdIdxFf[1] /\ 1 \in DOMAIN rdIdxFf
      /\ rdFlagsFf # <<>> => Head(rdFlagsFf) = rdFlagsFf[1] /\ 1 \in DOMAIN rdFlagsFf
  BY <1>1, EmptySeq, LenProperties
<1>3. ~o.err
  <2>1. o.type \in Types
    BY OpFields
  <2>2. CASE o.type = "RD_IDX_RSP"
    <3>1. rdIdxFf # <<>> /\ Head(rdIdxFf).err = o.err
      BY <2>2 DEF Origin
    <3> QED BY <1>1, <1>2, <3>1
  <2>3. CASE o.type = "RD_NOTIFY_RSP"
    <3>1. rdFlagsFf # <<>> /\ Head(rdFlagsFf).err = o.err
      BY <2>3 DEF Origin
    <3> QED BY <1>1, <1>2, <3>1
  <2> QED BY <2>1, <2>2, <2>3 DEF Types, Origin
<1>4. ~OpError(o)
  <2>1. CASE o.type = "RD_IDX_RSP"
    <3>1. /\ o.ctx.availIdx = ctx[o.q].availIdx
          /\ Minus(o.idx, ctx[o.q].availIdx) <= QSize
      BY <1>3, <2>1, RspBetween
    <3>2. Minus(o.idx, o.ctx.availIdx) \in Int /\ QSize \in Int
      BY OpFields, MinusZero, IdxEngineAssumption
    <3> QED BY <1>3, <3>1, <3>2 DEF OpError
  <2>2. CASE o.type # "RD_IDX_RSP"
    BY <1>3, <2>2 DEF OpError
  <2> QED BY <2>1, <2>2
<1>5. errReq' = <<>>
  BY <1>4 DEF Completes
<1>6. \A i \in DOMAIN rdIdxFf' : ~rdIdxFf'[i].err
  BY <1>1, LeftOver
<1>7. \A i \in DOMAIN rdFlagsFf' : ~rdFlagsFf'[i].err
  <2>1. CASE o.type = "RD_NOTIFY_RSP"
    <3>1. rdFlagsFf # <<>> /\ rdFlagsFf' = Tail(rdFlagsFf)
      BY <2>1 DEF Completes, Origin
    <3>2. /\ Len(rdFlagsFf) \in Nat \ {0} /\ DOMAIN rdFlagsFf = 1 .. Len(rdFlagsFf)
          /\ DOMAIN Tail(rdFlagsFf) = 1 .. Len(rdFlagsFf) - 1
          /\ \A k \in 1 .. Len(rdFlagsFf) - 1 : Tail(rdFlagsFf)[k] = rdFlagsFf[k + 1]
      BY <1>1, <3>1
    <3> QED BY <1>1, <3>1, <3>2
  <2>2. CASE o.type # "RD_NOTIFY_RSP"
    BY <1>1, <2>2 DEF Completes
  <2> QED BY <2>1, <2>2
<1> QED BY <1>5, <1>6, <1>7 DEF ErrInv

\* All parts together.
LEMMA EngineCompleteInv ==
  ASSUME BaseInv, EngineComplete
  PROVE  BaseInv'
<1>1. PICK o \in Op : Completes(o) /\ Origin(o) /\ Aged(o)
  BY CompleteStep
<1>2. TypeOK' /\ RegInv' /\ OpInv' /\ ServeInv' /\ AwakeInv' /\ CtxInv' /\ OrderInv' /\ ErrInv'
  BY <1>1, CompleteType, CompleteServe, CompleteAwake, CompleteOrder, CompleteErr
<1> QED BY <1>2 DEF BaseInv

-----------------------------------------------------------------------------
(* All steps. *)

\* Every action keeps the invariant, whatever the environment does.
LEMMA StepBaseInv == BaseInv /\ [Next]_vars => BaseInv'
<1> SUFFICES ASSUME BaseInv, [Next]_vars PROVE BaseInv'
  OBVIOUS
<1>1. CASE \E q \in Q : Post(q) \/ CheckFlags(q)
  BY <1>1, PostInv, CheckFlagsInv
<1>2. CASE \E w \in wrReq : DmaWrRsp(w)
  BY <1>2, DmaWrRspInv
<1>3. CASE \E r \in rdReq : DmaRdRsp(r)
  BY <1>3, DmaRdRspInv
<1>4. CASE Land
  BY <1>4, LandInv
<1>5. CASE DoorbellArbitrate
  BY <1>5, DoorbellArbitrateInv
<1>6. CASE TakeDoorbell \/ TakeSocNotify
  BY <1>6, DbLoadInv
<1>7. CASE SchReq
  BY <1>7, SchReqInv
<1>8. CASE EngineReady
  BY <1>8, EngineReadyInv
<1>9. CASE EngineRsp
  BY <1>9, EngineRspInv
<1>10. CASE EngineComplete
  BY <1>10, EngineCompleteInv
<1>11. CASE EngineAnswered
  BY <1>11, EngineAnsweredInv
<1>12. CASE \E q \in Q : EngineKick(q) \/ RingServe(q)
  BY <1>12, EngineKickInv, RingServeInv
<1>13. CASE IdxNotifyTaken
  BY <1>13, IdxNotifyTakenInv
<1>14. CASE \E q \in Q : SocNotify(q) \/ SwStop(q) \/ SwResume(q) \/ SwSeesIdle(q)
  BY <1>14, SoftwareInv
<1>15. CASE \E q \in Q : SwStart(q)
  BY <1>15, SwStartInv
<1>16. CASE ErrStop
  BY <1>16, ErrStopInv
<1>17. CASE UNCHANGED vars
  <2> USE <1>17 DEF vars, engVars, dbVars, hostVars, schVars, swVars, BaseInv
  <2>1. TypeOK'
    BY DEF TypeOK, EngTypeOK, Sch!TypeOK
  <2>2. RegInv' /\ OpInv' /\ CtxInv' /\ AwakeInv' /\ OrderInv' /\ ErrInv'
    BY FrameReg, FrameOp, FrameCtx, FrameAwake, FrameOrder, FrameErr
  <2>3. ServeInv'
    BY FrameServe
  <2> QED BY <2>1, <2>2, <2>3
<1> QED BY <1>1, <1>2, <1>3, <1>4, <1>5, <1>6, <1>7, <1>8, <1>9, <1>10, <1>11, <1>12, <1>13,
           <1>14, <1>15, <1>16, <1>17 DEF Next

-----------------------------------------------------------------------------
(* What it says of every behaviour. *)

(***************************************************************************)
(* The inductive invariant holds in every reachable state.                 *)
(***************************************************************************)
THEOREM Inductive == Safety => []BaseInv
<1>1. Init => BaseInv
  BY InitBaseInv
<1>2. BaseInv /\ [Next]_vars => BaseInv'
  BY StepBaseInv
<1> QED BY <1>1, <1>2, PTL DEF Safety

(***************************************************************************)
(* Type correctness: no register of the engine, of virtio_ctx or of        *)
(* virtio_db_sch ever holds what its neighbours cannot read.               *)
(***************************************************************************)
THEOREM TypeCorrect == Safety => []TypeOK
<1>1. BaseInv => TypeOK
  BY DEF BaseInv
<1> QED BY <1>1, Inductive, PTL

(***************************************************************************)
(* A queue has at most one DMA open, and dma_req_num - dma_rsp_num is that *)
(* number (virtio_idx_engine_top.sv:388-429, 471-482).                     *)
(***************************************************************************)
THEOREM DmaIsCounted == Safety => []DmaCounted
<1>1. BaseInv => DmaCounted
  <2> SUFFICES ASSUME BaseInv, NEW q \in Q
               PROVE  ctx[q].dmaOut = OpenDma(q) /\ OpenDma(q) <= 1
    BY DEF DmaCounted
  <2>1. ctx[q].dmaOut = OpenDma(q) /\ OpenDma(q) \in {0, 1}
    BY DEF BaseInv, ServeInv
  <2> QED BY <2>1
<1> QED BY <1>1, Inductive, PTL

(***************************************************************************)
(* The avail ring engine is awake while a running queue has indices it has *)
(* not reached (virtio_idx_engine_top.sv:484-491).                         *)
(***************************************************************************)
THEOREM RingStaysAwake == Safety => []RingIsAwake
<1>1. BaseInv => RingIsAwake
  BY DEF BaseInv, AwakeInv, RingIsAwake
<1> QED BY <1>1, Inductive, PTL

(***************************************************************************)
(* Once software has seen a queue IDLE the index engine has no DMA of it   *)
(* open and starts none (virtio_ctx.sv:1686-1729).                         *)
(***************************************************************************)
THEOREM IdleQueueIsQuiet == Safety => []IdleIsQuiet
<1>1. BaseInv => IdleIsQuiet
  <2> SUFFICES ASSUME BaseInv, NEW q \in Q, status[q] \in {"IDLE", "STARTING"}
               PROVE  /\ \A r \in rdReq : r.q # q
                      /\ \A w \in wrReq : w.q # q
                      /\ \A i \in DOMAIN rdIdxFf : rdIdxFf[i].q # q
                      /\ \A i \in DOMAIN rdFlagsFf : rdFlagsFf[i].q # q
                      /\ ~Holds(wrRspFf, q)
                      /\ \A i \in DOMAIN op : op[i].q = q => Issued(op[i]) = "none"
    BY DEF IdleIsQuiet
  <2>1. TypeOK /\ OpenDma(q) = 0
    BY DEF BaseInv, CtxInv, ServeInv
  <2>2. RdN(q) = 0 /\ WrN(q) = 0 /\ IdxN(q) = 0 /\ FlagN(q) = 0 /\ RspN(q) = 0
    BY <2>1, OpenParts
  <2>3. ASSUME NEW i \in DOMAIN op, op[i].q = q PROVE Issued(op[i]) = "none"
    <3>1. Aged(op[i])
      BY DEF BaseInv, OpInv
    <3>2. op[i].status # "DOING"
      BY <2>3, <3>1 DEF Aged
    <3> QED BY <3>2 DEF Issued
  <2> QED BY <2>1, <2>2, <2>3, NoneOpen DEF Holds
<1> QED BY <1>1, Inductive, PTL

(***************************************************************************)
(* Without a failed read the engine never reports an error, across every   *)
(* wrap of the indices (virtio_idx_engine_top.sv:431-445).                 *)
(***************************************************************************)
THEOREM NoErrorWithoutCause == Safety => []NoSpuriousError
<1>1. BaseInv => NoSpuriousError
  BY DEF BaseInv, ErrInv, NoSpuriousError
<1> QED BY <1>1, Inductive, PTL

(***************************************************************************)
(* The mirrored index moves forward only, and never past the driver's, but *)
(* for a restart (virtio_idx_engine_top.sv:456-463).                       *)
(***************************************************************************)
THEOREM IndexFollows == Safety => IdxFollowsDriver
<1> DEFINE Follows ==
      \A q \in Q : ctx'[q].availIdx # ctx[q].availIdx /\ status'[q] # "STARTING" =>
        Minus(ctx'[q].availIdx, ctx[q].availIdx) <= Minus(hostIdx[q], ctx[q].availIdx)
<1>1. BaseInv /\ [Next]_vars => [Follows]_vars
  <2> SUFFICES ASSUME BaseInv, Next, NEW q \in Q,
                      ctx'[q].availIdx # ctx[q].availIdx, status'[q] # "STARTING"
               PROVE  Minus(ctx'[q].availIdx, ctx[q].availIdx) <= Minus(hostIdx[q], ctx[q].availIdx)
    OBVIOUS
  <2> USE DEF engVars, dbVars, hostVars, schVars, swVars
  <2>1. CASE EngineComplete
    <3>1. PICK o \in Op : Completes(o) /\ Origin(o) /\ Aged(o)
      BY <2>1, CompleteStep
    <3>2. TypeOK /\ ctx \in [Q -> CtxWord]
      BY DEF BaseInv, TypeOK, EngTypeOK
    <3>3. q = o.q /\ o.status \in {"DOING", "STOPPING"} /\ ctx'[q].availIdx = NewIdx(o)
      BY <3>1, <3>2 DEF Completes, NewCtx
    <3>4. o.ctx = ctx[q]
      BY <3>1, <3>3, Consumed
    <3>5. o.type = "RD_IDX_RSP" /\ ~o.err /\ ctx'[q].availIdx = o.idx
      BY <3>3, <3>4 DEF NewIdx, OpError
    <3>6. Minus(o.idx, ctx[q].availIdx) + Minus(hostIdx[q], o.idx) = Minus(hostIdx[q], ctx[q].availIdx)
      BY <3>1, <3>3, <3>5, RspBetween
    <3>7. /\ Minus(o.idx, ctx[q].availIdx) \in Nat /\ Minus(hostIdx[q], o.idx) \in Nat
          /\ Minus(hostIdx[q], ctx[q].availIdx) \in Nat
      BY <3>2, OpFields, QueueTyped, MinusZero
    <3> QED BY <3>5, <3>6, <3>7
  <2>2. CASE \E p \in Q : SwStart(p)
    <3>1. PICK p \in Q : SwStart(p)
      BY <2>2
    <3>2. status \in [Q -> Statuses] /\ ctx \in [Q -> CtxWord]
      BY DEF BaseInv, TypeOK, EngTypeOK
    <3>3. p = q
      BY <3>1, <3>2 DEF SwStart
    <3>4. status'[q] = "STARTING"
      BY <3>1, <3>2, <3>3 DEF SwStart, SetStatus
    <3> QED BY <3>4
  <2>3. CASE ~EngineComplete /\ ~\E p \in Q : SwStart(p)
    <3>1. ctx' = ctx
      <4>1. CASE (\E p \in Q : Post(p) \/ CheckFlags(p)) \/ (\E w \in wrReq : DmaWrRsp(w))
                   \/ (\E r \in rdReq : DmaRdRsp(r)) \/ Land \/ DoorbellArbitrate \/ TakeDoorbell
                   \/ TakeSocNotify \/ SchReq
        BY <4>1 DEF Post, CheckFlags, DmaWrRsp, DmaRdRsp, Land, DoorbellArbitrate, TakeDoorbell,
                    TakeSocNotify, SchReq
      <4>2. CASE EngineReady \/ EngineRsp \/ EngineAnswered \/ (\E p \in Q : EngineKick(p) \/ RingServe(p))
                   \/ IdxNotifyTaken
        BY <4>2 DEF EngineReady, LatchReady, EngineRsp, SelectRsp, EngineAnswered, EngineKick,
                    SelectKick, Begin, RingServe, IdxNotifyTaken
      <4>3. CASE (\E p \in Q : SocNotify(p) \/ SwStop(p) \/ SwResume(p) \/ SwSeesIdle(p)) \/ ErrStop
        BY <4>3 DEF SocNotify, SwStop, SwResume, SwSeesIdle, ErrStop
      <4> QED BY <2>3, <4>1, <4>2, <4>3 DEF Next
    <3> QED BY <3>1
  <2> QED BY <2>1, <2>2, <2>3
<1>2. Safety => [][Follows]_vars
  BY <1>1, Inductive, PTL DEF Safety
<1> QED BY <1>2 DEF IdxFollowsDriver

-----------------------------------------------------------------------------
(* No kick is lost.  Every step that leaves the engine's view of a queue   *)
(* alone keeps what is known of its kicks.                                 *)

\* A step that leaves the flags and indices of a queue alone, forgets no kick of
\* it and gives it up only if it was, keeps KickInvOf.
LEMMA KickSame ==
  ASSUME BaseInv, BaseInv', NEW q \in Q, KickInvOf(q),
         ctx'[q] = ctx[q], UNCHANGED <<rdIdxFf, hostIdx, hostFlags, landing, posted>>,
         Kicked(q) => Kicked(q)',
         GivenUp(q)' => GivenUp(q) \/ Kicked(q)',
         Holds(errReq, q) => Holds(errReq, q)'
  PROVE  KickInvOf(q)'
<1>1. OpenDma(q)' = OpenDma(q)
  BY DEF BaseInv, ServeInv
<1>2. (FlagsOn(q)' <=> FlagsOn(q)) /\ (Landed(q)' <=> Landed(q))
  BY DEF FlagsOn, Landed
<1> QED BY <1>1, <1>2 DEF KickInvOf

\* Whether a queue runs depends on its status.
LEMMA RunsSame ==
  ASSUME NEW q, UNCHANGED <<status, forced>>
  PROVE  Runs(q)' <=> Runs(q)
  BY DEF Runs

\* Steps that touch neither the kicks nor the engine's answers.
LEMMA KickFrame ==
  ASSUME BaseInv, BaseInv', KickInv,
         UNCHANGED <<ctx, rdIdxFf, hostIdx, hostFlags, landing, posted>>,
         UNCHANGED <<want, socReq, dbReq, doorbells, serving, notifyRsp, errReq>>,
         UNCHANGED <<status, forced>>
  PROVE  KickInv'
<1> SUFFICES ASSUME NEW q \in Q, Runs(q)' PROVE KickInvOf(q)'
  BY DEF KickInv
<1>1. KickInvOf(q)
  BY RunsSame DEF KickInv
<1>2. (Kicked(q)' <=> Kicked(q)) /\ (GivenUp(q)' <=> GivenUp(q)) /\ (Holds(errReq, q)' <=> Holds(errReq, q))
  BY DEF Kicked, GivenUp, Holds
<1> QED BY <1>1, <1>2, KickSame

\* The steps KickFrame speaks of.
LEMMA QuietKick ==
  ASSUME BaseInv, BaseInv', KickInv,
         \/ \E w \in wrReq : DmaWrRsp(w)
         \/ DoorbellArbitrate \/ EngineReady \/ EngineRsp \/ IdxNotifyTaken
         \/ \E q \in Q : EngineKick(q) \/ RingServe(q)
         \/ UNCHANGED vars
  PROVE  KickInv'
<1> USE DEF vars, engVars, dbVars, hostVars, schVars, swVars
<1>1. /\ UNCHANGED <<ctx, rdIdxFf, hostIdx, hostFlags, landing, posted>>
      /\ UNCHANGED <<want, socReq, dbReq, doorbells, serving, notifyRsp, errReq>>
      /\ UNCHANGED <<status, forced>>
  <2>1. CASE (\E w \in wrReq : DmaWrRsp(w)) \/ DoorbellArbitrate \/ IdxNotifyTaken \/ UNCHANGED vars
    BY <2>1 DEF DmaWrRsp, DoorbellArbitrate, DbArbitrate, IdxNotifyTaken
  <2>2. CASE EngineReady \/ EngineRsp \/ \E q \in Q : EngineKick(q) \/ RingServe(q)
    BY <2>2 DEF EngineReady, LatchReady, EngineRsp, SelectRsp, EngineKick, SelectKick, Begin,
                OthersUnchanged, RingServe
  <2> QED BY <2>1, <2>2
<1> QED BY <1>1, KickFrame

\* A kick moves on until the scheduler has it.
LEMMA PassKick ==
  ASSUME BaseInv, BaseInv', KickInv, TakeDoorbell \/ TakeSocNotify \/ SchReq
  PROVE  KickInv'
<1> USE DEF engVars, dbVars, hostVars, schVars, swVars
<1>1. /\ UNCHANGED <<ctx, rdIdxFf, hostIdx, hostFlags, landing, posted>>
      /\ UNCHANGED <<serving, notifyRsp, errReq, status, forced>>
  BY DEF TakeDoorbell, TakeSocNotify, SchReq, Sch!Request
<1> SUFFICES ASSUME NEW q \in Q, Runs(q)' PROVE KickInvOf(q)'
  BY DEF KickInv
<1>2. KickInvOf(q)
  BY <1>1, RunsSame DEF KickInv
<1>3. (GivenUp(q)' <=> GivenUp(q)) /\ (Holds(errReq, q)' <=> Holds(errReq, q))
  BY <1>1 DEF GivenUp, Holds
<1>4. /\ doorbells \in Seq(Q) /\ socReq \in Seq(Q) /\ dbReq \in Seq(Q)
      /\ Len(socReq) <= 1 /\ Len(dbReq) <= 1
      /\ dbStat = "SOC" => socReq # <<>>
      /\ dbStat = "DOORBELL" => doorbells # <<>>
  BY FifoTyped DEF BaseInv, RegInv
<1>5. ASSUME Kicked(q) PROVE Kicked(q)'
  <2>1. CASE TakeDoorbell
    <3>1. /\ doorbells # <<>> /\ dbReq = <<>> /\ dbReq' = <<Head(doorbells)>>
          /\ doorbells' = Tail(doorbells) /\ want' = want /\ socReq' = socReq
      BY <1>4, <2>1 DEF TakeDoorbell, DbLoad
    <3>2. CASE Holds(doorbells, q)
      <4>1. PICK i \in DOMAIN doorbells : doorbells[i] = q
        BY <3>2 DEF Holds
      <4>2. /\ DOMAIN doorbells = 1 .. Len(doorbells) /\ Len(doorbells) \in Nat \ {0}
            /\ DOMAIN Tail(doorbells) = 1 .. Len(doorbells) - 1
            /\ \A k \in 1 .. Len(doorbells) - 1 : Tail(doorbells)[k] = doorbells[k + 1]
            /\ Head(doorbells) = doorbells[1]
        BY <1>4, <3>1
      <4>3. CASE i = 1
        BY <3>1, <4>1, <4>2, <4>3 DEF Kicked, Holds
      <4>4. CASE i # 1
        <5>1. i - 1 \in DOMAIN doorbells' /\ doorbells'[i - 1] = q
          BY <3>1, <4>1, <4>2, <4>4
        <5> QED BY <5>1 DEF Kicked, Holds
      <4> QED BY <4>3, <4>4
    <3>3. CASE q \in want \/ Holds(socReq, q) \/ Holds(dbReq, q)
      BY <3>1, <3>3 DEF Kicked, Holds
    <3> QED BY <1>5, <3>2, <3>3 DEF Kicked
  <2>2. CASE TakeSocNotify
    <3>1. /\ socReq # <<>> /\ dbReq = <<>> /\ dbReq' = <<Head(socReq)>>
          /\ doorbells' = doorbells /\ want' = want
      BY <1>4, <2>2 DEF TakeSocNotify, DbLoad
    <3>2. DOMAIN socReq = {1} /\ Head(socReq) = socReq[1]
      BY <1>4, <3>1, OneEntry
    <3> QED BY <1>5, <3>1, <3>2 DEF Kicked, Holds
  <2>3. CASE SchReq
    <3>1. /\ dbReq # <<>> /\ want' = want \cup {dbReq[1]}
          /\ doorbells' = doorbells /\ socReq' = socReq
      BY <2>3 DEF SchReq, DbTaken, Sch!Request
    <3>2. DOMAIN dbReq = {1}
      BY <1>4, <3>1, OneEntry
    <3> QED BY <1>5, <3>1, <3>2 DEF Kicked, Holds
  <2> QED BY <2>1, <2>2, <2>3
<1> QED BY <1>1, <1>2, <1>3, <1>5, KickSame

\* The answer of the engine: for good, or back among the kicked.
LEMMA AnsweredKick ==
  ASSUME BaseInv, BaseInv', KickInv, EngineAnswered
  PROVE  KickInv'
<1> USE DEF engVars, dbVars, hostVars, schVars, swVars
<1>1. /\ notifyRsp # <<>> /\ notifyRsp' = <<>>
      /\ serving' = serving \ {notifyRsp[1].q}
      /\ want' = IF notifyRsp[1].done THEN want ELSE want \cup {notifyRsp[1].q}
      /\ UNCHANGED <<ctx, rdIdxFf, hostIdx, hostFlags, landing, posted>>
      /\ UNCHANGED <<socReq, dbReq, doorbells, errReq, status, forced>>
  BY DEF EngineAnswered, Sch!Release, OthersUnchanged
<1>2. notifyRsp \in Seq(Rsps) /\ Len(notifyRsp) <= 1
  BY FifoTyped DEF BaseInv, RegInv
<1>3. PICK r \in Rsps : notifyRsp[1] = r /\ DOMAIN notifyRsp = {1}
  BY <1>1, <1>2, OneEntry
<1>4. r = [q |-> r.q, done |-> r.done] /\ r.done \in BOOLEAN
  BY DEF Rsps
<1> SUFFICES ASSUME NEW q \in Q, Runs(q)' PROVE KickInvOf(q)'
  BY DEF KickInv
<1>5. KickInvOf(q)
  BY <1>1, RunsSame DEF KickInv
<1>6. Kicked(q) => Kicked(q)'
  BY <1>1 DEF Kicked, Holds
<1>7. Holds(errReq, q)' <=> Holds(errReq, q)
  BY <1>1 DEF Holds
<1>8. GivenUp(q)' => GivenUp(q) \/ Kicked(q)'
  <2> SUFFICES ASSUME q \notin serving' PROVE GivenUp(q) \/ Kicked(q)'
    BY <1>1 DEF GivenUp
  <2>1. CASE q \notin serving
    BY <2>1 DEF GivenUp
  <2>2. CASE q \in serving /\ r.done
    <3>1. r.q = q
      BY <1>1, <1>3, <2>2
    <3>2. notifyRsp[1] = [q |-> q, done |-> TRUE] /\ 1 \in DOMAIN notifyRsp
      BY <1>3, <1>4, <2>2, <3>1
    <3> QED BY <3>2 DEF GivenUp
  <2>3. CASE q \in serving /\ ~r.done
    <3>1. q \in want'
      BY <1>1, <1>3, <2>3
    <3> QED BY <3>1 DEF Kicked
  <2> QED BY <1>4, <2>1, <2>2, <2>3
<1> QED BY <1>1, <1>5, <1>6, <1>7, <1>8, KickSame

\* Software and the error stop; a queue that leaves STARTING has been kicked.
Accepted == \A q \in Q : SocNotify(q) /\ status[q] = "STARTING" => socReq \in {<<>>, <<q>>}

\* What software does to a status: only the first SOC_NOTIFY makes a queue run.
LEMMA SoftwareKick ==
  ASSUME BaseInv, BaseInv', KickInv, Accepted, NEW s \in Q,
         SocNotify(s) \/ SwStop(s) \/ SwResume(s) \/ SwSeesIdle(s) \/ SwStart(s)
  PROVE  KickInv'
<1> USE DEF engVars, dbVars, hostVars, schVars, swVars
<1>1. /\ UNCHANGED <<rdIdxFf, hostIdx, hostFlags, landing, posted>>
      /\ UNCHANGED <<want, dbReq, doorbells, serving, notifyRsp, errReq>>
  BY DEF SocNotify, SwStop, SwResume, SwSeesIdle, SwStart
<1>2. /\ status \in [Q -> Statuses] /\ forced \in [Q -> BOOLEAN] /\ ctx \in [Q -> CtxWord]
      /\ socReq \in Seq(Q) /\ Len(socReq) <= 1
  BY DEF BaseInv, TypeOK, EngTypeOK, RegInv
<1> SUFFICES ASSUME NEW q \in Q, Runs(q)' PROVE KickInvOf(q)'
  BY DEF KickInv
<1>3. (GivenUp(q)' <=> GivenUp(q)) /\ (Holds(errReq, q)' <=> Holds(errReq, q))
  BY <1>1 DEF GivenUp, Holds
<1>4. CASE SocNotify(s) /\ s = q /\ status[q] = "STARTING"
  <2>1. socReq' = <<q>> /\ UNCHANGED ctx
    BY <1>4 DEF SocNotify, Accepted
  <2>2. Kicked(q)'
    BY <2>1 DEF Kicked, Holds
  <2>3. /\ ctx'[q].dmaOut = 0 /\ ~ctx'[q].noChange
    BY <1>4, <2>1 DEF BaseInv, CtxInv
  <2>4. OpenDma(q)' = 0 /\ OpenDma(q) = 0
    BY <2>1, <2>3 DEF BaseInv, ServeInv
  <2>5. IdxN(q) = 0 /\ TypeOK
    BY <2>4, OpenParts DEF BaseInv
  <2>6. \A i \in DOMAIN rdIdxFf' : rdIdxFf'[i].q # q
    BY <1>1, <2>5, NoneOpen
  <2> QED BY <2>2, <2>3, <2>4, <2>6 DEF KickInvOf
<1>5. CASE ~(SocNotify(s) /\ s = q /\ status[q] = "STARTING")
  <2>1. Runs(q) /\ ctx'[q] = ctx[q]
    <3>1. CASE SocNotify(s) \/ SwStop(s) \/ SwResume(s) \/ SwSeesIdle(s)
      <4>1. UNCHANGED ctx
        BY <3>1 DEF SocNotify, SwStop, SwResume, SwSeesIdle
      <4>2. CASE s = q
        BY <1>2, <1>5, <3>1, <4>2 DEF SocNotify, SwStop, SwResume, SwSeesIdle, SetStatus, Runs
      <4>3. CASE s # q
        <5>1. status'[q] = status[q] /\ forced'[q] = forced[q]
          BY <1>2, <3>1, <4>3 DEF SocNotify, SwStop, SwResume, SwSeesIdle, SetStatus
        <5> QED BY <4>1, <5>1 DEF Runs
      <4> QED BY <4>1, <4>2, <4>3
    <3>2. CASE SwStart(s)
      <4>1. s # q
        BY <1>2, <3>2 DEF SwStart, SetStatus, Runs
      <4>2. status'[q] = status[q] /\ forced'[q] = forced[q] /\ ctx'[q] = ctx[q]
        BY <1>2, <3>2, <4>1 DEF SwStart, SetStatus
      <4> QED BY <4>2 DEF Runs
    <3> QED BY <3>1, <3>2
  <2>2. KickInvOf(q)
    BY <2>1 DEF KickInv
  <2>3. Kicked(q) => Kicked(q)'
    <3>1. socReq' = socReq \/ (socReq = <<>> /\ socReq' = <<s>>)
      BY DEF SocNotify, SwStop, SwResume, SwSeesIdle, SwStart
    <3>2. Holds(socReq, q) => Holds(socReq, q)'
      BY <3>1 DEF Holds
    <3>3. (Holds(dbReq, q)' <=> Holds(dbReq, q)) /\ (Holds(doorbells, q)' <=> Holds(doorbells, q))
      BY <1>1 DEF Holds
    <3> QED BY <1>1, <3>2, <3>3 DEF Kicked
  <2> QED BY <1>1, <1>3, <2>1, <2>2, <2>3, KickSame
<1> QED BY <1>4, <1>5

\* A queue that is stopped for an error no longer runs.
LEMMA ErrStopKick ==
  ASSUME BaseInv, BaseInv', KickInv, ErrStop
  PROVE  KickInv'
<1> USE DEF dbVars, hostVars, schVars
<1>1. /\ errReq # <<>> /\ errReq' = <<>>
      /\ UNCHANGED <<ctx, rdIdxFf, hostIdx, hostFlags, landing, posted>>
      /\ UNCHANGED <<want, socReq, dbReq, doorbells, serving, notifyRsp>>
  BY DEF ErrStop
<1>2. /\ status \in [Q -> Statuses] /\ forced \in [Q -> BOOLEAN]
      /\ errReq \in Seq(Q) /\ Len(errReq) <= 1
  BY DEF BaseInv, TypeOK, EngTypeOK, RegInv
<1>3. PICK s \in Q : s = errReq[1] /\ DOMAIN errReq = {1}
  BY <1>1, <1>2, OneEntry
<1> SUFFICES ASSUME NEW q \in Q, Runs(q)' PROVE KickInvOf(q)'
  BY DEF KickInv
<1>4. CASE status[s] = "DOING" \/ (status[s] = "STOPPING" /\ ~forced[s])
  <2>1. /\ status' = [status EXCEPT ![s] = "STOPPING"]
        /\ forced' = [forced EXCEPT ![s] = TRUE]
    BY <1>3, <1>4 DEF ErrStop, SetStatus
  <2>2. q # s
    BY <1>2, <2>1 DEF Runs
  <2>3. Runs(q)
    BY <1>2, <2>1, <2>2 DEF Runs
  <2> QED BY <1>1, <1>3, <2>2, <2>3, KickSame DEF KickInv, Kicked, GivenUp, Holds
<1>5. CASE ~(status[s] = "DOING" \/ (status[s] = "STOPPING" /\ ~forced[s]))
  <2>1. UNCHANGED <<status, forced>>
    BY <1>3, <1>5 DEF ErrStop
  <2>2. Runs(q) /\ q # s
    BY <1>5, <2>1 DEF Runs
  <2> QED BY <1>1, <1>3, <2>2, KickSame DEF KickInv, Kicked, GivenUp, Holds
<1> QED BY <1>4, <1>5

\* The driver moves its index: until it looks at the flags the queue is posted.
LEMMA PostKick ==
  ASSUME BaseInv, BaseInv', KickInv, NEW s \in Q, Post(s)
  PROVE  KickInv'
<1> USE DEF engVars, dbVars, schVars, swVars
<1>1. /\ hostIdx' = [hostIdx EXCEPT ![s] = (@ + 1) % IdxMod] /\ posted' = posted \cup {s}
      /\ hostIdx \in [Q -> Idx]
      /\ UNCHANGED <<engVars, dbVars, hostFlags, landing, doorbells, schVars, swVars>>
  BY DEF Post, BaseInv, TypeOK
<1> SUFFICES ASSUME NEW q \in Q, Runs(q)' PROVE KickInvOf(q)'
  BY DEF KickInv
<1>2. KickInvOf(q)
  BY <1>1, RunsSame DEF KickInv
<1>3. /\ OpenDma(q)' = OpenDma(q) /\ (FlagsOn(q)' <=> FlagsOn(q)) /\ (Landed(q)' <=> Landed(q))
      /\ (Kicked(q)' <=> Kicked(q)) /\ (GivenUp(q)' <=> GivenUp(q))
      /\ (Holds(errReq, q)' <=> Holds(errReq, q))
  BY <1>1 DEF OpenDma, FlagsOn, Landed, Kicked, GivenUp, Holds
<1>4. CASE q = s
  <2>1. q \in posted'
    BY <1>1, <1>4
  <2> QED BY <1>1, <1>2, <1>3, <2>1 DEF KickInvOf
<1>5. CASE q # s
  <2>1. hostIdx'[q] = hostIdx[q] /\ (q \in posted' <=> q \in posted)
    BY <1>1, <1>5
  <2> QED BY <1>1, <1>2, <1>3, <2>1 DEF KickInvOf
<1> QED BY <1>4, <1>5

\* Notifications that the engine relies on are on in the host.
LEMMA FlagsLanded ==
  ASSUME NEW q, FlagsOn(q), Landed(q)
  PROVE  ~hostFlags[q]
<1>1. ASSUME NEW i \in DOMAIN landing, landing[i] = [q |-> q, flags |-> FALSE] PROVE FALSE
  <2>1. landing[i].q = q
    BY <1>1
  <2> QED BY <2>1 DEF Landed
<1> QED BY <1>1 DEF FlagsOn

\* The driver looks at the flags: where the engine waits for a kick they are
\* on, and it rings.
LEMMA CheckFlagsKick ==
  ASSUME BaseInv, BaseInv', KickInv, NEW s \in Q, CheckFlags(s)
  PROVE  KickInv'
<1> USE DEF engVars, dbVars, schVars, swVars
<1>1. /\ posted' = posted \ {s}
      /\ \/ hostFlags[s] /\ UNCHANGED doorbells
         \/ doorbells' = Append(doorbells, s)
      /\ UNCHANGED <<engVars, dbVars, hostIdx, hostFlags, landing, schVars, swVars>>
  BY DEF CheckFlags
<1> SUFFICES ASSUME NEW q \in Q, Runs(q)' PROVE KickInvOf(q)'
  BY DEF KickInv
<1>2. KickInvOf(q)
  BY <1>1, RunsSame DEF KickInv
<1>3. /\ OpenDma(q)' = OpenDma(q) /\ (FlagsOn(q)' <=> FlagsOn(q)) /\ (Landed(q)' <=> Landed(q))
      /\ (GivenUp(q)' <=> GivenUp(q)) /\ (Holds(errReq, q)' <=> Holds(errReq, q))
  BY <1>1 DEF OpenDma, FlagsOn, Landed, GivenUp, Holds
<1>4. /\ Holds(doorbells, q) => Holds(doorbells', q)
      /\ doorbells' = Append(doorbells, s) => Holds(doorbells', s)
  <2>1. doorbells \in Seq(Q)
    BY FifoTyped DEF BaseInv
  <2>2. CASE doorbells' = Append(doorbells, s)
    <3>1. /\ DOMAIN doorbells = 1 .. Len(doorbells) /\ Len(doorbells) \in Nat
          /\ DOMAIN doorbells' = 1 .. Len(doorbells) + 1
          /\ \A k \in 1 .. Len(doorbells) : doorbells'[k] = doorbells[k]
          /\ doorbells'[Len(doorbells) + 1] = s
      BY <2>1, <2>2, AppendProperties, LenProperties
    <3> QED BY <3>1 DEF Holds
  <2>3. CASE doorbells' # Append(doorbells, s)
    BY <1>1, <2>3 DEF Holds
  <2> QED BY <2>2, <2>3
<1>5. Kicked(q) => Kicked(q)'
  BY <1>1, <1>4 DEF Kicked, Holds
<1>6. CASE q # s \/ doorbells' = Append(doorbells, s)
  <2>1. q \in posted => q \in posted' \/ Kicked(q)'
    <3>1. CASE q # s
      BY <1>1, <3>1
    <3>2. CASE q = s /\ doorbells' = Append(doorbells, s)
      <4>1. Holds(doorbells, q)'
        BY <1>4, <3>2 DEF Holds
      <4> QED BY <4>1 DEF Kicked
    <3> QED BY <1>6, <3>1, <3>2
  <2> QED BY <1>1, <1>2, <1>3, <1>5, <2>1 DEF KickInvOf
<1>7. CASE q = s /\ hostFlags[q]
  <2>1. ASSUME ~ctx[q].noNotify, Landed(q) PROVE ~ctx[q].noChange
    BY <1>2, <1>7, <2>1, FlagsLanded DEF KickInvOf
  <2>2. \A i \in DOMAIN rdIdxFf : rdIdxFf[i].q = q => ctx[q].noNotify
    <3> SUFFICES ASSUME NEW i \in DOMAIN rdIdxFf, rdIdxFf[i].q = q, ~ctx[q].noNotify PROVE FALSE
      OBVIOUS
    <3>1. Landed(q)
      BY <1>2 DEF KickInvOf
    <3>2. TypeOK /\ IdxN(q) # 0
      BY NoneOpen DEF BaseInv
    <3>3. OpenDma(q) = 1
      <4>1. OpenDma(q) # 0
        BY <3>2, OpenParts
      <4> QED BY <4>1 DEF BaseInv, ServeInv
    <3>4. ctx[q].noChange
      BY <1>2, <3>3 DEF KickInvOf
    <3> QED BY <2>1, <3>1, <3>4
  <2>3. GivenUp(q) => Kicked(q) \/ Holds(errReq, q)
    BY <1>2, <2>1 DEF KickInvOf
  <2> QED BY <1>1, <1>2, <1>3, <1>5, <2>2, <2>3 DEF KickInvOf
<1> QED BY <1>1, <1>6, <1>7

\* A write of the flags lands: what the last one says does not change.
LEMMA LandKick ==
  ASSUME BaseInv, BaseInv', KickInv, Land
  PROVE  KickInv'
<1> USE DEF engVars, dbVars, schVars, swVars
<1>1. /\ landing # <<>> /\ landing' = Tail(landing)
      /\ hostFlags' = [hostFlags EXCEPT ![Head(landing).q] = Head(landing).flags]
      /\ UNCHANGED <<engVars, dbVars, hostIdx, posted, doorbells, schVars, swVars>>
      /\ landing \in Seq(Landings) /\ hostFlags \in [Q -> BOOLEAN]
  BY FifoTyped DEF Land, BaseInv, TypeOK
<1>2. PICK h \in Landings : h = Head(landing) /\ h = landing[1]
  BY <1>1
<1>3. /\ DOMAIN landing = 1 .. Len(landing) /\ Len(landing) \in Nat \ {0}
      /\ DOMAIN landing' = 1 .. Len(landing) - 1
      /\ \A k \in 1 .. Len(landing) - 1 : landing'[k] = landing[k + 1]
  BY <1>1
<1> SUFFICES ASSUME NEW q \in Q, Runs(q)' PROVE KickInvOf(q)'
  BY DEF KickInv
<1>4. KickInvOf(q)
  BY <1>1, RunsSame DEF KickInv
<1>5. /\ OpenDma(q)' = OpenDma(q) /\ (Kicked(q)' <=> Kicked(q))
      /\ (GivenUp(q)' <=> GivenUp(q)) /\ (Holds(errReq, q)' <=> Holds(errReq, q))
  BY <1>1 DEF OpenDma, Kicked, GivenUp, Holds
<1>6. Landed(q) => Landed(q)'
  BY <1>3 DEF Landed
<1>7. FlagsOn(q) => FlagsOn(q)'
  <2>1. CASE Landed(q) /\ ~hostFlags[q]
    <3>1. h.q # q
      BY <1>2, <1>3, <2>1 DEF Landed
    <3>2. ~hostFlags'[q]
      BY <1>1, <1>2, <2>1, <3>1
    <3> QED BY <1>6, <2>1, <3>2 DEF FlagsOn
  <2>2. CASE \E i \in DOMAIN landing :
               /\ landing[i] = [q |-> q, flags |-> FALSE]
               /\ \A j \in DOMAIN landing : j > i => landing[j].q # q
    <3>1. PICK i \in DOMAIN landing :
            /\ landing[i] = [q |-> q, flags |-> FALSE]
            /\ \A j \in DOMAIN landing : j > i => landing[j].q # q
      BY <2>2
    <3>2. CASE i = 1
      <4>1. h.q = q /\ h.flags = FALSE
        BY <1>2, <3>1, <3>2
      <4>2. ~hostFlags'[q]
        BY <1>1, <1>2, <4>1
      <4>3. ASSUME NEW k \in DOMAIN landing' PROVE landing'[k].q # q
        <5>1. k + 1 \in DOMAIN landing /\ k + 1 > i /\ landing'[k] = landing[k + 1]
          BY <1>3, <3>2
        <5> QED BY <3>1, <5>1
      <4> QED BY <4>2, <4>3 DEF FlagsOn, Landed
    <3>3. CASE i # 1
      <4>1. i - 1 \in DOMAIN landing' /\ landing'[i - 1] = [q |-> q, flags |-> FALSE]
        <5>1. i \in 1 .. Len(landing) /\ i - 1 \in 1 .. Len(landing) - 1 /\ (i - 1) + 1 = i
          BY <1>3, <3>3
        <5>2. landing'[i - 1] = landing[(i - 1) + 1]
          BY <1>3, <5>1
        <5> QED BY <1>3, <3>1, <5>1, <5>2
      <4>2. ASSUME NEW k \in DOMAIN landing', k > i - 1 PROVE landing'[k].q # q
        <5>1. k + 1 \in DOMAIN landing /\ k + 1 > i /\ landing'[k] = landing[k + 1]
          BY <1>3, <4>2
        <5> QED BY <3>1, <5>1
      <4> QED BY <4>1, <4>2 DEF FlagsOn
    <3> QED BY <3>2, <3>3
  <2> QED BY <2>1, <2>2 DEF FlagsOn
<1> QED BY <1>1, <1>4, <1>5, <1>6, <1>7 DEF KickInvOf

\* An index that is read after the flags have landed is the driver's.
LEMMA DmaRdRspKick ==
  ASSUME BaseInv, BaseInv', KickInv, NEW r \in rdReq, DmaRdRsp(r)
  PROVE  KickInv'
<1> USE DEF dbVars, hostVars, schVars, swVars
<1>1. /\ Landed(r.q)
      /\ UNCHANGED <<ctx, hostIdx, hostFlags, landing, posted>>
      /\ UNCHANGED <<want, socReq, dbReq, doorbells, serving, notifyRsp, errReq, status, forced>>
  BY DEF DmaRdRsp, Landed
<1>2. PICK x \in IdxRsps :
        /\ x.q = r.q /\ (x.err \/ x.idx = hostIdx[r.q])
        /\ rdIdxFf' = Append(rdIdxFf, x) \/ rdIdxFf' = rdIdxFf
  <2>1. PICK err \in DmaErr, idx \in Idx :
          /\ err \/ idx = hostIdx[r.q]
          /\ rdIdxFf' = Append(rdIdxFf, [q |-> r.q, idx |-> idx, err |-> err]) \/ rdIdxFf' = rdIdxFf
    <3>1. r.q \in Q /\ TypeOK
      BY DEF BaseInv, TypeOK, EngTypeOK
    <3>2. hostIdx[r.q] \in Idx
      BY <3>1, QueueTyped
    <3> QED BY <3>2 DEF DmaRdRsp
  <2>2. err \in BOOLEAN /\ r.q \in Q
    BY DEF DmaErr, BaseInv, TypeOK, EngTypeOK
  <2>3. [q |-> r.q, idx |-> idx, err |-> err] \in IdxRsps
    BY <2>2 DEF IdxRsps
  <2> QED BY <2>1, <2>3
<1> SUFFICES ASSUME NEW q \in Q, Runs(q)' PROVE KickInvOf(q)'
  BY DEF KickInv
<1>3. KickInvOf(q)
  BY <1>1, RunsSame DEF KickInv
<1>4. OpenDma(q)' = OpenDma(q)
  BY <1>1 DEF BaseInv, ServeInv
<1>5. /\ (FlagsOn(q)' <=> FlagsOn(q)) /\ (Landed(q)' <=> Landed(q)) /\ (Kicked(q)' <=> Kicked(q))
      /\ (GivenUp(q)' <=> GivenUp(q)) /\ (Holds(errReq, q)' <=> Holds(errReq, q))
  BY <1>1 DEF FlagsOn, Landed, Kicked, GivenUp, Holds
<1>6. ASSUME NEW i \in DOMAIN rdIdxFf', rdIdxFf'[i].q = q, ~ctx[q].noNotify
      PROVE  /\ Landed(q)
             /\ rdIdxFf'[i].err \/ rdIdxFf'[i].idx = hostIdx[q] \/ q \in posted \/ Kicked(q)
  <2>1. rdIdxFf \in Seq(IdxRsps)
    BY FifoTyped DEF BaseInv
  <2>2. rdIdxFf'[i] = x \/ (i \in DOMAIN rdIdxFf /\ rdIdxFf'[i] = rdIdxFf[i])
    <3>1. CASE rdIdxFf' = Append(rdIdxFf, x)
      <4>1. /\ DOMAIN rdIdxFf = 1 .. Len(rdIdxFf) /\ DOMAIN rdIdxFf' = 1 .. Len(rdIdxFf) + 1
            /\ Len(rdIdxFf) \in Nat /\ rdIdxFf'[Len(rdIdxFf) + 1] = x
            /\ \A k \in 1 .. Len(rdIdxFf) : rdIdxFf'[k] = rdIdxFf[k]
        BY <2>1, <3>1, AppendProperties, LenProperties
      <4> QED BY <4>1
    <3>2. CASE rdIdxFf' = rdIdxFf
      BY <3>2
    <3> QED BY <1>2, <3>1, <3>2
  <2>3. CASE rdIdxFf'[i] = x
    BY <1>1, <1>2, <1>6, <2>3
  <2>4. CASE i \in DOMAIN rdIdxFf /\ rdIdxFf'[i] = rdIdxFf[i]
    BY <1>3, <1>6, <2>4 DEF KickInvOf
  <2> QED BY <2>2, <2>3, <2>4
<1> QED BY <1>1, <1>3, <1>4, <1>5, <1>6 DEF KickInvOf

\* The end of an operation, for the queues it is not about,
LEMMA CompleteKickOther ==
  ASSUME BaseInv, BaseInv', KickInv, NEW o \in Op, Completes(o), Origin(o), Aged(o),
         NEW q \in Q, q # o.q, Runs(q)
  PROVE  KickInvOf(q)'
<1>1. KickInvOf(q)
  BY DEF KickInv
<1>2. /\ ctx'[q] = ctx[q]
      /\ UNCHANGED <<hostIdx, hostFlags, posted, doorbells, dbReq, socReq>>
  BY CompleteServe DEF Completes
<1>3. OpenDma(q)' = OpenDma(q)
  BY <1>2 DEF BaseInv, ServeInv
<1>4. /\ errReq = <<>> /\ notifyRsp = <<>>
  <2>1. op # <<>>
    BY DEF Completes
  <2> QED BY <2>1 DEF BaseInv, RegInv
<1>5. ~Holds(errReq, q)
  BY <1>4 DEF Holds
<1>6. (q \in serving' <=> q \in serving) /\ (q \in want' <=> q \in want)
  BY DEF Completes
<1>7. GivenUp(q)' => GivenUp(q)
  <2>1. \A i \in DOMAIN notifyRsp' : notifyRsp'[i].q = o.q
    BY DEF Completes
  <2>2. \A i \in DOMAIN notifyRsp' : notifyRsp'[i] # [q |-> q, done |-> TRUE]
    BY <2>1
  <2> QED BY <1>6, <2>2 DEF GivenUp
<1>8. Kicked(q)' <=> Kicked(q)
  BY <1>2, <1>6 DEF Kicked, Holds
<1>9. (Landed(q)' <=> Landed(q)) /\ (FlagsOn(q) => FlagsOn(q)')
  <2>1. CASE landing' = landing
    BY <1>2, <2>1 DEF Landed, FlagsOn
  <2>2. CASE landing' # landing
    <3>1. PICK x \in Landings : landing' = Append(landing, x) /\ x.q = o.q
      <4>1. landing' = Append(landing, [q |-> o.q, flags |-> ~o.ctx.noNotify])
        BY <2>2 DEF Completes
      <4>2. [q |-> o.q, flags |-> ~o.ctx.noNotify] \in Landings
        BY OpFields DEF Landings
      <4> QED BY <4>1, <4>2
    <3>2. landing \in Seq(Landings)
      BY FifoTyped DEF BaseInv
    <3>3. /\ DOMAIN landing = 1 .. Len(landing) /\ DOMAIN landing' = 1 .. Len(landing) + 1
          /\ Len(landing) \in Nat /\ landing'[Len(landing) + 1].q # q
          /\ \A k \in 1 .. Len(landing) : landing'[k] = landing[k]
      BY <3>1, <3>2, AppendProperties, LenProperties
    <3>4. Landed(q)' <=> Landed(q)
      BY <3>3 DEF Landed
    <3>5. FlagsOn(q) => FlagsOn(q)'
      <4>1. CASE Landed(q) /\ ~hostFlags[q]
        BY <1>2, <3>4, <4>1 DEF FlagsOn
      <4>2. CASE \E i \in DOMAIN landing :
                   /\ landing[i] = [q |-> q, flags |-> FALSE]
                   /\ \A j \in DOMAIN landing : j > i => landing[j].q # q
        <5>1. PICK i \in DOMAIN landing :
                /\ landing[i] = [q |-> q, flags |-> FALSE]
                /\ \A j \in DOMAIN landing : j > i => landing[j].q # q
          BY <4>2
        <5>2. i \in DOMAIN landing' /\ landing'[i] = [q |-> q, flags |-> FALSE]
          <6>1. i \in 1 .. Len(landing) /\ i \in 1 .. Len(landing) + 1
            BY <3>3
          <6>2. landing'[i] = landing[i]
            BY <3>3, <6>1
          <6> QED BY <3>3, <5>1, <6>1, <6>2
        <5>3. \A j \in DOMAIN landing' : j > i => landing'[j].q # q
          BY <3>3, <5>1
        <5> QED BY <5>2, <5>3 DEF FlagsOn
      <4> QED BY <4>1, <4>2 DEF FlagsOn
    <3> QED BY <3>4, <3>5
  <2> QED BY <2>1, <2>2
<1>10. \A i \in DOMAIN rdIdxFf' : \E j \in DOMAIN rdIdxFf : rdIdxFf'[i] = rdIdxFf[j]
  BY LeftOver
<1> QED BY <1>1, <1>2, <1>3, <1>5, <1>7, <1>8, <1>9, <1>10 DEF KickInvOf

\* The status of a running queue that an operation may have sampled.
LEMMA RunsSampled ==
  ASSUME BaseInv, NEW o \in Op, Aged(o), Runs(o.q), NoChangeWired => "resume" \notin Env
  PROVE  /\ o.status \in {"DOING", "STOPPING", "STARTING"} /\ ~o.forced /\ o.ctx = ctx[o.q]
         /\ o.status = "STOPPING" => ~NoChangeWired
<1>1. o.q \in Q /\ o.status \in Statuses /\ o.forced \in BOOLEAN
  BY OpFields
<1>2. o.status # "IDLE"
  BY DEF Aged, Runs
<1>3. ~o.forced
  BY DEF Aged, Runs, BaseInv, CtxInv
<1>4. o.status = "STOPPING" => "resume" \in Env
  BY DEF Aged, Runs
<1> QED BY <1>1, <1>2, <1>3, <1>4 DEF Aged, Statuses

\* A write of the flags is the last word on its way.
LEMMA FlagsWritten ==
  ASSUME BaseInv, NEW o \in Op, Completes(o), Issued(o) = "wr_flags", o.ctx.noNotify
  PROVE  FlagsOn(o.q)'
<1>1. PICK q : q = o.q
  OBVIOUS
<1>2. landing' = Append(landing, [q |-> q, flags |-> FALSE])
  BY <1>1 DEF Completes
<1>3. landing \in Seq(Landings) /\ [q |-> q, flags |-> FALSE] \in Landings
  BY <1>1, OpFields, FifoTyped DEF BaseInv, Landings
<1>4. /\ DOMAIN landing' = 1 .. Len(landing) + 1 /\ Len(landing) \in Nat
      /\ landing'[Len(landing) + 1] = [q |-> q, flags |-> FALSE]
  BY <1>2, <1>3, AppendProperties, LenProperties
<1>5. Len(landing) + 1 \in DOMAIN landing'
      /\ \A j \in DOMAIN landing' : ~(j > Len(landing) + 1)
  BY <1>4
<1>6. FlagsOn(q)'
  BY <1>4, <1>5 DEF FlagsOn
<1> QED BY <1>1, <1>6

\* and for the queue it is about.
LEMMA CompleteKick ==
  ASSUME BaseInv, BaseInv', KickInv, NoChangeWired => "resume" \notin Env,
         NEW o \in Op, Completes(o), Origin(o), Aged(o), NEW q \in Q, q = o.q, Runs(q)
  PROVE  KickInvOf(q)'
<1>1. KickInvOf(q)
  BY DEF KickInv
<1>2. /\ o.status \in {"DOING", "STOPPING", "STARTING"} /\ ~o.forced /\ o.ctx = ctx[q]
      /\ o.status = "STOPPING" => ~NoChangeWired
      /\ o.type \in Types /\ o.ctx.noNotify \in BOOLEAN /\ o.ctx.noChange \in BOOLEAN
  BY RunsSampled, OpFields
<1>3. /\ o.status \in {"DOING", "STOPPING"} => ctx'[q] = NewCtx(o)
      /\ o.status = "STARTING" => ctx'[q] = ctx[q]
      /\ UNCHANGED <<hostIdx, hostFlags, posted, doorbells, dbReq, socReq>>
      /\ ctx[q].noChange => NoChangeWired
  BY DEF Completes, BaseInv, TypeOK, EngTypeOK, CtxInv
<1>4. /\ OpenDma(q) = IF o.type = "KICK_NOTIFY" THEN 0 ELSE 1
      /\ o.type # "KICK_NOTIFY" => o.status \in {"DOING", "STOPPING"} /\ q \in serving
      /\ IdxN(q) = IF o.type = "RD_IDX_RSP" THEN 1 ELSE 0
  BY Consumed
<1>5. OpenDma(q)' = IF Issued(o) = "none" THEN 0 ELSE 1
  <2>1. OpenDma(o.q)' = IF Issued(o) = "none" THEN 0 ELSE 1
    BY CompleteServe
  <2> QED BY <2>1
<1>6. \A i \in DOMAIN rdIdxFf' : rdIdxFf'[i].q # q
  <2>1. CASE o.type = "RD_IDX_RSP"
    BY <2>1, LeftOver
  <2>2. CASE o.type # "RD_IDX_RSP"
    <3>1. rdIdxFf' = rdIdxFf
      BY <2>2 DEF Completes
    <3>2. IdxN(q) = 0 /\ TypeOK
      BY <1>4, <2>2 DEF BaseInv
    <3> QED BY <3>1, <3>2, NoneOpen
  <2> QED BY <2>1, <2>2
<1>7. q \in serving'
  BY <1>4 DEF Completes
<1>8. Issued(o) # "wr_flags" => UNCHANGED landing
  BY DEF Completes
<1>9. Issued(o) # "wr_flags" => (FlagsOn(q)' <=> FlagsOn(q)) /\ (Landed(q)' <=> Landed(q))
  BY <1>3, <1>8 DEF FlagsOn, Landed
<1>10. /\ Issued(o) # "none" => o.status = "DOING" /\ Issued(o) = Command(o)
       /\ Answers(o) <=> Issued(o) = "none"
       /\ Issued(o) \in {"none", "wr_flags", "rd_flags", "rd_idx"}
  BY AnswersIfNone
<1>11. GivenUp(q)' => Answers(o) /\ Done(o)
  <2> SUFFICES ASSUME NEW i \in DOMAIN notifyRsp', notifyRsp'[i] = [q |-> q, done |-> TRUE]
               PROVE  Answers(o) /\ Done(o)
    BY <1>7 DEF GivenUp
  <2>1. Answers(o)
    BY DEF Completes
  <2>2. PICK d \in BOOLEAN : d = Done(o)
    BY OpFields DEF Done
  <2>3. notifyRsp' = <<[q |-> o.q, done |-> d]>>
    BY <2>1, <2>2 DEF Completes
  <2>4. notifyRsp'[i] = [q |-> o.q, done |-> d]
    BY <2>3
  <2>5. d = TRUE
    <3>1. [q |-> o.q, done |-> d].done = d /\ [q |-> q, done |-> TRUE].done = TRUE
      OBVIOUS
    <3> QED BY <2>4, <3>1
  <2> QED BY <2>1, <2>2, <2>5
<1>12. Done(o) => o.type = "RD_IDX_RSP" /\ o.idx = o.ctx.availIdx /\ ~o.ctx.noNotify
  BY <1>2 DEF Done
\* The words as they are written.
<1>13. ASSUME o.status \in {"DOING", "STOPPING"}
       PROVE  /\ ctx'[q].noNotify = NewNoNotify(o) /\ ctx'[q].availIdx = NewIdx(o)
              /\ ctx'[q].noChange <=> NoChangeWired /\ NewNoChange(o)
  <2>1. /\ NewCtx(o).noNotify = NewNoNotify(o) /\ NewCtx(o).availIdx = NewIdx(o)
        /\ NewCtx(o).noChange = (NoChangeWired /\ NewNoChange(o))
    BY DEF NewCtx
  <2>2. /\ ctx'[q].noNotify = NewNoNotify(o) /\ ctx'[q].availIdx = NewIdx(o)
        /\ ctx'[q].noChange = (NoChangeWired /\ NewNoChange(o))
    BY <1>3, <1>13, <2>1
  <2>3. ctx'[q].noChange <=> NoChangeWired /\ NewNoChange(o)
    BY <2>2, Zenon
  <2> QED BY <2>2, <2>3
\* What is to be shown, once the FIFO of indices is done with.
<1>14. SUFFICES /\ ctx'[q].noChange /\ ~ctx'[q].noNotify => FlagsOn(q)'
                /\ OpenDma(q)' = 1 /\ ~ctx'[q].noNotify => ctx'[q].noChange
                /\ GivenUp(q)' /\ ~Kicked(q)' /\ ~Holds(errReq, q)' =>
                     /\ ~ctx'[q].noNotify /\ ctx'[q].noChange /\ Landed(q)'
                     /\ ctx'[q].availIdx = hostIdx'[q] \/ q \in posted'
  BY <1>6 DEF KickInvOf
<1>15. CASE o.type = "KICK_NOTIFY"
  <2>1. ~GivenUp(q)'
    BY <1>11, <1>12, <1>15
  <2>2. CASE o.status = "STARTING"
    <3>1. Issued(o) = "none"
      BY <2>2 DEF Issued
    <3> QED BY <1>1, <1>3, <1>5, <1>9, <2>1, <2>2, <3>1 DEF KickInvOf
  <2>3. CASE o.status \in {"DOING", "STOPPING"}
    <3>1. NewNoChange(o) <=> ctx[q].noChange
      BY <1>2, <1>15 DEF NewNoChange
    <3>2. ctx'[q].noChange <=> ctx[q].noChange
      BY <1>3, <1>13, <2>3, <3>1
    <3>3. CASE Command(o) = "wr_flags"
      <4>1. ctx'[q].noNotify <=> ~ctx[q].noNotify
        BY <1>2, <1>13, <1>15, <2>3, <3>3 DEF NewNoNotify
      <4>2. ctx[q].noNotify => ctx[q].noChange
        BY <1>2, <1>15, <3>3, Commands
      <4>3. CASE ctx[q].noNotify
        <5>1. o.status = "DOING" /\ ctx'[q].noChange
          BY <1>2, <1>3, <2>3, <3>2, <4>2, <4>3
        <5>2. Issued(o) = "wr_flags"
          BY <3>3, <5>1 DEF Issued
        <5>3. FlagsOn(o.q)'
          BY <1>2, <4>3, <5>2, FlagsWritten
        <5>4. FlagsOn(q)'
          BY <5>3
        <5> QED BY <2>1, <5>1, <5>4
      <4>4. CASE ~ctx[q].noNotify
        BY <2>1, <4>1, <4>4
      <4> QED BY <4>3, <4>4
    <3>4. CASE Command(o) # "wr_flags"
      <4>1. ctx'[q].noNotify <=> ctx[q].noNotify
        BY <1>2, <1>13, <2>3, <3>4 DEF NewNoNotify
      <4>2. Issued(o) # "wr_flags"
        BY <1>10, <3>4
      <4>3. OpenDma(q)' = 1 /\ ~ctx[q].noNotify => ctx[q].noChange
        <5> SUFFICES ASSUME OpenDma(q)' = 1, ~ctx[q].noNotify PROVE ctx[q].noChange
          OBVIOUS
        <5>1. Command(o) \in {"wr_flags", "rd_flags", "rd_idx"}
          BY <1>5, <1>10
        <5>2. o.ctx.noChange # o.ctx.noNotify
          BY <1>15, <3>4, <5>1, Commands
        <5> QED BY <1>2, <5>2
      <4> QED BY <1>1, <1>9, <2>1, <3>2, <4>1, <4>2, <4>3 DEF KickInvOf
    <3> QED BY <3>3, <3>4
  <2> QED BY <1>2, <2>2, <2>3
<1>16. CASE o.type \in {"WR_NOTIFY_RSP", "RD_NOTIFY_RSP"}
  <2>1. ~GivenUp(q)'
    BY <1>11, <1>12, <1>16
  <2>2. o.status \in {"DOING", "STOPPING"} /\ OpenDma(q) = 1
    BY <1>4, <1>16
  <2>3. (NewNoChange(o) <=> ctx[q].noChange) /\ (NewNoNotify(o) <=> ctx[q].noNotify)
    BY <1>2, <1>16 DEF NewNoChange, NewNoNotify
  <2>4. (ctx'[q].noChange <=> ctx[q].noChange) /\ (ctx'[q].noNotify <=> ctx[q].noNotify)
    BY <1>3, <1>13, <2>2, <2>3
  <2>5. Issued(o) # "wr_flags"
    BY <1>10, <1>16, Commands
  <2> QED BY <1>1, <1>9, <2>1, <2>2, <2>4, <2>5 DEF KickInvOf
<1>17. CASE o.type = "RD_IDX_RSP"
  <2>1. o.status \in {"DOING", "STOPPING"} /\ OpenDma(q) = 1
    BY <1>4, <1>17
  <2>2. Issued(o) = "none"
    BY <1>10, <1>17, Commands
  <2>3. ctx'[q].noNotify <=> ctx[q].noNotify
    BY <1>2, <1>13, <1>17, <2>1 DEF NewNoNotify
  <2>4. ~ctx[q].noNotify => ctx[q].noChange /\ FlagsOn(q)' /\ NoChangeWired
    BY <1>1, <1>3, <1>9, <2>1, <2>2 DEF KickInvOf
  <2>5. ASSUME GivenUp(q)', ~Kicked(q)', ~Holds(errReq, q)'
        PROVE  /\ ~ctx'[q].noNotify /\ ctx'[q].noChange /\ Landed(q)'
               /\ ctx'[q].availIdx = hostIdx'[q] \/ q \in posted'
    <3>1. o.idx = ctx[q].availIdx /\ ~ctx[q].noNotify
      BY <1>2, <1>11, <1>12, <2>5
    <3>2. ~OpError(o)
      <4>1. OpError(o) => errReq' = <<q>>
        BY DEF Completes
      <4> QED BY <2>5, <4>1 DEF Holds
    <3>3. ~o.err
      BY <3>2 DEF OpError
    <3>4. NewNoChange(o) /\ NewIdx(o) = o.idx
      BY <1>2, <1>17, <3>1, <3>2 DEF NewNoChange, NewIdx
    <3>5. ~Kicked(q)
      <4>1. want' = want
        BY <1>17 DEF Completes
      <4> QED BY <1>3, <2>5, <4>1 DEF Kicked, Holds
    <3>6. \E i \in DOMAIN rdIdxFf : rdIdxFf[i] = [q |-> q, idx |-> o.idx, err |-> o.err]
      <4>1. rdIdxFf \in Seq(IdxRsps) /\ rdIdxFf # <<>>
            /\ Head(rdIdxFf) = [q |-> q, idx |-> o.idx, err |-> o.err]
        BY <1>17, FifoTyped DEF BaseInv, Origin
      <4>2. 1 \in DOMAIN rdIdxFf /\ Head(rdIdxFf) = rdIdxFf[1]
        BY <4>1, EmptySeq, LenProperties
      <4> QED BY <4>1, <4>2
    <3>7. PICK i \in DOMAIN rdIdxFf : rdIdxFf[i].q = q /\ rdIdxFf[i].idx = o.idx /\ rdIdxFf[i].err = o.err
      BY <3>6
    <3>8. Landed(q) /\ (o.idx = hostIdx[q] \/ q \in posted)
      BY <1>1, <3>1, <3>3, <3>5, <3>7 DEF KickInvOf
    <3>9. Landed(q)'
      BY <1>9, <2>2, <3>8
    <3> QED BY <1>3, <1>13, <2>1, <2>3, <2>4, <3>1, <3>4, <3>8, <3>9
  <2> QED BY <1>5, <2>2, <2>3, <2>4, <2>5
<1> QED BY <1>2, <1>15, <1>16, <1>17 DEF Types

\* The end of an operation, for all queues.
LEMMA EngineCompleteKick ==
  ASSUME BaseInv, BaseInv', KickInv, NoChangeWired => "resume" \notin Env, EngineComplete
  PROVE  KickInv'
<1>1. PICK o \in Op : Completes(o) /\ Origin(o) /\ Aged(o)
  BY CompleteStep
<1>2. UNCHANGED <<status, forced>>
  BY <1>1 DEF Completes
<1> SUFFICES ASSUME NEW q \in Q, Runs(q)' PROVE KickInvOf(q)'
  BY DEF KickInv
<1>3. Runs(q)
  BY <1>2, RunsSame
<1>4. CASE q = o.q
  BY <1>1, <1>3, <1>4, CompleteKick
<1>5. CASE q # o.q
  BY <1>1, <1>3, <1>5, CompleteKickOther
<1> QED BY <1>4, <1>5

\* Every step keeps the second half of the invariant.
LEMMA StepKickInv ==
  ASSUME NoChangeWired => "resume" \notin Env
  PROVE  BaseInv /\ BaseInv' /\ KickInv /\ [Next]_vars /\ [Accepted]_vars => KickInv'
<1> SUFFICES ASSUME BaseInv, BaseInv', KickInv, [Next]_vars, [Accepted]_vars PROVE KickInv'
  OBVIOUS
<1>1. CASE (\E w \in wrReq : DmaWrRsp(w)) \/ DoorbellArbitrate \/ EngineReady \/ EngineRsp
             \/ IdxNotifyTaken \/ (\E q \in Q : EngineKick(q) \/ RingServe(q)) \/ UNCHANGED vars
  BY <1>1, QuietKick
<1>2. CASE TakeDoorbell \/ TakeSocNotify \/ SchReq
  BY <1>2, PassKick
<1>3. CASE EngineAnswered
  BY <1>3, AnsweredKick
<1>4. CASE (\E q \in Q : SocNotify(q) \/ SwStop(q) \/ SwResume(q) \/ SwSeesIdle(q) \/ SwStart(q))
             /\ vars' # vars
  BY <1>4, SoftwareKick
<1>5. CASE ErrStop
  BY <1>5, ErrStopKick
<1>6. CASE \E q \in Q : Post(q) \/ CheckFlags(q)
  BY <1>6, PostKick, CheckFlagsKick
<1>7. CASE Land
  BY <1>7, LandKick
<1>8. CASE \E r \in rdReq : DmaRdRsp(r)
  BY <1>8, DmaRdRspKick
<1>9. CASE EngineComplete
  BY <1>9, EngineCompleteKick
<1> QED BY <1>1, <1>2, <1>3, <1>4, <1>5, <1>6, <1>7, <1>8, <1>9 DEF Next

\* The SOC_NOTIFY that starts a queue finds the register of virtio_ctx free,
\* or holding the same queue (virtio_ctx.sv:1667 drops it otherwise).
KicksAccepted ==
  [][\A q \in Q : SocNotify(q) /\ status[q] = "STARTING" => socReq \in {<<>>, <<q>>}]_vars

\* The second half of the invariant, of every behaviour.
LEMMA KickInductive ==
  ASSUME NoChangeWired => "resume" \notin Env
  PROVE  Safety /\ KicksAccepted => []KickInv
<1>1. Init => KickInv
  BY DEF Init, KickInv, Runs
<1>2. BaseInv /\ BaseInv' /\ KickInv /\ [Next]_vars /\ [Accepted]_vars => KickInv'
  BY StepKickInv
<1>3. KicksAccepted => [][Accepted]_vars
  BY DEF KicksAccepted, Accepted
<1> QED BY <1>1, <1>2, <1>3, Inductive, PTL DEF Safety

\* Forgotten, in the words of the invariant.
LEMMA ForgottenQueue ==
  ASSUME KickInv, NEW q \in Q, status[q] = "DOING", Forgotten(q)
  PROVE  ctx[q].availIdx = hostIdx[q] /\ ~hostFlags[q]
<1>1. KickInvOf(q)
  BY DEF KickInv, Runs
<1>2. GivenUp(q) /\ ~Kicked(q) /\ ~Holds(errReq, q)
  BY DEF Forgotten, GivenUp, Kicked
<1>3. FlagsOn(q) /\ Landed(q) /\ (ctx[q].availIdx = hostIdx[q] \/ q \in posted)
  BY <1>1, <1>2 DEF KickInvOf
<1>4. ~hostFlags[q]
  BY <1>3, FlagsLanded
<1>5. q \notin posted
  BY <1>4 DEF Forgotten
<1> QED BY <1>3, <1>4, <1>5

(***************************************************************************)
(* No lost kick, for any number of queues, any width of the indices and    *)
(* any depth of the FIFOs and of the write path: the engine forgets a      *)
(* running queue only when it has seen everything the driver posted        *)
(* (virtio_idx_engine_top.sv:331-385, 504-513).  Two hypotheses, each of   *)
(* which TLC refutes the property without: with the no_change flag wired   *)
(* a stopped queue is not resumed (virtio_idx_engine_top.sv:465), and the  *)
(* first kick of a queue is not dropped (virtio_ctx.sv:1667).              *)
(***************************************************************************)
THEOREM NoKickIsLost ==
  ASSUME NoChangeWired => "resume" \notin Env
  PROVE  Safety /\ KicksAccepted => []NoLostKick
<1>1. KickInv => NoLostKick
  BY ForgottenQueue DEF NoLostKick
<1> QED BY <1>1, KickInductive, PTL

(***************************************************************************)
(* Nor does it forget a running queue with its notifications off.          *)
(***************************************************************************)
THEOREM NotForgottenInSilence ==
  ASSUME NoChangeWired => "resume" \notin Env
  PROVE  Safety /\ KicksAccepted => []FlagsOnWhenForgotten
<1>1. KickInv => FlagsOnWhenForgotten
  BY ForgottenQueue DEF FlagsOnWhenForgotten
<1> QED BY <1>1, KickInductive, PTL

(***************************************************************************)
(* A device with one queue drops no kick, so nothing is left to assume of  *)
(* software: NoLostKick as the runs check it.                              *)
(***************************************************************************)
THEOREM OneQueueLosesNoKick ==
  ASSUME NoChangeWired => "resume" \notin Env,
         \A p, q \in Q : p = q
  PROVE  Safety => []NoLostKick
<1>1. BaseInv => Accepted
  <2> SUFFICES ASSUME BaseInv, NEW q \in Q PROVE socReq \in {<<>>, <<q>>}
    BY DEF Accepted
  <2>1. socReq \in Seq(Q) /\ Len(socReq) <= 1
    BY FifoTyped DEF BaseInv, RegInv
  <2>2. CASE socReq # <<>>
    <3>1. socReq[1] \in Q /\ socReq = <<socReq[1]>>
      BY <2>1, <2>2, OneEntry
    <3>2. socReq[1] = q
      BY <3>1
    <3> QED BY <3>1, <3>2
  <2> QED BY <2>2
<1>2. Safety => KicksAccepted
  <2>1. BaseInv /\ [Next]_vars => [Accepted]_vars
    BY <1>1
  <2>2. Safety => [][Accepted]_vars
    BY <2>1, Inductive, PTL DEF Safety
  <2> QED BY <2>2 DEF KicksAccepted, Accepted
<1> QED BY <1>2, NoKickIsLost, PTL
====
