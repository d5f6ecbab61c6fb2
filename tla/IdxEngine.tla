----------------------------- MODULE IdxEngine -----------------------------
(***************************************************************************)
(* virtio_idx_engine_top: the engine that mirrors avail->idx of every      *)
(* virtqueue into the context RAM.  For a kicked queue it switches off the *)
(* driver's notifications (write of used->flags, then a read of the same   *)
(* flags that pushes the write), reads avail->idx, and comes back until    *)
(* the index stops changing; then it switches notifications on again.      *)
(*                                                                         *)
(* One operation is IDLE, SCH, RD_CTX, EXEC, WR_CTX.  Select stands for    *)
(* the first three - the FIFO heads are latched and the context is         *)
(* sampled - and Complete for the last two, in which the operation's DMA   *)
(* request, context write and notifies leave together.  The queue's status *)
(* may change between the two; everything else the operation uses is the   *)
(* engine's own.                                                           *)
(***************************************************************************)
EXTENDS Integers, Sequences, FiniteSets

CONSTANTS
  Q,                  \* virtqueues
  IdxMod,             \* ring indices are 16 bits wide: 2**16
  QSize,              \* qszie
  Threshold,          \* idx_threshold
  FIFO_DEPTH,         \* depth of the three response FIFOs (32)
  Margin,             \* in-flight ready: count < FIFO_DEPTH - Margin (4)
  NoChangeWired       \* is idx_engine_ctx_wr_no_change connected to virtio_ctx

ASSUME IdxEngineAssumption ==
  /\ IdxMod \in Nat \ {0} /\ QSize \in 1 .. IdxMod - 1
  /\ Threshold \in Nat /\ FIFO_DEPTH \in Nat /\ Margin \in Nat
  /\ NoChangeWired \in BOOLEAN

VARIABLES
  status, forced,     \* virtio_ctx: the queue's q_status and forced_shutdown
  availUi,            \* virtio_ctx: avail_ui, moved by the avail ring engine
  ctx,                \* virtio_ctx: what the engine writes, per queue
  op,                 \* process_* and the context sample: <<>> or one operation
  rdIdxFf,            \* u_rd_idx_rsp_ff
  rdFlagsFf,          \* u_rd_rsp_ff
  wrRspFf,            \* u_wr_rsp_ff
  rdReq,              \* DMA reads on their way: [q, kind]
  wrReq,              \* DMA writes without a response: [q, flags]
  ready,              \* the three dma_*_inflight_ready registers
  idxNotify,          \* idx_notify register, to the avail ring's scheduler
  errReq,             \* err_code_wr_req register, to virtio_ctx
  notifyRsp           \* notify_rsp register, to the engine's own scheduler

engVars == <<ctx, op, rdIdxFf, rdFlagsFf, wrRspFf, rdReq, wrReq, ready,
             idxNotify, errReq, notifyRsp>>

Statuses == {"IDLE", "STARTING", "DOING", "STOPPING"}
Idx == 0 .. IdxMod - 1
Kinds == {"idx", "flags"}

\* Mutant: indices compared without the wrap of 16 bits.
MinusUnwrapped(a, b) == a - b

Minus(a, b) == (a - b) % IdxMod

\* The words of the context RAM that the engine owns.  dmaOut is dma_req_num -
\* dma_rsp_num, the only thing anybody asks of the two counters.
CtxWord == [availIdx : Idx, noNotify : BOOLEAN, noChange : BOOLEAN, dmaOut : 0 .. 127]

Types == {"KICK_NOTIFY", "WR_NOTIFY_RSP", "RD_NOTIFY_RSP", "RD_IDX_RSP"}

Op == [type : Types, q : Q, idx : Idx, err : BOOLEAN,
       status : Statuses, forced : BOOLEAN, ctx : CtxWord, diff : Idx]

EngTypeOK ==
  /\ status \in [Q -> Statuses] /\ forced \in [Q -> BOOLEAN] /\ availUi \in [Q -> Idx]
  /\ ctx \in [Q -> CtxWord]
  /\ op \in Seq(Op) /\ Len(op) <= 1
  /\ rdIdxFf \in Seq([q : Q, idx : Idx, err : BOOLEAN])
  /\ rdFlagsFf \in Seq([q : Q, err : BOOLEAN])
  /\ wrRspFf \in Seq(Q)
  /\ rdReq \subseteq [q : Q, kind : Kinds]
  /\ wrReq \subseteq [q : Q, flags : BOOLEAN]
  /\ ready \in [Kinds \cup {"wr"} -> BOOLEAN]
  /\ idxNotify \in Seq(Q) /\ errReq \in Seq(Q)
  /\ notifyRsp \in Seq([q : Q, done : BOOLEAN])

CtxInit(idx) == [availIdx |-> idx, noNotify |-> FALSE, noChange |-> FALSE, dmaOut |-> 0]

EngInit ==
  /\ op = <<>> /\ rdIdxFf = <<>> /\ rdFlagsFf = <<>> /\ wrRspFf = <<>>
  /\ rdReq = {} /\ wrReq = {}
  /\ ready = [k \in Kinds \cup {"wr"} |-> TRUE]
  /\ idxNotify = <<>> /\ errReq = <<>> /\ notifyRsp = <<>>

-----------------------------------------------------------------------------
\* req_cnt - rsp_cnt of each kind: issued and not yet popped by an operation.
Inflight ==
  [idx   |-> Cardinality({r \in rdReq : r.kind = "idx"}) + Len(rdIdxFf),
   flags |-> Cardinality({r \in rdReq : r.kind = "flags"}) + Len(rdFlagsFf),
   wr    |-> Cardinality(wrReq) + Len(wrRspFf)]

FreshReady == [k \in Kinds \cup {"wr"} |-> Inflight[k] < FIFO_DEPTH - Margin]

\* The ready registers follow the counters two clocks later, so the next
\* operation may start with the values from before the last one, not older.
LatchReady ==
  /\ op = <<>>
  /\ ready # FreshReady
  /\ ready' = FreshReady
  /\ UNCHANGED <<ctx, op, rdIdxFf, rdFlagsFf, wrRspFf, rdReq, wrReq, idxNotify, errReq, notifyRsp>>

\* IDLE: an operation starts only when its three output registers are free.
IdleGate == op = <<>> /\ idxNotify = <<>> /\ errReq = <<>> /\ notifyRsp = <<>>

Sampled(type, q, idx, err) ==
  [type |-> type, q |-> q, idx |-> idx, err |-> err,
   status |-> status[q], forced |-> forced[q], ctx |-> ctx[q],
   diff |-> Minus(ctx[q].availIdx, availUi[q])]

Begin(type, q, idx, err) ==
  /\ op' = <<Sampled(type, q, idx, err)>>
  /\ UNCHANGED <<ctx, rdIdxFf, rdFlagsFf, wrRspFf, rdReq, wrReq, ready, idxNotify, errReq, notifyRsp>>

\* Index responses come first, then flags, then write responses, then kicks;
\* a write response goes on to a flags read without asking ready["flags"].
IdxRspReady   == rdIdxFf # <<>>

\* Mutant: flags responses do not ask for room for the index read they issue.
FlagsRspUngated == ~IdxRspReady /\ rdFlagsFf # <<>>

FlagsRspReady == ~IdxRspReady /\ rdFlagsFf # <<>> /\ ready["idx"]
WrRspReady    == ~IdxRspReady /\ ~FlagsRspReady /\ wrRspFf # <<>> /\ ready["idx"] /\ ready["wr"]
KickReady     == ~IdxRspReady /\ ~FlagsRspReady /\ wrRspFf = <<>>
                   /\ \A k \in Kinds \cup {"wr"} : ready[k]

SelectRsp ==
  /\ IdleGate
  /\ \/ IdxRspReady /\ LET r == Head(rdIdxFf) IN Begin("RD_IDX_RSP", r.q, r.idx, r.err)
     \/ FlagsRspReady /\ LET r == Head(rdFlagsFf) IN Begin("RD_NOTIFY_RSP", r.q, 0, r.err)
     \/ WrRspReady /\ Begin("WR_NOTIFY_RSP", Head(wrRspFf), 0, FALSE)

\* notify_req: the scheduler offers queue q; it is taken in Complete.
SelectKick(q) == IdleGate /\ KickReady /\ Begin("KICK_NOTIFY", q, 0, FALSE)

-----------------------------------------------------------------------------
\* What an operation sends to the host if the queue is DOING.
Command(o) ==
  CASE o.type = "KICK_NOTIFY" /\ o.diff <= Threshold ->
         IF o.ctx.noChange = o.ctx.noNotify THEN "wr_flags" ELSE "rd_idx"
    [] o.type = "KICK_NOTIFY" /\ o.diff > Threshold ->
         IF o.ctx.noNotify THEN "none" ELSE "wr_flags"
    [] o.type = "WR_NOTIFY_RSP" -> "rd_flags"
    [] o.type = "RD_NOTIFY_RSP" -> IF o.diff > Threshold THEN "none" ELSE "rd_idx"
    [] o.type = "RD_IDX_RSP" -> "none"

Issued(o) == IF o.status = "DOING" THEN Command(o) ELSE "none"

\* Mutant: a full ring is taken for an invalid index.
OpErrorOffByOne(o) ==
  \/ o.err
  \/ o.type = "RD_IDX_RSP" /\ Minus(o.idx, o.ctx.availIdx) >= QSize

\* err_code: a failed read, or an index more than a ring ahead.
OpError(o) ==
  \/ o.err
  \/ o.type = "RD_IDX_RSP" /\ Minus(o.idx, o.ctx.availIdx) > QSize

\* Mutant: the index of a failed read is believed.
NewIdxUnchecked(o) == IF o.type = "RD_IDX_RSP" THEN o.idx ELSE o.ctx.availIdx

NewIdx(o) == IF o.type = "RD_IDX_RSP" /\ ~OpError(o) THEN o.idx ELSE o.ctx.availIdx

\* Mutant: the engine does not note that the index stands still.
NewNoChangeKept(o) == o.ctx.noChange

NewNoChange(o) ==
  IF o.type = "RD_IDX_RSP" /\ ~OpError(o) THEN o.idx = o.ctx.availIdx ELSE o.ctx.noChange

\* The flag of the context is turned whether or not the write was issued.
NewNoNotify(o) ==
  IF o.type = "KICK_NOTIFY" /\ Command(o) = "wr_flags" THEN ~o.ctx.noNotify ELSE o.ctx.noNotify

\* Mutant: responses are counted only while the queue runs.
NewDmaOutDoing(o) ==
  (o.ctx.dmaOut + (IF Issued(o) # "none" THEN 1 ELSE 0)
     - (IF o.type # "KICK_NOTIFY" /\ o.status = "DOING" THEN 1 ELSE 0)) % 128

NewDmaOut(o) ==
  (o.ctx.dmaOut + (IF Issued(o) # "none" THEN 1 ELSE 0)
     - (IF o.type # "KICK_NOTIFY" THEN 1 ELSE 0)) % 128

NewCtx(o) ==
  [availIdx |-> NewIdx(o), noNotify |-> NewNoNotify(o),
   noChange |-> NoChangeWired /\ NewNoChange(o), dmaOut |-> NewDmaOut(o)]

\* Mutant: the answer after a flags read that finds enough indices is missing.
AnswersNotOnFlags(o) ==
  \/ o.type = "KICK_NOTIFY" /\ o.diff > Threshold /\ o.ctx.noNotify
  \/ o.type = "RD_IDX_RSP"
  \/ o.status # "DOING"

\* notify_rsp: the operation ends the queue's service ...
Answers(o) ==
  \/ o.type = "KICK_NOTIFY" /\ o.diff > Threshold /\ o.ctx.noNotify
  \/ o.type = "RD_NOTIFY_RSP" /\ o.diff > Threshold
  \/ o.type = "RD_IDX_RSP"
  \/ o.status # "DOING"

\* Mutant: the engine gives up without having switched notifications on.
DoneWithFlagsOff(o) ==
  \/ o.forced
  \/ o.status = "IDLE"
  \/ o.type = "RD_IDX_RSP" /\ o.idx = o.ctx.availIdx

\* ... for good, or to come back.
Done(o) ==
  \/ o.forced
  \/ o.status = "IDLE"
  \/ o.type = "RD_IDX_RSP" /\ o.idx = o.ctx.availIdx /\ ~o.ctx.noNotify

\* Mutant: the avail ring is only woken for a queue that is DOING.
WakesRingDoing(o) ==
  o.type = "RD_IDX_RSP" /\ ~OpError(o) /\ o.idx # o.ctx.availIdx /\ o.status = "DOING"

\* idx_notify: the avail ring engine hears of every change of the index.
WakesRing(o) == o.type = "RD_IDX_RSP" /\ ~OpError(o) /\ o.idx # o.ctx.availIdx

\* EXEC and WR_CTX.
Complete ==
  /\ op # <<>>
  /\ LET o == op[1]
     IN  /\ rdReq' = rdReq \cup
              IF Issued(o) = "rd_idx" THEN {[q |-> o.q, kind |-> "idx"]}
              ELSE IF Issued(o) = "rd_flags" THEN {[q |-> o.q, kind |-> "flags"]} ELSE {}
         /\ wrReq' = wrReq \cup
              IF Issued(o) = "wr_flags" THEN {[q |-> o.q, flags |-> ~o.ctx.noNotify]} ELSE {}
         /\ ctx' = IF o.status \in {"DOING", "STOPPING"}
                   THEN [ctx EXCEPT ![o.q] = NewCtx(o)] ELSE ctx
         /\ rdIdxFf' = IF o.type = "RD_IDX_RSP" THEN Tail(rdIdxFf) ELSE rdIdxFf
         /\ rdFlagsFf' = IF o.type = "RD_NOTIFY_RSP" THEN Tail(rdFlagsFf) ELSE rdFlagsFf
         /\ wrRspFf' = IF o.type = "WR_NOTIFY_RSP" THEN Tail(wrRspFf) ELSE wrRspFf
         /\ idxNotify' = IF WakesRing(o) THEN <<o.q>> ELSE <<>>
         /\ errReq' = IF OpError(o) THEN <<o.q>> ELSE <<>>
         /\ notifyRsp' = IF Answers(o) THEN <<[q |-> o.q, done |-> Done(o)]>> ELSE <<>>
  /\ ready' = FreshReady
  /\ op' = <<>>
=============================================================================
