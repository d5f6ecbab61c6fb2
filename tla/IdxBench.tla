------------------------------ MODULE IdxBench ------------------------------
(***************************************************************************)
(* The index engine with its scheduler and the DMA only, every queue       *)
(* running and kicked at will, nothing posted: the load that fills the     *)
(* three response FIFOs, for more queues than NotifyPath affords.          *)
(***************************************************************************)
EXTENDS IdxEngine, TLC

VARIABLES want, serving   \* the engine's scheduler

vars == <<engVars, status, forced, availUi, want, serving>>

Sch == INSTANCE QueueService

Init ==
  /\ EngInit
  /\ status = [q \in Q |-> "DOING"] /\ forced = [q \in Q |-> FALSE]
  /\ ctx = [q \in Q |-> CtxInit(0)] /\ availUi = [q \in Q |-> 0]
  /\ want = {} /\ serving = {}

QueuesUnchanged == UNCHANGED <<status, forced, availUi>>

\* A doorbell reaches the scheduler.
Kick(q) == Sch!Request(q) /\ UNCHANGED engVars /\ QueuesUnchanged

\* DMA responses enter their FIFOs, full or not.
DmaWrRsp(w) ==
  /\ w \in wrReq
  /\ wrReq' = wrReq \ {w}
  /\ wrRspFf' = Append(wrRspFf, w.q)
  /\ UNCHANGED <<ctx, op, rdIdxFf, rdFlagsFf, rdReq, ready, idxNotify, errReq, notifyRsp>>
  /\ UNCHANGED <<want, serving>> /\ QueuesUnchanged

DmaRdRsp(r) ==
  /\ r \in rdReq
  /\ rdReq' = rdReq \ {r}
  /\ IF r.kind = "idx"
     THEN /\ rdIdxFf' = Append(rdIdxFf, [q |-> r.q, idx |-> 0, err |-> FALSE])
          /\ UNCHANGED rdFlagsFf
     ELSE /\ rdFlagsFf' = Append(rdFlagsFf, [q |-> r.q, err |-> FALSE])
          /\ UNCHANGED rdIdxFf
  /\ UNCHANGED <<ctx, op, wrRspFf, wrReq, ready, idxNotify, errReq, notifyRsp>>
  /\ UNCHANGED <<want, serving>> /\ QueuesUnchanged

EngineReady == LatchReady /\ UNCHANGED <<want, serving>> /\ QueuesUnchanged

EngineRsp == SelectRsp /\ UNCHANGED <<want, serving>> /\ QueuesUnchanged

EngineKick(q) ==
  /\ q \in want \ serving
  /\ SelectKick(q)
  /\ UNCHANGED <<want, serving>> /\ QueuesUnchanged

EngineComplete ==
  /\ Complete
  /\ IF op[1].type = "KICK_NOTIFY" THEN Sch!Take(op[1].q) ELSE UNCHANGED <<want, serving>>
  /\ QueuesUnchanged

EngineAnswered ==
  /\ notifyRsp # <<>>
  /\ Sch!Release(notifyRsp[1].q, notifyRsp[1].done)
  /\ notifyRsp' = <<>>
  /\ UNCHANGED <<ctx, op, rdIdxFf, rdFlagsFf, wrRspFf, rdReq, wrReq, ready, idxNotify, errReq>>
  /\ QueuesUnchanged

Next ==
  \/ \E q \in Q : Kick(q) \/ EngineKick(q)
  \/ \E w \in wrReq : DmaWrRsp(w)
  \/ \E r \in rdReq : DmaRdRsp(r)
  \/ EngineReady \/ EngineRsp \/ EngineComplete \/ EngineAnswered

Spec == Init /\ [][Next]_vars

\* The queues are interchangeable.
QueueSymmetry == Permutations(Q)

(***************************************************************************)
(* The index and write response FIFOs do not overflow (dfx_err and its     *)
(* assertion, virtio_idx_engine_top.sv:556-568, 612-618).  Nothing tells   *)
(* the DMA that a FIFO is full, so the in-flight limits must hold against  *)
(* ready registers that are one operation old.                             *)
(***************************************************************************)
RespFifosFit == Len(rdIdxFf) <= FIFO_DEPTH /\ Len(wrRspFf) <= FIFO_DEPTH

\* The same assertion for the FIFO of the flags responses.
RdFlagsFifoFits == Len(rdFlagsFf) <= FIFO_DEPTH
=============================================================================
