----------------------------- MODULE UnderLoad -----------------------------
(***************************************************************************)
(* Three machines under the heaviest load, side by side: the index engine  *)
(* with all queues kicked at will, the request machines of the avail ring  *)
(* engine, and the merging of interrupts.  A behaviour is one of one       *)
(* machine; the others stay in their initial states.                       *)
(***************************************************************************)
EXTENDS Integers, FiniteSets, Sequences

CONSTANTS
  Q, IdxMod, QSize, Threshold, FIFO_DEPTH, Margin, NoChangeWired,     \* as in IdxBench
  NG, NL, Time, Thr, TimeMod, CntMod, Live, CLK_CYCLE, ENG_OUT_PFULL  \* as in IrqMerge

VARIABLES load,
  status, forced, ctx, availUi, op, rdIdxFf, rdFlagsFf, wrRspFf, rdReq, wrReq,
  ready, idxNotify, errReq, notifyRsp, want, serving,
  mark, st, vld, carries, ctxRsp, ciWr,
  cyc, ts, imp, scan, flag, s1, s2, s3, rsp, info, eo, ff, age

Bench == INSTANCE IdxBench
Ports == INSTANCE DescReqPorts
Merging == INSTANCE IrqMerge

\* FIFOs and margins there are: a margin of one makes up for the late registers.
ASSUME LoadAssumption ==
  /\ IdxMod \in Nat \ {0} /\ QSize \in 1 .. IdxMod - 1 /\ Threshold \in Nat
  /\ FIFO_DEPTH \in Nat \ {0} /\ Margin \in Nat \ {0} /\ NoChangeWired \in BOOLEAN
  /\ Merging!Sizes /\ Merging!Timing

benchVars == <<status, forced, ctx, availUi, op, rdIdxFf, rdFlagsFf, wrRspFf, rdReq, wrReq,
               ready, idxNotify, errReq, notifyRsp, want, serving>>
portsVars == <<mark, st, vld, carries, ctxRsp, ciWr>>
mergingVars == <<cyc, ts, imp, scan, flag, s1, s2, s3, rsp, info, eo, ff, age>>
vars == <<load, benchVars, portsVars, mergingVars>>

Init ==
  /\ load \in {"bench", "ports", "merging"}
  /\ Bench!Init /\ Ports!Init /\ Merging!Init

BenchStep == load = "bench" /\ Bench!Next /\ UNCHANGED <<load, portsVars, mergingVars>>
PortsStep == load = "ports" /\ Ports!Next /\ UNCHANGED <<load, benchVars, mergingVars>>
MergingStep == load = "merging" /\ Merging!Next /\ UNCHANGED <<load, benchVars, portsVars>>

Next == BenchStep \/ PortsStep \/ MergingStep

\* As in Ports!Spec and Merging!Spec: the fairness is that of the machines.
PortsClock == load = "ports" /\ Ports!Next
PortsTaken(t) == load = "ports" /\ Ports!Taken(t)
Spec ==
  /\ Init /\ [][Next]_vars
  /\ WF_portsVars(PortsClock) /\ \A t \in Ports!QTypes : WF_portsVars(PortsTaken(t))

\* The index and write response FIFOs do not overflow, whatever is kicked.
RespFifosFit == Bench!RespFifosFit

\* A request machine samples the context of its own queue.
SampleIsOwn == Ports!SampleIsOwn

\* A request machine that leaves UPDATA_CI has its avail_ci in the write register.
CiWritten == Ports!CiWritten

\* The merging is, clock by clock, the predictor of its bench.
PredictorAgrees == Merging!PredictorAgrees

\* What waits for its time is signalled in the third unit of it.
InTolerance == Merging!InTolerance

\* Every request for entries is answered, whatever the traffic of the others is.
EveryAskAnswered == load = "ports" => Ports!EveryAskAnswered
=============================================================================
