-------------------------- MODULE UnderLoad_proofs --------------------------
(***************************************************************************)
(* What the three machines do under load, for every number of queues and   *)
(* every size of the FIFOs.  The request machines of virtio_desc_req_ctrl  *)
(* are proved here: at most one starts, and at most one updates, in a      *)
(* clock.  So are the in-flight limits of the index engine.  The theorems  *)
(* about the merging on its own are carried over to the machines side by   *)
(* side.                                                                   *)
(***************************************************************************)
EXTENDS UnderLoad, FiniteSetTheorems, SequenceTheorems, TLAPS

MergingProofs == INSTANCE IrqMerge_proofs

-----------------------------------------------------------------------------
(* The request machines. *)

\* netrx and nettx start on different clocks, blk when neither of them does.
LEMMA OneStarts ==
  ASSUME NEW t \in Ports!QTypes, NEW u \in Ports!QTypes, Ports!Starts(t), Ports!Starts(u)
  PROVE  t = u
  BY DEF Ports!Starts, Ports!Mark, Ports!QTypes

\* The same for the write port.
LEMMA OneUpdates ==
  ASSUME NEW t \in Ports!QTypes, NEW u \in Ports!QTypes, Ports!Updates(t), Ports!Updates(u)
  PROVE  t = u
  BY DEF Ports!Updates, Ports!Mark, Ports!QTypes

\* A priority is not felt by one who is alone.
LEMMA PreferredAlone ==
  ASSUME NEW t \in Ports!QTypes
  PROVE  Ports!Preferred({t}) = t
  BY DEF Ports!Preferred, Ports!QTypes

\* Nobody is preferred of nobody,
LEMMA PreferredNone == Ports!Preferred({}) = "none"
  BY DEF Ports!Preferred

\* and never anything but a type or nobody.
LEMMA PreferredType ==
  ASSUME NEW S \in SUBSET Ports!QTypes
  PROVE  Ports!Preferred(S) \in Ports!QTypes \cup {"none"}
  BY DEF Ports!Preferred, Ports!QTypes

\* Of a set with at most one type it picks that one.
LEMMA PreferredOf ==
  ASSUME NEW S \in SUBSET Ports!QTypes, \A t, u \in S : t = u, NEW t \in Ports!QTypes
  PROVE  Ports!Preferred(S) = t <=> t \in S
<1>1. CASE S = {}
  BY <1>1, PreferredNone DEF Ports!QTypes
<1>2. CASE S # {}
  <2>1. PICK u \in S : S = {u}
    BY <1>2
  <2> QED BY <2>1, PreferredAlone
<1> QED BY <1>1, <1>2

\* The write register holds the index of a machine exactly while that is in
\* FINISH with entries handed out; the read port the context of the one in RD_CTX.
PortsInv == Ports!TypeOK /\ Ports!SampleIsOwn /\ Ports!CiWritten

\* After reset the ports are empty and every machine waits.
LEMMA InitPortsInv == Ports!Init => PortsInv
  BY DEF Ports!Init, PortsInv, Ports!TypeOK, Ports!SampleIsOwn, Ports!CiWritten, Ports!QTypes, Ports!States

\* A clock keeps it: who starts is alone on the read port, who updates on the
\* write port.
LEMMA ClockPortsInv ==
  ASSUME PortsInv, NEW taken \in SUBSET Ports!Answering, NEW new \in SUBSET (Ports!QTypes \ Ports!Waiting),
         Ports!Clock(taken, new)
  PROVE  PortsInv'
<1> USE DEF PortsInv
<1>1. PICK carriers \in SUBSET {t \in Ports!QTypes : st[t] = "RD_CTX"} :
        carries' = {t \in carries : st[t] # "RD_CTX"} \cup carriers
  BY DEF Ports!Clock
<1>2. \A t \in Ports!QTypes : st'[t] = Ports!NextState(t, taken)
  BY DEF Ports!Clock
<1>3. \A t \in Ports!QTypes : Ports!NextState(t, taken) \in Ports!States
  <2> TAKE t \in Ports!QTypes
  <2>1. st[t] \in Ports!States
    BY DEF Ports!TypeOK
  <2> QED BY <2>1 DEF Ports!NextState, Ports!States
<1>4. Ports!TypeOK'
  <2>1. st' \in [Ports!QTypes -> Ports!States] /\ mark' \in {0, 1}
    BY <1>3 DEF Ports!Clock, Ports!TypeOK
  <2>2. vld' \subseteq Ports!QTypes /\ carries' \subseteq Ports!QTypes
    BY <1>1 DEF Ports!Clock, Ports!TypeOK, Ports!Waiting
  <2>3. ctxRsp' \in Ports!QTypes \cup {"none"} /\ ciWr' \in Ports!QTypes \cup {"none"}
    BY PreferredType DEF Ports!Clock, Ports!TypeOK
  <2> QED BY <2>1, <2>2, <2>3 DEF Ports!TypeOK
<1>5. Ports!SampleIsOwn'
  <2> SUFFICES ASSUME NEW t \in Ports!QTypes, st'[t] = "RD_CTX" PROVE ctxRsp' = t
    BY DEF Ports!SampleIsOwn
  <2>1. Ports!Starts(t)
    <3>1. st[t] \in Ports!States /\ Ports!NextState(t, taken) = "RD_CTX"
      BY <1>2 DEF Ports!TypeOK
    <3> QED BY <3>1 DEF Ports!NextState, Ports!States
  <2> DEFINE S == {u \in Ports!QTypes : Ports!Starts(u)}
  <2>2. t \in S /\ S \in SUBSET Ports!QTypes /\ \A u, v \in S : u = v
    BY <2>1, OneStarts
  <2>3. Ports!Preferred(S) = t
    <3> HIDE DEF S
    <3> QED BY <2>2, PreferredOf
  <2> QED BY <2>3 DEF Ports!Clock
<1>6. Ports!CiWritten'
  <2> SUFFICES ASSUME NEW t \in Ports!QTypes
               PROVE  (st'[t] = "FINISH" /\ t \in carries') <=> ciWr' = t
    BY DEF Ports!CiWritten
  <2>1. st'[t] = "FINISH" <=> Ports!Updates(t)
    <3>1. st[t] \in Ports!States /\ st'[t] = Ports!NextState(t, taken)
      BY <1>2 DEF Ports!TypeOK
    <3> QED BY <3>1 DEF Ports!NextState, Ports!States, Ports!Updates
  <2>2. Ports!Updates(t) => (t \in carries' <=> t \in carries)
    BY <1>1 DEF Ports!Updates
  <2> DEFINE S == {u \in carries : Ports!Updates(u)}
  <2>3. S \in SUBSET Ports!QTypes /\ \A u, v \in S : u = v
    BY OneUpdates DEF Ports!TypeOK
  <2>4. Ports!Preferred(S) = t <=> t \in S
    <3> HIDE DEF S
    <3> QED BY <2>3, PreferredOf
  <2>5. ciWr' = Ports!Preferred(S)
    BY DEF Ports!Clock
  <2> QED BY <2>1, <2>2, <2>4, <2>5
<1> QED BY <1>4, <1>5, <1>6

\* So does every step, whichever machine makes it.
LEMMA StepPortsInv == PortsInv /\ [Next]_vars => PortsInv'
<1> SUFFICES ASSUME PortsInv, [Next]_vars PROVE PortsInv'
  OBVIOUS
<1>1. CASE Ports!Next
  BY <1>1, ClockPortsInv DEF Ports!Next
<1>2. CASE UNCHANGED portsVars
  BY <1>2 DEF portsVars, PortsInv, Ports!TypeOK, Ports!SampleIsOwn, Ports!CiWritten
<1> QED BY <1>1, <1>2 DEF Next, BenchStep, PortsStep, MergingStep, vars

(***************************************************************************)
(* The context a machine samples in RD_CTX is that of its own queue: no    *)
(* two machines read in one clock (virtio_desc_req_ctrl.sv:401-407).       *)
(***************************************************************************)
THEOREM SamplesItsOwnQueue == Spec => []SampleIsOwn
<1>1. PortsInv => SampleIsOwn
  BY DEF PortsInv, SampleIsOwn
<1>2. Init => PortsInv
  BY InitPortsInv DEF Init
<1> QED BY <1>1, <1>2, StepPortsInv, PTL DEF Spec

(***************************************************************************)
(* A machine that leaves UPDATA_CI has its avail_ci in the write register, *)
(* and nothing else is ever in it (virtio_desc_req_ctrl.sv:615-639).       *)
(***************************************************************************)
THEOREM CiReachesContext == Spec => []CiWritten
<1>1. PortsInv => CiWritten
  BY DEF PortsInv, CiWritten
<1>2. Init => PortsInv
  BY InitPortsInv DEF Init
<1> QED BY <1>1, <1>2, StepPortsInv, PTL DEF Spec

-----------------------------------------------------------------------------
(* The merging of interrupts. *)

\* Both instances of the machine and of its predictor are the same.
LEMMA SameMachine ==
  /\ MergingProofs!Init <=> Merging!Init
  /\ MergingProofs!Next <=> Merging!Next
  /\ MergingProofs!Sizes <=> Merging!Sizes
  /\ MergingProofs!Timing <=> Merging!Timing
<1>1. MergingProofs!Init <=> Merging!Init
  BY DEF
      MergingProofs!Init, MergingProofs!NoOp, MergingProofs!OffWord, MergingProofs!Off,
      MergingProofs!Groups, MergingProofs!Lanes, Merging!Init, Merging!NoOp, Merging!OffWord,
      Merging!Off, Merging!Groups, Merging!Lanes
<1>2. MergingProofs!Next <=> Merging!Next
  BY DEF
      MergingProofs!Groups, MergingProofs!Lanes, MergingProofs!Off, MergingProofs!OffWord,
      MergingProofs!NoOp, MergingProofs!TimeTicks, MergingProofs!ScanSteps,
      MergingProofs!irq_in_rdy, MergingProofs!Stage0, MergingProofs!RamReads,
      MergingProofs!RamWrites, MergingProofs!Sees, MergingProofs!Unit, MergingProofs!Due,
      MergingProofs!Full, MergingProofs!TimeUp, MergingProofs!Fires, MergingProofs!Writes,
      MergingProofs!Stage2, MergingProofs!FirstLane, MergingProofs!HandedOut, MergingProofs!Waits,
      MergingProofs!Ages, MergingProofs!Clock, MergingProofs!Asks, MergingProofs!Next,
      Merging!Groups, Merging!Lanes, Merging!Off, Merging!OffWord, Merging!NoOp, Merging!TimeTicks,
      Merging!ScanSteps, Merging!irq_in_rdy, Merging!Stage0, Merging!RamReads, Merging!RamWrites,
      Merging!Sees, Merging!Unit, Merging!Due, Merging!Full, Merging!TimeUp, Merging!Fires,
      Merging!Writes, Merging!Stage2, Merging!FirstLane, Merging!HandedOut, Merging!Waits,
      Merging!Ages, Merging!Clock, Merging!Asks, Merging!Next
<1>3. MergingProofs!Sizes <=> Merging!Sizes
  BY DEF
      MergingProofs!Sizes, MergingProofs!Groups, MergingProofs!Lanes, Merging!Sizes, Merging!Groups,
      Merging!Lanes
<1>4. MergingProofs!Timing <=> Merging!Timing
  BY DEF MergingProofs!Timing, Merging!Timing
<1> QED BY <1>1, <1>2, <1>3, <1>4

\* Side by side with the others it makes its own steps only.
LEMMA MergingAlone == Spec => MergingProofs!Spec
<1>1. Init => MergingProofs!Init
  BY SameMachine DEF Init
<1>2. [Next]_vars => [MergingProofs!Next]_MergingProofs!vars
  <2>1. [Next]_vars => [Merging!Next]_mergingVars
    BY DEF Next, BenchStep, PortsStep, MergingStep, vars
  <2> QED BY <2>1, SameMachine DEF MergingProofs!vars, mergingVars
<1> QED BY <1>1, <1>2, PTL DEF Spec, MergingProofs!Spec

LEMMA SamePredictor ==
  /\ MergingProofs!Predict!PInit <=> Merging!Predict!PInit
  /\ MergingProofs!Predict!PNext <=> Merging!Predict!PNext
<1>1. MergingProofs!Predict!PInit <=> Merging!Predict!PInit
  BY DEF
      MergingProofs!Predict!PInit, MergingProofs!Predict!Queues, MergingProofs!Predict!Groups,
      MergingProofs!Predict!Lanes, MergingProofs!Predict!Off, Merging!Predict!PInit,
      Merging!Predict!Queues, Merging!Predict!Groups, Merging!Predict!Lanes, Merging!Predict!Off,
      MergingProofs!Groups, MergingProofs!Lanes, MergingProofs!Waits, MergingProofs!Promised,
      MergingProofs!QueuesOf, MergingProofs!Pending, MergingProofs!InOrder, MergingProofs!Lower,
      MergingProofs!Before, MergingProofs!Cardinality, Merging!Groups, Merging!Lanes, Merging!Waits,
      Merging!Promised, Merging!QueuesOf, Merging!Pending, Merging!InOrder, Merging!Lower,
      Merging!Before, Merging!Cardinality
<1>2. MergingProofs!Predict!PNext <=> Merging!Predict!PNext
  BY DEF
      MergingProofs!Predict!PNext, MergingProofs!Predict!Idle, MergingProofs!Predict!Reaches,
      MergingProofs!Predict!Merges, MergingProofs!Predict!Scans, MergingProofs!Predict!Expired,
      MergingProofs!Predict!HandsOut, MergingProofs!Predict!Unit, MergingProofs!Predict!Due,
      MergingProofs!Predict!InOrder, MergingProofs!Predict!Lower, MergingProofs!Predict!Before,
      MergingProofs!Predict!Cardinality, MergingProofs!Predict!Queues, MergingProofs!Predict!Groups,
      MergingProofs!Predict!Lanes, MergingProofs!Predict!Off, Merging!Predict!PNext,
      Merging!Predict!Idle, Merging!Predict!Reaches, Merging!Predict!Merges, Merging!Predict!Scans,
      Merging!Predict!Expired, Merging!Predict!HandsOut, Merging!Predict!Unit, Merging!Predict!Due,
      Merging!Predict!InOrder, Merging!Predict!Lower, Merging!Predict!Before,
      Merging!Predict!Cardinality, Merging!Predict!Queues, Merging!Predict!Groups,
      Merging!Predict!Lanes, Merging!Predict!Off,
      MergingProofs!Groups, MergingProofs!Lanes, MergingProofs!Waits, MergingProofs!Promised,
      MergingProofs!QueuesOf, MergingProofs!Pending, MergingProofs!InOrder, MergingProofs!Lower,
      MergingProofs!Before, MergingProofs!Cardinality, Merging!Groups, Merging!Lanes, Merging!Waits,
      Merging!Promised, Merging!QueuesOf, Merging!Pending, Merging!InOrder, Merging!Lower,
      Merging!Before, Merging!Cardinality
<1> QED BY <1>1, <1>2

(***************************************************************************)
(* virtio_irq_merge_core is the predictor of its bench, for any number of  *)
(* queues, thresholds and units of time                                    *)
(* (virtio_irq_merge_core_eng.sv:127).                                     *)
(***************************************************************************)
THEOREM MergesAsPredicted == Spec => PredictorAgrees
<1>1. MergingProofs!Spec => MergingProofs!PredictorAgrees
  BY LoadAssumption, SameMachine, MergingProofs!PredictorHolds
<1>2. MergingProofs!PredictorAgrees => PredictorAgrees
  <2> DEFINE mapped == <<[q \in Merging!Groups \X Merging!Lanes |-> Merging!Waits(q)], Merging!Promised, s2.ts>>
             other == <<[q \in MergingProofs!Groups \X MergingProofs!Lanes |-> MergingProofs!Waits(q)],
                        MergingProofs!Promised, s2.ts>>
  <2>1. [MergingProofs!Predict!PNext]_other => [Merging!Predict!PNext]_mapped
    BY SamePredictor DEF
      MergingProofs!Groups, MergingProofs!Lanes, MergingProofs!Waits, MergingProofs!Promised,
      MergingProofs!QueuesOf, MergingProofs!Pending, MergingProofs!InOrder, MergingProofs!Lower,
      MergingProofs!Before, MergingProofs!Cardinality, Merging!Groups, Merging!Lanes, Merging!Waits,
      Merging!Promised, Merging!QueuesOf, Merging!Pending, Merging!InOrder, Merging!Lower,
      Merging!Before, Merging!Cardinality
  <2> QED BY <2>1, SamePredictor, PTL DEF PredictorAgrees, Merging!PredictorAgrees, Merging!Predict!PSpec,
        MergingProofs!PredictorAgrees, MergingProofs!Predict!PSpec
<1> QED BY <1>1, <1>2, MergingAlone, PTL

(***************************************************************************)
(* An interrupt that waits is signalled in the third unit of time after it *)
(* began to wait, for any number of queues whose scan is over before the   *)
(* next tick (virtio_irq_merge_core_eng.sv:104).                           *)
(***************************************************************************)
THEOREM SignalledInTime == Spec => InTolerance
<1>1. MergingProofs!Spec => MergingProofs!InTolerance
  BY LoadAssumption, SameMachine, MergingProofs!ToleranceHolds
<1>2. MergingProofs!InTolerance => InTolerance
  BY PTL DEF InTolerance,
      MergingProofs!InTolerance, MergingProofs!vars, MergingProofs!Fires, MergingProofs!Full,
      MergingProofs!TimeUp, MergingProofs!Sees, MergingProofs!Unit, Merging!InTolerance,
      Merging!vars, Merging!Fires, Merging!Full, Merging!TimeUp, Merging!Sees, Merging!Unit
<1> QED BY <1>1, <1>2, MergingAlone, PTL

-----------------------------------------------------------------------------
(* The index engine: the in-flight limits, although the ready registers are  *)
(* an operation old.                                                         *)

\* Index reads and flag writes on their way, and with those that wait in the FIFO.
IdxReads == {r \in rdReq : r.kind = "idx"}
IdxCount == Cardinality(IdxReads) + Len(rdIdxFf)
WrCount  == Cardinality(wrReq) + Len(wrRspFf)

\* What is open at most while the register says there is room.
Room == IF Margin < FIFO_DEPTH THEN FIFO_DEPTH - Margin ELSE 0

\* The types of what is counted.
IdxRsps == [q : Q, idx : Bench!Idx, err : BOOLEAN]
FlagsRsps == [q : Q, err : BOOLEAN]
ReqTypeOK ==
  /\ op # <<>> => op = <<op[1]>> /\ op[1].q \in Q /\ op[1].type \in Bench!Types
  /\ rdIdxFf \in Seq(IdxRsps) /\ rdFlagsFf \in Seq(FlagsRsps) /\ wrRspFf \in Seq(Q)
  /\ \A r \in rdReq : r.q \in Q
  /\ \A w \in wrReq : w.q \in Q
  /\ IsFiniteSet(rdReq) /\ IsFiniteSet(wrReq)

\* An operation that may issue has been let in by a register that still stands.
GateInv ==
  \A i \in DOMAIN op :
    /\ op[i].type \in {"KICK_NOTIFY", "RD_NOTIFY_RSP"} => ready["idx"]
    /\ op[i].type = "KICK_NOTIFY" => ready["wr"]

\* The registers are late by one operation, which issues at most one of a kind.
RoomInv ==
  /\ IdxCount <= Room + 1 /\ (ready["idx"] => IdxCount <= Room)
  /\ WrCount <= Room + 1 /\ (ready["wr"] => WrCount <= Room)

\* A response that an operation stands for is still at the head of its FIFO.
HeadInv ==
  \A i \in DOMAIN op :
    /\ op[i].type = "RD_IDX_RSP" => rdIdxFf # <<>>
    /\ op[i].type = "RD_NOTIFY_RSP" => rdFlagsFf # <<>>
    /\ op[i].type = "WR_NOTIFY_RSP" => wrRspFf # <<>>

RoomIInv == ReqTypeOK /\ GateInv /\ HeadInv /\ RoomInv

-----------------------------------------------------------------------------
(* What is counted. *)

\* The engine counts as FiniteSets does.
LEMMA SameCount ==
  ASSUME NEW S
  PROVE  Bench!Cardinality(S) = Cardinality(S)
  BY Zenon DEF Bench!Cardinality, Cardinality

\* The counts are numbers, and the depth what remains of it.
LEMMA CountsAre ==
  ASSUME ReqTypeOK
  PROVE  /\ IdxCount \in Nat /\ WrCount \in Nat /\ Room \in Nat
         /\ IsFiniteSet(IdxReads) /\ Cardinality(IdxReads) \in Nat /\ Cardinality(wrReq) \in Nat
         /\ Len(rdIdxFf) \in Nat /\ Len(wrRspFf) \in Nat
<1>1. IsFiniteSet(IdxReads) /\ IsFiniteSet(wrReq)
  <2>1. IdxReads \in SUBSET rdReq
    BY DEF IdxReads
  <2> QED BY <2>1, FS_Subset DEF ReqTypeOK
<1>2. Cardinality(IdxReads) \in Nat /\ Cardinality(wrReq) \in Nat
  BY <1>1, FS_CardinalityType
<1>3. Len(rdIdxFf) \in Nat /\ Len(wrRspFf) \in Nat
  BY LenProperties DEF ReqTypeOK
<1>4. Room \in Nat
  BY LoadAssumption DEF Room
<1> QED BY <1>1, <1>2, <1>3, <1>4 DEF IdxCount, WrCount

\* The registers are loaded from these counts.
LEMMA FreshMeans ==
  /\ Bench!FreshReady["idx"] <=> IdxCount < FIFO_DEPTH - Margin
  /\ Bench!FreshReady["wr"] <=> WrCount < FIFO_DEPTH - Margin
<1>1. Bench!Inflight["idx"] = IdxCount /\ Bench!Inflight["wr"] = WrCount
  BY SameCount DEF Bench!Inflight, IdxCount, WrCount, IdxReads
<1>2. \A k \in Bench!Kinds \cup {"wr"} : Bench!FreshReady[k] = (Bench!Inflight[k] < FIFO_DEPTH - Margin)
  BY DEF Bench!FreshReady
<1>3. "idx" \in Bench!Kinds \cup {"wr"} /\ "wr" \in Bench!Kinds \cup {"wr"}
  BY DEF Bench!Kinds
<1> QED BY <1>1, <1>2, <1>3

\* A register that says there is room leaves one place for the next operation.
LEMMA FreshLeavesOne ==
  ASSUME ReqTypeOK
  PROVE  /\ Bench!FreshReady["idx"] => IdxCount + 1 <= Room
         /\ Bench!FreshReady["wr"] => WrCount + 1 <= Room
  BY FreshMeans, CountsAre, LoadAssumption DEF Room

-----------------------------------------------------------------------------
(* The steps. *)

\* The engine starts idle, with room.
LEMMA InitRoom == Bench!Init => RoomIInv
<1> SUFFICES ASSUME Bench!Init PROVE RoomIInv
  OBVIOUS
<1>1. /\ op = <<>> /\ rdIdxFf = <<>> /\ rdFlagsFf = <<>> /\ wrRspFf = <<>> /\ rdReq = {} /\ wrReq = {}
  BY DEF Bench!Init, Bench!EngInit
<1>2. ReqTypeOK
  BY <1>1, FS_EmptySet, EmptySeq DEF ReqTypeOK
<1>3. IdxReads = {}
  BY <1>1 DEF IdxReads
<1>4. IdxCount = 0 /\ WrCount = 0
  BY <1>1, <1>3, FS_EmptySet DEF IdxCount, WrCount
<1>5. GateInv /\ HeadInv
  BY <1>1 DEF GateInv, HeadInv
<1>6. RoomInv
  BY <1>2, <1>4, CountsAre DEF RoomInv
<1> QED BY <1>2, <1>5, <1>6 DEF RoomIInv

\* A write response leaves the bus for its FIFO.
LEMMA WrRspRoom ==
  ASSUME RoomIInv, NEW w \in wrReq, Bench!DmaWrRsp(w)
  PROVE  RoomIInv'
<1>1. /\ wrReq' = wrReq \ {w} /\ wrRspFf' = Append(wrRspFf, w.q)
      /\ UNCHANGED <<op, rdIdxFf, rdFlagsFf, rdReq, ready>>
  BY DEF Bench!DmaWrRsp
<1>2. w.q \in Q /\ wrRspFf \in Seq(Q) /\ IsFiniteSet(wrReq)
  BY DEF RoomIInv, ReqTypeOK
<1>3. Len(wrRspFf') = Len(wrRspFf) + 1 /\ wrRspFf' \in Seq(Q) /\ wrRspFf' # <<>>
  BY <1>1, <1>2, AppendProperties
<1>4. IsFiniteSet(wrReq') /\ Cardinality(wrReq') = Cardinality(wrReq) - 1
  BY <1>1, <1>2, FS_RemoveElement
<1>5. ReqTypeOK'
  BY <1>1, <1>3, <1>4 DEF RoomIInv, ReqTypeOK
<1>6. WrCount' = WrCount /\ IdxCount' = IdxCount
  <2>1. Cardinality(wrReq) \in Nat /\ Len(wrRspFf) \in Nat
    BY CountsAre DEF RoomIInv
  <2> QED BY <1>1, <1>3, <1>4, <2>1 DEF WrCount, IdxCount, IdxReads
<1>7. GateInv' /\ HeadInv'
  BY <1>1, <1>3 DEF RoomIInv, GateInv, HeadInv
<1>8. RoomInv'
  BY <1>1, <1>6 DEF RoomIInv, RoomInv, Room
<1> QED BY <1>5, <1>7, <1>8 DEF RoomIInv

\* So does the response of a read.
LEMMA RdRspRoom ==
  ASSUME RoomIInv, NEW r \in rdReq, Bench!DmaRdRsp(r)
  PROVE  RoomIInv'
<1> DEFINE e == [q |-> r.q, idx |-> 0, err |-> FALSE]
           f == [q |-> r.q, err |-> FALSE]
<1>1. /\ rdReq' = rdReq \ {r} /\ UNCHANGED <<op, wrRspFf, wrReq, ready>>
      /\ rdIdxFf' = IF r.kind = "idx" THEN Append(rdIdxFf, e) ELSE rdIdxFf
      /\ rdFlagsFf' = IF r.kind = "idx" THEN rdFlagsFf ELSE Append(rdFlagsFf, f)
  BY DEF Bench!DmaRdRsp
<1>2. e \in IdxRsps /\ f \in FlagsRsps
  BY LoadAssumption DEF RoomIInv, ReqTypeOK, Bench!Idx, IdxRsps, FlagsRsps
<1> HIDE DEF e, f
<1>3. rdIdxFf \in Seq(IdxRsps) /\ rdFlagsFf \in Seq(FlagsRsps) /\ IsFiniteSet(rdReq)
  BY DEF RoomIInv, ReqTypeOK
<1>4. /\ rdIdxFf' \in Seq(IdxRsps)
      /\ Len(rdIdxFf') = IF r.kind = "idx" THEN Len(rdIdxFf) + 1 ELSE Len(rdIdxFf)
      /\ rdIdxFf # <<>> => rdIdxFf' # <<>>
      /\ rdFlagsFf' \in Seq(FlagsRsps)
      /\ rdFlagsFf # <<>> => rdFlagsFf' # <<>>
  BY <1>1, <1>2, <1>3, AppendProperties
<1>5. IsFiniteSet(rdReq')
  BY <1>1, <1>3, FS_RemoveElement
<1>6. ReqTypeOK'
  BY <1>1, <1>4, <1>5 DEF RoomIInv, ReqTypeOK
<1>7. IdxReads' = IdxReads \ {r} /\ (r.kind = "idx" <=> r \in IdxReads)
  BY <1>1 DEF IdxReads
<1>8. /\ IsFiniteSet(IdxReads) /\ Cardinality(IdxReads) \in Nat /\ Len(rdIdxFf) \in Nat
  BY CountsAre DEF RoomIInv
<1>9. Cardinality(IdxReads') = IF r \in IdxReads THEN Cardinality(IdxReads) - 1 ELSE Cardinality(IdxReads)
  BY <1>7, <1>8, FS_RemoveElement
<1>10. WrCount' = WrCount /\ IdxCount' = IdxCount
  BY <1>1, <1>4, <1>7, <1>8, <1>9 DEF WrCount, IdxCount
<1>11. GateInv' /\ HeadInv'
  BY <1>1, <1>4 DEF RoomIInv, GateInv, HeadInv
<1>12. RoomInv'
  BY <1>1, <1>10 DEF RoomIInv, RoomInv, Room
<1> QED BY <1>6, <1>11, <1>12 DEF RoomIInv

\* The registers follow the counts.
LEMMA ReadyRoom ==
  ASSUME RoomIInv, Bench!EngineReady
  PROVE  RoomIInv'
<1>1. ready' = Bench!FreshReady /\ op = <<>> /\ UNCHANGED <<op, rdIdxFf, rdFlagsFf, wrRspFf, rdReq, wrReq>>
  BY DEF Bench!EngineReady, Bench!LatchReady
<1>2. ReqTypeOK' /\ GateInv' /\ HeadInv'
  BY <1>1 DEF RoomIInv, ReqTypeOK, GateInv, HeadInv
<1>3. IdxCount' = IdxCount /\ WrCount' = WrCount
  BY <1>1 DEF IdxCount, WrCount, IdxReads
<1>4. RoomInv'
  BY <1>1, <1>3, CountsAre, FreshLeavesOne DEF RoomIInv, RoomInv, Room
<1> QED BY <1>2, <1>4 DEF RoomIInv

\* An operation starts: the registers let it in.
LEMMA BeginRoom ==
  ASSUME RoomIInv, Bench!EngineRsp \/ \E q \in Q : Bench!EngineKick(q)
  PROVE  RoomIInv'
<1>1. UNCHANGED <<rdIdxFf, rdFlagsFf, wrRspFf, rdReq, wrReq, ready>>
  BY DEF Bench!EngineRsp, Bench!EngineKick, Bench!SelectRsp, Bench!SelectKick, Bench!Begin
<1>2. PICK o : /\ op' = <<o>> /\ o.q \in Q
               /\ o.type \in {"KICK_NOTIFY", "RD_NOTIFY_RSP"} => ready["idx"]
               /\ o.type = "KICK_NOTIFY" => ready["wr"]
               /\ o.type = "RD_IDX_RSP" => rdIdxFf # <<>>
               /\ o.type \in Bench!Types
               /\ o.type = "RD_NOTIFY_RSP" => rdFlagsFf # <<>>
               /\ o.type = "WR_NOTIFY_RSP" => wrRspFf # <<>>
  <2>1. ASSUME Bench!EngineRsp
        PROVE  \E o : /\ op' = <<o>> /\ o.q \in Q
                      /\ o.type = "RD_NOTIFY_RSP" => ready["idx"]
                      /\ o.type \in Bench!Types \ {"KICK_NOTIFY"}
                      /\ o.type = "RD_IDX_RSP" => rdIdxFf # <<>>
                      /\ o.type = "RD_NOTIFY_RSP" => rdFlagsFf # <<>>
                      /\ o.type = "WR_NOTIFY_RSP" => wrRspFf # <<>>
    <3> DEFINE r == Head(rdIdxFf)
               f == Head(rdFlagsFf)
    <3>1. CASE Bench!IdxRspReady /\ op' = <<Bench!Sampled("RD_IDX_RSP", r.q, r.idx, r.err)>>
      <4>1. r.q \in Q
        <5>1. rdIdxFf \in Seq(IdxRsps) /\ rdIdxFf # <<>>
          BY <3>1 DEF Bench!IdxRspReady, RoomIInv, ReqTypeOK
        <5>2. r \in IdxRsps
          BY <5>1, HeadTailProperties
        <5> QED BY <5>2 DEF IdxRsps
      <4> DEFINE o == Bench!Sampled("RD_IDX_RSP", r.q, r.idx, r.err)
      <4>2. o.type = "RD_IDX_RSP" /\ o.q = r.q
        BY DEF Bench!Sampled
      <4>3. rdIdxFf # <<>> /\ op' = <<o>>
        BY <3>1 DEF Bench!IdxRspReady
      <4> HIDE DEF o, r
      <4> QED BY <4>1, <4>2, <4>3 DEF Bench!Types
    <3>2. CASE Bench!FlagsRspReady /\ op' = <<Bench!Sampled("RD_NOTIFY_RSP", f.q, 0, f.err)>>
      <4> DEFINE o == Bench!Sampled("RD_NOTIFY_RSP", f.q, 0, f.err)
      <4>1. f.q \in Q
        <5>1. rdFlagsFf \in Seq(FlagsRsps) /\ rdFlagsFf # <<>>
          BY <3>2 DEF Bench!FlagsRspReady, RoomIInv, ReqTypeOK
        <5>2. f \in FlagsRsps
          BY <5>1, HeadTailProperties
        <5> QED BY <5>2 DEF FlagsRsps
      <4>2. o.type = "RD_NOTIFY_RSP" /\ o.q = f.q
        BY DEF Bench!Sampled
      <4>3. ready["idx"] /\ rdFlagsFf # <<>> /\ op' = <<o>>
        BY <3>2 DEF Bench!FlagsRspReady
      <4> HIDE DEF o, f
      <4> QED BY <4>1, <4>2, <4>3 DEF Bench!Types
    <3>3. CASE Bench!WrRspReady /\ op' = <<Bench!Sampled("WR_NOTIFY_RSP", Head(wrRspFf), 0, FALSE)>>
      <4> DEFINE o == Bench!Sampled("WR_NOTIFY_RSP", Head(wrRspFf), 0, FALSE)
      <4>1. Head(wrRspFf) \in Q
        BY <3>3, HeadTailProperties DEF Bench!WrRspReady, RoomIInv, ReqTypeOK
      <4>2. o.type = "WR_NOTIFY_RSP" /\ o.q = Head(wrRspFf)
        BY DEF Bench!Sampled
      <4>3. wrRspFf # <<>> /\ op' = <<o>>
        BY <3>3 DEF Bench!WrRspReady
      <4> HIDE DEF o
      <4> QED BY <4>1, <4>2, <4>3 DEF Bench!Types
    <3> QED BY <2>1, <3>1, <3>2, <3>3 DEF Bench!EngineRsp, Bench!SelectRsp, Bench!Begin
  <2>2. ASSUME NEW q \in Q, Bench!EngineKick(q)
        PROVE  \E o : /\ op' = <<o>> /\ o.q \in Q
                      /\ ready["idx"] /\ ready["wr"] /\ o.type = "KICK_NOTIFY"
    <3>1. op' = <<Bench!Sampled("KICK_NOTIFY", q, 0, FALSE)>> /\ ready["idx"] /\ ready["wr"]
      BY <2>2 DEF Bench!EngineKick, Bench!SelectKick, Bench!Begin, Bench!KickReady, Bench!Kinds
    <3>2. Bench!Sampled("KICK_NOTIFY", q, 0, FALSE).q = q
          /\ Bench!Sampled("KICK_NOTIFY", q, 0, FALSE).type = "KICK_NOTIFY"
      BY DEF Bench!Sampled
    <3> QED BY <3>1, <3>2
  <2> QED BY <2>1, <2>2 DEF Bench!Types
<1>3. ReqTypeOK' /\ GateInv' /\ HeadInv'
  BY <1>1, <1>2 DEF RoomIInv, ReqTypeOK, GateInv, HeadInv
<1>4. IdxCount' = IdxCount /\ WrCount' = WrCount
  BY <1>1 DEF IdxCount, WrCount, IdxReads
<1>5. RoomInv'
  BY <1>1, <1>4 DEF RoomIInv, RoomInv, Room
<1> QED BY <1>3, <1>5 DEF RoomIInv

\* A request more.
LEMMA OneMore ==
  ASSUME NEW S, IsFiniteSet(S), NEW x
  PROVE  Cardinality(S \cup {x}) \in Nat /\ Cardinality(S \cup {x}) <= Cardinality(S) + 1
<1>1. Cardinality(S \cup {x}) = IF x \in S THEN Cardinality(S) ELSE Cardinality(S) + 1
  BY FS_AddElement
<1>2. Cardinality(S) \in Nat
  BY FS_CardinalityType
<1> QED BY <1>1, <1>2

\* A pop leaves one entry less.
LEMMA TailOf ==
  ASSUME NEW S, NEW s \in Seq(S), s # <<>>
  PROVE  Tail(s) \in Seq(S) /\ Len(Tail(s)) + 1 = Len(s)
<1>1. Len(s) \in Nat /\ Len(s) # 0
  BY LenProperties, EmptySeq
<1> QED BY <1>1, HeadTailProperties

\* An operation issues one request at most, and only where it was let in.
LEMMA CompleteRoom ==
  ASSUME RoomIInv, Bench!EngineComplete
  PROVE  RoomIInv'
<1> DEFINE o == op[1]
<1>1. op # <<>> /\ op = <<o>> /\ o.q \in Q /\ 1 \in DOMAIN op
  BY DEF Bench!EngineComplete, Bench!Complete, RoomIInv, ReqTypeOK
<1>2. /\ Bench!Issued(o) = "rd_idx" => ready["idx"] /\ o.type # "RD_IDX_RSP"
      /\ Bench!Issued(o) = "wr_flags" => ready["wr"] /\ o.type # "WR_NOTIFY_RSP"
  <2>1. /\ o.type \in {"KICK_NOTIFY", "RD_NOTIFY_RSP"} => ready["idx"]
        /\ o.type = "KICK_NOTIFY" => ready["wr"]
    BY <1>1 DEF RoomIInv, GateInv
  <2>2. o.type \in Bench!Types
    BY <1>1 DEF RoomIInv, ReqTypeOK
  <2> HIDE DEF o
  <2>3. Bench!Issued(o) = "rd_idx" => o.type \in {"KICK_NOTIFY", "RD_NOTIFY_RSP"}
    BY <2>2 DEF Bench!Issued, Bench!Command, Bench!Types
  <2>4. Bench!Issued(o) = "wr_flags" => o.type = "KICK_NOTIFY"
    BY <2>2 DEF Bench!Issued, Bench!Command, Bench!Types
  <2> QED BY <2>1, <2>3, <2>4
<1>3. /\ op' = <<>> /\ ready' = Bench!FreshReady
      /\ rdReq' = rdReq \cup IF Bench!Issued(o) = "rd_idx" THEN {[q |-> o.q, kind |-> "idx"]}
                  ELSE IF Bench!Issued(o) = "rd_flags" THEN {[q |-> o.q, kind |-> "flags"]} ELSE {}
      /\ wrReq' = wrReq \cup
                  IF Bench!Issued(o) = "wr_flags" THEN {[q |-> o.q, flags |-> ~o.ctx.noNotify]} ELSE {}
      /\ rdIdxFf' = IF o.type = "RD_IDX_RSP" THEN Tail(rdIdxFf) ELSE rdIdxFf
      /\ rdFlagsFf' = IF o.type = "RD_NOTIFY_RSP" THEN Tail(rdFlagsFf) ELSE rdFlagsFf
      /\ wrRspFf' = IF o.type = "WR_NOTIFY_RSP" THEN Tail(wrRspFf) ELSE wrRspFf
  BY DEF Bench!EngineComplete, Bench!Complete
<1>4. /\ rdIdxFf \in Seq(IdxRsps) /\ rdFlagsFf \in Seq(FlagsRsps) /\ wrRspFf \in Seq(Q)
      /\ IsFiniteSet(rdReq) /\ IsFiniteSet(wrReq)
      /\ \A r \in rdReq : r.q \in Q
      /\ \A w \in wrReq : w.q \in Q
      /\ o.type = "RD_IDX_RSP" => rdIdxFf # <<>>
      /\ o.type = "RD_NOTIFY_RSP" => rdFlagsFf # <<>>
      /\ o.type = "WR_NOTIFY_RSP" => wrRspFf # <<>>
  BY <1>1 DEF RoomIInv, ReqTypeOK, HeadInv
<1> HIDE DEF o
<1>5. /\ rdIdxFf' \in Seq(IdxRsps) /\ rdFlagsFf' \in Seq(FlagsRsps) /\ wrRspFf' \in Seq(Q)
      /\ Len(rdIdxFf') \in Nat /\ Len(wrRspFf') \in Nat
      /\ Len(rdIdxFf') <= Len(rdIdxFf) /\ Len(wrRspFf') <= Len(wrRspFf)
  BY <1>3, <1>4, TailOf, LenProperties
<1>6. ReqTypeOK'
  <2>1. IsFiniteSet(rdReq')
    BY <1>3, <1>4, FS_AddElement
  <2>2. IsFiniteSet(wrReq')
    BY <1>3, <1>4, FS_AddElement
  <2>3. \A r \in rdReq' : r.q \in Q
    BY <1>1, <1>3, <1>4
  <2>4. \A w \in wrReq' : w.q \in Q
    BY <1>1, <1>3, <1>4
  <2> QED BY <1>3, <1>5, <2>1, <2>2, <2>3, <2>4 DEF ReqTypeOK
<1>7. GateInv' /\ HeadInv'
  BY <1>3 DEF GateInv, HeadInv
<1>8. /\ IsFiniteSet(IdxReads) /\ Cardinality(IdxReads) \in Nat /\ Cardinality(wrReq) \in Nat
      /\ Len(rdIdxFf) \in Nat /\ Len(wrRspFf) \in Nat /\ Room \in Nat
      /\ IdxCount \in Nat /\ WrCount \in Nat
  BY CountsAre DEF RoomIInv
<1>9. /\ IdxCount' \in Nat
      /\ IdxCount' <= IdxCount + (IF Bench!Issued(o) = "rd_idx" THEN 1 ELSE 0)
  <2>1. CASE Bench!Issued(o) = "rd_idx"
    <3> DEFINE r == [q |-> o.q, kind |-> "idx"]
    <3>1. IdxReads' = IdxReads \cup {r}
      BY <1>3, <2>1 DEF IdxReads
    <3> HIDE DEF r
    <3>2. Cardinality(IdxReads') \in Nat /\ Cardinality(IdxReads') <= Cardinality(IdxReads) + 1
      BY <3>1, <1>8, OneMore
    <3> QED BY <3>2, <2>1, <1>5, <1>8 DEF IdxCount
  <2>2. CASE Bench!Issued(o) # "rd_idx"
    <3>1. IdxReads' = IdxReads
      BY <1>3, <2>2 DEF IdxReads
    <3> QED BY <3>1, <2>2, <1>5, <1>8 DEF IdxCount
  <2> QED BY <2>1, <2>2
<1>10. /\ WrCount' \in Nat
       /\ WrCount' <= WrCount + (IF Bench!Issued(o) = "wr_flags" THEN 1 ELSE 0)
  <2>1. CASE Bench!Issued(o) = "wr_flags"
    <3> DEFINE w == [q |-> o.q, flags |-> ~o.ctx.noNotify]
    <3>1. wrReq' = wrReq \cup {w}
      BY <1>3, <2>1
    <3> HIDE DEF w
    <3>2. Cardinality(wrReq') \in Nat /\ Cardinality(wrReq') <= Cardinality(wrReq) + 1
      BY <3>1, <1>4, <1>8, OneMore
    <3> QED BY <3>2, <2>1, <1>5, <1>8 DEF WrCount
  <2>2. CASE Bench!Issued(o) # "wr_flags"
    <3>1. wrReq' = wrReq
      BY <1>3, <2>2
    <3> QED BY <3>1, <2>2, <1>5, <1>8 DEF WrCount
  <2> QED BY <2>1, <2>2
<1>11. RoomInv'
  <2>1. Room' = Room
    BY DEF Room
  <2>2. /\ IdxCount <= Room + 1 /\ (ready["idx"] => IdxCount <= Room)
        /\ WrCount <= Room + 1 /\ (ready["wr"] => WrCount <= Room)
    BY DEF RoomIInv, RoomInv
  <2>3. /\ ready'["idx"] => IdxCount + 1 <= Room
        /\ ready'["wr"] => WrCount + 1 <= Room
    BY <1>3, FreshLeavesOne DEF RoomIInv
  <2>4. IdxCount' <= Room + 1 /\ (ready'["idx"] => IdxCount' <= Room)
    BY <1>2, <1>8, <1>9, <2>2, <2>3
  <2>5. WrCount' <= Room + 1 /\ (ready'["wr"] => WrCount' <= Room)
    BY <1>2, <1>8, <1>10, <2>2, <2>3
  <2> QED BY <2>1, <2>4, <2>5 DEF RoomInv
<1> QED BY <1>6, <1>7, <1>11 DEF RoomIInv

\* Every step of the engine keeps it, and the others leave it alone.
LEMMA StepRoom == RoomIInv /\ [Next]_vars => RoomIInv'
<1> SUFFICES ASSUME RoomIInv, [Next]_vars PROVE RoomIInv'
  OBVIOUS
<1>1. ASSUME UNCHANGED <<op, rdIdxFf, rdFlagsFf, wrRspFf, rdReq, wrReq, ready>> PROVE RoomIInv'
  BY <1>1 DEF RoomIInv, ReqTypeOK, GateInv, HeadInv, RoomInv, Room, IdxCount, WrCount, IdxReads
<1>2. CASE UNCHANGED benchVars
  BY <1>1, <1>2 DEF benchVars
<1>3. CASE Bench!Next
  <2>1. ASSUME NEW q \in Q, Bench!Kick(q) PROVE RoomIInv'
    BY <1>1, <2>1 DEF Bench!Kick, Bench!engVars
  <2>2. CASE Bench!EngineAnswered
    BY <1>1, <2>2 DEF Bench!EngineAnswered
  <2> QED BY <1>3, <2>1, <2>2, WrRspRoom, RdRspRoom, ReadyRoom, BeginRoom, CompleteRoom DEF Bench!Next
<1> QED BY <1>2, <1>3 DEF Next, BenchStep, PortsStep, MergingStep, vars

\* So it holds whatever runs under load.
LEMMA RoomHolds == Spec => []RoomIInv
<1>1. Init => RoomIInv
  BY InitRoom DEF Init
<1> QED BY <1>1, StepRoom, PTL DEF Spec

(***************************************************************************)
(* Of the index reads and of the flag writes no more are open at any time  *)
(* than FIFO_DEPTH - Margin + 1, the one that a late ready register lets   *)
(* through included (virtio_idx_engine_top.sv:556-568).                    *)
(***************************************************************************)
THEOREM OpenIsLimited ==
  ASSUME Margin < FIFO_DEPTH
  PROVE  Spec => [](/\ Bench!Inflight["idx"] <= FIFO_DEPTH - Margin + 1
                    /\ Bench!Inflight["wr"] <= FIFO_DEPTH - Margin + 1)
<1>1. RoomIInv => /\ Bench!Inflight["idx"] <= FIFO_DEPTH - Margin + 1
                  /\ Bench!Inflight["wr"] <= FIFO_DEPTH - Margin + 1
  <2>1. Bench!Inflight["idx"] = IdxCount /\ Bench!Inflight["wr"] = WrCount
    BY SameCount DEF Bench!Inflight, IdxCount, WrCount, IdxReads
  <2> QED BY <2>1 DEF RoomIInv, RoomInv, Room
<1> QED BY <1>1, RoomHolds, PTL

(***************************************************************************)
(* The index and the write response FIFO never overflow, for any number of *)
(* queues kicked at will and any depth of the FIFOs (dfx_err,              *)
(* virtio_idx_engine_top.sv:612-618): a margin of one makes up for ready   *)
(* registers that are one operation old; the code keeps four.              *)
(***************************************************************************)
THEOREM ResponsesFit == Spec => []RespFifosFit
<1>1. Room + 1 <= FIFO_DEPTH
  BY LoadAssumption DEF Room
<1>2. RoomIInv => RespFifosFit
  <2> SUFFICES ASSUME RoomIInv PROVE RespFifosFit
    OBVIOUS
  <2>1. Len(rdIdxFf) <= IdxCount /\ Len(wrRspFf) <= WrCount
    BY CountsAre DEF RoomIInv, IdxCount, WrCount
  <2>2. IdxCount <= Room + 1 /\ WrCount <= Room + 1
    BY DEF RoomIInv, RoomInv
  <2> QED BY <1>1, <2>1, <2>2, CountsAre, LoadAssumption DEF RespFifosFit, Bench!RespFifosFit, RoomIInv
<1> QED BY <1>2, RoomHolds, PTL
=============================================================================
