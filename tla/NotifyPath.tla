----------------------------- MODULE NotifyPath -----------------------------
(***************************************************************************)
(* How a buffer the driver posts becomes known to the device: the driver   *)
(* moves avail->idx and rings the doorbell unless used->flags says not to, *)
(* virtio_db_sch merges doorbells with SoC notifies, the scheduler queues  *)
(* them, the index engine reads avail->idx over DMA and wakes the avail    *)
(* ring engine.  Software starts, stops and resumes the queue meanwhile.   *)
(*                                                                         *)
(* The scheduler is used through its specification, QueueService, which    *)
(* virtio_sch implements.  Driver, host memory and DMA are not part of the *)
(* repository; they are modelled from what the index engine assumes.       *)
(***************************************************************************)
EXTENDS IdxEngine, DbSch

CONSTANTS
  Env,                \* what happens: a subset of EnvEvents
  DbDepth,            \* doorbells on their way through PCIe
  LandDepth           \* room of the DMA write path, for its sav

EnvEvents == {"post", "stop", "resume", "dma_err"}

ASSUME NotifyPathAssumption == Env \subseteq EnvEvents /\ {DbDepth, LandDepth} \subseteq Nat \ {0}

VARIABLES
  hostIdx,            \* avail->idx in host memory
  hostFlags,          \* used->flags in host memory is NO_NOTIFY
  posted,             \* the driver moved hostIdx and has not looked at hostFlags yet
  landing,            \* flag writes on their way to host memory, in order
  doorbells,          \* doorbell requests on their way to the device
  socReq,             \* soc_notify_req register of virtio_ctx
  want, serving,      \* the index engine's scheduler
  ringToken           \* queues the avail ring engine's scheduler holds

hostVars == <<hostIdx, hostFlags, posted, landing, doorbells>>
schVars  == <<want, serving>>
swVars   == <<status, forced, socReq>>
vars == <<engVars, dbVars, hostVars, schVars, swVars, availUi, ringToken>>

Sch == INSTANCE QueueService

TypeOK ==
  /\ EngTypeOK
  /\ dbReq \in Seq(Q) /\ dbStat \in {"IDLE", "SOC", "DOORBELL"} /\ dbMask \subseteq {0, 1}
  /\ hostIdx \in [Q -> Idx] /\ hostFlags \in [Q -> BOOLEAN] /\ posted \subseteq Q
  /\ landing \in Seq([q : Q, flags : BOOLEAN])
  /\ doorbells \in Seq(Q) /\ socReq \in Seq(Q)
  /\ Sch!TypeOK /\ ringToken \subseteq Q

\* The queues have just been configured and are about to be started.
Init ==
  /\ EngInit /\ DbInit
  /\ status = [q \in Q |-> "STARTING"] /\ forced = [q \in Q |-> FALSE]
  /\ ctx = [q \in Q |-> CtxInit(0)] /\ availUi = [q \in Q |-> 0]
  /\ hostIdx = [q \in Q |-> 0] /\ hostFlags = [q \in Q |-> FALSE]
  /\ posted = {} /\ landing = <<>> /\ doorbells = <<>> /\ socReq = <<>>
  /\ want = {} /\ serving = {} /\ ringToken = {}

-----------------------------------------------------------------------------
(* The driver. *)

\* A buffer is posted while the ring has room: the index moves first ...
Post(q) ==
  /\ "post" \in Env
  /\ q \notin posted
  /\ Minus(hostIdx[q], availUi[q]) < QSize
  /\ hostIdx' = [hostIdx EXCEPT ![q] = (@ + 1) % IdxMod]
  /\ posted' = posted \cup {q}
  /\ UNCHANGED <<engVars, dbVars, hostFlags, landing, doorbells, schVars, swVars, availUi, ringToken>>

\* ... and then the flags are read, and the doorbell rung if they allow it.
CheckFlags(q) ==
  /\ q \in posted
  /\ posted' = posted \ {q}
  /\ \/ hostFlags[q] /\ UNCHANGED doorbells
     \/ ~hostFlags[q] /\ Len(doorbells) < DbDepth /\ doorbells' = Append(doorbells, q)
  /\ UNCHANGED <<engVars, dbVars, hostIdx, hostFlags, landing, schVars, swVars, availUi, ringToken>>

-----------------------------------------------------------------------------
(* DMA. *)

DmaErr == IF "dma_err" \in Env THEN BOOLEAN ELSE {FALSE}

\* A posted write: the response does not wait for the write to reach the host.
DmaWrRsp(w) ==
  /\ w \in wrReq
  /\ wrReq' = wrReq \ {w}
  /\ wrRspFf' = Append(wrRspFf, w.q)
  /\ UNCHANGED <<ctx, op, rdIdxFf, rdFlagsFf, rdReq, ready, idxNotify, errReq, notifyRsp>>
  /\ UNCHANGED <<dbVars, hostVars, schVars, swVars, availUi, ringToken>>

\* Posted writes reach the host in order.
Land ==
  /\ landing # <<>>
  /\ landing' = Tail(landing)
  /\ hostFlags' = [hostFlags EXCEPT ![Head(landing).q] = Head(landing).flags]
  /\ UNCHANGED <<engVars, dbVars, hostIdx, posted, doorbells, schVars, swVars, availUi, ringToken>>

\* A read does not overtake the writes before it; a failed one returns any
\* data.  How long the response waits
\* in its FIFO also stands for how long it travels.
DmaRdRsp(r) ==
  /\ r \in rdReq
  /\ \A i \in DOMAIN landing : landing[i].q # r.q
  /\ rdReq' = rdReq \ {r}
  /\ \E err \in DmaErr : \E idx \in (IF err THEN Idx ELSE {hostIdx[r.q]}) :
       IF r.kind = "idx"
       THEN /\ rdIdxFf' = Append(rdIdxFf, [q |-> r.q, idx |-> idx, err |-> err])
            /\ UNCHANGED rdFlagsFf
       ELSE /\ rdFlagsFf' = Append(rdFlagsFf, [q |-> r.q, err |-> err])
            /\ UNCHANGED rdIdxFf
  /\ UNCHANGED <<ctx, op, wrRspFf, wrReq, ready, idxNotify, errReq, notifyRsp>>
  /\ UNCHANGED <<dbVars, hostVars, schVars, swVars, availUi, ringToken>>

-----------------------------------------------------------------------------
(* virtio_db_sch between its sources and the scheduler. *)

DbLines ==
  (IF socReq # <<>> THEN {SocPort} ELSE {}) \cup (IF doorbells # <<>> THEN {DoorbellPort} ELSE {})

DoorbellArbitrate ==
  /\ DbArbitrate(DbLines)
  /\ UNCHANGED <<engVars, hostVars, schVars, swVars, availUi, ringToken>>

TakeDoorbell ==
  /\ DbLoad("DOORBELL", Head(doorbells))
  /\ doorbells' = Tail(doorbells)
  /\ UNCHANGED <<engVars, hostIdx, hostFlags, posted, landing, schVars, swVars, availUi, ringToken>>

TakeSocNotify ==
  /\ DbLoad("SOC", Head(socReq))
  /\ socReq' = <<>>
  /\ UNCHANGED <<engVars, hostVars, schVars, status, forced, availUi, ringToken>>

SchReq ==
  /\ DbTaken
  /\ Sch!Request(dbReq[1])
  /\ UNCHANGED <<engVars, hostVars, swVars, availUi, ringToken>>

-----------------------------------------------------------------------------
(* The index engine between its scheduler, virtio_ctx and the avail ring.  *)

OthersUnchanged == UNCHANGED <<dbVars, hostVars, swVars, availUi, ringToken>>

EngineReady == LatchReady /\ OthersUnchanged /\ UNCHANGED schVars

\* idx_eng_dma_wr_req.sav: the DMA write path has room.
DmaSav == Len(landing) < LandDepth

EngineRsp == DmaSav /\ SelectRsp /\ OthersUnchanged /\ UNCHANGED schVars

EngineKick(q) ==
  /\ q \in want \ serving
  /\ DmaSav
  /\ SelectKick(q)
  /\ OthersUnchanged /\ UNCHANGED schVars

\* The flags write leaves with the operation that issues it; a kick is taken
\* from the scheduler in WR_CTX.
EngineComplete ==
  /\ Complete
  /\ IF op[1].type = "KICK_NOTIFY" THEN Sch!Take(op[1].q) ELSE UNCHANGED schVars
  /\ landing' = IF Issued(op[1]) = "wr_flags"
                THEN Append(landing, [q |-> op[1].q, flags |-> ~op[1].ctx.noNotify])
                ELSE landing
  /\ UNCHANGED <<dbVars, hostIdx, hostFlags, posted, doorbells, swVars, availUi, ringToken>>

\* The scheduler commits the answer.
EngineAnswered ==
  /\ notifyRsp # <<>>
  /\ Sch!Release(notifyRsp[1].q, notifyRsp[1].done)
  /\ notifyRsp' = <<>>
  /\ UNCHANGED <<ctx, op, rdIdxFf, rdFlagsFf, wrRspFf, rdReq, wrReq, ready, idxNotify, errReq>>
  /\ OthersUnchanged

\* The avail ring's scheduler accepts the notify.
IdxNotifyTaken ==
  /\ idxNotify # <<>>
  /\ ringToken' = ringToken \cup {idxNotify[1]}
  /\ idxNotify' = <<>>
  /\ UNCHANGED <<ctx, op, rdIdxFf, rdFlagsFf, wrRspFf, rdReq, wrReq, ready, errReq, notifyRsp>>
  /\ UNCHANGED <<dbVars, hostVars, schVars, swVars, availUi>>

\* The avail ring engine on a queue it holds: it takes one more ring entry, or
\* is done because there is none or the queue is IDLE.
RingServe(q) ==
  /\ q \in ringToken
  /\ \/ /\ status[q] = "DOING" /\ availUi[q] # ctx[q].availIdx
        /\ availUi' = [availUi EXCEPT ![q] = (@ + 1) % IdxMod]
        /\ UNCHANGED ringToken
     \/ /\ status[q] = "IDLE" \/ (status[q] = "DOING" /\ availUi[q] = ctx[q].availIdx)
        /\ ringToken' = ringToken \ {q}
        /\ UNCHANGED availUi
  /\ UNCHANGED <<engVars, dbVars, hostVars, schVars, swVars>>

-----------------------------------------------------------------------------
(* virtio_ctx. *)

\* A register write or a hardware stop takes longer than an operation of the
\* engine, so its sample is at most one change of the status old.
NotStale(q) ==
  \A i \in DOMAIN op : op[i].q = q => op[i].status = status[q] /\ op[i].forced = forced[q]

SetStatus(q, st, f) ==
  /\ NotStale(q)
  /\ status' = [status EXCEPT ![q] = st]
  /\ forced' = [forced EXCEPT ![q] = f]

\* SOC_NOTIFY makes a STARTING queue DOING and kicks it.  The register takes
\* the kick if it is free or is taken in the same clock.
SocNotify(q) ==
  /\ status[q] \in {"STARTING", "DOING"}
  /\ SetStatus(q, "DOING", FALSE)
  /\ socReq' = IF socReq = <<>> THEN <<q>> ELSE socReq
  /\ UNCHANGED <<engVars, dbVars, hostVars, schVars, availUi, ringToken>>

\* CTRL := STOPPING, with or without forced_shutdown.  Software is assumed to
\* stop a queue it never notified by force: resumed, it would run unkicked.
SwStop(q) ==
  /\ "stop" \in Env
  /\ status[q] \in {"STARTING", "DOING"}
  /\ \E f \in BOOLEAN : (status[q] = "STARTING" => f) /\ SetStatus(q, "STOPPING", f)
  /\ UNCHANGED <<engVars, dbVars, hostVars, schVars, socReq, availUi, ringToken>>

\* CTRL := DOING takes a queue that is not forced out of STOPPING.
SwResume(q) ==
  /\ "resume" \in Env
  /\ status[q] = "STOPPING" /\ ~forced[q]
  /\ SetStatus(q, "DOING", FALSE)
  /\ UNCHANGED <<engVars, dbVars, hostVars, schVars, socReq, availUi, ringToken>>

\* Mutant: open DMA of the index engine is not looked at.
SwSeesIdleAnyDma(q) ==
  /\ status[q] = "STOPPING"
  /\ \A i \in DOMAIN errReq : errReq[i] # q
  /\ SetStatus(q, "IDLE", FALSE)
  /\ UNCHANGED <<engVars, dbVars, hostVars, schVars, socReq, availUi, ringToken>>

\* A read of CTRL finds the queue stopped: no index engine DMA is open
\* (rd_req_num = rd_rsp_num) and no error of its waits.  The other pointers it
\* compares belong to engines that are not in this model.
SwSeesIdle(q) ==
  /\ status[q] = "STOPPING"
  /\ ctx[q].dmaOut = 0
  /\ \A i \in DOMAIN errReq : errReq[i] # q
  /\ SetStatus(q, "IDLE", FALSE)
  /\ UNCHANGED <<engVars, dbVars, hostVars, schVars, socReq, availUi, ringToken>>

\* CTRL := STARTING initialises the context; software has written AVAIL_IDX, the
\* index up to which the device has taken buffers.
SwStart(q) ==
  /\ status[q] = "IDLE"
  /\ SetStatus(q, "STARTING", FALSE)
  /\ ctx' = [ctx EXCEPT ![q] = CtxInit(availUi[q])]
  /\ UNCHANGED <<op, rdIdxFf, rdFlagsFf, wrRspFf, rdReq, wrReq, ready, idxNotify, errReq, notifyRsp>>
  /\ UNCHANGED <<dbVars, hostVars, schVars, socReq, availUi, ringToken>>

\* A fatal error of the engine: ERR and err_stop FSMs force the queue to stop.
ErrStop ==
  /\ errReq # <<>>
  /\ LET q == errReq[1]
     IN  IF status[q] = "DOING" \/ (status[q] = "STOPPING" /\ ~forced[q])
         THEN SetStatus(q, "STOPPING", TRUE)
         ELSE UNCHANGED <<status, forced>>
  /\ errReq' = <<>>
  /\ UNCHANGED <<ctx, op, rdIdxFf, rdFlagsFf, wrRspFf, rdReq, wrReq, ready, idxNotify, notifyRsp>>
  /\ UNCHANGED <<dbVars, hostVars, schVars, socReq, availUi, ringToken>>

-----------------------------------------------------------------------------
Next ==
  \/ \E q \in Q : Post(q) \/ CheckFlags(q)
  \/ \E w \in wrReq : DmaWrRsp(w)
  \/ \E r \in rdReq : DmaRdRsp(r)
  \/ Land
  \/ DoorbellArbitrate \/ TakeDoorbell \/ TakeSocNotify \/ SchReq
  \/ EngineReady \/ EngineRsp \/ EngineComplete \/ EngineAnswered
  \/ \E q \in Q : EngineKick(q) \/ RingServe(q)
  \/ IdxNotifyTaken
  \/ \E q \in Q : SocNotify(q) \/ SwStop(q) \/ SwResume(q) \/ SwSeesIdle(q) \/ SwStart(q)
  \/ ErrStop

Safety == Init /\ [][Next]_vars

(***************************************************************************)
(* The clocked machines and the DMA keep going; the driver does not stop   *)
(* between moving the index and reading the flags.  A queue of the         *)
(* scheduler gets its turn (VirtioSchSys), although responses come first:  *)
(* strong fairness.  Nobody has to post, start or stop.                    *)
(***************************************************************************)
Fairness ==
  /\ \A q \in Q : WF_vars(CheckFlags(q)) /\ SF_vars(EngineKick(q)) /\ WF_vars(RingServe(q))
  /\ WF_vars(\E w \in wrReq : DmaWrRsp(w)) /\ WF_vars(\E r \in rdReq : DmaRdRsp(r))
  /\ WF_vars(Land)
  /\ WF_vars(DoorbellArbitrate) /\ WF_vars(TakeDoorbell) /\ WF_vars(TakeSocNotify)
  /\ WF_vars(SchReq)
  /\ WF_vars(EngineReady) /\ WF_vars(EngineRsp) /\ WF_vars(EngineComplete)
  /\ WF_vars(EngineAnswered) /\ WF_vars(IdxNotifyTaken) /\ WF_vars(ErrStop)

Spec == Safety /\ Fairness

-----------------------------------------------------------------------------
Holds(s, q) == \E i \in DOMAIN s : s[i] = q

\* Nothing that is under way will make the engine look at queue q again.
Forgotten(q) ==
  /\ q \notin want \cup serving
  /\ ~Holds(socReq, q) /\ ~Holds(doorbells, q) /\ ~Holds(dbReq, q) /\ ~Holds(errReq, q)
  /\ q \in posted => hostFlags[q]

(***************************************************************************)
(* No lost kick: the engine forgets a running queue only if it has seen    *)
(* everything the driver posted.  The dangerous window is between the last *)
(* index read and the moment the driver sees notifications enabled         *)
(* (virtio_idx_engine_top.sv:331-385, 504-513).                            *)
(***************************************************************************)
NoLostKick ==
  \A q \in Q : status[q] = "DOING" /\ Forgotten(q) => ctx[q].availIdx = hostIdx[q]

(***************************************************************************)
(* The avail ring engine is woken for every index it has not reached: the  *)
(* idx_notify of the engine is not lost either                             *)
(* (virtio_idx_engine_top.sv:484-491).                                     *)
(***************************************************************************)
RingIsAwake ==
  \A q \in Q : status[q] = "DOING" /\ availUi[q] # ctx[q].availIdx
                 => q \in ringToken \/ Holds(idxNotify, q)

(***************************************************************************)
(* When software has seen a queue IDLE, the index engine has no DMA of it  *)
(* open and will not start one: the rings may be freed                     *)
(* (virtio_ctx.sv:1686-1729 against virtio_idx_engine_top.sv:388-429).     *)
(***************************************************************************)
IdleIsQuiet ==
  \A q \in Q : status[q] \in {"IDLE", "STARTING"} =>
    /\ \A r \in rdReq : r.q # q
    /\ \A w \in wrReq : w.q # q
    /\ \A i \in DOMAIN rdIdxFf : rdIdxFf[i].q # q
    /\ \A i \in DOMAIN rdFlagsFf : rdFlagsFf[i].q # q
    /\ ~Holds(wrRspFf, q)
    /\ \A i \in DOMAIN op : op[i].q = q => Issued(op[i]) = "none"

(***************************************************************************)
(* A queue has at most one DMA of the index engine open, and its counters  *)
(* say which: dma_req_num and dma_rsp_num never drift apart, or a stopped  *)
(* queue could never be seen IDLE                                          *)
(* (virtio_idx_engine_top.sv:388-429, 471-482).                            *)
(***************************************************************************)
OpenDma(q) ==
  Cardinality({r \in rdReq : r.q = q}) + Cardinality({w \in wrReq : w.q = q})
    + Cardinality({i \in DOMAIN rdIdxFf : rdIdxFf[i].q = q})
    + Cardinality({i \in DOMAIN rdFlagsFf : rdFlagsFf[i].q = q})
    + Cardinality({i \in DOMAIN wrRspFf : wrRspFf[i] = q})

DmaCounted == \A q \in Q : ctx[q].dmaOut = OpenDma(q) /\ OpenDma(q) <= 1

(***************************************************************************)
(* The engine reports an error only if a DMA read failed: stale or         *)
(* reordered indices never look like an index more than a ring ahead,      *)
(* across the wrap of the 16-bit indices too                               *)
(* (virtio_idx_engine_top.sv:431-445).                                     *)
(***************************************************************************)
NoSpuriousError == "dma_err" \notin Env => errReq = <<>>

(***************************************************************************)
(* The mirrored index only moves forward and never past the driver's       *)
(* (virtio_idx_engine_top.sv:456-463), except when software restarts the   *)
(* queue.                                                                  *)
(***************************************************************************)
IdxFollowsDriver ==
  [][\A q \in Q : ctx'[q].availIdx # ctx[q].availIdx /\ status'[q] # "STARTING" =>
       Minus(ctx'[q].availIdx, ctx[q].availIdx) <= Minus(hostIdx[q], ctx[q].availIdx)]_vars

(***************************************************************************)
(* Every buffer that is posted to a running queue reaches the avail ring   *)
(* engine, whatever the flags and doorbells did meanwhile.                 *)
(***************************************************************************)
EveryPostArrives ==
  \A q \in Q, n \in Idx :
    hostIdx[q] = n /\ status[q] = "DOING" ~> availUi[q] = n \/ status[q] # "DOING"

(***************************************************************************)
(* The engine does not give a running queue up with its notifications      *)
(* switched off.                                                           *)
(***************************************************************************)
FlagsOnWhenForgotten ==
  \A q \in Q : status[q] = "DOING" /\ Forgotten(q) => ~hostFlags[q]

\* Once the driver stops posting, the notifications are switched on again.
NotificationsComeBack ==
  <>[][\A q \in Q : ~Post(q) /\ ~SocNotify(q)]_vars => []<>(\A q \in Q : ~hostFlags[q])
=============================================================================
