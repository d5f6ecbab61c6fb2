------------------------------ MODULE PmdLife ------------------------------
(* The life of one queue in the top level simulation, sim/virtio2/           *)
(* test_virtio: the worker of the bench that starts, stops and restarts it,  *)
(* the control register protocol, the virtqueue object with its ring, ids    *)
(* and regions, the error service, and the device behind them (external).    *)
(* NetTxPmd and BlkPmd add what a transmit and a block queue do with it.     *)
(* The region of a packet lives as long as its entry in a pool or a list.    *)
EXTENDS Integers, Sequences, SequencesExt, FiniteSets, FiniteSetsExt, Functions

CONSTANTS QSz, Direct,      \* ring size; numbers of table descriptors of a chain
          MaxGen \* bound: lives in which a stop or a defect may happen

VARIABLES pmdQ,    \* VirtQ: status, indices, ids and pools, events
          pmdWk,   \* TB.worker inside start and stop, and _stop_worker
          pmdErr,  \* err_check_service: "poll" or "info"
          pmdHw,   \* the device's queue (external)
          pmdAlarm \* some coroutine raised

lifeVars == <<pmdQ, pmdWk, pmdErr, pmdHw, pmdAlarm>>

LifeInit ==
  /\ pmdQ \in {[status |-> "IDLE", ci |-> 0, posted |-> 0, free |-> 0..QSz-1, pool |-> <<>>,
                rings |-> FALSE, gen |-> 0, firstDb |-> TRUE, stopEv |-> "none", prod |-> TRUE,
                checkErr |-> FALSE, defect |-> FALSE, recorded |-> FALSE, finished |-> FALSE,
                msixEn |-> en, msix |-> FALSE, soc |-> FALSE] : en \in BOOLEAN}
  /\ pmdWk = [pc |-> "wait", forced |-> FALSE, final |-> FALSE]
  /\ pmdErr = "poll"
  /\ pmdHw = [st |-> "IDLE", forced |-> FALSE, err |-> FALSE, avail |-> <<>>,
              fetched |-> 0, done |-> <<>>, used |-> 0]
  /\ pmdAlarm = FALSE

WkGoto(pc) == pmdWk' = [pmdWk EXCEPT !.pc = pc]
Raise(bad) == pmdAlarm' = (pmdAlarm \/ bad)

-----------------------------------------------------------------------------
(* Starting.                                                                 *)

\* VirtQ.start, once the queue is idle and its error has been looked at, up to
\* the write of STARTING: a queue that is not running has nobody to race with.
StartQueue ==
  /\ pmdWk.pc = "wait" /\ pmdQ.status = "IDLE" /\ ~pmdQ.checkErr /\ ~pmdQ.soc
  /\ \E d \in IF pmdQ.gen < MaxGen THEN BOOLEAN ELSE {FALSE} :
       pmdQ' = [pmdQ EXCEPT !.rings = TRUE, !.ci = 0, !.posted = 0, !.defect = d,
                            !.recorded = FALSE, !.status = "STARTING"]
  /\ pmdHw' = [st |-> "STARTING", forced |-> FALSE, err |-> FALSE, avail |-> <<>>,
               fetched |-> 0, done |-> <<>>, used |-> 0]
  /\ WkGoto("readback") /\ Raise(pmdHw.st # "IDLE")
  /\ UNCHANGED pmdErr
ReadBack ==
  /\ pmdWk.pc = "readback"
  /\ Raise(pmdHw.st # "STARTING")
  /\ pmdQ' = [pmdQ EXCEPT !.status = "DOING"]
  /\ WkGoto("run") /\ UNCHANGED <<pmdErr, pmdHw>>

-----------------------------------------------------------------------------
(* Stopping.                                                                 *)

\* _stop_worker, at any time.
RandomStop ==
  /\ pmdQ.gen < MaxGen /\ ~pmdQ.finished /\ pmdQ.stopEv = "none"
  /\ \E f \in {"plain", "forced"} : pmdQ' = [pmdQ EXCEPT !.stopEv = f]
  /\ UNCHANGED <<pmdWk, pmdErr, pmdHw, pmdAlarm>>
\* TB.worker: a stop event restarts the queue, a finished test stops it.
WorkerStops ==
  /\ pmdWk.pc = "run"
  /\ \/ /\ pmdQ.stopEv # "none"
        /\ pmdWk' = [pmdWk EXCEPT !.pc = "status", !.forced = pmdQ.stopEv = "forced"]
        /\ pmdQ' = [pmdQ EXCEPT !.stopEv = "none"]
     \/ /\ pmdQ.finished
        /\ pmdWk' = [pmdWk EXCEPT !.pc = "status", !.forced = FALSE, !.final = TRUE]
        /\ UNCHANGED pmdQ
  /\ UNCHANGED <<pmdErr, pmdHw, pmdAlarm>>
\* VirtioCtrl.stop reads the status: a queue the device is stopping by itself
\* is waited for and not stopped again, and its software status stays DOING.
ReadStatus ==
  /\ pmdWk.pc = "status" /\ ~(pmdHw.st = "STOPPING" /\ pmdHw.forced)
  /\ WkGoto(IF pmdHw.st = "IDLE" THEN "clean" ELSE "command")
  /\ Raise(pmdHw.st = "STOPPING")
  /\ UNCHANGED <<pmdQ, pmdErr, pmdHw>>
WriteStopping ==
  /\ pmdWk.pc = "command"
  /\ pmdHw' = IF pmdHw.st \in {"STARTING", "DOING"}
              THEN [pmdHw EXCEPT !.st = "STOPPING", !.forced = pmdWk.forced] ELSE pmdHw
  /\ pmdQ' = [pmdQ EXCEPT !.status = "STOPPING"]
  /\ WkGoto("poll") /\ UNCHANGED <<pmdErr, pmdAlarm>>
PollIdle ==
  /\ pmdWk.pc = "poll" /\ pmdHw.st # "STOPPING"
  /\ Raise(pmdHw.st # "IDLE" \/ (pmdHw.err /\ ~pmdQ.recorded))
  /\ WkGoto("clean") /\ UNCHANGED <<pmdQ, pmdErr, pmdHw>>
\* Mutant: the regions and ids of the chains in flight are forgotten.
StopVirtqKeepsPool ==
  /\ pmdWk.pc = "release" /\ pmdQ.prod
  /\ pmdQ' = [pmdQ EXCEPT !.gen = @ + 1, !.rings = FALSE, !.ci = 0, !.posted = 0, !.firstDb = TRUE]
  /\ pmdWk' = [pmdWk EXCEPT !.pc = IF pmdWk.final THEN "end" ELSE "wait", !.forced = FALSE]
  /\ UNCHANGED <<pmdErr, pmdHw, pmdAlarm>>
\* After worker_clean: VirtQ.stop once no producer is inside a burst.
StopVirtq ==
  /\ pmdWk.pc = "release" /\ pmdQ.prod
  /\ pmdQ' = [pmdQ EXCEPT !.gen = @ + 1, !.rings = FALSE, !.ci = 0, !.posted = 0, !.firstDb = TRUE,
                          !.free = @ \cup UNION {pmdQ.pool[i].ids : i \in DOMAIN pmdQ.pool},
                          !.pool = <<>>]
  /\ pmdWk' = [pmdWk EXCEPT !.pc = IF pmdWk.final THEN "end" ELSE "wait", !.forced = FALSE]
  /\ UNCHANGED <<pmdErr, pmdHw, pmdAlarm>>

\* err_check_service: a queue it takes for running that the device has stopped.
ErrSeen ==
  /\ pmdErr = "poll" /\ pmdQ.status = "DOING" /\ pmdHw.st = "IDLE"
  /\ pmdQ' = [pmdQ EXCEPT !.checkErr = TRUE] /\ pmdErr' = "info"
  /\ UNCHANGED <<pmdWk, pmdHw, pmdAlarm>>
ErrInfo ==
  /\ pmdErr = "info"
  /\ pmdQ' = [pmdQ EXCEPT !.checkErr = FALSE, !.stopEv = "forced"] /\ pmdErr' = "poll"
  /\ Raise(pmdHw.err # pmdQ.recorded)
  /\ UNCHANGED <<pmdWk, pmdHw>>

-----------------------------------------------------------------------------
(* The ring.                                                                 *)

Room == QSz - (pmdQ.posted - pmdQ.ci)
CanPost == pmdQ.status \in {"DOING", "STARTING"}
CanConsume == pmdQ.status \in {"DOING", "STOPPING"}
NrUsed == IF CanConsume THEN pmdHw.used - pmdQ.ci ELSE 0
UsedElem(i) == pmdHw.done[pmdQ.ci + i]

\* A burst of chains: needs[i] ids and the payload of each, as many as the free
\* ids suffice for; one of them may be made defective.
Fitting(needs) ==
  Max({m \in 0..Len(needs) : FoldLeft(LAMBDA a, b : a + b, 0, SubSeq(needs, 1, m)) <= Cardinality(pmdQ.free)})
Chain(needs, payload, bad, i) ==
  LET before == FoldLeft(LAMBDA a, b : a + b, 0, SubSeq(needs, 1, i - 1))
      ids == SubSeq(SetToSortSeq(pmdQ.free, <), before + 1, before + needs[i])
  IN [id |-> ids[1], ids |-> Range(ids), load |-> payload[i], bad |-> i = bad]
\* err_info_choose: the defect a queue was started with goes into one chain.
Defective(needs) == IF pmdQ.defect THEN 0..Fitting(needs) ELSE {0}
Burst(needs, payload, bad, full) ==
  LET m == Fitting(needs)
      new == [i \in 1..m |-> Chain(needs, payload, bad, i)]
      pool == [i \in {new[j].id : j \in 1..m} |->
                 LET c == new[CHOOSE j \in 1..m : new[j].id = i] IN [ids |-> c.ids, load |-> c.load]]
  IN /\ pmdQ' = [pmdQ EXCEPT !.posted = @ + m, !.free = @ \ UNION {new[j].ids : j \in 1..m},
                             !.pool = pool @@ @, !.recorded = @ \/ bad \in 1..m,
                             !.defect = @ /\ bad = 0,
                             !.soc = @ \/ (m > 0 /\ pmdQ.firstDb), !.firstDb = @ /\ m = 0,
                             !.prod = ~(full /\ m > 0)]
     /\ pmdHw' = [pmdHw EXCEPT !.avail = @ \o new]

\* doorbell_queue holds one doorbell, which doorbell_service takes: a later one
\* may find it full and wait, with producer_event clear.
MayBeFull == IF pmdQ.firstDb THEN {FALSE} ELSE BOOLEAN
BellPut == pmdQ' = [pmdQ EXCEPT !.prod = TRUE]
\* Register accesses are served in order: start's readback comes first.
SocNotifyService ==
  /\ pmdQ.soc /\ pmdWk.pc # "readback"
  /\ pmdQ' = [pmdQ EXCEPT !.soc = FALSE]
  /\ pmdHw' = [pmdHw EXCEPT !.st = IF @ = "STARTING" THEN "DOING" ELSE @]
  /\ UNCHANGED <<pmdWk, pmdErr, pmdAlarm>>

\* Mutant: only the first id of a used chain is given back.
ConsumedHeads ==
  LET ids == {UsedElem(i).id : i \in 1..NrUsed}
  IN [pmdQ EXCEPT !.ci = @ + NrUsed, !.free = @ \cup ids, !.pool = Restrict(@, DOMAIN @ \ ids)]

\* The consumer's part for the queue: the ids and regions of the used chains.
Consumed ==
  LET ids == {UsedElem(i).id : i \in 1..NrUsed}
  IN [pmdQ EXCEPT !.ci = @ + NrUsed,
                  !.free = @ \cup UNION {pmdQ.pool[i].ids : i \in ids \cap DOMAIN pmdQ.pool},
                  !.pool = Restrict(@, DOMAIN @ \ ids)]
ConsumeBad == {UsedElem(i).id : i \in 1..NrUsed} \ DOMAIN pmdQ.pool # {}

-----------------------------------------------------------------------------
(* The device (external): it works on the chains until it is told to stop or *)
(* meets a defective one, finishes what it holds and is idle.                *)

HwActive == pmdHw.st \in {"DOING", "STOPPING"} /\ ~pmdHw.err /\ pmdHw.fetched < Len(pmdHw.avail)
HwNext == pmdHw.avail[pmdHw.fetched + 1]
HwStopped == [pmdHw EXCEPT !.st = "STOPPING", !.forced = TRUE, !.err = TRUE]
HwUsed ==
  /\ pmdHw.used < Len(pmdHw.done)
  /\ pmdHw' = [pmdHw EXCEPT !.used = Len(pmdHw.done)]
  /\ pmdQ' = [pmdQ EXCEPT !.msix = pmdQ.msixEn]
  /\ UNCHANGED <<pmdWk, pmdErr, pmdAlarm>>
HwIdle ==
  /\ pmdHw.st = "STOPPING" /\ pmdHw.used = pmdHw.fetched
  /\ pmdHw' = [pmdHw EXCEPT !.st = "IDLE"]
  /\ UNCHANGED <<pmdQ, pmdWk, pmdErr, pmdAlarm>>

Worker == StartQueue \/ ReadBack \/ WorkerStops \/ ReadStatus
          \/ WriteStopping \/ PollIdle \/ StopVirtq
Services == ErrSeen \/ ErrInfo \/ SocNotifyService
LifeNext == Worker \/ RandomStop \/ Services \/ HwUsed \/ HwIdle

\* No timer and no register access comes before these steps.
StopsNow == pmdWk.pc = "clean" \/ (pmdWk.pc = "release" /\ pmdQ.prod)

\* Every id of the table is free or in the entry of exactly one chain.
IdsKept ==
  /\ pmdQ.free \cup UNION {pmdQ.pool[i].ids : i \in DOMAIN pmdQ.pool} = 0..QSz-1
  /\ Cardinality(pmdQ.free) + FoldFunction(LAMBDA e, n : n + Cardinality(e.ids), 0, pmdQ.pool) = QSz
=============================================================================
