------------------------------ MODULE VnetLife ------------------------------
(* The life of one queue in the network simulation, sim/virtio2/             *)
(* test_virtio_net, from which the top level simulation of PmdLife was made. *)
(* Here a queue may be given several defects, its start does not wait for    *)
(* the error service to be done with the life before, and the error service  *)
(* asks for a restart without saying how.  A step written as in PmdLife is   *)
(* taken from there.                                                         *)
EXTENDS PmdLife

CONSTANTS MaxDefects, Msix \* bound: defects of a life; whether MSI-X is on

\* Every queue is created idle, its ids free; MSI-X is drawn for it.  stale: the
\* error of a life was still being read when the next one forgot it.
VnetInit ==
  /\ pmdQ \in {[status |-> "IDLE", ci |-> 0, posted |-> 0, free |-> 0..QSz-1, pool |-> <<>>,
                rings |-> FALSE, gen |-> 0, firstDb |-> TRUE, stopEv |-> "none", prod |-> TRUE,
                defect |-> 0, recorded |-> FALSE, stale |-> FALSE, finished |-> FALSE,
                msixEn |-> en, msix |-> FALSE, soc |-> FALSE] : en \in Msix}
  /\ pmdWk = [pc |-> "wait", forced |-> FALSE, final |-> FALSE]
  /\ pmdErr = "poll"
  /\ pmdHw = [st |-> "IDLE", forced |-> FALSE, err |-> FALSE, avail |-> <<>>,
              fetched |-> 0, done |-> <<>>, used |-> 0]
  /\ pmdAlarm = FALSE

-----------------------------------------------------------------------------
(* Starting and stopping.                                                    *)

\* VirtQ.start allocates the rings, forgets the errors and draws new ones.
Allocate ==
  /\ pmdWk.pc = "wait" /\ pmdQ.status = "IDLE"
  /\ \E n \in IF pmdQ.gen < MaxGen THEN 0..MaxDefects ELSE {0} :
       pmdQ' = [pmdQ EXCEPT !.rings = TRUE, !.ci = 0, !.posted = 0, !.defect = n,
                            !.recorded = FALSE, !.stale = @ \/ pmdErr = "info"]
  /\ WkGoto("config") /\ UNCHANGED <<pmdErr, pmdHw, pmdAlarm>>
\* VirtioCtrl.start up to the write of STARTING; register accesses are served in
\* order, so those that were asked for before are over.
Configure ==
  /\ pmdWk.pc = "config" /\ pmdErr = "poll" /\ ~pmdQ.soc
  /\ Raise(pmdHw.st # "IDLE")
  /\ pmdQ' = [pmdQ EXCEPT !.status = "STARTING"]
  /\ pmdHw' = [st |-> "STARTING", forced |-> FALSE, err |-> FALSE, avail |-> <<>>,
               fetched |-> 0, done |-> <<>>, used |-> 0]
  /\ WkGoto("readback") /\ UNCHANGED pmdErr

\* VirtioCtrl.stop is that of the top level simulation.
CtrlStop == ReadStatus \/ WriteStopping \/ PollIdle

\* VirtQ.stop gives back the rings, the regions and the ids of every chain.
Released == [pmdQ EXCEPT !.gen = @ + 1, !.rings = FALSE, !.ci = 0, !.posted = 0, !.firstDb = TRUE,
                         !.free = @ \cup UNION {pmdQ.pool[i].ids : i \in DOMAIN pmdQ.pool}, !.pool = <<>>]
\* The end of Virt.stop, once no producer is inside a burst.
Release ==
  /\ pmdWk.pc = "release" /\ pmdQ.prod /\ pmdQ' = Released
  /\ pmdWk' = [pmdWk EXCEPT !.pc = IF pmdWk.final THEN "end" ELSE "wait", !.forced = FALSE]
  /\ UNCHANGED <<pmdErr, pmdHw, pmdAlarm>>

\* err_check_service between its two register accesses, and after them.
ErrStatus ==
  /\ pmdErr = "poll" /\ pmdQ.status = "DOING" /\ pmdHw.st = "IDLE"
  /\ pmdErr' = "info" /\ UNCHANGED <<pmdQ, pmdWk, pmdHw, pmdAlarm>>
ErrRead ==
  /\ pmdErr = "info" /\ pmdErr' = "poll"
  /\ pmdQ' = [pmdQ EXCEPT !.stopEv = "plain"]
  /\ Raise(pmdHw.err # pmdQ.recorded)
  /\ UNCHANGED <<pmdWk, pmdHw>>

-----------------------------------------------------------------------------
(* The ring.                                                                 *)

\* err_info_gen_list and err_info_choose: the chains of a burst that get one of
\* the defects of this life, at most as many as are left.
Defects(n) == {bads \in SUBSET (1..n) : Cardinality(bads) <= pmdQ.defect}
\* alloc_id: the chains the free ids suffice for, in order.
Laid(needs, load, bads) ==
  LET ids == SetToSortSeq(pmdQ.free, <)
      before(i) == FoldLeft(LAMBDA a, b : a + b, 0, SubSeq(needs, 1, i - 1))
      own(i) == SubSeq(ids, before(i) + 1, before(i) + needs[i])
  IN [i \in 1..Fitting(needs) |->
        [id |-> own(i)[1], ids |-> Range(own(i)), load |-> load[i], bad |-> i \in bads]]
\* write_avail and write_avail_idx: the chains are in the pools, under keys, and
\* in the ring; the first doorbell of a life goes by the notify register too.
WriteAvail(new, keys, full) ==
  LET held == [k \in Range(keys) |-> LET i == CHOOSE j \in DOMAIN keys : keys[j] = k
                                     IN [ids |-> new[i].ids, load |-> new[i].load]]
      bads == Cardinality({i \in DOMAIN new : new[i].bad})
  IN /\ pmdQ' = [pmdQ EXCEPT !.posted = @ + Len(new), !.free = @ \ UNION {new[i].ids : i \in DOMAIN new},
                             !.pool = held @@ @, !.recorded = @ \/ bads > 0, !.defect = @ - bads,
                             !.soc = @ \/ (new # <<>> /\ pmdQ.firstDb), !.firstDb = @ /\ new = <<>>,
                             !.prod = ~full]
     /\ pmdHw' = [pmdHw EXCEPT !.avail = @ \o new]
\* release_id for the chains of some keys, as the used elements are taken.
Freed(keys) == [pmdQ EXCEPT !.ci = @ + NrUsed, !.pool = Restrict(@, DOMAIN @ \ keys),
                            !.free = @ \cup UNION {pmdQ.pool[k].ids : k \in keys \cap DOMAIN pmdQ.pool}]

VnetWorker == Allocate \/ Configure \/ ReadBack \/ WorkerStops \/ CtrlStop
VnetNext == VnetWorker \/ Release \/ RandomStop \/ ErrStatus \/ ErrRead \/ SocNotifyService \/ HwUsed
=============================================================================
