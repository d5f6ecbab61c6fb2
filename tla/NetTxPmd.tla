----------------------------- MODULE NetTxPmd -----------------------------
(* The transmit queue of the top level simulation: tx_worker generates and   *)
(* posts packets and consumes used elements, the device sends packets out    *)
(* and reports them to the QoS bench, tx_check_result compares them with the *)
(* references in the order they were generated, and worker_clean drops the   *)
(* references of what the device will not send when the queue stops.  QoS is *)
(* enabled; without it nothing is put in the QoS queue and nothing taken.    *)
EXTENDS PmdLife

CONSTANTS TxSeq, TxRefs, TxBatch \* max_seq; room for references (128); mbufs (32)

VARIABLE pmdTx \* tx_worker, the reference queues and tx_check_result
vars == <<lifeVars, pmdTx>>

Init ==
  /\ LifeInit
  /\ pmdTx = [pc |-> "gen", mbufs |-> <<>>, serial |-> 0, refs |-> <<>>,
              qos |-> <<>>, out |-> <<>>, num |-> 0, elem |-> <<>>, checked |-> 0,
              drop |-> 0, late |-> FALSE]

-----------------------------------------------------------------------------
(* tx_worker.                                                                *)

Names == TxRefs + 1  \* serial numbers come round; no two packets in flight share one

\* _gen_pkt: at least one packet, unless there is no room.
TxGen ==
  /\ pmdTx.pc = "gen" /\ ~pmdQ.finished
  /\ LET room == Min({TxBatch - Len(pmdTx.mbufs), TxRefs - Len(pmdTx.refs)})
     IN \E n \in IF room = 0 THEN {0} ELSE 1..room :
          LET new == [i \in 1..n |-> (pmdTx.serial + i) % Names]
          IN pmdTx' = [pmdTx EXCEPT !.pc = IF CanPost THEN "now" ELSE "post", !.serial = (@ + n) % Names, !.mbufs = @ \o new,
                                    !.refs = @ \o new, !.qos = @ \o new]
  /\ UNCHANGED lifeVars
TxEnd ==
  /\ pmdTx.pc = "gen" /\ pmdQ.finished
  /\ pmdTx' = [pmdTx EXCEPT !.pc = "done", !.mbufs = <<>>]
  /\ UNCHANGED lifeVars
\* The descriptors of each chain that are in the table; those behind an
\* indirect one are in a region of their own.
TxNeeds == [1..Min({Room, Len(pmdTx.mbufs)}) -> Direct]
\* burst_tx_producer up to its await for the doorbell queue; it waits for the
\* status of a queue that is not running.
TxPost ==
  /\ pmdTx.pc \in {"now", "post"} /\ CanPost
  /\ \E needs \in TxNeeds, full \in MayBeFull :
       \E bad \in Defective(needs) :
         /\ Burst(needs, pmdTx.mbufs, bad, full)
         /\ LET m == Fitting(needs)
            IN pmdTx' = [pmdTx EXCEPT !.pc = IF full /\ m > 0 THEN "bell" ELSE "consume",
                                      !.mbufs = SubSeq(@, m + 1, Len(@)),
                                      !.late = @ \/ (pmdWk.pc = "drop" /\ m > 0)]
  /\ UNCHANGED <<pmdWk, pmdErr, pmdAlarm>>
TxPostGivesUp ==
  /\ pmdTx.pc = "post" /\ ~CanPost /\ pmdQ.finished
  /\ pmdTx' = [pmdTx EXCEPT !.pc = "consume"] /\ UNCHANGED lifeVars
TxBell ==
  /\ pmdTx.pc = "bell" /\ BellPut
  /\ pmdTx' = [pmdTx EXCEPT !.pc = "consume"]
  /\ UNCHANGED <<pmdWk, pmdErr, pmdHw, pmdAlarm>>

\* burst_tx_consumer: the lengths go to the checker with their number.
TakeUsed(tx) == [tx EXCEPT !.num = NrUsed, !.elem = @ \o [i \in 1..NrUsed |-> UsedElem(i).len]]
TxConsume ==
  /\ pmdTx.pc = "consume"
  /\ IF pmdQ.msixEn /\ ~pmdQ.msix
     THEN pmdTx' = [pmdTx EXCEPT !.pc = "gen"] /\ UNCHANGED <<pmdQ, pmdAlarm>>
     ELSE /\ pmdQ' = [Consumed EXCEPT !.msix = FALSE] /\ Raise(ConsumeBad)
          /\ pmdTx' = [TakeUsed(pmdTx) EXCEPT !.pc = "gen"]
  /\ UNCHANGED <<pmdWk, pmdErr, pmdHw>>

-----------------------------------------------------------------------------
(* tx_check_result runs as soon as it is given used elements, before any     *)
(* timer: a used length of zero has no packet to compare.                    *)

Settled == pmdTx.num = 0
TxCheck ==
  /\ ~Settled
  /\ LET n == pmdTx.num
         kept == SelectSeq([i \in 1..n |-> i], LAMBDA i : pmdTx.elem[i] # 0)
         right == /\ n <= Len(pmdTx.refs) /\ Len(kept) <= Len(pmdTx.out)
                  /\ \A i \in DOMAIN kept :
                       pmdTx.out[i] = [pkt |-> pmdTx.refs[kept[i]], gen |-> pmdQ.gen]
         checked == pmdTx.checked + Len(kept)
     IN /\ Raise(~right)
        /\ pmdTx' = [pmdTx EXCEPT !.num = 0, !.elem = SubSeq(@, n + 1, Len(@)),
                                  !.refs = SubSeq(@, n + 1, Len(@)),
                                  !.out = SubSeq(@, Len(kept) + 1, Len(@)),
                                  !.checked = Min({checked, TxSeq})]
        /\ pmdQ' = [pmdQ EXCEPT !.finished = @ \/ checked >= TxSeq]
  /\ UNCHANGED <<pmdWk, pmdErr, pmdHw>>

\* worker_clean, before and after its Timer(1, "ns").
CleanConsume ==
  /\ pmdWk.pc = "clean"
  /\ pmdQ' = Consumed /\ Raise(ConsumeBad)
  /\ pmdTx' = [TakeUsed(pmdTx) EXCEPT !.drop = Consumed.posted - Consumed.ci]
  /\ WkGoto("drop") /\ UNCHANGED <<pmdErr, pmdHw>>
\* The QoS entry of a dropped packet goes if it is still the oldest one; an
\* empty QoS queue has no oldest one to look at.
DropQos(dropped) ==
  FoldLeft(LAMBDA a, r : [q |-> IF a.q # <<>> /\ Head(a.q) = r THEN Tail(a.q) ELSE a.q,
                          bad |-> a.bad \/ a.q = <<>>],
           [q |-> pmdTx.qos, bad |-> FALSE], dropped)
CleanDrop ==
  /\ pmdWk.pc = "drop"
  /\ LET n == Min({pmdTx.drop, Len(pmdTx.refs)})
         qos == DropQos(SubSeq(pmdTx.refs, 1, n))
     IN /\ Raise(n < pmdTx.drop \/ qos.bad)
        /\ pmdTx' = [pmdTx EXCEPT !.refs = SubSeq(@, n + 1, Len(@)), !.qos = qos.q,
                                  !.out = <<>>, !.drop = 0]
  /\ pmdQ' = [pmdQ EXCEPT !.status = "IDLE"]
  /\ WkGoto("release") /\ UNCHANGED <<pmdErr, pmdHw>>

-----------------------------------------------------------------------------
(* The device sends a packet and reports it to the QoS bench, which compares *)
(* it with its own oldest entry; while it is forced to stop it may use a     *)
(* chain without sending it.                                                 *)

\* _process_net2tso: what was sent is kept for tx_check_result.
Sent(len, pkt) == IF len = 0 THEN pmdTx.out ELSE Append(pmdTx.out, [pkt |-> pkt, gen |-> pmdQ.gen])
QosUpdate == IF pmdTx.qos # <<>> THEN Tail(pmdTx.qos) ELSE pmdTx.qos
QosBad(pkt) == pmdTx.qos = <<>> \/ Head(pmdTx.qos) # pkt
HwSend ==
  /\ HwActive
  /\ IF HwNext.bad
     THEN pmdHw' = HwStopped /\ UNCHANGED <<pmdTx, pmdAlarm>>
     ELSE \E len \in IF pmdHw.st = "STOPPING" /\ pmdHw.forced THEN {0, 1} ELSE {1} :
            /\ pmdHw' = [pmdHw EXCEPT !.fetched = @ + 1,
                                      !.done = Append(@, [id |-> HwNext.id, len |-> len])]
            /\ Raise(QosBad(HwNext.load))
            /\ pmdTx' = [pmdTx EXCEPT !.qos = QosUpdate,
                                      !.out = Sent(len, HwNext.load)]
  /\ UNCHANGED <<pmdQ, pmdWk, pmdErr>>

-----------------------------------------------------------------------------
TxWorker == TxGen \/ TxEnd \/ TxPost \/ TxPostGivesUp \/ TxBell \/ TxConsume
\* Steps that follow without a timer come before everything else; fairness for
\* the others is strong, as the simulator's time passes whatever a coroutine does.
TxNow == pmdTx.pc \in {"now", "consume"}
Urgent == \/ TxCheck
          \/ Settled /\ \/ TxNow /\ TxWorker
                        \/ ~TxNow /\ (CleanConsume \/ (StopVirtq /\ UNCHANGED pmdTx))
Calm == Settled /\ ~TxNow /\ ~StopsNow /\ ~pmdAlarm
Stuttering(A) == A /\ UNCHANGED pmdTx
Next == \/ ~pmdAlarm /\ Urgent
        \/ Calm /\ (Stuttering(LifeNext) \/ TxWorker \/ CleanDrop \/ HwSend)
Spec == Init /\ [][Next]_vars

-----------------------------------------------------------------------------
\* No comparison of the bench fails on a right device, whatever is restarted,
\* unless a packet was posted while worker_clean slept (see the README).
TxNoFalseAlarm == pmdAlarm => pmdTx.late

\* The references of the packets that are posted and not yet consumed, and then
\* of those not yet posted, are the reference queue, in order.
TxRefsMatch ==
  Settled /\ ~pmdTx.late /\ pmdTx.pc # "done" /\ pmdWk.pc \notin {"drop", "release"} =>
    pmdTx.refs = [i \in 1..pmdQ.posted - pmdQ.ci |-> pmdHw.avail[pmdQ.ci + i].load] \o pmdTx.mbufs

TxIdsKept == IdsKept

\* When the workers have ended, nothing is left allocated.
TxNoLeak == pmdWk.pc = "end" /\ pmdTx.pc = "done" =>
              ~pmdQ.rings /\ pmdQ.pool = <<>> /\ pmdTx.mbufs = <<>>
\* The test ends, or has raised.
TxOver == pmdAlarm \/ (pmdWk.pc = "end" /\ pmdTx.pc = "done")
=============================================================================
