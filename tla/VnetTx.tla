------------------------------- MODULE VnetTx -------------------------------
(* A transmit queue of the network simulation.  tx_check_result takes the    *)
(* reference of one used element at a time and waits for its packet, which   *)
(* may reach the bench after the used element; a wait outlasts the device's  *)
(* delay, but worker_clean may come before its end.  QoS is enabled.         *)
EXTENDS VnetLife

CONSTANTS TxSeq, TxRefs, TxBatch, MaxPolls \* max_seq; references (128); mbufs (32); polls (10)

VARIABLE pmdTx \* tx_worker, the queues of VirtioNetTx and tx_check_result
vars == <<lifeVars, pmdTx>>

\* late: something was posted, or waited for its packet, while worker_clean
\* dropped what it took for the rest.
Init ==
  /\ VnetInit
  /\ pmdTx = [pc |-> "gen", mbufs |-> <<>>, serial |-> 0, refs |-> <<>>, qos |-> <<>>,
              wire |-> <<>>, out |-> <<>>, nums |-> <<>>, elem |-> <<>>, cur |-> -1, polls |-> 0,
              checked |-> 0, drop |-> 0, late |-> FALSE]

-----------------------------------------------------------------------------
(* tx_worker.                                                                *)

Names == TxRefs + 1
\* _gen_pkt: the packet's descriptor goes to the QoS queue, then to the references.
Generated(n) ==
  LET new == [i \in 1..n |-> (pmdTx.serial + i) % Names]
  IN [pmdTx EXCEPT !.serial = (@ + n) % Names, !.mbufs = @ \o new, !.refs = @ \o new, !.qos = @ \o new]
\* The head of the loop; a queue that runs is posted to at once.
VtxGen ==
  /\ pmdTx.pc = "gen" /\ ~pmdQ.finished
  /\ LET room == Min({TxBatch - Len(pmdTx.mbufs), TxRefs - Len(pmdTx.refs)})
     IN \E n \in IF room = 0 THEN {0} ELSE 1..room :
          pmdTx' = [Generated(n) EXCEPT !.pc = IF CanPost THEN "now" ELSE "post"]
  /\ UNCHANGED lifeVars
VtxEnd ==
  /\ pmdTx.pc = "gen" /\ pmdQ.finished
  /\ pmdTx' = [pmdTx EXCEPT !.pc = "done", !.mbufs = <<>>]
  /\ UNCHANGED lifeVars
\* The table descriptors of each packet: all of its segments, or those before
\* the indirect one and it.
VtxNeeds == [1..Min({Room, Len(pmdTx.mbufs)}) -> Direct]
\* The chains of a burst with a defect in one of their descriptors; its kind, and
\* the descriptor it is in, matter to the device only.
VtxBads(needs) == Defects(Fitting(needs))
\* burst_tx_producer up to its wait for the doorbell queue.  It waits for a queue
\* that is not running even when the test is over, and then for ever.
VtxPost ==
  /\ pmdTx.pc \in {"now", "post"} /\ CanPost
  /\ \E needs \in VtxNeeds, full \in MayBeFull :
       \E bads \in VtxBads(needs) :
         LET new == Laid(needs, pmdTx.mbufs, bads)
             wait == full /\ new # <<>>
         IN /\ WriteAvail(new, [i \in DOMAIN new |-> new[i].id], wait)
            /\ pmdTx' = [pmdTx EXCEPT !.pc = IF wait THEN "bell" ELSE "consume",
                                      !.mbufs = SubSeq(@, Len(new) + 1, Len(@)),
                                      !.late = @ \/ (pmdWk.pc = "drop" /\ new # <<>>)]
  /\ UNCHANGED <<pmdWk, pmdErr, pmdAlarm>>
VtxBell ==
  /\ pmdTx.pc = "bell" /\ BellPut
  /\ pmdTx' = [pmdTx EXCEPT !.pc = "consume"]
  /\ UNCHANGED <<pmdWk, pmdErr, pmdHw, pmdAlarm>>

\* burst_tx_consumer: the number of used elements goes to the checker.
UsedIds == {UsedElem(i).id : i \in 1..NrUsed}
HandedOver(tx) ==
  IF NrUsed = 0 THEN tx
  ELSE [tx EXCEPT !.nums = Append(@, NrUsed), !.elem = @ \o [i \in 1..NrUsed |-> UsedElem(i).len]]
VtxConsume ==
  /\ pmdTx.pc = "consume"
  /\ IF pmdQ.msixEn /\ ~pmdQ.msix
     THEN pmdTx' = [pmdTx EXCEPT !.pc = "gen"] /\ UNCHANGED <<pmdQ, pmdAlarm>>
     ELSE /\ pmdQ' = [Freed(UsedIds) EXCEPT !.msix = FALSE] /\ Raise(UsedIds \ DOMAIN pmdQ.pool # {})
          /\ pmdTx' = [HandedOver(pmdTx) EXCEPT !.pc = "gen"]
  /\ UNCHANGED <<pmdWk, pmdErr, pmdHw>>

-----------------------------------------------------------------------------
(* tx_check_result.                                                          *)

\* One used element less to go; the test may be over after the last of a batch.
ItemDone(tx, right) ==
  LET last == tx.nums[1] = 1
      checked == Min({tx.checked + (IF right THEN 1 ELSE 0), TxSeq})
  IN /\ pmdTx' = [tx EXCEPT !.nums = IF last THEN Tail(@) ELSE [@ EXCEPT ![1] = @ - 1],
                            !.cur = -1, !.polls = 0, !.checked = checked]
     /\ pmdQ' = [pmdQ EXCEPT !.finished = @ \/ (last /\ checked >= TxSeq)]
Compare(tx, ref) ==
  LET right == Head(tx.out) = [pkt |-> ref, gen |-> pmdQ.gen]
  IN Raise(~right) /\ ItemDone([tx EXCEPT !.out = Tail(@)], right)
\* A used length of zero has no packet to wait for.
Busy == pmdTx.nums # <<>> /\ pmdTx.cur = -1
TxLook ==
  /\ Busy
  /\ IF pmdTx.refs = <<>> THEN Raise(TRUE) /\ UNCHANGED <<pmdTx, pmdQ>>
     ELSE LET ref == Head(pmdTx.refs)
              tx == [pmdTx EXCEPT !.elem = Tail(@), !.refs = Tail(@)]
          IN CASE Head(pmdTx.elem) = 0 -> ItemDone(tx, FALSE) /\ UNCHANGED pmdAlarm
               [] Head(pmdTx.elem) # 0 /\ pmdTx.out # <<>> -> Compare(tx, ref)
               [] OTHER -> pmdTx' = [tx EXCEPT !.cur = ref] /\ UNCHANGED <<pmdQ, pmdAlarm>>
  /\ UNCHANGED <<pmdWk, pmdErr, pmdHw>>
\* The device's packets are no later than the last poll.
TxPoll ==
  /\ pmdTx.cur # -1 /\ (pmdTx.polls + 1 < MaxPolls \/ pmdTx.wire = <<>>)
  /\ IF pmdTx.out # <<>> THEN Compare(pmdTx, pmdTx.cur)
     ELSE /\ pmdTx' = [pmdTx EXCEPT !.polls = @ + 1]
          /\ Raise(pmdTx.polls + 1 = MaxPolls) /\ UNCHANGED pmdQ
  /\ UNCHANGED <<pmdWk, pmdErr, pmdHw>>

\* worker_clean, before and after its Timer(1, "ns").
VtxClean ==
  /\ pmdWk.pc = "clean"
  /\ pmdQ' = Freed(UsedIds) /\ Raise(UsedIds \ DOMAIN pmdQ.pool # {})
  /\ pmdTx' = [HandedOver(pmdTx) EXCEPT !.drop = pmdQ'.posted - pmdQ'.ci]
  /\ WkGoto("drop") /\ UNCHANGED <<pmdErr, pmdHw>>
VtxDrop ==
  /\ pmdWk.pc = "drop"
  /\ LET n == Min({pmdTx.drop, Len(pmdTx.refs), Len(pmdTx.qos)})
     IN /\ Raise(n < pmdTx.drop)
        /\ pmdTx' = [pmdTx EXCEPT !.refs = SubSeq(@, n + 1, Len(@)), !.qos = SubSeq(@, n + 1, Len(@)),
                                  !.out = <<>>, !.drop = 0, !.late = @ \/ pmdTx.cur # -1]
  /\ pmdQ' = [pmdQ EXCEPT !.status = "IDLE"]
  /\ WkGoto("release") /\ UNCHANGED <<pmdErr, pmdHw>>

-----------------------------------------------------------------------------
(* The device (external) sends packets in order, has sent all of them before *)
(* it is idle, and may use a chain unsent while it is forced to stop.        *)

\* _process_qos_update compares each packet with the oldest one it knows of.
QosUpdated == [pmdTx EXCEPT !.qos = IF @ = <<>> THEN @ ELSE Tail(@)]
QosWrong(pkt) == pmdTx.qos = <<>> \/ Head(pmdTx.qos) # pkt
VtxSend ==
  /\ HwActive
  /\ IF HwNext.bad
     THEN pmdHw' = HwStopped /\ UNCHANGED <<pmdTx, pmdAlarm>>
     ELSE \E len \in IF pmdHw.st = "STOPPING" /\ pmdHw.forced THEN {0, 1} ELSE {1} :
            /\ pmdHw' = [pmdHw EXCEPT !.fetched = @ + 1,
                                      !.done = Append(@, [id |-> HwNext.id, len |-> len])]
            /\ Raise(QosWrong(HwNext.load))
            /\ pmdTx' = [QosUpdated EXCEPT
                           !.wire = IF len = 0 THEN @ ELSE Append(@, [pkt |-> HwNext.load, gen |-> pmdQ.gen])]
  /\ UNCHANGED <<pmdQ, pmdWk, pmdErr>>
\* _process_net2tso: a packet has come in from its first beat to its last.
Net2Tso ==
  /\ pmdTx.wire # <<>>
  /\ pmdTx' = [pmdTx EXCEPT !.wire = Tail(@), !.out = Append(@, Head(pmdTx.wire))]
  /\ UNCHANGED lifeVars
VtxIdle == pmdTx.wire = <<>> /\ HwIdle /\ UNCHANGED pmdTx

-----------------------------------------------------------------------------
TxWorker == VtxGen \/ VtxEnd \/ VtxPost \/ VtxBell \/ VtxConsume
Stuttering(A) == A /\ UNCHANGED pmdTx
\* Steps that follow without a timer come before everything else.
TxNow == pmdTx.pc \in {"now", "consume"}
Urgent == \/ TxLook
          \/ ~Busy /\ \/ TxNow /\ TxWorker
                      \/ ~TxNow /\ (VtxClean \/ Stuttering(Release))
Calm == ~pmdTx.late /\ ~pmdQ.stale /\ ~Busy /\ ~TxNow /\ ~StopsNow /\ ~pmdAlarm
Next == \/ ~pmdAlarm /\ Urgent
        \/ Calm /\ (Stuttering(VnetNext) \/ TxWorker \/ TxPoll \/ VtxDrop \/ VtxSend \/ Net2Tso \/ VtxIdle)
Spec == Init /\ [][Next]_vars

-----------------------------------------------------------------------------
\* No comparison of the bench fails on a right device, whatever is restarted,
\* but for what came late and for an error read when it was forgotten.
VtxNoFalseAlarm == pmdAlarm => pmdTx.late \/ pmdQ.stale

\* The references are those of the used elements to be looked at, of the packets
\* in the ring and of those not yet posted, in order.
VtxRefsMatch ==
  ~pmdTx.late /\ ~pmdAlarm /\ pmdTx.pc # "done" /\ pmdWk.pc \notin {"drop", "release"} =>
    LET first == pmdQ.ci - Len(pmdTx.elem)
    IN pmdTx.refs = [i \in 1..pmdQ.posted - first |-> pmdHw.avail[first + i].load] \o pmdTx.mbufs
\* Every id of the table is free or held by one chain, whatever is restarted.
VtxIdsKept == IdsKept

\* When the test is over, nothing of the queue is left allocated.
VtxNoLeak == pmdWk.pc = "end" => ~pmdQ.rings /\ pmdQ.pool = <<>>
=============================================================================
