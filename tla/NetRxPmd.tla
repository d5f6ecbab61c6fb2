----------------------------- MODULE NetRxPmd -----------------------------
(* The receive queue of the top level simulation: packets go to the device   *)
(* as soon as they are generated, VirtioNetRx follows each one through the   *)
(* device's drop decision, the QoS answer and the allocation of a chain, the *)
(* device writes what it keeps, rx_worker posts chains and consumes them,    *)
(* and rx_check_result compares; worker_clean also drops the references of   *)
(* the chains the device took and will never use.                            *)
EXTENDS PmdLife

CONSTANTS RxSeq, RxRefs \* max_seq; packets between generation and check (128)

VARIABLE pmdRx \* rx_worker, the lists of VirtioNetRx, the device's buffer
vars == <<lifeVars, pmdRx>>

Init ==
  /\ LifeInit
  /\ pmdRx = [pc |-> "post", serial |-> 0, link |-> <<>>, raw |-> <<>>, bufInfo |-> <<>>,
              bufData |-> <<>>, info |-> <<>>, data |-> <<>>, hwBuf |-> <<>>, hold |-> <<>>,
              mbufs |-> <<>>, cleaned |-> <<>>, forced |-> 0, given |-> FALSE, checked |-> 0]

-----------------------------------------------------------------------------
(* VirtioNetRx.                                                              *)

Names == RxRefs + 1
InFlight == Len(pmdRx.link) + Len(pmdRx.bufInfo) + Len(pmdRx.info)
\* _gen_pkt and _process_beq2net: a packet carries the generation of its queue.
RxSend ==
  /\ ~pmdQ.finished /\ InFlight < RxRefs
  /\ LET p == (pmdRx.serial + 1) % Names
     IN pmdRx' = [pmdRx EXCEPT !.serial = p, !.link = Append(@, [p |-> p, gen |-> pmdQ.gen]), !.raw = Append(@, p)]
  /\ UNCHANGED lifeVars

\* The generation the device was last started with.
HwGen == IF pmdWk.pc \in {"wait", "end"} /\ pmdQ.gen > 0 THEN pmdQ.gen - 1 ELSE pmdQ.gen

\* Dropped packets at the head of rx_buf_info are moved at every clock edge.
DropsFirst(seq) ==
  IF \A i \in DOMAIN seq : seq[i].drop THEN Len(seq)
  ELSE Min({i \in DOMAIN seq : ~seq[i].drop}) - 1
MoveDrops(rx) ==
  LET n == DropsFirst(rx.bufInfo)
  IN [rx EXCEPT !.info = @ \o SubSeq(rx.bufInfo, 1, n), !.bufInfo = SubSeq(@, n + 1, Len(@))]

\* _process_drop: a packet of an older life is dropped, any other may be, for
\* its checksum, its age, at random, and then by QoS.
Drops(pkt) == IF pkt.gen # HwGen THEN {TRUE} ELSE BOOLEAN
\* _process_qos_req and _process_qos_rsp.
RxVerdict ==
  /\ pmdRx.link # <<>>
  /\ LET pkt == Head(pmdRx.link)
     IN \E drop \in Drops(pkt) :
          pmdRx' = MoveDrops([pmdRx EXCEPT !.link = Tail(@), !.raw = Tail(@),
                     !.bufInfo = Append(@, [p |-> pkt.p, drop |-> drop]),
                     !.bufData = IF drop THEN @ ELSE Append(@, Head(pmdRx.raw)),
                     !.hwBuf = IF drop THEN @ ELSE Append(@, pkt.p)])
  /\ UNCHANGED lifeVars

\* The device asks for a chain for the packet its buffer begins with;
\* _process_not_avail_id_drop watches the answer.
RxAlloc ==
  /\ pmdRx.hwBuf # <<>>
  /\ LET kept == pmdHw.st = "DOING" /\ HwActive
         rx == [pmdRx EXCEPT !.hwBuf = Tail(@), !.bufData = Tail(@), !.bufInfo = Tail(@),
                             !.info = Append(@, [p |-> Head(pmdRx.bufInfo).p, drop |-> ~kept]),
                             !.data = IF kept THEN Append(@, Head(pmdRx.bufData)) ELSE @,
                             !.hold = IF kept THEN Append(@, Head(pmdRx.hwBuf)) ELSE @]
     IN /\ pmdRx' = MoveDrops(rx)
        /\ pmdHw' = IF ~kept THEN pmdHw
                    ELSE IF HwNext.bad THEN [HwStopped EXCEPT !.fetched = @ + 1]
                    ELSE [pmdHw EXCEPT !.fetched = @ + 1]
  /\ UNCHANGED <<pmdQ, pmdWk, pmdErr, pmdAlarm>>

-----------------------------------------------------------------------------
(* The device (external) writes the packets in order; a defective chain and  *)
(* those after it are never used, and a forced stop may leave chains unused  *)
(* or use them with no data.                                                 *)

HwNth(n) == pmdHw.avail[n]
HwWrite ==
  /\ pmdRx.hold # <<>> /\ ~HwNth(Len(pmdHw.done) + 1).bad
  /\ \E len \in IF pmdHw.st = "STOPPING" /\ pmdHw.forced THEN {0, 1} ELSE {1} :
       pmdHw' = [pmdHw EXCEPT !.done = Append(@, [id |-> HwNth(Len(@) + 1).id, len |-> len, pkt |-> Head(pmdRx.hold)])]
  /\ pmdRx' = [pmdRx EXCEPT !.hold = Tail(@)]
  /\ UNCHANGED <<pmdQ, pmdWk, pmdErr, pmdAlarm>>
HwForcedIdle ==
  /\ pmdHw.st = "STOPPING" /\ pmdHw.forced /\ pmdHw.used = Len(pmdHw.done)
  /\ pmdHw' = [pmdHw EXCEPT !.st = "IDLE"]
  /\ pmdRx' = [pmdRx EXCEPT !.hold = <<>>]
  /\ UNCHANGED <<pmdQ, pmdWk, pmdErr, pmdAlarm>>

-----------------------------------------------------------------------------
(* rx_worker: the entry of a chain in the pools is under its ring index.     *)

RxBurst(needs, bad, full) ==
  LET m == Fitting(needs)
      new == [i \in 1..m |-> Chain(needs, [j \in 1..Len(needs) |-> 0], bad, i)]
      at(i) == pmdQ.posted + i - 1
  IN /\ pmdQ' = [pmdQ EXCEPT !.posted = @ + m, !.free = @ \ UNION {new[j].ids : j \in 1..m},
                             !.pool = [k \in {at(i) : i \in 1..m} |->
                                        [ids |-> new[k - pmdQ.posted + 1].ids, load |-> 0]] @@ @,
                             !.recorded = @ \/ bad \in 1..m, !.defect = @ /\ bad = 0,
                             !.soc = @ \/ (m > 0 /\ pmdQ.firstDb), !.firstDb = @ /\ m = 0,
                             !.prod = ~(full /\ m > 0)]
     /\ pmdHw' = [pmdHw EXCEPT !.avail = @ \o new]
\* As TxNeeds, for as many chains as the table has descriptors for.
RxNeeds == [1..QSz+1 -> Direct]
\* burst_rx_producer posts chains until the ids no longer suffice for one.
RxPost ==
  /\ pmdRx.pc = "post" /\ CanPost
  /\ \E needs \in RxNeeds, full \in MayBeFull :
       \E bad \in Defective(needs) :
         /\ RxBurst(needs, bad, full)
         /\ pmdRx' = [pmdRx EXCEPT !.pc = IF full /\ Fitting(needs) > 0 THEN "bell" ELSE "consume"]
  /\ UNCHANGED <<pmdWk, pmdErr, pmdAlarm>>
RxPostGivesUp ==
  /\ pmdRx.pc = "post" /\ ~CanPost /\ pmdQ.finished
  /\ pmdRx' = [pmdRx EXCEPT !.pc = "consume"] /\ UNCHANGED lifeVars
RxBell ==
  /\ pmdRx.pc = "bell" /\ BellPut
  /\ pmdRx' = [pmdRx EXCEPT !.pc = "consume"]
  /\ UNCHANGED <<pmdWk, pmdErr, pmdHw, pmdAlarm>>

\* burst_rx_consumer goes by the ring index, not by the id that came back.
RxPool == {pmdQ.ci + i - 1 : i \in 1..NrUsed}
RxConsumed ==
  [pmdQ EXCEPT !.ci = @ + NrUsed, !.pool = Restrict(@, DOMAIN @ \ RxPool),
               !.free = @ \cup UNION {pmdQ.pool[k].ids : k \in RxPool \cap DOMAIN pmdQ.pool}]
RxUsed == [i \in 1..NrUsed |-> [len |-> UsedElem(i).len, pkt |-> UsedElem(i).pkt]]
RxNextPc == IF pmdQ.finished THEN "done" ELSE "post"
RxConsume ==
  /\ pmdRx.pc = "consume"
  /\ IF pmdQ.msixEn /\ ~pmdQ.msix
     THEN pmdRx' = [pmdRx EXCEPT !.pc = RxNextPc] /\ UNCHANGED <<pmdQ, pmdAlarm>>
     ELSE /\ pmdQ' = [RxConsumed EXCEPT !.msix = FALSE] /\ Raise(RxPool \ DOMAIN pmdQ.pool # {})
          /\ pmdRx' = [pmdRx EXCEPT !.pc = RxNextPc, !.mbufs = RxUsed, !.given = TRUE]
  /\ UNCHANGED <<pmdWk, pmdErr, pmdHw>>

\* worker_clean: the consumer reads how many chains the device took before it
\* hands over what it consumed.
RxClean ==
  /\ pmdWk.pc = "clean"
  /\ pmdQ' = RxConsumed /\ Raise(RxPool \ DOMAIN pmdQ.pool # {})
  /\ pmdRx' = [pmdRx EXCEPT !.cleaned = RxUsed]
  /\ WkGoto("drop") /\ UNCHANGED <<pmdErr, pmdHw>>
\* Mutant: the chains the device gave up are not counted.
RxForcedNone ==
  /\ pmdWk.pc = "drop"
  /\ pmdRx' = [pmdRx EXCEPT !.given = TRUE, !.mbufs = pmdRx.cleaned, !.cleaned = <<>>, !.forced = 0]
  /\ pmdQ' = [pmdQ EXCEPT !.status = "IDLE"]
  /\ WkGoto("release") /\ UNCHANGED <<pmdErr, pmdHw, pmdAlarm>>
RxForced ==
  /\ pmdWk.pc = "drop"
  /\ pmdRx' = [pmdRx EXCEPT !.given = TRUE, !.mbufs = pmdRx.cleaned, !.cleaned = <<>>,
                            !.forced = pmdHw.fetched - pmdQ.ci]
  /\ pmdQ' = [pmdQ EXCEPT !.status = "IDLE"]
  /\ WkGoto("release") /\ UNCHANGED <<pmdErr, pmdHw, pmdAlarm>>

\* rx_check_result: for each used chain the references of dropped packets go,
\* then its own; the same for each chain the device took and did not use.
PopRef(a, u) ==
  LET n == DropsFirst(a.info)
      none == n = Len(a.info) \/ a.data = <<>>
  IN [info |-> SubSeq(a.info, n + 2, Len(a.info)), data |-> IF none THEN <<>> ELSE Tail(a.data),
      bad |-> a.bad \/ none \/ (u.len # 0 /\ u.pkt # Head(a.data))]
RxSettled == ~pmdRx.given
RxCheck ==
  /\ pmdRx.given
  /\ LET unused == [i \in 1..pmdRx.forced |-> [len |-> 0, pkt |-> -1]]
         all == FoldLeft(PopRef, [info |-> pmdRx.info, data |-> pmdRx.data, bad |-> FALSE], pmdRx.mbufs \o unused)
         checked == pmdRx.checked + Len(SelectSeq(pmdRx.mbufs, LAMBDA u : u.len # 0))
     IN /\ Raise(all.bad)
        /\ pmdRx' = [pmdRx EXCEPT !.given = FALSE, !.mbufs = <<>>, !.forced = 0, !.info = all.info,
                                  !.data = all.data, !.checked = Min({checked, RxSeq})]
        /\ pmdQ' = [pmdQ EXCEPT !.finished = @ \/ checked >= RxSeq]
  /\ UNCHANGED <<pmdWk, pmdErr, pmdHw>>

-----------------------------------------------------------------------------
RxWorker == RxPost \/ RxPostGivesUp \/ RxBell \/ RxConsume
RxBench == RxSend \/ RxVerdict \/ RxAlloc \/ HwWrite \/ HwForcedIdle
Stuttering(A) == A /\ UNCHANGED pmdRx
RxNow == pmdRx.pc = "consume"
Urgent == \/ RxCheck
          \/ RxSettled /\ \/ RxConsume
                          \/ ~RxNow /\ (RxClean \/ Stuttering(StopVirtq))
Calm == RxSettled /\ ~RxNow /\ ~StopsNow /\ ~pmdAlarm
Next == \/ ~pmdAlarm /\ Urgent
        \/ Calm /\ (Stuttering(LifeNext) \/ RxWorker \/ RxForced \/ RxBench)
Spec == Init /\ [][Next]_vars

-----------------------------------------------------------------------------
\* No comparison fails on a right device, whatever is dropped or restarted.
RxNoFalseAlarm == ~pmdAlarm

\* The references kept are those of the chains the device took and nobody has
\* consumed: what it has written, what it still holds, what it gave up.
RxRefsMatch ==
  RxSettled /\ pmdWk.pc \notin {"clean", "drop", "release", "wait", "end"} /\ pmdHw.st # "IDLE" /\ ~pmdHw.err =>
    pmdRx.data = [i \in 1..Len(pmdHw.done) - pmdQ.ci |-> pmdHw.done[pmdQ.ci + i].pkt] \o pmdRx.hold

RxIdsKept == IdsKept
\* Between two lives no reference of a kept packet is left.
RxNoStaleRef == pmdWk.pc \in {"wait", "end"} => pmdRx.data = <<>>
=============================================================================
