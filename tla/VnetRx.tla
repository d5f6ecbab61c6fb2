------------------------------- MODULE VnetRx -------------------------------
(* A receive queue of the network simulation.  VirtioNetRx follows a packet  *)
(* through the stages of the device's drop decision with a coroutine to each *)
(* stage, joined by queues: the decision, the query of QoS, its answer, the  *)
(* step that keeps or drops the packet, and the allocation of a chain.  QoS  *)
(* is enabled, so the device waits for the answers; without it the stages    *)
(* race with the device's clock.  A second reader of the check queue,        *)
(* _process_rx_check, is never before the one that is blocked on it.         *)
EXTENDS VnetLife

CONSTANTS RxSeq, RxRefs \* max_seq; packets between generation and check (128)

VARIABLE pmdRx \* rx_worker, the lists of VirtioNetRx, the device's buffer
vars == <<lifeVars, pmdRx>>

\* next: the generation the next packet was generated in.
Init ==
  /\ VnetInit
  /\ pmdRx = [pc |-> "post", serial |-> 0, next |-> 0, sent |-> <<>>, list |-> <<>>, drop |-> <<>>, req |-> <<>>,
              rsp |-> <<>>, bufInfo |-> <<>>, bufData |-> <<>>, info |-> <<>>, data |-> <<>>,
              hwBuf |-> <<>>, hold |-> <<>>, given |-> FALSE, mbufs |-> <<>>, cleaned |-> <<>>,
              forced |-> 0, checked |-> 0]

-----------------------------------------------------------------------------
(* VirtioNetRx.                                                              *)

Names == RxRefs + 1
InFlight == Len(pmdRx.list) + Len(pmdRx.bufInfo) + Len(pmdRx.info)
\* _gen_pkt generates ahead: a packet has the generation of the queue then.
\* _process_beq2net sends it, its number to the checks and its data to the list.
Beq2Net ==
  /\ ~pmdQ.finished /\ InFlight < RxRefs
  /\ LET p == (pmdRx.serial + 1) % Names
     IN pmdRx' = [pmdRx EXCEPT !.serial = p, !.next = pmdQ.gen, !.list = Append(@, p),
                               !.sent = Append(@, [p |-> p, gen |-> pmdRx.next])]
  /\ UNCHANGED lifeVars

\* The generation the device was last started with.
HwGen == IF pmdWk.pc \in {"wait", "config", "end"} /\ pmdQ.gen > 0 THEN pmdQ.gen - 1 ELSE pmdQ.gen
\* _process_drop at a decision of the device: a packet of another life is
\* dropped, any other may be, for its checksum, its age or at random.
ProcessDrop ==
  /\ pmdRx.sent # <<>>
  /\ LET pkt == Head(pmdRx.sent)
     IN \E bad \in IF pkt.gen # HwGen THEN {TRUE} ELSE BOOLEAN :
          pmdRx' = [pmdRx EXCEPT !.sent = Tail(@), !.drop = Append(@, [p |-> pkt.p, drop |-> bad])]
  /\ UNCHANGED lifeVars
\* _process_qos_req and _process_qos_rsp: the query of the device, the answer.
QosReq ==
  /\ pmdRx.drop # <<>>
  /\ pmdRx' = [pmdRx EXCEPT !.drop = Tail(@), !.req = Append(@, Head(pmdRx.drop))]
  /\ UNCHANGED lifeVars
QosRsp ==
  /\ pmdRx.req # <<>>
  /\ \E ok \in BOOLEAN :
       pmdRx' = [pmdRx EXCEPT !.req = Tail(@),
                              !.rsp = Append(@, [Head(pmdRx.req) EXCEPT !.drop = @ \/ ~ok])]
  /\ UNCHANGED lifeVars

\* Dropped packets at the head of rx_buf_info are moved on at every clock edge.
DropsFirst(seq) ==
  IF \A i \in DOMAIN seq : seq[i].drop THEN Len(seq)
  ELSE Min({i \in DOMAIN seq : ~seq[i].drop}) - 1
MoveDrops(rx) ==
  LET n == DropsFirst(rx.bufInfo)
  IN [rx EXCEPT !.info = @ \o SubSeq(rx.bufInfo, 1, n), !.bufInfo = SubSeq(@, n + 1, Len(@))]
\* _process_drop_data: the device, out of buffers or not, keeps or drops the packet.
DropData ==
  /\ pmdRx.rsp # <<>>
  /\ \E empty \in IF Head(pmdRx.rsp).drop THEN {FALSE} ELSE BOOLEAN :
       LET pkt == Head(pmdRx.rsp)
           lost == pkt.drop \/ empty
       IN pmdRx' = MoveDrops([pmdRx EXCEPT !.rsp = Tail(@), !.list = Tail(@),
                     !.bufInfo = Append(@, [p |-> pkt.p, drop |-> lost]),
                     !.bufData = IF lost THEN @ ELSE Append(@, Head(pmdRx.list)),
                     !.hwBuf = IF lost THEN @ ELSE Append(@, pkt.p)])
  /\ UNCHANGED lifeVars

\* _process_not_avail_id_drop: the device asks for a chain for the packet its
\* buffer begins with, and has none when the ring is empty or the queue not DOING.
AllocSlot ==
  /\ pmdRx.hwBuf # <<>>
  /\ LET kept == pmdHw.st = "DOING" /\ HwActive
         rx == [pmdRx EXCEPT !.hwBuf = Tail(@), !.bufData = Tail(@), !.bufInfo = Tail(@),
                             !.info = Append(@, [p |-> Head(pmdRx.bufInfo).p, drop |-> ~kept]),
                             !.data = IF kept THEN Append(@, Head(pmdRx.bufData)) ELSE @,
                             !.hold = IF kept THEN Append(@, Head(pmdRx.hwBuf)) ELSE @]
     IN /\ pmdRx' = MoveDrops(rx)
        /\ pmdHw' = CASE ~kept -> pmdHw
                      [] kept /\ HwNext.bad -> [HwStopped EXCEPT !.fetched = @ + 1]
                      [] OTHER -> [pmdHw EXCEPT !.fetched = @ + 1]
  /\ UNCHANGED <<pmdQ, pmdWk, pmdErr, pmdAlarm>>

-----------------------------------------------------------------------------
(* The device (external) writes the packets in order; a defective chain and  *)
(* those after it are never used, and a forced stop may leave chains unused  *)
(* or use them with no data.                                                 *)

NextUsed == pmdHw.avail[Len(pmdHw.done) + 1]
HwWrite ==
  /\ pmdRx.hold # <<>> /\ ~NextUsed.bad
  /\ \E len \in IF pmdHw.st = "STOPPING" /\ pmdHw.forced THEN {0, 1} ELSE {1} :
       pmdHw' = [pmdHw EXCEPT !.done = Append(@, [id |-> NextUsed.id, len |-> len, pkt |-> Head(pmdRx.hold)])]
  /\ pmdRx' = [pmdRx EXCEPT !.hold = Tail(@)]
  /\ UNCHANGED <<pmdQ, pmdWk, pmdErr, pmdAlarm>>
HwGivesUp ==
  /\ pmdHw.st = "STOPPING" /\ pmdHw.forced /\ pmdHw.used = Len(pmdHw.done)
  /\ pmdHw' = [pmdHw EXCEPT !.st = "IDLE"]
  /\ pmdRx' = [pmdRx EXCEPT !.hold = <<>>]
  /\ UNCHANGED <<pmdQ, pmdWk, pmdErr, pmdAlarm>>

-----------------------------------------------------------------------------
(* rx_worker: the pools of a receive queue go by ring index.                 *)

\* The table descriptors of as many chains as there may be ids for.
VrxNeeds == [1..Cardinality(pmdQ.free) -> Direct]
\* The chains of a burst with a defect in one of their descriptors.
VrxBads(needs) == Defects(Fitting(needs))
\* burst_rx_producer posts chains until the ids no longer suffice for one.
VrxPost ==
  /\ pmdRx.pc = "post" /\ CanPost
  /\ \E needs \in VrxNeeds, full \in MayBeFull :
       \E bads \in VrxBads(needs) :
         LET new == Laid(needs, [i \in DOMAIN needs |-> 0], bads)
             wait == full /\ new # <<>>
         IN /\ WriteAvail(new, [i \in DOMAIN new |-> pmdQ.posted + i - 1], wait)
            /\ pmdRx' = [pmdRx EXCEPT !.pc = IF wait THEN "bell" ELSE "consume"]
  /\ UNCHANGED <<pmdWk, pmdErr, pmdAlarm>>
VrxBell ==
  /\ pmdRx.pc = "bell" /\ BellPut
  /\ pmdRx' = [pmdRx EXCEPT !.pc = "consume"]
  /\ UNCHANGED <<pmdWk, pmdErr, pmdHw, pmdAlarm>>

\* burst_rx_consumer: the entries of as many indices as there are used elements.
UsedKeys == {pmdQ.ci + i - 1 : i \in 1..NrUsed}
Mbufs == [i \in 1..NrUsed |-> [len |-> UsedElem(i).len, pkt |-> UsedElem(i).pkt]]
VrxConsume ==
  /\ pmdRx.pc = "consume"
  /\ LET next == IF pmdQ.finished THEN "done" ELSE "post"
     IN IF pmdQ.msixEn /\ ~pmdQ.msix
        THEN pmdRx' = [pmdRx EXCEPT !.pc = next] /\ UNCHANGED <<pmdQ, pmdAlarm>>
        ELSE /\ pmdQ' = [Freed(UsedKeys) EXCEPT !.msix = FALSE]
             /\ Raise(UsedKeys \ DOMAIN pmdQ.pool # {})
             /\ pmdRx' = [pmdRx EXCEPT !.pc = next, !.mbufs = Mbufs, !.given = TRUE]
  /\ UNCHANGED <<pmdWk, pmdErr, pmdHw>>

\* worker_clean: the consumer reads how many chains the device took before it
\* hands over what it consumed.
VrxClean ==
  /\ pmdWk.pc = "clean"
  /\ pmdQ' = Freed(UsedKeys) /\ Raise(UsedKeys \ DOMAIN pmdQ.pool # {})
  /\ pmdRx' = [pmdRx EXCEPT !.cleaned = Mbufs]
  /\ WkGoto("drop") /\ UNCHANGED <<pmdErr, pmdHw>>
VrxForced ==
  /\ pmdWk.pc = "drop"
  /\ pmdRx' = [pmdRx EXCEPT !.given = TRUE, !.mbufs = pmdRx.cleaned, !.cleaned = <<>>,
                            !.forced = pmdHw.fetched - pmdQ.ci]
  /\ pmdQ' = [pmdQ EXCEPT !.status = "IDLE"]
  /\ WkGoto("release") /\ UNCHANGED <<pmdErr, pmdHw, pmdAlarm>>

\* drop_pkt, then the reference of a chain that the device took.
TakeRef(a, right(_)) ==
  LET n == DropsFirst(a.info)
      none == n = Len(a.info) \/ a.data = <<>>
  IN [info |-> SubSeq(a.info, n + 2, Len(a.info)), data |-> IF none THEN <<>> ELSE Tail(a.data),
      bad |-> a.bad \/ none \/ ~right(Head(a.data))]
\* rx_check_result: the used chains, then those the device gave up.
VrxCheck ==
  /\ pmdRx.given
  /\ LET used == FoldLeft(LAMBDA a, u : TakeRef(a, LAMBDA ref : u.len = 0 \/ u.pkt = ref),
                          [info |-> pmdRx.info, data |-> pmdRx.data, bad |-> FALSE], pmdRx.mbufs)
         all == FoldLeft(LAMBDA a, i : TakeRef(a, LAMBDA ref : TRUE), used, [i \in 1..pmdRx.forced |-> i])
         checked == pmdRx.checked + Len(SelectSeq(pmdRx.mbufs, LAMBDA u : u.len # 0))
     IN /\ Raise(all.bad)
        /\ pmdRx' = [pmdRx EXCEPT !.given = FALSE, !.mbufs = <<>>, !.forced = 0, !.info = all.info,
                                  !.data = all.data, !.checked = Min({checked, RxSeq})]
        /\ pmdQ' = [pmdQ EXCEPT !.finished = @ \/ checked >= RxSeq]
  /\ UNCHANGED <<pmdWk, pmdErr, pmdHw>>

-----------------------------------------------------------------------------
RxWorker == VrxPost \/ VrxBell \/ VrxConsume
Bench == Beq2Net \/ ProcessDrop \/ QosReq \/ QosRsp \/ DropData \/ AllocSlot
Stuttering(A) == A /\ UNCHANGED pmdRx
RxNow == pmdRx.pc = "consume"
Urgent == \/ VrxCheck
          \/ ~pmdRx.given /\ \/ VrxConsume
                             \/ ~RxNow /\ (VrxClean \/ Stuttering(Release))
Calm == ~pmdQ.stale /\ ~pmdRx.given /\ ~RxNow /\ ~StopsNow /\ ~pmdAlarm
Next == \/ ~pmdAlarm /\ Urgent
        \/ Calm /\ \/ Stuttering(VnetNext \/ HwIdle)
                   \/ RxWorker \/ VrxForced \/ Bench \/ HwWrite \/ HwGivesUp
Spec == Init /\ [][Next]_vars

-----------------------------------------------------------------------------
\* No comparison fails on a right device, whatever is dropped or restarted, but
\* for an error read when it was forgotten.
VrxNoFalseAlarm == pmdAlarm => pmdQ.stale

\* The references kept are those of the chains the device took and nobody has
\* consumed, and the lists of the stages follow the packets one by one.
VrxRefsMatch ==
  /\ ~pmdRx.given /\ pmdWk.pc \notin {"clean", "drop", "release", "wait", "config", "end"}
     /\ pmdHw.st # "IDLE" /\ ~pmdHw.err =>
       pmdRx.data = [i \in 1..Len(pmdHw.done) - pmdQ.ci |-> pmdHw.done[pmdQ.ci + i].pkt] \o pmdRx.hold
  /\ pmdRx.list = LET stages == pmdRx.rsp \o pmdRx.req \o pmdRx.drop \o pmdRx.sent
                  IN [i \in DOMAIN stages |-> stages[i].p]
\* Every id of the table is free or held by one chain, whatever is restarted.
VrxIdsKept == IdsKept
\* Between two lives no reference of a kept packet is left, and at the end
\* nothing of the queue is allocated.
VrxNoStaleRef == pmdWk.pc \in {"wait", "end"} => pmdRx.data = <<>>
VrxNoLeak == pmdWk.pc = "end" => ~pmdQ.rings /\ pmdQ.pool = <<>>
=============================================================================
