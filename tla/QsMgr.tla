------------------------------- MODULE QsMgr -------------------------------
(* The bench of the block downstream path, sim/virtio2/                      *)
(* test_virtio_blk_downstream/virtio_blk_qs_manager.py: queues are made with *)
(* chains of descriptor groups and with errors, the device asks for QoS and  *)
(* for slots, the bench steers each queue from stopped and empty to done,    *)
(* sends a group per granted slot, checks what comes back against its        *)
(* pending lists, and check_stop frees a queue when they are empty.          *)
EXTENDS Integers, Sequences, SequencesExt, FiniteSets, FiniteSetsExt, Functions

CONSTANTS Qids,    \* queue ids
          CntMax,  \* QOS_QUERY_CNT_MAX, SLOT_RSP_CNT_MAX
          Plans,   \* the tests: a sequence of queues to make, each a record [mode, chains,
                   \* qosEn, ok, stopping, ptr]; mode is "plain" or one of the faults "slot",
                   \* "err" and "down"; chains are chain, group, descriptor, block, and a
                   \* block is "good" or "bad"
          CtxDown, \* ctx_shutdown_mode
          PtrMod   \* values of a pointer (2^16)

VARIABLES qsQ,    \* _q: the queues, with their pending lists
          qsCh,   \* _local_qid_queue, _slot_rsp_queue, _slot2blk_queue and the device's channels
          qsHw,   \* the device (external): queues it schedules, its slot request
          qsStop, \* check_stop, seq, queues still to make
          qsAlarm \* log.error, an assertion or a missing queue
vars == <<qsQ, qsCh, qsHw, qsStop, qsAlarm>>

Init ==
  /\ qsQ = <<>>
  /\ qsCh = [ids |-> <<>>, rsp |-> <<>>, blk |-> <<>>, upd |-> <<>>, beq |-> <<>>, err |-> <<>>]
  /\ qsHw = [hot |-> {}, pc |-> "idle", qid |-> 0, dones |-> [q \in Qids |-> 0]]
  /\ \E plan \in Plans : qsStop = [qid |-> 0, seq |-> 0, plan |-> plan, size |-> Len(plan), over |-> FALSE]
  /\ qsAlarm = FALSE

-----------------------------------------------------------------------------
(* vQueue.                                                                   *)

\* gen_desc: the headers and the data a group will put on the bus; a descriptor
\* without blocks is one the device writes.
GroupOf(chains, c, g) == [c |-> c, g |-> g, descs |-> chains[c][g], last |-> g = Len(chains[c])]
Headers(grp) == [d \in DOMAIN grp.descs |-> [at |-> <<grp.c, grp.g, d>>, read |-> grp.descs[d] # <<>>]]
Blocks(grp) ==
  FlattenSeq([d \in DOMAIN grp.descs |->
    [b \in DOMAIN grp.descs[d] |-> [at |-> <<grp.c, grp.g, d>>, bad |-> grp.descs[d][b] = "bad"]]])

\* gen_chain: every group of every chain, in order, on each of the lists.  A
\* queue whose descriptors are in error has one descriptor in a chain, no data.
Groups(chains, mode) ==
  LET plain(c) == [g \in DOMAIN chains[c] |-> GroupOf(chains, c, g)]
      faulty(c) == <<[c |-> c, g |-> 1, descs |-> <<(<<>>)>>, last |-> TRUE]>>
  IN FlattenSeq([c \in DOMAIN chains |-> IF mode = "plain" THEN plain(c) ELSE faulty(c)])
PendingBeq(groups) == FlattenSeq([i \in DOMAIN groups |-> Headers(groups[i])])
PendingDma(groups) == FlattenSeq([i \in DOMAIN groups |-> Blocks(groups[i])])

\* __init__ and _init_vqueue.
Fresh(cfg) ==
  LET mode == cfg.mode
      groups == IF mode = "slot" THEN <<>> ELSE Groups(cfg.chains, mode)
  IN [mode |-> mode, qosEn |-> cfg.qosEn, ok |-> cfg.ok, queries |-> 0, flag |-> cfg.ok,
      doing |-> ~cfg.stopping, stopping |-> cfg.stopping, avail |-> FALSE, local |-> TRUE,
      stopCnt |-> 0, emptyCnt |-> 0, left |-> Len(groups), dones |-> 0, exp |-> <<>>,
      updates |-> Len(groups), updDone |-> mode # "plain" \/ ~cfg.qosEn, fst |-> TRUE, ptr |-> cfg.ptr,
      ptrExp |-> cfg.ptr + (IF mode = "slot" THEN 1 ELSE Len(cfg.chains)),
      desc |-> groups, qos |-> groups,
      beq |-> IF mode = "slot" THEN <<[at |-> <<1, 0, 0>>, read |-> FALSE]>> ELSE PendingBeq(groups),
      dma |-> PendingDma(groups),
      bad |-> SelectSeq(PendingDma(groups), LAMBDA b : b.bad)]

\* cold_done_process, of the state a slot response carries.
ColdDone(q) ==
  IF ~q.ok \/ (~q.doing /\ q.stopping) \/ (q.doing /\ ~q.stopping /\ ~q.avail /\ q.local) THEN <<1, 0>>
  ELSE IF (~q.doing /\ ~q.stopping) \/ (q.doing /\ ~q.stopping /\ q.avail /\ q.local) THEN <<0, 1>>
  ELSE <<0, 0>>

-----------------------------------------------------------------------------
(* The coroutines of VirtQs.                                                 *)

Has(q) == q \in DOMAIN qsQ
Alarm(bad) == qsAlarm' = (qsAlarm \/ bad)
With(q, rec) == [qsQ EXCEPT ![q] = rec]

\* set_queue takes a free id and makes a queue of it.
SetQueue ==
  /\ qsStop.plan # <<>>
  /\ \E q \in Qids \ DOMAIN qsQ :
       /\ qsQ' = (q :> Fresh(Head(qsStop.plan))) @@ qsQ
       /\ qsCh' = [qsCh EXCEPT !.ids = Append(@, q)]
  /\ qsStop' = [qsStop EXCEPT !.plan = Tail(@)]
  /\ UNCHANGED <<qsHw, qsAlarm>>
\* sch_req_process.
SchReq ==
  /\ qsCh.ids # <<>>
  /\ qsCh' = [qsCh EXCEPT !.ids = Tail(@)]
  /\ qsHw' = [qsHw EXCEPT !.hot = @ \cup {Head(qsCh.ids)}, !.dones[Head(qsCh.ids)] = 0]
  /\ UNCHANGED <<qsQ, qsStop, qsAlarm>>

\* qos_query_process: a queue is refused at most CntMax times.
QosQuery ==
  /\ qsHw.pc = "query"
  /\ LET q == qsQ[qsHw.qid]
     IN /\ qsQ' = With(qsHw.qid, IF q.ok THEN [q EXCEPT !.flag = TRUE]
                                 ELSE [q EXCEPT !.queries = @ + 1, !.ok = q.queries + 1 = CntMax])
        /\ qsHw' = [qsHw EXCEPT !.pc = IF q.ok THEN "slot" ELSE "idle"]
        /\ Alarm(~q.fst \/ ~q.qosEn)
  /\ UNCHANGED <<qsCh, qsStop>>
\* slot_req_process.
SlotReq ==
  /\ qsHw.pc = "slot" /\ qsHw' = [qsHw EXCEPT !.pc = "wait"]
  /\ qsCh' = [qsCh EXCEPT !.rsp = Append(@, qsHw.qid)]
  /\ Alarm(~qsQ[qsHw.qid].ok)
  /\ UNCHANGED <<qsQ, qsStop>>

\* What slot_rsp_process makes of a queue after an answer: it leaves stopping,
\* then is empty no more, then offers its groups, then is done in one of two ways.
Steered(q) ==
  IF ~q.flag THEN {q}
  ELSE IF q.stopping
  THEN {IF q.stopCnt + 1 = CntMax THEN [q EXCEPT !.stopCnt = CntMax, !.stopping = FALSE, !.doing = TRUE]
        ELSE [q EXCEPT !.stopCnt = @ + 1]}
  ELSE IF q.doing /\ q.local /\ q.emptyCnt <= CntMax
  THEN {[q EXCEPT !.emptyCnt = @ + 1, !.local = q.emptyCnt + 1 # CntMax]}
  ELSE IF q.doing /\ ~q.local /\ ~q.avail /\ (q.mode = "slot" \/ q.left = 0)
  THEN {[q EXCEPT !.doing = FALSE], [q EXCEPT !.local = TRUE, !.avail = TRUE]}
  ELSE {q}
SlotRsp ==
  /\ qsCh.rsp # <<>>
  /\ LET id == Head(qsCh.rsp)
         q == [qsQ[id] EXCEPT !.exp = ColdDone(qsQ[id])]
         grants == q.exp = <<0, 0>> /\ q.mode # "slot" /\ q.left # 0
         sent == [q EXCEPT !.dones = IF q.exp[2] = 1 THEN Min({@ + 1, 2}) ELSE @,
                           !.left = IF grants THEN @ - 1 ELSE @]
         fails == q.exp = <<0, 0>> /\ q.mode = "slot"
     IN /\ \E r \in Steered(sent) :
             qsQ' = With(id, IF fails THEN [r EXCEPT !.ptr = (@ + 1) % PtrMod] ELSE r)
        /\ qsCh' = [qsCh EXCEPT !.rsp = Tail(@),
                      !.blk = IF grants THEN Append(@, id) ELSE @,
                      !.beq = IF fails THEN Append(@, [q |-> id, sop |-> TRUE, down |-> FALSE, at |-> <<1, 0, 0>>, bad |-> FALSE]) ELSE @,
                      !.err = IF fails THEN Append(@, [q |-> id, code |-> "slot"]) ELSE @]
        \* The device (external) is through with a queue after two answers that it is done.
        /\ qsHw' = [qsHw EXCEPT !.pc = "idle", !.dones[id] = IF q.exp[2] = 1 THEN @ + 1 ELSE 0,
                      !.hot = IF (q.exp = <<0, 0>> /\ ~fails) \/ (q.exp[2] = 1 /\ qsHw.dones[id] = 1)
                              THEN @ \ {id} ELSE @]
        /\ Alarm(q.exp = <<0, 0>> /\ ~fails /\ ~grants)
  /\ UNCHANGED qsStop

-----------------------------------------------------------------------------
(* The device (external): it schedules a queue, asks for QoS at the first    *)
(* group of a chain, and puts a group on the bus: a header per descriptor    *)
(* and its data; a forced shutdown cuts it at the header or in the data.     *)

HwSched ==
  /\ qsHw.pc = "idle" /\ \E q \in qsHw.hot :
       /\ Alarm(~Has(q))
       /\ qsHw' = IF Has(q) THEN [qsHw EXCEPT !.qid = q, !.pc = IF qsQ[q].qosEn /\ qsQ[q].fst
                                                                THEN "query" ELSE "slot"]
                  ELSE qsHw
  /\ UNCHANGED <<qsQ, qsCh, qsStop>>

Beat(id, sop, down, b) == [q |-> id, sop |-> sop, down |-> down, at |-> b.at, bad |-> ~sop /\ b.bad]
\* cut[d]: all of descriptor d, only its header, or some data and a last beat of zeros.
DescBeats(id, grp, d, cut) ==
  LET hdr == Headers(grp)[d]
      data == SelectSeq(Blocks(grp), LAMBDA b : b.at = hdr.at)
  IN <<Beat(id, TRUE, cut = "header", hdr)>>
     \o (CASE cut = "whole" -> [i \in DOMAIN data |-> Beat(id, FALSE, FALSE, data[i])]
           [] cut = "header" -> <<>>
           [] OTHER -> <<Beat(id, FALSE, TRUE, data[1])>>)
Cuts(grp) == {cut \in [DOMAIN grp.descs -> IF CtxDown THEN {"whole", "header", "data"} ELSE {"whole"}] :
                \A d \in DOMAIN cut : cut[d] = "data" => grp.descs[d] # <<>>}

\* blk_desc_process sends the next group of the queue whose slot was granted.
BlkDesc ==
  /\ qsCh.blk # <<>>
  /\ LET id == Head(qsCh.blk)
         q == qsQ[id]
         grp == Head(q.desc)
         plain == q.mode = "plain"
     IN \E cut \in IF plain THEN Cuts(grp) ELSE {[d \in {1} |-> IF q.mode = "down" THEN "header" ELSE "whole"]} :
          LET beats == FlattenSeq([d \in DOMAIN grp.descs |-> DescBeats(id, grp, d, cut[d])])
              errs == SelectSeq(beats, LAMBDA b : b.bad /\ ~b.down)
          IN /\ qsQ' = With(id, [q EXCEPT !.desc = Tail(@), !.fst = grp.last,
                                          !.ptr = IF grp.last THEN (@ + 1) % PtrMod ELSE @])
             /\ qsCh' = [qsCh EXCEPT !.blk = Tail(@), !.beq = @ \o beats,
                           !.upd = IF plain /\ q.qosEn THEN Append(@, [q |-> id, at |-> <<grp.c, grp.g>>]) ELSE @,
                           !.err = @ \o (IF q.mode = "err" THEN <<[q |-> id, code |-> "err"]>>
                                         ELSE [i \in DOMAIN errs |-> [q |-> id, code |-> "dma"]])]
             /\ qsHw' = [qsHw EXCEPT !.hot = @ \cup {id}]
  /\ UNCHANGED <<qsStop, qsAlarm>>

-----------------------------------------------------------------------------
(* The checkers.                                                             *)

\* qos_update_process.
QosUpdate ==
  /\ qsCh.upd # <<>>
  /\ LET u == Head(qsCh.upd)
         bad == ~Has(u.q) \/ qsQ[u.q].qos = <<>> \/ <<Head(qsQ[u.q].qos).c, Head(qsQ[u.q].qos).g>> # u.at
     IN /\ Alarm(bad)
        /\ qsQ' = IF bad THEN qsQ
                  ELSE [qsQ EXCEPT ![u.q].qos = Tail(@), ![u.q].updates = @ - 1,
                                   ![u.q].updDone = @ \/ qsQ[u.q].updates = 1]
  /\ qsCh' = [qsCh EXCEPT !.upd = Tail(@)]
  /\ UNCHANGED <<qsHw, qsStop>>

\* blk2beq_process: a header is compared with the oldest pending one and, when
\* it is flagged, takes the data of its descriptor from the list.
BeqHeader(b, q) ==
  LET h == Head(q.beq)
      drop == b.down /\ q.mode = "plain" /\ h.read
  IN [q EXCEPT !.beq = Tail(@),
               !.dma = IF drop THEN SelectSeq(@, LAMBDA x : x.at # h.at) ELSE @]
HeaderBad(b, q) == \/ q.beq = <<>>
                   \/ Head(q.beq).at # b.at
                   \/ ~CtxDown /\ q.mode # "slot" /\ b.down # (q.mode = "down")
\* Data with the flag ends its descriptor.
BeqData(b, q) ==
  [q EXCEPT !.dma = IF b.down THEN SelectSeq(@, LAMBDA x : x.at # Head(q.dma).at) ELSE Tail(@)]
DataBad(b, q) == q.dma = <<>> \/ (~b.down /\ (Head(q.dma).at # b.at \/ Head(q.dma).bad # b.bad))
Blk2Beq ==
  /\ qsCh.beq # <<>>
  /\ LET b == Head(qsCh.beq)
         bad == ~Has(b.q) \/ (IF b.sop THEN HeaderBad(b, qsQ[b.q]) ELSE DataBad(b, qsQ[b.q]))
     IN /\ Alarm(bad)
        /\ qsQ' = IF bad THEN qsQ
                  ELSE With(b.q, IF b.sop THEN BeqHeader(b, qsQ[b.q]) ELSE BeqData(b, qsQ[b.q]))
  /\ qsCh' = [qsCh EXCEPT !.beq = Tail(@)]
  /\ UNCHANGED <<qsHw, qsStop>>

\* blk_ds_err_info_check_process.
ErrInfo ==
  /\ qsCh.err # <<>>
  /\ LET e == Head(qsCh.err)
         q == qsQ[e.q]
         dma == q.mode \notin {"slot", "err"} /\ q.bad # <<>>
     IN IF ~Has(e.q) THEN Alarm(TRUE) /\ UNCHANGED qsQ
        ELSE /\ Alarm(e.code # (IF q.mode \in {"slot", "err"} THEN q.mode ELSE IF dma THEN "dma" ELSE "none"))
             /\ qsQ' = IF dma THEN [qsQ EXCEPT ![e.q].bad = Tail(@)] ELSE qsQ
  /\ qsCh' = [qsCh EXCEPT !.err = Tail(@)]
  /\ UNCHANGED <<qsHw, qsStop>>

\* check_stop, of one queue, up to its second timer: the pointer moved by the
\* number of chains, which a plain queue compares without wrapping.
Satisfied(q) == q.beq = <<>> /\ q.dma = <<>> /\ q.exp = <<0, 1>> /\ q.updDone /\ q.dones >= 2
CheckStop ==
  /\ qsStop.qid = 0 /\ ~qsStop.over
  /\ \E id \in DOMAIN qsQ :
       LET q == qsQ[id]
       IN /\ Satisfied(q)
          /\ qsStop' = [qsStop EXCEPT !.qid = id]
          /\ Alarm(q.ptr # (IF q.mode = "plain" THEN q.ptrExp ELSE q.ptrExp % PtrMod))
  /\ UNCHANGED <<qsQ, qsCh, qsHw>>
\* Five microseconds later, when the error channel is quiet, it is deleted.
StopDelete ==
  /\ qsStop.qid # 0 /\ \A i \in DOMAIN qsCh.err : qsCh.err[i].q # qsStop.qid
  /\ qsQ' = Restrict(qsQ, DOMAIN qsQ \ {qsStop.qid})
  /\ qsStop' = [qsStop EXCEPT !.qid = 0, !.seq = @ + 1, !.over = DOMAIN qsQ = {qsStop.qid}]
  /\ UNCHANGED <<qsCh, qsHw, qsAlarm>>

Process == SchReq \/ QosQuery \/ SlotReq \/ SlotRsp \/ BlkDesc \/ QosUpdate \/ Blk2Beq \/ ErrInfo
\* set_queue needs no time as long as there is an id.
MakesNow == qsStop.plan # <<>> /\ Qids \ DOMAIN qsQ # {}
Next == ~qsAlarm /\ (SetQueue \/ (~MakesNow /\ (Process \/ HwSched \/ CheckStop \/ StopDelete)))
Spec == Init /\ [][Next]_vars

-----------------------------------------------------------------------------
\* The bench finds no error in a right device, and never looks up a queue it has
\* freed, but for a plain queue whose pointer wraps round.
Wraps == \E id \in DOMAIN qsQ : qsQ[id].mode = "plain" /\ qsQ[id].ptrExp >= PtrMod
QsNoFalseAlarm == qsAlarm => Wraps

\* Headers that are pending are those on the bus and those of the groups that
\* were not sent, in this order; a group not sent has a slot or waits for one.
QsPendingKept ==
  \A id \in DOMAIN qsQ : ~qsAlarm =>
    LET q == qsQ[id]
        onBus == SelectSeq(qsCh.beq, LAMBDA b : b.q = id /\ b.sop)
        at(seq) == [i \in DOMAIN seq |-> seq[i].at]
    IN /\ q.mode # "slot" => at(q.beq) = at(onBus) \o at(PendingBeq(q.desc))
       /\ Len(q.desc) = q.left + Len(SelectSeq(qsCh.blk, LAMBDA x : x = id))

\* check_stop ends when every queue of the test has been freed, and it ends.
QsStopsLast == qsStop.over => qsStop.seq = qsStop.size
QsOver == qsAlarm \/ qsStop.over
=============================================================================
