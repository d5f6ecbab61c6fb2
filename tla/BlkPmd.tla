------------------------------ MODULE BlkPmd ------------------------------
(* The block queue of the top level simulation: blk_worker generates         *)
(* requests under tags and posts them, the device hands each descriptor of a *)
(* chain to the backend of the bench, which answers a complete chain with    *)
(* data and status, and blk_check_result compares what the frontend finds in *)
(* memory with what the backend did.  A stop deletes the requests that were  *)
(* not answered, whatever the backend still holds of them.                   *)
EXTENDS PmdLife

CONSTANTS BlkSeq, BlkTags, BlkBatch, \* max_seq; tags (65536); mbufs (32)
          Types                      \* subset of {"data", "flush"}

VARIABLES pmdBlk, \* blk_worker, blk_exp_queues, blk_act_queues and blk_check_result
          pmdBe   \* _blk_backend_req and _blk_backend_rsp, and the device's side of them
vars == <<lifeVars, pmdBlk, pmdBe>>

Init ==
  /\ LifeInit
  /\ pmdBlk = [pc |-> "gen", mbufs |-> <<>>, exp |-> <<>>, act |-> <<>>, checked |-> 0]
  /\ pmdBe = [queue |-> <<>>, chain |-> <<>>, up |-> TRUE, used |-> 0, busy |-> <<>>,
              rsp |-> <<>>, lag |-> FALSE]

\* A request: its tag, and the descriptors of its chain (reads and writes carry
\* data between header and status, the others do not).
NrDescs(type) == IF type = "flush" THEN 2 ELSE 3
NotYet == [type |-> "none", be |-> 0]

-----------------------------------------------------------------------------
(* blk_worker.                                                               *)

BlkGen ==
  /\ pmdBlk.pc = "gen" /\ ~pmdQ.finished
  /\ LET free == (1..BlkTags) \ DOMAIN pmdBlk.exp
         room == Len(pmdBlk.mbufs) < BlkBatch /\ free # {}
     IN \E type \in IF room THEN Types ELSE {"none"} :
          pmdBlk' = [pmdBlk EXCEPT
            !.pc = IF CanPost THEN "now" ELSE "post",
            !.mbufs = IF room THEN Append(@, [tag |-> Min(free), type |-> type]) ELSE @,
            !.exp = IF room THEN (Min(free) :> [type |-> type, be |-> 0]) @@ @ ELSE @]
  /\ UNCHANGED <<lifeVars, pmdBe>>
BlkEnd ==
  /\ pmdBlk.pc = "gen" /\ pmdQ.finished
  /\ pmdBlk' = [pmdBlk EXCEPT !.pc = "done", !.mbufs = <<>>]
  /\ UNCHANGED <<lifeVars, pmdBe>>
\* As TxNeeds, for a header, data and a status.
BlkNeeds == [1..Min({Room, Len(pmdBlk.mbufs)}) -> Direct]
BlkPost ==
  /\ pmdBlk.pc \in {"now", "post"} /\ CanPost
  /\ \E needs \in BlkNeeds, full \in MayBeFull :
       \E bad \in Defective(needs) :
         /\ Burst(needs, pmdBlk.mbufs, bad, full)
         /\ LET m == Fitting(needs)
            IN pmdBlk' = [pmdBlk EXCEPT !.pc = IF full /\ m > 0 THEN "bell" ELSE "consume",
                                        !.mbufs = SubSeq(@, m + 1, Len(@))]
  /\ UNCHANGED <<pmdWk, pmdErr, pmdAlarm, pmdBe>>
BlkPostGivesUp ==
  /\ pmdBlk.pc = "post" /\ ~CanPost /\ pmdQ.finished
  /\ pmdBlk' = [pmdBlk EXCEPT !.pc = "consume"] /\ UNCHANGED <<lifeVars, pmdBe>>
BlkBell ==
  /\ pmdBlk.pc = "bell" /\ BellPut
  /\ pmdBlk' = [pmdBlk EXCEPT !.pc = "consume"]
  /\ UNCHANGED <<pmdWk, pmdErr, pmdHw, pmdAlarm, pmdBe>>

\* burst_blk_consumer: what it finds in the regions of each used chain.
TakeUsed(blk) == [blk EXCEPT !.act = @ \o [i \in 1..NrUsed |->
                    LET e == UsedElem(i) IN [tag |-> pmdQ.pool[e.id].load.tag,
                                             type |-> pmdQ.pool[e.id].load.type, mem |-> e.len]]]
BlkConsume ==
  /\ pmdBlk.pc = "consume"
  /\ IF pmdQ.msixEn /\ ~pmdQ.msix
     THEN pmdBlk' = [pmdBlk EXCEPT !.pc = "gen"] /\ UNCHANGED <<pmdQ, pmdAlarm>>
     ELSE /\ Raise(ConsumeBad)
          /\ IF ConsumeBad THEN UNCHANGED <<pmdQ, pmdBlk>>
             ELSE /\ pmdQ' = [Consumed EXCEPT !.msix = FALSE]
                  /\ pmdBlk' = [TakeUsed(pmdBlk) EXCEPT !.pc = "gen"]
  /\ UNCHANGED <<pmdWk, pmdErr, pmdHw, pmdBe>>
\* worker_clean does not wait: the queue is idle right after its consumer.
Clean ==
  /\ pmdWk.pc = "clean" /\ Raise(ConsumeBad)
  /\ IF ConsumeBad THEN UNCHANGED <<pmdQ, pmdBlk>>
     ELSE pmdQ' = [Consumed EXCEPT !.status = "IDLE"] /\ pmdBlk' = TakeUsed(pmdBlk)
  /\ WkGoto("release") /\ UNCHANGED <<pmdErr, pmdHw, pmdBe>>

\* VirtQ.stop deletes the expectations of the chains that are still posted.
StopBlkQueue ==
  /\ StopVirtq
  /\ LET left == {pmdQ.pool[i].load.tag : i \in DOMAIN pmdQ.pool}
     IN pmdBlk' = [pmdBlk EXCEPT !.exp = Restrict(@, DOMAIN @ \ left)]
  /\ pmdBe' = [pmdBe EXCEPT !.lag = @ \/ pmdBe.queue # <<>> \/ pmdBe.busy # <<>>]
\* VirtQ.start for a block queue also opens the backend.
StartBlkQueue ==
  /\ StartQueue
  /\ pmdBe' = [pmdBe EXCEPT !.up = TRUE, !.used = 0]
  /\ UNCHANGED pmdBlk

\* blk_check_result: memory holds what the backend answered.
Check ==
  /\ pmdBlk.act # <<>>
  /\ LET a == Head(pmdBlk.act)
         info == IF a.tag \in DOMAIN pmdBlk.exp THEN pmdBlk.exp[a.tag] ELSE NotYet
     IN /\ Raise(info.type # a.type \/ info.be = 0 \/ info.be # a.mem)
        /\ pmdBlk' = [pmdBlk EXCEPT !.act = Tail(@), !.exp = Restrict(@, DOMAIN @ \ {a.tag}),
                                    !.checked = Min({@ + 1, BlkSeq})]
        /\ pmdQ' = [pmdQ EXCEPT !.finished = @ \/ pmdBlk.checked + 1 >= BlkSeq]
  /\ UNCHANGED <<pmdWk, pmdErr, pmdHw, pmdBe>>

-----------------------------------------------------------------------------
(* The backend: one descriptor of a chain after the other.                   *)

Answer(be, req) == [be EXCEPT !.busy = <<>>, !.used = @ + 1,
                              !.rsp = Append(@, [req EXCEPT !.idx = be.used])]
BeTake ==
  /\ pmdBe.queue # <<>> /\ pmdBe.busy = <<>>
  /\ LET e == Head(pmdBe.queue)
         be == [pmdBe EXCEPT !.queue = Tail(@)]
         chain == Append(pmdBe.chain, e)
         tag == chain[1].load.tag
         req == [tag |-> tag, id |-> e.id, gen |-> e.gen, idx |-> 0]
         known == tag \in DOMAIN pmdBlk.exp /\ pmdBlk.exp[tag].type = chain[1].load.type
     IN CASE ~pmdBe.up -> pmdBe' = be /\ UNCHANGED <<pmdBlk, pmdAlarm>>
          [] pmdBe.up /\ e.forced -> pmdBe' = [be EXCEPT !.chain = <<>>] /\ UNCHANGED <<pmdBlk, pmdAlarm>>
          [] pmdBe.up /\ ~e.forced /\ e.err ->
               /\ pmdBe' = [be EXCEPT !.chain = <<>>, !.up = FALSE]
               /\ Raise(~pmdQ.recorded) /\ UNCHANGED pmdBlk
          [] pmdBe.up /\ ~e.forced /\ ~e.err /\ ~e.last ->
               pmdBe' = [be EXCEPT !.chain = chain] /\ UNCHANGED <<pmdBlk, pmdAlarm>>
          [] OTHER ->
               /\ Raise(~known)
               /\ pmdBlk' = IF known THEN [pmdBlk EXCEPT !.exp[tag].be = tag] ELSE pmdBlk
               /\ \E stall \in BOOLEAN :
                    pmdBe' = IF stall THEN [be EXCEPT !.chain = <<>>, !.busy = <<req>>]
                             ELSE Answer([be EXCEPT !.chain = <<>>], req)
  /\ UNCHANGED <<pmdQ, pmdWk, pmdErr, pmdHw>>
\* The bus takes the answer it made wait.
BeSent ==
  /\ pmdBe.busy # <<>>
  /\ pmdBe' = Answer(pmdBe, pmdBe.busy[1])
  /\ UNCHANGED <<lifeVars, pmdBlk>>

-----------------------------------------------------------------------------
(* The device (external).  A chain goes to the backend descriptor by         *)
(* descriptor; a forced stop cuts it with a flagged one, and so does a       *)
(* defect.  A plain stop waits for the answers, a forced one does not.       *)

Entries(c, k, end) ==
  [i \in 1..k |-> [load |-> c.load, id |-> c.id, gen |-> pmdQ.gen, last |-> i = k,
                   forced |-> i = k /\ end = "forced", err |-> i = k /\ end = "err"]]
HwDeliver ==
  /\ HwActive
  /\ LET c == HwNext
         n == NrDescs(c.load.type)
         end == IF pmdHw.st = "STOPPING" /\ pmdHw.forced THEN "forced"
                ELSE IF c.bad THEN "err" ELSE "whole"
     IN /\ \E k \in IF end = "whole" THEN {n} ELSE 1..n :
             pmdBe' = [pmdBe EXCEPT !.queue = @ \o Entries(c, k, end)]
        /\ pmdHw' = IF end = "err" THEN HwStopped ELSE [pmdHw EXCEPT !.fetched = @ + 1]
  /\ UNCHANGED <<pmdQ, pmdWk, pmdErr, pmdAlarm, pmdBlk>>
\* The answer of another life, or during a forced stop, is dropped; the others
\* go to memory and to the used ring at the index of the backend.
HwAnswer ==
  /\ pmdBe.rsp # <<>>
  /\ LET r == Head(pmdBe.rsp)
         ok == r.gen = pmdQ.gen /\ ~pmdHw.forced /\ pmdHw.st \in {"DOING", "STOPPING"}
     IN /\ pmdHw' = IF ok THEN [pmdHw EXCEPT !.done = Append(@, [id |-> r.id, len |-> r.tag]),
                                             !.used = @ + 1] ELSE pmdHw
        /\ pmdQ' = [pmdQ EXCEPT !.msix = @ \/ (ok /\ pmdQ.msixEn)]
        /\ Raise(ok /\ r.idx # Len(pmdHw.done))
  /\ pmdBe' = [pmdBe EXCEPT !.rsp = Tail(@)]
  /\ UNCHANGED <<pmdWk, pmdErr, pmdBlk>>
HwIdleForced ==
  /\ pmdHw.st = "STOPPING" /\ pmdHw.forced
  /\ pmdHw.used < pmdHw.fetched
  /\ pmdHw' = [pmdHw EXCEPT !.st = "IDLE"]
  /\ UNCHANGED <<pmdQ, pmdWk, pmdErr, pmdAlarm, pmdBlk, pmdBe>>

-----------------------------------------------------------------------------
BlkWorker == BlkGen \/ BlkEnd \/ BlkPost \/ BlkPostGivesUp \/ BlkBell \/ BlkConsume
BlkNow == pmdBlk.pc \in {"now", "consume"}
Stuttering(A) == A /\ UNCHANGED <<pmdBlk, pmdBe>>
OtherWorker == ReadBack \/ WorkerStops \/ ReadStatus \/ WriteStopping \/ PollIdle
\* As in NetTxPmd, what needs no timer comes first; the backend takes what is
\* delivered at once unless the bus makes it wait.
Urgent == \/ Check
          \/ pmdBlk.act = <<>> /\ \/ BlkNow /\ BlkWorker
                                  \/ ~BlkNow /\ (Clean \/ StopBlkQueue \/ BeTake)
Calm == /\ pmdBlk.act = <<>> /\ ~BlkNow /\ ~StopsNow /\ ~pmdAlarm /\ ~pmdBe.lag
        /\ (pmdBe.queue = <<>> \/ pmdBe.busy # <<>>)
Next == \/ ~pmdAlarm /\ Urgent
        \/ Calm /\ \/ Stuttering(OtherWorker \/ RandomStop \/ Services \/ HwIdle)
                   \/ StartBlkQueue \/ BlkWorker \/ BeSent \/ HwDeliver \/ HwAnswer \/ HwIdleForced
Spec == Init /\ [][Next]_vars

-----------------------------------------------------------------------------
\* No comparison of the block bench fails on a right device - type, data,
\* status and used index of every answer, across restarts - unless a queue was
\* taken down while the backend still held descriptors of it (see the README).
BlkNoFalseAlarm == pmdAlarm => pmdBe.lag

\* A tag is taken exactly as long as its request is generated, posted or found
\* used: no restart loses one.
BlkTagsKept ==
  pmdBlk.pc # "done" /\ ~pmdAlarm =>
    DOMAIN pmdBlk.exp = {pmdBlk.mbufs[i].tag : i \in DOMAIN pmdBlk.mbufs}
                        \cup {pmdQ.pool[i].load.tag : i \in DOMAIN pmdQ.pool}
                        \cup {pmdBlk.act[i].tag : i \in DOMAIN pmdBlk.act}
BlkIdsKept == IdsKept
=============================================================================
