------------------------------- MODULE BeqTxq -------------------------------
(* One transmit queue of the simulation of the burst engine, sim/            *)
(* test_beq_txq: the worker with its driver, which recovers the queue when   *)
(* the unit under test reports an error, the descriptor engine that stands   *)
(* in for the real one, with its scheduling by notifications, and the unit   *)
(* itself (external).  A life is the time between two starts; the pointers   *)
(* of 16 bits do not go round in one.                                        *)
EXTENDS Integers, Sequences, SequencesExt, FiniteSets, FiniteSetsExt

CONSTANTS Depth,               \* ring_depth (1024)
          LocalMax, MaxRead,   \* localDescBufSize (32), maxBrustRdNDesc (8)
          NewMax,              \* room of putNewChainQueue (64)
          Lens,                \* descriptors of a chain, at most LocalMax of them
          NChains, Batch,      \* chains of the test, and of a round of the worker
          MaxFaults            \* bound: defective descriptors

VARIABLES btqWk,  \* worker, its references, the coroutine inside the driver
          btqTxq, \* pmd_txq: ring, pointers, sw_ring, the pointer in memory
          btqCtx, \* beq_ctx
          btqEng, \* beq_desc_eng
          btqHw   \* the unit under test (external)
vars == <<btqWk, btqTxq, btqCtx, btqEng, btqHw>>

\* A descriptor is of the chain c; ring is what this life wrote, queue what of it
\* the engine has not taken.  early: the test ended with an error unseen.
TxqInit ==
  btqTxq = [pi |-> 0, ci |-> 0, sw |-> {}, ring |-> <<>>, queue |-> <<>>, err |-> FALSE, used |-> 0]
CtxInit == btqCtx = [pi |-> 0, ci |-> 0, localCi |-> 0, out |-> 0, status |-> "doing"]
EngInit ==
  btqEng = [todo |-> 0, put |-> FALSE, new |-> 0, buf |-> <<>>, chains |-> 0, reading |-> FALSE,
            bitmap |-> 0, sch |-> 0]
Init ==
  /\ btqWk = [pc |-> "gen", chains |-> <<>>, made |-> 0, refs |-> <<>>, faults |-> 0,
              bad |-> FALSE, early |-> FALSE]
  /\ TxqInit /\ CtxInit /\ EngInit
  /\ btqHw = [turn |-> "none", done |-> FALSE, got |-> <<>>, fin |-> 0, err |-> FALSE]

Total(lens) == FoldLeft(LAMBDA a, n : a + n, 0, lens)
Slots(first, last) == {p % Depth : p \in first..last - 1}
\* The bench has failed, now or before.
Bad(check) == btqWk.bad \/ check

-----------------------------------------------------------------------------
(* The worker and the driver.                                                *)

Gen ==
  /\ btqWk.pc = "gen"
  /\ \E k \in 1..Min({Batch, NChains - btqWk.made}) : \E lens \in [1..k -> Lens] :
       btqWk' = [btqWk EXCEPT !.pc = "burst", !.made = @ + k,
                              !.chains = [i \in 1..k |-> [c |-> btqWk.made + i, n |-> lens[i]]],
                              !.refs = @ \o [i \in 1..k |-> btqWk.made + i]]
  /\ UNCHANGED <<btqTxq, btqCtx, btqEng, btqHw>>

\* get_used_num, and the chains of burst_tx that are used to their end.
UsedNum == Min({btqTxq.used - btqTxq.ci, Depth})
Reclaimed ==
  LET ends == {p \in btqTxq.ci + 1..btqTxq.ci + UsedNum : ~btqTxq.ring[p].next}
      ci == Max(ends \cup {btqTxq.ci})
  IN [btqTxq EXCEPT !.ci = ci, !.sw = @ \ Slots(btqTxq.ci, ci)]

\* write_desc for a sequence of descriptors; the engine gets them by the queue.
Written(txq, descs) ==
  [txq EXCEPT !.pi = @ + Len(descs), !.ring = @ \o descs, !.queue = @ \o descs,
              !.sw = @ \cup Slots(txq.pi, txq.pi + Len(descs))]
Descs(chains) ==
  FoldLeft(LAMBDA a, ch : a \o [i \in 1..ch.n |-> [c |-> ch.c, next |-> i < ch.n, bad |-> FALSE]], <<>>, chains)
\* doorbell for the pointer pi asserts that the ring is neither overrun nor empty.
Overrun(pi, ci) == pi - ci \notin 1..Depth
\* burst_tx for a queue without an error: chains are posted while there is room.
Post ==
  LET txq == Reclaimed
      room == Depth - (txq.pi - txq.ci)
      lens == [i \in DOMAIN btqWk.chains |-> btqWk.chains[i].n]
      m == Max({i \in 0..Len(lens) : Total(SubSeq(lens, 1, i)) <= room})
      descs == Descs(SubSeq(btqWk.chains, 1, m))
  IN \E bads \in {b \in SUBSET DOMAIN descs : Cardinality(b) <= MaxFaults - btqWk.faults} :
       /\ btqTxq' = Written(txq, [i \in DOMAIN descs |-> [descs[i] EXCEPT !.bad = i \in bads]])
       /\ btqCtx' = [btqCtx EXCEPT !.pi = @ + Len(descs)]
       /\ btqWk' = [btqWk EXCEPT !.faults = @ + Cardinality(bads), !.chains = SubSeq(@, m + 1, Len(@)),
                                 !.bad = Bad(m > 0 /\ Overrun(txq.pi + Len(descs), btqCtx.ci)),
                                 !.pc = IF m < Len(lens) \/ @ = "finish" THEN @
                                        ELSE IF btqWk.made = NChains THEN "finish" ELSE "gen"]
BurstTx ==
  /\ btqWk.pc = "burst" \/ (btqWk.pc = "finish" /\ btqTxq.used # btqCtx.pi)
  /\ IF btqTxq.err THEN btqWk' = [btqWk EXCEPT !.pc = "idle"] /\ UNCHANGED <<btqTxq, btqCtx>> ELSE Post
  /\ UNCHANGED <<btqEng, btqHw>>

\* The head of the chain in error, looked for from the descriptor in error
\* backwards: it follows the end of another chain, or is the first not reclaimed.
ChainHead(txq) ==
  LET num == txq.used - txq.ci
      next(i) == txq.ring[txq.used - i].next
      i == Min({j \in 1..num - 1 : ~next(j) \/ j = num - 1})
  IN CASE num = 0 -> txq.used
       [] num = 1 -> txq.used - 1
       [] OTHER -> IF next(i) THEN txq.used - i - 1 ELSE txq.used - i
\* Only chains that are there to their end are kept.
Whole(descs) ==
  LET ends == {i \in DOMAIN descs : ~descs[i].next} IN SubSeq(descs, 1, Max(ends \cup {0}))
\* start_queue, of the driver and of the context: local_ci stays.
Started == [btqCtx EXCEPT !.ci = 0, !.pi = 0, !.out = 0, !.status = "doing"]
\* The rest of burst_tx for a queue in error, once wait_idle_queue is over.
Recover ==
  /\ btqWk.pc = "idle" /\ btqCtx.ci = btqCtx.localCi
  /\ LET head == ChainHead(btqTxq)
         kept == Whole([i \in 1..btqTxq.pi - head |-> [btqTxq.ring[head + i] EXCEPT !.bad = FALSE]])
         none == [btqTxq EXCEPT !.pi = 0, !.ci = 0, !.sw = {}, !.ring = <<>>, !.queue = <<>>,
                                !.err = FALSE, !.used = 0]
     IN /\ btqTxq' = Written(none, kept)
        /\ btqCtx' = [Started EXCEPT !.pi = Len(kept)]
        /\ btqWk' = [btqWk EXCEPT !.pc = IF btqWk.chains = <<>> THEN "finish" ELSE "burst",
                                  !.bad = Bad(~(Slots(btqTxq.ci, btqTxq.pi) \subseteq btqTxq.sw) \/ Overrun(Len(kept), 0))]
  /\ btqEng' = [btqEng EXCEPT !.buf = <<>>, !.chains = 0]
  /\ btqHw' = [btqHw EXCEPT !.got = <<>>, !.fin = 0, !.err = FALSE]

\* wait_finish looks at the pointer only; the end of the worker, once no packet
\* has come for a while.
WaitFinish ==
  /\ btqWk.pc = "finish" /\ btqTxq.used = btqCtx.pi
  /\ btqWk' = [btqWk EXCEPT !.pc = "settle", !.early = btqTxq.err]
  /\ UNCHANGED <<btqTxq, btqCtx, btqEng, btqHw>>
Quiet == btqHw.err \/ (btqHw.fin = Len(btqHw.got) /\ btqEng.buf = <<>> /\ btqTxq.queue = <<>>)
DestroyQueue ==
  /\ btqWk.pc = "settle" /\ (btqWk.refs = <<>> \/ Quiet)
  /\ btqWk' = [btqWk EXCEPT !.pc = "end", !.bad = Bad(btqWk.refs # <<>> \/ btqCtx.ci # btqCtx.pi)]
  /\ UNCHANGED <<btqTxq, btqCtx, btqEng, btqHw>>

-----------------------------------------------------------------------------
(* The descriptor engine.                                                    *)

\* _descEngThd decides how many descriptors it takes, then takes them; it may
\* have to wait for room among the new chains in between.
EngRound ==
  /\ btqEng.todo = 0 /\ ~btqEng.put /\ btqCtx.status = "doing"
  /\ LET n == Min({LocalMax - Len(btqEng.buf), LocalMax - btqEng.chains, Len(btqTxq.queue), MaxRead})
     IN n > 0 /\ btqEng' = [btqEng EXCEPT !.todo = n]
  /\ UNCHANGED <<btqWk, btqTxq, btqCtx, btqHw>>
EngTake ==
  /\ btqEng.todo > 0 /\ ~btqEng.put /\ btqTxq.queue # <<>>
  /\ LET d == Head(btqTxq.queue)
     IN btqEng' = [btqEng EXCEPT !.todo = @ - 1, !.buf = Append(@, d), !.put = ~d.next,
                                 !.chains = @ + (IF d.next THEN 0 ELSE 1)]
  /\ btqTxq' = [btqTxq EXCEPT !.queue = Tail(@)]
  /\ UNCHANGED <<btqWk, btqCtx, btqHw>>
PutNewChain ==
  /\ btqEng.put /\ btqEng.new < NewMax
  /\ btqEng' = [btqEng EXCEPT !.put = FALSE, !.new = @ + 1]
  /\ UNCHANGED <<btqWk, btqTxq, btqCtx, btqHw>>

\* _notifyRspThd: the bitmap of a scheduled queue is 1, or 2 when it is to be
\* scheduled again.
TakeRsp ==
  /\ btqHw.turn = "rsp"
  /\ btqEng' = CASE ~btqHw.done -> [btqEng EXCEPT !.sch = @ + 1, !.bitmap = 2]
                 [] btqHw.done /\ btqEng.bitmap = 2 -> [btqEng EXCEPT !.sch = @ + 1, !.bitmap = 1]
                 [] OTHER -> [btqEng EXCEPT !.bitmap = 0]
  /\ btqHw' = [btqHw EXCEPT !.turn = "none"]
  /\ btqWk' = [btqWk EXCEPT !.bad = Bad(btqHw.done /\ btqEng.bitmap = 0)]
  /\ UNCHANGED <<btqTxq, btqCtx>>
TakeNew ==
  /\ btqEng.new > 0
  /\ btqEng' = IF btqEng.bitmap = 0 THEN [btqEng EXCEPT !.new = @ - 1, !.sch = @ + 1, !.bitmap = 1]
               ELSE [btqEng EXCEPT !.new = @ - 1, !.bitmap = 2]
  /\ UNCHANGED <<btqWk, btqTxq, btqCtx, btqHw>>
\* _notifyReqThd passes the queue on to the unit, which asks for its chain.
NotifyReq ==
  /\ btqEng.sch > 0 /\ btqHw.turn = "none"
  /\ btqEng' = [btqEng EXCEPT !.sch = @ - 1] /\ btqHw' = [btqHw EXCEPT !.turn = "asked"]
  /\ UNCHANGED <<btqWk, btqTxq, btqCtx>>

\* _rdNdescThd: the descriptors of a chain one by one, or that there is none.
RdNdesc ==
  /\ btqHw.turn = "asked" /\ ~btqEng.reading
  /\ IF btqEng.chains > 0 /\ btqCtx.status = "doing"
     THEN btqEng' = [btqEng EXCEPT !.reading = TRUE] /\ UNCHANGED btqHw
     ELSE btqHw' = [btqHw EXCEPT !.turn = "rsp", !.done = TRUE] /\ UNCHANGED btqEng
  /\ UNCHANGED <<btqWk, btqTxq, btqCtx>>
RdDesc ==
  /\ btqEng.reading /\ btqEng.buf # <<>>
  /\ LET d == Head(btqEng.buf)
         got == [btqHw EXCEPT !.got = Append(@, d)]
     IN IF d.next
        THEN btqEng' = [btqEng EXCEPT !.buf = Tail(@)] /\ btqHw' = got
        ELSE /\ btqEng' = [btqEng EXCEPT !.buf = Tail(@), !.chains = @ - 1, !.reading = FALSE]
             /\ btqHw' = [got EXCEPT !.turn = "rsp", !.done = Len(btqEng.buf) = 1]
  /\ btqCtx' = [btqCtx EXCEPT !.out = @ + 1, !.localCi = btqCtx.out + 1]
  /\ UNCHANGED <<btqWk, btqTxq>>

-----------------------------------------------------------------------------
(* The unit under test (external) sends the packets of its chains in order,  *)
(* compared by _txqRefCheckThd, and stops the queue at a bad descriptor; it  *)
(* reports the error when it has taken in the chain it was reading.          *)

DutDesc ==
  /\ btqHw.fin < Len(btqHw.got) /\ ~btqHw.err
  /\ LET d == btqHw.got[btqHw.fin + 1]
     IN IF d.bad
        THEN /\ btqHw' = [btqHw EXCEPT !.err = TRUE]
             /\ btqCtx' = [btqCtx EXCEPT !.status = "stopping"] /\ UNCHANGED btqWk
        ELSE /\ btqHw' = [btqHw EXCEPT !.fin = @ + 1]
             /\ btqCtx' = [btqCtx EXCEPT !.ci = btqHw.fin + 1]
             /\ IF d.next THEN UNCHANGED btqWk
                ELSE LET known == btqWk.refs # <<>> /\ Head(btqWk.refs) = d.c
                     IN btqWk' = [btqWk EXCEPT !.bad = Bad(~known), !.refs = IF known THEN Tail(@) ELSE @]
  /\ UNCHANGED <<btqTxq, btqEng>>
DutUsed ==
  /\ ~btqHw.err /\ btqTxq.used # btqHw.fin
  /\ btqTxq' = [btqTxq EXCEPT !.used = btqHw.fin]
  /\ UNCHANGED <<btqWk, btqCtx, btqEng, btqHw>>
DutFlush ==
  /\ btqHw.err /\ ~btqEng.reading
  /\ btqCtx' = [btqCtx EXCEPT !.ci = btqCtx.out]
  /\ UNCHANGED <<btqWk, btqTxq, btqEng, btqHw>>
DutError ==
  /\ btqHw.err /\ ~btqEng.reading
  /\ btqTxq' = [btqTxq EXCEPT !.err = TRUE, !.used = btqHw.fin + 1]
  /\ UNCHANGED <<btqWk, btqCtx, btqEng, btqHw>>

Worker == Gen \/ BurstTx \/ Recover \/ WaitFinish \/ DestroyQueue
Engine == EngRound \/ EngTake \/ PutNewChain \/ TakeRsp \/ TakeNew \/ NotifyReq \/ RdNdesc \/ RdDesc
Dut == DutDesc \/ DutUsed \/ DutFlush \/ DutError
Next == ~btqWk.bad /\ (Worker \/ Engine \/ Dut)
Spec == Init /\ [][Next]_vars

-----------------------------------------------------------------------------
\* No comparison, lookup or check of the bench fails, whatever is recovered, but
\* that of a test which ended with the error of its last descriptor unseen.
BtqNoFalseAlarm == btqWk.bad => btqWk.early

\* The slots of the ring that hold a buffer are those between the pointers, and
\* the first of them is the head of a chain.
BtqSlotsKept ==
  /\ btqTxq.sw = Slots(btqTxq.ci, btqTxq.pi) /\ btqTxq.pi - btqTxq.ci \in 0..Depth
  /\ btqTxq.ci > 0 => ~btqTxq.ring[btqTxq.ci].next

\* The references are those of the chains in the ring that were not sent and of
\* those the worker has yet to post: a recovery neither skips nor repeats one.
BtqRefsMatch ==
  LET ends == SelectSeq(SubSeq(btqTxq.ring, btqHw.fin + 1, btqTxq.pi), LAMBDA d : ~d.next)
  IN ~btqWk.bad => btqWk.refs = [i \in DOMAIN ends |-> ends[i].c]
                                 \o [i \in DOMAIN btqWk.chains |-> btqWk.chains[i].c]

\* The scheduler knows of a queue exactly while it has its turn, and forgets none
\* that has a chain to send and nobody about to tell of it.
BtqNotForgotten ==
  /\ btqEng.sch + (IF btqHw.turn = "none" THEN 0 ELSE 1) = (IF btqEng.bitmap = 0 THEN 0 ELSE 1)
  /\ btqEng.chains > 0 /\ btqCtx.status = "doing" /\ btqEng.bitmap = 0 => btqEng.put \/ btqEng.new > 0

BtqOver == btqWk.pc = "end"
=============================================================================
