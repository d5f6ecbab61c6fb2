------------------------------- MODULE VqBlk -------------------------------
(* The block driver of the simulation, sim/common/vqpmd/vqblk.py: one        *)
(* VirtqBlk with the coroutine that runs its test cases, the data checker    *)
(* that plays the back end, the error checker and the interrupt handler, on  *)
(* an external device.  A request is its serial number; which descriptor ids *)
(* it gets is immaterial, as they are only compared, so the lowest free ones *)
(* stand for a random choice.  Code between two awaits is one step.          *)
EXTENDS Integers, Sequences, SequencesExt, FiniteSets, FiniteSetsExt

CONSTANTS QLen,      \* qlen
          Segs,      \* the numbers of data descriptors a request may have
          Cases,     \* the test cases the environment may select from
          MaxLoop,   \* bound: requests of a mixed case
          MaxTests   \* bound: test cases in a row

VARIABLES blkWk,   \* startAllTestOnBlk: list of tests, mode, position, flags
          blkVq,   \* the VirtqBlk object
          blkReq,  \* requests ever made, by serial number
          blkMem,  \* payload regions still allocated -> the data they hold
          blkCk,   \* blkBeqChecker.mainLoop_read_write
          blkEk,   \* virtqErrChecker.mainLoop
          blkHw    \* the device (external)

vars == <<blkWk, blkVq, blkReq, blkMem, blkCk, blkEk, blkHw>>

Ops(t) == CASE t = "read" -> {"IN"} [] t = "write" -> {"OUT"}
            [] t \in {"mixed", "idx"} -> {"IN", "OUT"} [] OTHER -> {}
Loops(t) == CASE t \in {"read", "write"} -> 2 [] t = "mixed" -> MaxLoop [] t = "idx" -> 1
              [] OTHER -> 0
ExpErrCode(t) == CASE t = "next_idx" -> 1 [] t \in {"chain_1", "chain_long"} -> 2
                   [] t = "indirect" -> 4 [] t \in {"len_large", "len_0"} -> 8
                   [] t = "ring_id" -> 16 [] t = "idx" -> 32 [] OTHER -> 0
\* what the device makes of the chain such a test posts
DeviceCode(t) == ExpErrCode(t)

IsError(t) == ExpErrCode(t) # 0
TestMode(ts) == LET hasNormal == \E i \in DOMAIN ts : ~IsError(ts[i])
                    hasError  == \E i \in DOMAIN ts : IsError(ts[i])
                IN IF hasNormal /\ hasError THEN "mixed"
                   ELSE IF hasError THEN "error" ELSE "normal"

Test == blkWk.tests[blkWk.n]
Lowest(ids, n) == {i \in ids : Cardinality({j \in ids : j < i}) < n}

VirtqInit == [ids |-> 0..QLen-1, table |-> [i \in 0..QLen-1 |-> 0], pendingReq |-> <<>>,
              gen |-> <<>>, copy |-> <<>>, next |-> 0, done |-> FALSE,
              expErr |-> FALSE, expCode |-> 0, enable |-> {}]
HwInit == [on |-> FALSE, avail |-> <<>>, kicked |-> 0, fetched |-> 0, pos |-> 0,
           wb |-> <<>>, used |-> <<>>, msix |-> FALSE, err |-> 0]
Idle == [pc |-> "none"]

\* What a request finds: its payload region, filled for a write and cleared
\* for a read; more free ids than it needs, else it waits; the avail ring.
Prepared(t, s) == IF t = "OUT" THEN s ELSE 0
Allocated(mem, t, s) == [r \in DOMAIN mem \cup {s} |-> IF r = s THEN Prepared(t, s) ELSE mem[r]]
EnoughIds(n) == n < Cardinality(blkVq.ids)
Post(hw, op, bad) == [hw EXCEPT !.avail = Append(@, [op |-> op, bad |-> bad])]

Init == /\ blkWk = [pc |-> "pick", tests |-> <<>>, mode |-> "none", n |-> 1, i |-> 0,
                    saw |-> FALSE, alarm |-> FALSE]
        /\ blkVq = VirtqInit /\ blkReq = <<>> /\ blkMem = <<>>
        /\ blkCk = Idle /\ blkEk = Idle /\ blkHw = HwInit

-----------------------------------------------------------------------------
(* The wire to the back end: what the device sends for a request, message by *)
(* message.  A read sends the request header and then only headers.          *)

Descs(r) == Cardinality(blkReq[r].ids)
MsgAt(r, p) ==
  IF p = 2 THEN [kind |-> "data", i |-> 0]
  ELSE IF blkReq[r].type = "IN"
       THEN [kind |-> "hdr", i |-> IF p = 1 THEN 0 ELSE p - 2]
       ELSE [kind |-> IF p % 2 = 1 THEN "hdr" ELSE "data", i |-> (p - 1) \div 2]
LastPos(r) == IF blkReq[r].type = "IN" THEN Descs(r) + 1 ELSE 2 * Descs(r) - 1

Sending == blkHw.on /\ blkHw.fetched > 0 /\ blkHw.pos > 0
Cur == blkHw.avail[blkHw.fetched]
Msg == MsgAt(Cur.op, blkHw.pos)
Next1 == IF blkHw.pos = LastPos(Cur.op) THEN 0 ELSE blkHw.pos + 1
Receive == /\ Sending
           /\ blkHw' = [blkHw EXCEPT !.pos = Next1]

\* Nothing runs between the end of a test and the kill of its checkers
\* unless the wrapper has one to join.
Joined == (IF "ERR" \in blkVq.enable /\ blkEk.pc # "none" THEN {blkEk.pc} ELSE {})
          \cup (IF "BLK" \in blkVq.enable /\ blkCk.pc # "none" THEN {blkCk.pc} ELSE {})
CanEnd == blkWk.pc = "join" /\ Joined \subseteq {"done"}
Runs == ~(blkWk.pc = "join" /\ Joined = {})

-----------------------------------------------------------------------------
(* The test worker.                                                          *)

SelectTests ==
  /\ blkWk.pc = "pick"
  /\ \E ts \in BoundedSeq(Cases, MaxTests) :
       /\ ts # <<>>
       /\ blkWk' = [blkWk EXCEPT !.tests = ts, !.mode = TestMode(ts), !.pc = "reset"]
  /\ UNCHANGED <<blkVq, blkReq, blkMem, blkCk, blkEk, blkHw>>

\* Virtq.reset: the stop command, after which the device answers no more;
\* what was handed back to it before is used up (external).
StopQueue ==
  /\ blkWk.pc = "reset"
  /\ blkHw.wb = <<>> /\ ~blkHw.msix
  /\ blkHw' = [blkHw EXCEPT !.on = FALSE]
  /\ blkVq' = [VirtqInit EXCEPT !.table = blkVq.table, !.pendingReq = blkVq.pendingReq,
                                !.gen = blkVq.gen, !.copy = blkVq.copy]
  /\ blkWk' = [blkWk EXCEPT !.pc = "reset2"]
  /\ UNCHANGED <<blkReq, blkMem, blkCk, blkEk>>

\* VirtqBlk.reset after the error register is cleared: the regions of the
\* requests no checker took are freed.
ResetBlk ==
  /\ blkWk.pc = "reset2"
  /\ blkMem' = [r \in DOMAIN blkMem \ Range(blkVq.pendingReq) |-> blkMem[r]]
  /\ blkVq' = VirtqInit
  /\ blkCk' = Idle /\ blkEk' = Idle
  /\ blkHw' = [blkHw EXCEPT !.err = 0]
  /\ blkWk' = [blkWk EXCEPT !.pc = "start"]
  /\ UNCHANGED blkReq

StartBlk ==
  /\ blkWk.pc = "start"
  /\ blkHw' = [HwInit EXCEPT !.on = TRUE]
  /\ blkEk' = IF blkWk.mode \in {"error", "mixed"} THEN [pc |-> "poll"] ELSE Idle
  /\ blkCk' = IF blkWk.mode \in {"normal", "mixed"}
              THEN [pc |-> "recv", di |-> 0, got |-> 0, type |-> "none"] ELSE Idle
  /\ blkWk' = [blkWk EXCEPT !.pc = "body", !.i = 0, !.saw = FALSE]
  /\ UNCHANGED <<blkVq, blkReq, blkMem>>

\* blk_read_request, blk_write_request: regions, descriptors, ids, the queues
\* the checkers look at, the avail ring.  It waits for more than n free ids.
BlkRequest ==
  /\ blkWk.pc = "body" /\ blkWk.i < Loops(Test)
  /\ \E t \in Ops(Test), d \in Segs :
       LET n == d + 2
           ids == Lowest(blkVq.ids, n)
           s == Len(blkReq) + 1
       IN /\ EnoughIds(n)
          /\ blkReq' = Append(blkReq, [type |-> t, ids |-> ids])
          /\ blkMem' = Allocated(blkMem, t, s)
          /\ blkVq' = [blkVq EXCEPT
                         !.ids = @ \ ids, !.table[Min(ids)] = s,
                         !.pendingReq = Append(@, s), !.enable = {"BLK"},
                         !.gen = IF t = "IN" THEN Append(@, s) ELSE @,
                         !.copy = IF t = "IN" THEN Append(@, s) ELSE @,
                         !.expErr = IsError(Test), !.expCode = ExpErrCode(Test)]
          /\ blkHw' = Post(blkHw, s, 0)
  /\ blkWk' = [blkWk EXCEPT !.pc = "notify"]
  /\ UNCHANGED <<blkCk, blkEk>>

\* The error cases post one bad chain (or element) on the empty ring.
ErrorCase ==
  /\ blkWk.pc = "body" /\ Loops(Test) = 0
  /\ blkVq' = [blkVq EXCEPT !.expErr = TRUE, !.expCode = ExpErrCode(Test),
                            !.enable = IF Test = "equal_qlen" THEN {} ELSE {"ERR"}]
  /\ blkHw' = Post(blkHw, 0, DeviceCode(Test))
  /\ blkWk' = [blkWk EXCEPT !.pc = "notify"]
  /\ UNCHANGED <<blkReq, blkMem, blkCk, blkEk>>

\* notify() has returned: the next operation, or the end of the test.  The
\* idx case spoils the index last and rings no bell.
Notified ==
  /\ blkWk.pc = "notify"
  /\ LET last == blkWk.i + 1 >= Loops(Test)
     IN /\ blkWk' = [blkWk EXCEPT !.i = @ + 1, !.pc = IF last THEN "join" ELSE "body"]
        /\ blkVq' = [blkVq EXCEPT !.done = last]
        /\ LET hw == [blkHw EXCEPT !.kicked = Len(blkHw.avail)]
           IN blkHw' = IF last /\ Test = "idx" THEN Post(hw, 0, DeviceCode(Test)) ELSE hw
  /\ UNCHANGED <<blkReq, blkMem, blkCk, blkEk>>

\* The end of the wrapper: the checkers it waits for are done, the others
\* are killed.
EndTest ==
  /\ CanEnd
  /\ blkCk' = Idle /\ blkEk' = Idle
  /\ blkWk' = [blkWk EXCEPT !.n = @ + 1,
                            !.pc = IF blkWk.n = Len(blkWk.tests) THEN "end" ELSE "reset"]
  /\ UNCHANGED <<blkVq, blkReq, blkMem, blkHw>>

-----------------------------------------------------------------------------
(* blkBeqChecker: headers and data from the device, one message a step.      *)

LoopHead(pend) == IF blkVq.done /\ pend = <<>> THEN "done" ELSE "recv"
Raise(ok) == blkWk' = [blkWk EXCEPT !.alarm = @ \/ ~ok]
HeaderOk(i) == /\ blkVq.pendingReq # <<>> /\ Cur.op = Head(blkVq.pendingReq)
               /\ Msg = [kind |-> "hdr", i |-> i]

CkHeader ==
  /\ blkCk.pc = "recv" /\ Runs /\ Receive
  /\ Raise(HeaderOk(blkCk.di))
  /\ blkCk' = [blkCk EXCEPT !.pc = IF blkCk.di = 0 THEN "hdrdata"
                                   ELSE IF blkCk.type = "IN" THEN LoopHead(blkVq.pendingReq)
                                   ELSE "data",
                            !.di = IF blkCk.di = 0 THEN 0 ELSE @ + 1]
  /\ ~(blkCk.di > 0 /\ blkCk.type = "IN" /\ Msg.i = Descs(Cur.op) - 1)
  /\ UNCHANGED <<blkVq, blkReq, blkMem, blkEk>>

CkHeaderData ==
  /\ blkCk.pc = "hdrdata" /\ Receive
  /\ Raise(Msg = [kind |-> "data", i |-> 0])
  /\ LET t == blkReq[Cur.op].type
     IN blkCk' = [blkCk EXCEPT !.pc = LoopHead(blkVq.pendingReq), !.di = 1, !.type = t,
                               !.got = IF t = "IN" THEN @ ELSE @ + 1]
  /\ UNCHANGED <<blkVq, blkReq, blkMem, blkEk>>

\* The status header of a read: the request is popped and written back.
CkReadEnd ==
  /\ blkCk.pc = "recv" /\ blkCk.di > 0 /\ blkCk.type = "IN" /\ Runs
  /\ Sending /\ Msg.i = Descs(Cur.op) - 1 /\ Receive
  /\ Raise(HeaderOk(blkCk.di) /\ blkVq.gen # <<>> /\ blkCk.di >= 2)
  /\ blkCk' = [pc |-> "wb", di |-> 0, got |-> blkCk.got, type |-> "none",
               op |-> Head(blkVq.pendingReq), data |-> Head(blkVq.gen)]
  /\ blkVq' = [blkVq EXCEPT !.pendingReq = Tail(@), !.gen = Tail(@)]
  /\ UNCHANGED <<blkReq, blkMem, blkEk>>

\* verify_request_completion: a complete write leaves pendingReq.
CkData ==
  /\ blkCk.pc = "data" /\ Receive
  /\ LET r == Head(blkVq.pendingReq)
         got == blkCk.got + 1
         all == got >= Descs(r) - 1
     IN /\ Raise(Msg.kind = "data" /\ Cur.op = r /\ got <= Descs(r) - 1)
        /\ blkCk' = IF all THEN [blkCk EXCEPT !.pc = "status", !.got = 0] @@ [op |-> r, data |-> r]
                    ELSE [blkCk EXCEPT !.pc = LoopHead(blkVq.pendingReq), !.got = got]
        /\ blkVq' = IF all THEN [blkVq EXCEPT !.pendingReq = Tail(@)] ELSE blkVq
  /\ UNCHANGED <<blkReq, blkMem, blkEk>>

CkStatus ==
  /\ blkCk.pc = "status" /\ Receive
  /\ Raise(Cur.op = blkCk.op /\ Msg = [kind |-> "hdr", i |-> blkCk.di])
  /\ blkCk' = [blkCk EXCEPT !.pc = "wb", !.di = 0]
  /\ UNCHANGED <<blkVq, blkReq, blkMem, blkEk>>

\* write_back_data, write_back_status: the last message, the status, makes
\* the device finish the request.
CkWriteBack ==
  /\ blkCk.pc = "wb"
  /\ blkHw' = [blkHw EXCEPT !.wb = Append(@, [op |-> blkCk.op, data |-> blkCk.data])]
  /\ blkCk' = [pc |-> LoopHead(blkVq.pendingReq), di |-> 0, got |-> blkCk.got,
               type |-> blkCk.type]
  /\ UNCHANGED <<blkWk, blkVq, blkReq, blkMem, blkEk>>

-----------------------------------------------------------------------------
(* virtqErrChecker: polls the error register every microsecond.              *)

EkPoll ==
  /\ blkEk.pc = "poll" /\ blkHw.err # 0 /\ Runs
  /\ Raise(blkVq.expErr /\ blkHw.err = blkVq.expCode)
  /\ blkEk' = [pc |-> "stopped"]
  /\ UNCHANGED <<blkVq, blkReq, blkMem, blkCk, blkHw>>

EkStopped ==
  /\ blkEk.pc = "stopped"
  /\ blkWk' = [blkWk EXCEPT !.alarm = @ \/ blkHw.on, !.saw = TRUE]
  /\ blkEk' = [pc |-> "done"]
  /\ UNCHANGED <<blkVq, blkReq, blkMem, blkCk, blkHw>>

-----------------------------------------------------------------------------
(* blkHandler, for every used element since the last interrupt.              *)

UsedNow == blkVq.next < Len(blkHw.used)
Elem == blkHw.used[blkVq.next + 1]
\* The chain's ids go back to the pool, its regions to the memory.
Handled(q, e) ==
  LET r == q.table[e]
      ids == IF r = 0 THEN {} ELSE blkReq[r].ids
  IN [q EXCEPT !.next = @ + 1, !.ids = @ \cup ids,
               !.table = [i \in DOMAIN @ |-> IF i \in ids THEN 0 ELSE @[i]],
               !.copy = IF r # 0 /\ blkReq[r].type = "IN" /\ @ # <<>> THEN Tail(@) ELSE @]
HandledOk(e) ==
  LET r == blkVq.table[e]
  IN /\ r # 0 /\ Min(blkReq[r].ids) = e
     /\ r \in DOMAIN blkMem /\ blkReq[r].ids \cap blkVq.ids = {}
     /\ blkReq[r].type = "IN" => blkVq.copy # <<>> /\ blkMem[r] = Head(blkVq.copy)

BlkHandler ==
  /\ blkHw.msix
  /\ IF UsedNow
     THEN /\ Raise(HandledOk(Elem))
          /\ blkVq' = Handled(blkVq, Elem)
          /\ blkMem' = [r \in DOMAIN blkMem \ {blkVq.table[Elem]} |-> blkMem[r]]
          /\ UNCHANGED blkHw
     ELSE /\ blkHw' = [blkHw EXCEPT !.msix = FALSE]
          /\ UNCHANGED <<blkWk, blkVq, blkMem>>
  /\ UNCHANGED <<blkReq, blkCk, blkEk>>

-----------------------------------------------------------------------------
(* The device (external): takes the chains it was told of, in order, once    *)
(* notify() has returned; an error stops it.                                 *)

DevFetch ==
  /\ blkHw.on /\ blkHw.pos = 0 /\ blkWk.pc # "notify" /\ Runs
  /\ blkHw.fetched < blkHw.kicked
  /\ LET c == blkHw.avail[blkHw.fetched + 1]
     IN blkHw' = [blkHw EXCEPT !.fetched = @ + 1,
                               !.pos = IF c.op = 0 THEN 0 ELSE 1,
                               !.err = IF c.bad = 0 THEN @ ELSE c.bad,
                               !.on = c.bad = 0]
  /\ UNCHANGED <<blkWk, blkVq, blkReq, blkMem, blkCk, blkEk>>

DevUsed ==
  /\ blkHw.wb # <<>> /\ Runs
  /\ LET w == Head(blkHw.wb)
     IN /\ blkHw' = [blkHw EXCEPT !.wb = Tail(@), !.msix = TRUE,
                                  !.used = Append(@, Min(blkReq[w.op].ids))]
        /\ blkMem' = IF blkReq[w.op].type = "IN" /\ w.op \in DOMAIN blkMem
                     THEN [blkMem EXCEPT ![w.op] = w.data] ELSE blkMem
  /\ UNCHANGED <<blkWk, blkVq, blkReq, blkCk, blkEk>>

-----------------------------------------------------------------------------
Worker  == SelectTests \/ StopQueue \/ ResetBlk \/ StartBlk \/ BlkRequest \/ ErrorCase
           \/ Notified \/ EndTest
Checker == CkHeader \/ CkHeaderData \/ CkReadEnd \/ CkData \/ CkStatus \/ CkWriteBack
Device  == DevFetch \/ DevUsed
Next == Worker \/ Checker \/ EkPoll \/ EkStopped \/ BlkHandler \/ Device
Spec == Init /\ [][Next]_vars

-----------------------------------------------------------------------------
\* None of the comparisons that raise fails on a right device: the header
\* expected is the header sent, the data a read brings back is the data that
\* was made for it, and every used element finds its own request - over the
\* overlapping requests of a test and the reset between two tests.
BlkNoFalseAlarm == ~blkWk.alarm

\* Ids are neither lost nor doubled: they are in the pool or in the chain of a
\* request the handler still waits for; and the payload regions allocated are
\* those of requests not yet finished.
BlkConserved ==
  /\ blkWk.pc \in {"body", "notify", "join"} =>
       LET live == Range(blkVq.table) \ {0}
       IN /\ \A r \in live : blkReq[r].ids \cap blkVq.ids = {}
          /\ blkVq.ids \cup UNION {blkReq[r].ids : r \in live} = 0..QLen-1
          /\ DOMAIN blkMem = live
          /\ Len(blkVq.copy) =
                Cardinality({r \in live : blkReq[r].type = "IN"})

\* A test of an error is over only after its error was seen and compared.
\* (The idx case drops its own request to wait, see the README.)
BlkErrorSeen == EndTest /\ IsError(Test) /\ Test # "idx" => blkWk.saw
\* The run of the list of tests ends: no join waits for ever.
BlkOver == blkWk.pc = "end"
=============================================================================
