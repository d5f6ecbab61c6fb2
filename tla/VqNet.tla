------------------------------- MODULE VqNet -------------------------------
(* The net driver of the simulation, sim/common/vqpmd/vqnet.py: one Virtq,   *)
(* transmit or receive, with the coroutine that runs its test cases, the     *)
(* packet and error checkers each start leaves behind, and the interrupt     *)
(* handlers, on an external device.  Packets are serial numbers; ids are     *)
(* interchangeable, so the lowest free ones stand for a random choice.       *)
EXTENDS Integers, Sequences, SequencesExt, FiniteSets, FiniteSetsExt

CONSTANTS QLen, Chains,   \* qlen; the chain lengths a packet may need
          NPkts, Burst,   \* packets of a test; packets of one txpkts call
          Cases,          \* subset of {"send", "recv", "err", "restart"}
          MaxTests        \* bound: test cases in a row

VARIABLES netWk,   \* startAllTestOnVirtq and the running test case
          netQ,    \* the Virtq object
          netCk,   \* txqPktChecker.mainLoop, one for each start so far
          netEk,   \* virtqErrChecker.mainLoop of the last start
          netHw    \* the device and the bench's receive queue (external)

vars == <<netWk, netQ, netCk, netEk, netHw>>

QInit(type) == [type |-> type, ids |-> 0..QLen-1, pkts |-> <<>>, descs |-> <<>>,
                rxCtx |-> <<>>, next |-> 0, started |-> FALSE, noInt |-> FALSE,
                noCheck |-> FALSE, expErr |-> FALSE, nrRx |-> 0, nrTest |-> -1, susp |-> 0]
HwInit == [on |-> FALSE, avail |-> <<>>, fetched |-> 0, used |-> 0, msix |-> FALSE,
           err |-> FALSE, out |-> <<>>]
Init == /\ netWk = [pc |-> "pick", tests |-> <<>>, n |-> 1, sent |-> 0, k |-> 0,
                    serial |-> 0, again |-> FALSE, polled |-> TRUE, alarm |-> FALSE]
        /\ netQ = QInit("TX") /\ netCk = <<>> /\ netEk = "none" /\ netHw = HwInit

Test == netWk.tests[netWk.n]
IsTx == netQ.type = "TX"
\* What a chain is on the avail ring: its ids and the packet it carries.
Post(hw, ids, pkt) == [hw EXCEPT !.avail = Append(@, [ids |-> ids, pkt |-> pkt])]
Bad == -1

-----------------------------------------------------------------------------
(* Used elements.  The driver takes the ids and regions of a used chain from *)
(* the head of its own queues; the element only says that there is one.      *)

\* txRecycle, by a worker or an interrupt: every used chain at once.
NrUsed == netHw.used - netQ.next
Recycles == ~netQ.noInt /\ netQ.started /\ NrUsed > 0
TxRecycle == [netQ EXCEPT !.next = @ + NrUsed,
                          !.ids = @ \cup UNION {netQ.descs[i] : i \in 1..NrUsed},
                          !.descs = SubSeq(@, NrUsed + 1, Len(@))]
Recycled == IF Recycles THEN TxRecycle ELSE netQ
RecycleOk == Recycles =>
  /\ NrUsed <= Len(netQ.descs)
  /\ \A i \in 1..NrUsed : /\ netQ.descs[i] = netHw.avail[netQ.next + i].ids
                          /\ netQ.descs[i] \cap netQ.ids = {}

\* rxFill posts every free id with a fresh region (named by its id).
Sorted(S) == [i \in 1..Cardinality(S) |-> CHOOSE x \in S : Cardinality({y \in S : y < x}) = i - 1]
RxFill(q, hw) ==
  LET posted == IF q.expErr THEN <<>> ELSE Sorted(q.ids)
  IN /\ netQ' = [q EXCEPT !.ids = @ \ Range(posted), !.rxCtx = @ \o posted]
     /\ netHw' = [hw EXCEPT !.avail = @ \o [i \in DOMAIN posted |-> [ids |-> {posted[i]}, pkt |-> 0]]]

-----------------------------------------------------------------------------
(* The test worker.                                                          *)

Goto(pc) == netWk' = [netWk EXCEPT !.pc = pc]
Alarm(wk, ok) == netWk' = [wk EXCEPT !.alarm = @ \/ ~ok]

SelectTests ==
  /\ netWk.pc = "pick"
  /\ \E type \in {"TX", "RX"}, ts \in BoundedSeq(Cases, MaxTests) :
       /\ ts # <<>>
       /\ \A i \in DOMAIN ts : type = "TX" => ts[i] # "recv"
       /\ \A i \in DOMAIN ts : type = "RX" => ts[i] \notin {"send", "err"}
       /\ netQ' = QInit(type)
       /\ netWk' = [netWk EXCEPT !.tests = ts, !.pc = "stop"]
  /\ UNCHANGED <<netCk, netEk, netHw>>

\* Virtq.stop in reset: the device answers no more after the command.
StopQueue ==
  /\ netWk.pc = "stop"
  /\ netQ' = [netQ EXCEPT !.started = FALSE]
  /\ netHw' = [netHw EXCEPT !.on = FALSE]
  /\ Goto("reset") /\ UNCHANGED <<netCk, netEk>>

\* The rest of reset and the start of start: no await in between.  disableInt
\* and disableChecker keep their values.
ResetQueue ==
  /\ netWk.pc = "reset"
  /\ netQ' = [QInit(netQ.type) EXCEPT !.noInt = netQ.noInt, !.noCheck = netQ.noCheck,
                                      !.susp = netQ.susp]
  /\ netHw' = [HwInit EXCEPT !.out = netHw.out, !.msix = netHw.msix]
  /\ Goto("start") /\ UNCHANGED <<netCk, netEk>>

\* After config and the start command: the checkers; RX fills its ring.
StartQueue ==
  /\ netWk.pc = "start"
  /\ netEk' = "poll"
  /\ netCk' = IF IsTx /\ ~netQ.noCheck THEN Append(netCk, [pc |-> "run", nr |-> 0]) ELSE netCk
  /\ LET hw == [netHw EXCEPT !.on = TRUE]
     IN IF IsTx THEN netQ' = [netQ EXCEPT !.started = TRUE] /\ netHw' = hw
        ELSE RxFill([netQ EXCEPT !.started = TRUE], hw)
  /\ netWk' = [netWk EXCEPT !.pc = IF netWk.again THEN "end" ELSE "body"]

Body ==
  /\ netWk.pc = "body"
  /\ netWk' = [netWk EXCEPT !.sent = 0, !.k = 0, !.polled = TRUE,
                            !.pc = IF Test = "err" THEN "end" ELSE IF IsTx THEN "tx" ELSE "rx"]
  /\ netQ' = [netQ EXCEPT !.nrTest = IF Test = "err" THEN @ ELSE NPkts,
                          !.noCheck = @ \/ Test = "restart",
                          !.noInt = @ \/ Test = "err", !.expErr = Test = "err"]
  /\ netHw' = IF Test = "err" THEN Post(netHw, {0}, Bad) ELSE netHw
  /\ UNCHANGED <<netCk, netEk>>

\* testcase_send_n_pkts and txpkts: recycle before a burst, then one packet
\* after the other as long as there are more free ids than its chain needs.
InBurst == netWk.k < Burst /\ netWk.sent < NPkts
TxPkt ==
  /\ netWk.pc = "tx" /\ InBurst
  /\ LET q == IF netWk.k = 0 THEN Recycled ELSE netQ
     IN \E n \in Chains :
          LET ids == {i \in q.ids : Cardinality({j \in q.ids : j < i}) < n}
              s == netWk.serial + 1
              fits == n < Cardinality(q.ids)
          IN /\ netQ' = IF fits THEN [q EXCEPT !.ids = @ \ ids, !.pkts = Append(@, s),
                                              !.descs = Append(@, ids)] ELSE q
             /\ netHw' = IF fits THEN Post(netHw, ids, s) ELSE netHw
             /\ Alarm(IF fits THEN [netWk EXCEPT !.sent = @ + 1, !.k = @ + 1, !.serial = s]
                      ELSE [netWk EXCEPT !.k = 0], netWk.k = 0 => RecycleOk)
  /\ UNCHANGED <<netCk, netEk>>
TxBurstDone ==
  /\ netWk.pc = "tx" /\ ~InBurst
  /\ netWk' = [netWk EXCEPT !.k = 0, !.pc = IF netWk.sent = NPkts THEN "sent" ELSE "tx"]
  /\ UNCHANGED <<netQ, netCk, netEk, netHw>>

\* testcase_recv_n_pkts waits for exactly n.
RxPoll ==
  /\ netWk.pc = "rx"
  /\ netWk' = [netWk EXCEPT !.polled = TRUE, !.pc = IF netQ.nrRx = netQ.nrTest THEN "sent" ELSE "rx"]
  /\ UNCHANGED <<netQ, netCk, netEk, netHw>>

\* A restart test resets and starts the queue once more before it ends; its
\* packets are so many that the device has sent some by then.
TestBody ==
  /\ netWk.pc = "sent"
  /\ Test = "restart" /\ IsTx => netHw.fetched > 0
  /\ netWk' = [netWk EXCEPT !.again = Test = "restart",
                            !.pc = IF Test = "restart" THEN "stop" ELSE "end"]
  /\ UNCHANGED <<netQ, netCk, netEk, netHw>>

\* The wrapper waits for the checker of the last start only.
EndTest ==
  /\ netWk.pc = "end"
  /\ IF netQ.expErr THEN netEk = "done"
     ELSE IsTx => netCk # <<>> /\ netCk[Len(netCk)].pc = "done"
  /\ netWk' = [netWk EXCEPT !.n = @ + 1, !.again = FALSE,
                            !.pc = IF netWk.n = Len(netWk.tests) THEN "done" ELSE "stop"]
  /\ UNCHANGED <<netQ, netCk, netEk, netHw>>

-----------------------------------------------------------------------------
(* The coroutines.                                                           *)

\* txqPktChecker: the next packet must be the oldest in flight.
CkPkt(c) ==
  /\ c \in DOMAIN netCk /\ netCk[c].pc = "run" /\ netQ.nrTest # netCk[c].nr
  /\ netHw.out # <<>>
  /\ netHw' = [netHw EXCEPT !.out = Tail(@)]
  /\ IF netQ.noCheck
     THEN /\ netCk' = [netCk EXCEPT ![c].pc = "done"] /\ UNCHANGED <<netQ, netWk>>
     ELSE LET nr == netCk[c].nr + 1
          IN /\ netCk' = [netCk EXCEPT ![c] = [pc |-> IF nr = netQ.nrTest THEN "done" ELSE "run",
                                               nr |-> nr]]
             /\ netQ' = [netQ EXCEPT !.pkts = IF @ = <<>> THEN @ ELSE Tail(@)]
             /\ Alarm(netWk, netQ.pkts # <<>> /\ Head(netQ.pkts) = Head(netHw.out))
  /\ UNCHANGED netEk

\* virtqErrChecker: an error is compared, then the queue must be stopped.
EkPoll ==
  /\ netEk = "poll" /\ netHw.err
  /\ netEk' = "done"
  /\ Alarm(netWk, netQ.expErr /\ ~netHw.on)
  /\ UNCHANGED <<netQ, netCk, netHw>>

TxHandler ==
  /\ netHw.msix /\ IsTx
  /\ netQ' = Recycled /\ netHw' = [netHw EXCEPT !.msix = FALSE]
  /\ Alarm(netWk, RecycleOk)
  /\ UNCHANGED <<netCk, netEk>>

\* rxHandler: one rxpkt, up to the await of notify in rxFill; an interrupt
\* starts another handler while one waits there.
RxPktOk == LET e == netHw.avail[netQ.next + 1].ids
           IN netQ.rxCtx # <<>> /\ e = {Head(netQ.rxCtx)} /\ e \cap netQ.ids = {}
RxPkt(q, hw) ==
  IF NrUsed = 0 \/ netQ.noInt
  THEN netQ' = q /\ netHw' = hw /\ UNCHANGED netWk
  ELSE /\ Alarm([netWk EXCEPT !.polled = FALSE], RxPktOk)
       /\ RxFill([q EXCEPT !.next = @ + 1, !.nrRx = @ + 1, !.susp = @ + 1,
                           !.ids = @ \cup netHw.avail[netQ.next + 1].ids,
                           !.rxCtx = Tail(@)], hw)
RxHandler ==
  /\ netHw.msix /\ ~IsTx
  /\ RxPkt(netQ, [netHw EXCEPT !.msix = FALSE])
  /\ UNCHANGED <<netCk, netEk>>
RxHandlerResumes ==
  /\ netQ.susp > 0
  /\ RxPkt([netQ EXCEPT !.susp = @ - 1], netHw)
  /\ UNCHANGED <<netCk, netEk>>

-----------------------------------------------------------------------------
(* The device (external).  On TX it sends the packet and then uses the       *)
(* chain; on RX it uses a chain for each packet of the generators, which are *)
(* slower than the poll of the test.                                         *)

DevTx ==
  /\ netHw.on /\ IsTx /\ netHw.fetched < Len(netHw.avail)
  /\ LET c == netHw.avail[netHw.fetched + 1]
     IN netHw' = IF c.pkt = Bad THEN [netHw EXCEPT !.err = TRUE, !.on = FALSE]
                 ELSE [netHw EXCEPT !.fetched = @ + 1, !.out = Append(@, c.pkt)]
  /\ UNCHANGED <<netWk, netQ, netCk, netEk>>
DevRx ==
  /\ netHw.on /\ ~IsTx /\ netHw.fetched < Len(netHw.avail)
  /\ netWk.pc = "rx" /\ netWk.polled /\ netHw.fetched < NPkts
  /\ netHw' = [netHw EXCEPT !.fetched = @ + 1]
  /\ UNCHANGED <<netWk, netQ, netCk, netEk>>
DevUsed ==
  /\ netHw.on /\ netHw.used < netHw.fetched
  /\ netHw' = [netHw EXCEPT !.used = @ + 1, !.msix = TRUE]
  /\ UNCHANGED <<netWk, netQ, netCk, netEk>>

-----------------------------------------------------------------------------
Worker == SelectTests \/ StopQueue \/ ResetQueue \/ StartQueue \/ Body \/ TxPkt
          \/ TxBurstDone \/ RxPoll \/ TestBody \/ EndTest
Checkers == \E c \in 1..2 * MaxTests : CkPkt(c)
Handlers == TxHandler \/ RxHandler \/ RxHandlerResumes
Device == DevTx \/ DevRx \/ DevUsed
Next == Worker \/ Checkers \/ EkPoll \/ Handlers \/ Device
Spec == Init /\ [][Next]_vars

-----------------------------------------------------------------------------
\* No comparison of the driver fails on a right device: the packet a checker
\* receives is the oldest in flight, a used chain is the one whose ids the
\* driver frees - whoever recycles, worker or interrupt, and across restarts -
\* and the region of a received packet is the one of its descriptor.
NetNoFalseAlarm == ~netWk.alarm

\* Every descriptor id is free or in exactly one posted chain.
NetIdsConserved ==
  LET held == netQ.descs \o [i \in DOMAIN netQ.rxCtx |-> {netQ.rxCtx[i]}]
  IN /\ UNION Range(held) \cap netQ.ids = {}
     /\ UNION Range(held) \cup netQ.ids = 0..QLen-1
     /\ \A i, j \in DOMAIN held : i # j => held[i] \cap held[j] = {}

\* The list of tests ends, unless a transmit or receive test follows an error
\* or restart test, which leave switches and checkers behind (see the README).
Clean == \A i, j \in DOMAIN netWk.tests :
           i < j => netWk.tests[i] \notin {"err", "restart"} \/ netWk.tests[j] = "err"
NetOver == netWk.pc = "done" \/ ~Clean
=============================================================================
