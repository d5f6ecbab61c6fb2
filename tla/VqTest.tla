------------------------------- MODULE VqTest -------------------------------
(* The descriptor driver of the simulation, sim/common/vqpmd/vq.py: a Virtq  *)
(* and the coroutines around it - the worker of the test cases, checkResult, *)
(* the packet generator and the random pause - on an external queue engine.  *)
(* Ids are interchangeable, so the lowest free one stands for a random one.  *)
EXTENDS Integers, Sequences, SequencesExt, FiniteSets, FiniteSetsExt

CONSTANTS QSize, Chains, NPkts,  \* qsz; chain lengths; packets of a test
          Cases, MaxTests,       \* test cases to choose from, and how many in a row
          MaxBells               \* bound: notifies of the generator in a test

VARIABLES vqWk,   \* startAllTestOnVirtq, the running test case
          vqQ,    \* the Virtq object
          vqCo,   \* pkt_generator coroutines alive, doRandomPause alive
          vqHw    \* the queue engine: ring, generation, infos (external)

vars == <<vqWk, vqQ, vqCo, vqHw>>

\* What Virtq.reset sets; gen, ids and the saved queues are set by stop.
Fresh == [exit |-> FALSE, direct |-> FALSE, expErr |-> FALSE, test |-> 0, pkts |-> 0,
          sent |-> 0, got |-> 0, done |-> FALSE, isHdr |-> TRUE]
Init == /\ vqWk = [pc |-> "pick", tests |-> <<>>, n |-> 1, todo |-> 0, left |-> 0,
                   rx |-> FALSE, alarm |-> FALSE, early |-> FALSE]
        /\ vqQ = Fresh @@ [gen |-> 0, ids |-> 0..QSize-1, ring |-> <<>>, desc |-> <<>>]
        /\ vqCo = [gens |-> 0, stop |-> FALSE, bells |-> 0, pause |-> "off", unpause |-> FALSE]
        /\ vqHw = [on |-> FALSE, gen |-> 0, avail |-> <<>>, paused |-> FALSE, infos |-> <<>>,
                   chain |-> <<>>]

Test == vqWk.tests[vqWk.n]
Goto(pc) == vqWk' = [vqWk EXCEPT !.pc = pc]

-----------------------------------------------------------------------------
(* The test worker.                                                          *)

SelectTests ==
  /\ vqWk.pc = "pick"
  /\ \E ts \in BoundedSeq(Cases, MaxTests), rx \in BOOLEAN :
       /\ ts # <<>>
       /\ vqWk' = [vqWk EXCEPT !.pc = "reset", !.tests = ts, !.rx = rx]
  /\ UNCHANGED <<vqQ, vqCo, vqHw>>

\* reset up to the stop command: counters and flags, also those the
\* coroutines of the last test have yet to see.
Reset ==
  /\ vqWk.pc = "reset"
  /\ vqQ' = Fresh @@ vqQ
  /\ vqCo' = [vqCo EXCEPT !.stop = FALSE, !.unpause = FALSE, !.bells = 0]
  /\ Goto("stop") /\ UNCHANGED vqHw

\* The queue is stopped; what it has read still comes out as infos of its
\* generation.  The driver takes the next one.
Stop ==
  /\ vqWk.pc = "stop"
  /\ vqHw' = [vqHw EXCEPT !.on = FALSE, !.avail = <<>>]
  /\ vqQ' = [vqQ EXCEPT !.ids = 0..QSize-1, !.ring = <<>>, !.desc = <<>>, !.gen = (@ + 1) % 256]
  /\ Goto("start") /\ UNCHANGED vqCo

Start ==
  /\ vqWk.pc = "start"
  /\ vqHw' = [vqHw EXCEPT !.on = TRUE, !.gen = vqQ.gen, !.paused = FALSE, !.chain = <<>>]
  /\ Goto(IF vqWk.left = 0 THEN "body" ELSE "pkt")
  /\ UNCHANGED <<vqQ, vqCo>>

\* testcase_crazy_start_stop stops and starts over and over (here once).
Crazy ==
  /\ vqWk.pc = "pkt" /\ Test = "crazy" /\ vqWk.left = 0
  /\ vqWk' = [vqWk EXCEPT !.pc = "stop", !.left = 1]
  /\ UNCHANGED <<vqQ, vqCo, vqHw>>

\* The head of a test case, entered without an await after start.
Body ==
  /\ vqWk.pc = "body"
  /\ vqQ' = [vqQ EXCEPT !.test = CASE Test = "crazy" -> 0 [] Test = "err" -> 1 [] OTHER -> NPkts,
                        !.expErr = Test = "err", !.direct = Test = "crazy"]
  /\ vqCo' = [vqCo EXCEPT !.gens = IF vqWk.rx THEN @ + 1 ELSE @,
                          !.pause = IF Test = "pause" /\ @ = "off" THEN "run" ELSE @]
  /\ vqWk' = [vqWk EXCEPT !.todo = CASE Test = "crazy" -> 0 [] Test = "err" -> 1 [] OTHER -> NPkts,
                          !.early = vqQ.exit, !.pc = "pkt"]
  /\ UNCHANGED vqHw

\* tx_packet: the chain takes its ids one by one and waits when there is none.
StartChain ==
  /\ vqWk.pc = "pkt" /\ vqWk.todo > 0
  /\ \E n \in Chains : vqWk' = [vqWk EXCEPT !.pc = "ids", !.left = n]
  /\ vqHw' = [vqHw EXCEPT !.chain = <<>>]
  /\ UNCHANGED <<vqQ, vqCo>>
AllocId ==
  /\ vqWk.pc = "ids" /\ vqWk.left > 0 /\ vqQ.ids # {}
  /\ vqQ' = [vqQ EXCEPT !.ids = @ \ {Min(@)}, !.ring = Append(@, Min(vqQ.ids))]
  /\ vqHw' = [vqHw EXCEPT !.chain = Append(@, Min(vqQ.ids))]
  /\ vqWk' = [vqWk EXCEPT !.left = @ - 1]
  /\ UNCHANGED vqCo
\* The chain is written and its ring id posted; notify() then sleeps.
PostChain ==
  /\ vqWk.pc = "ids" /\ vqWk.left = 0
  /\ LET c == vqHw.chain
     IN /\ vqQ' = [vqQ EXCEPT !.sent = @ + Len(c),
                              !.desc = @ \o [i \in DOMAIN c |-> [id |-> c[i], last |-> i = Len(c)]]]
        /\ vqHw' = [vqHw EXCEPT !.chain = <<>>,
                      !.avail = @ \o [i \in DOMAIN c |-> [id |-> c[i], last |-> i = Len(c),
                                                          bad |-> Test = "err"]]]
  /\ vqWk' = [vqWk EXCEPT !.pc = "pkt", !.todo = @ - 1]
  /\ UNCHANGED vqCo

\* The last notify finds nothing new and makes an empty info.
EmptyNotify ==
  /\ vqWk.pc = "pkt" /\ vqWk.todo = 0 /\ (Test = "crazy" => vqWk.left = 1)
  /\ vqHw' = IF Test \in {"err", "crazy"} \/ ~vqHw.on THEN vqHw
             ELSE [vqHw EXCEPT !.infos = Append(@, [gen |-> vqHw.gen, n |-> 0, err |-> FALSE])]
  /\ vqQ' = [vqQ EXCEPT !.done = TRUE]
  /\ vqCo' = [vqCo EXCEPT !.unpause = TRUE]
  /\ Goto("exit")

EndTest ==
  /\ vqWk.pc = "exit" /\ (vqQ.exit \/ vqQ.direct)
  /\ vqCo' = [vqCo EXCEPT !.stop = vqWk.rx]
  /\ vqWk' = [vqWk EXCEPT !.n = @ + 1, !.left = 0,
                          !.pc = IF vqWk.n = Len(vqWk.tests) THEN "end" ELSE "reset"]
  /\ UNCHANGED <<vqQ, vqHw>>

-----------------------------------------------------------------------------
(* The other coroutines.                                                     *)

\* pkt_generator: rings for ever until it sees the flag after a notify.
GenNotify ==
  /\ vqCo.gens > 0
  /\ IF vqCo.stop
     THEN vqCo' = [vqCo EXCEPT !.gens = @ - 1] /\ UNCHANGED vqHw
     ELSE /\ vqCo.bells < MaxBells
          /\ vqCo' = [vqCo EXCEPT !.bells = @ + 1]
          /\ vqHw' = IF vqHw.on /\ vqHw.avail = <<>>
                     THEN [vqHw EXCEPT !.infos = Append(@, [gen |-> vqHw.gen, n |-> 0, err |-> FALSE])]
                     ELSE vqHw
  /\ UNCHANGED <<vqWk, vqQ>>

\* doRandomPause: it leaves the queue running.
Pause ==
  /\ vqCo.pause # "off"
  /\ \/ /\ vqHw.paused
        /\ vqHw' = [vqHw EXCEPT !.paused = FALSE]
        /\ vqCo' = [vqCo EXCEPT !.pause = IF vqCo.unpause THEN "off" ELSE "run"]
     \/ /\ ~vqHw.paused /\ ~vqCo.unpause /\ vqHw.on
        /\ vqHw' = [vqHw EXCEPT !.paused = TRUE] /\ UNCHANGED vqCo
     \/ /\ ~vqHw.paused /\ vqCo.unpause
        /\ vqCo' = [vqCo EXCEPT !.pause = "off"] /\ UNCHANGED vqHw
  /\ UNCHANGED <<vqWk, vqQ>>

\* checkResult compares the descriptors of an info with the saved ones: the
\* head of a chain with its ring id, each with the oldest id in use.
Take(q, d) == [q EXCEPT !.got = @ + 1, !.desc = Tail(@), !.ring = Tail(@),
                        !.ids = @ \cup {Head(q.ring)}, !.isHdr = d.last,
                        !.pkts = IF q.isHdr THEN @ + 1 ELSE @]
TakeOk(q, d) == /\ q.desc # <<>> /\ Head(q.desc).id = d.id /\ Head(q.desc).last = d.last
                /\ q.ring # <<>> /\ (q.isHdr => Head(q.ring) = d.id)
                /\ Head(q.ring) \notin q.ids
                /\ ~(q.expErr /\ d.last)
\* Mutant: what is sent and not yet back does not matter.
SetsExitEarly(q) == (q.done \/ q.test = q.pkts) /\ ~q.direct
\* The test is over when everything sent came back.
SetsExit(q) == (q.done \/ q.test = q.pkts) /\ q.sent = q.got /\ ~q.direct
CheckInfo ==
  /\ vqHw.infos # <<>>
  /\ LET info == Head(vqHw.infos)
         ok == info.n = 0 \/ TakeOk(vqQ, info.d)
         q == IF info.n = 0 \/ ~ok THEN vqQ ELSE Take(vqQ, info.d)
     IN IF info.gen # vqQ.gen THEN UNCHANGED <<vqQ, vqWk>>
        ELSE IF info.err
        THEN /\ vqWk' = [vqWk EXCEPT !.alarm = @ \/ ~vqQ.expErr]
             /\ vqQ' = [vqQ EXCEPT !.exit = @ \/ vqQ.expErr]
        ELSE /\ vqWk' = [vqWk EXCEPT !.alarm = @ \/ ~ok]
             /\ vqQ' = [q EXCEPT !.exit = @ \/ SetsExit(q)]
  /\ vqHw' = [vqHw EXCEPT !.infos = Tail(@)]
  /\ UNCHANGED vqCo

\* The engine (external) hands out descriptors in order, also in the middle
\* of a chain; a bad one makes one error info and ends its work.
DevDesc ==
  /\ vqHw.on /\ ~vqHw.paused /\ vqHw.avail # <<>>
  /\ LET d == Head(vqHw.avail)
     IN vqHw' = IF d.bad
                THEN [vqHw EXCEPT !.on = FALSE, !.avail = <<>>,
                                  !.infos = Append(@, [gen |-> vqHw.gen, n |-> 0, err |-> TRUE])]
                ELSE [vqHw EXCEPT !.avail = Tail(@),
                                  !.infos = Append(@, [gen |-> vqHw.gen, n |-> 1, err |-> FALSE, d |-> d])]
  /\ UNCHANGED <<vqWk, vqQ, vqCo>>

-----------------------------------------------------------------------------
Worker == SelectTests \/ Reset \/ Stop \/ Start \/ Crazy \/ Body \/ StartChain \/ AllocId \/ PostChain
          \/ EmptyNotify \/ EndTest
Next == Worker \/ GenNotify \/ Pause \/ CheckInfo \/ DevDesc
Spec == Init /\ [][Next]_vars

-----------------------------------------------------------------------------
\* checkResult raises for no right engine: ids and descriptors come back in
\* the order of their chains, over chains split between infos and over infos
\* of the last generation that come after the restart.
VqNoFalseAlarm == ~vqWk.alarm

\* An id is free or waits in the ring of saved ids, never both.
VqIdsConserved == /\ Range(vqQ.ring) \cup vqQ.ids = 0..QSize-1
                  /\ Range(vqQ.ring) \cap vqQ.ids = {}
                  /\ Cardinality(Range(vqQ.ring)) = Len(vqQ.ring)

\* A test ends only with every descriptor it sent compared - unless an info
\* between reset and the test case had set its exit already.
VqEndsChecked == EndTest /\ ~vqQ.direct /\ ~vqQ.expErr => vqWk.early \/ vqQ.got = vqQ.sent

\* Every list of tests ends, with the pause coroutine or the generators of
\* earlier tests still running.
VqOver == vqWk.pc = "end"
=============================================================================
