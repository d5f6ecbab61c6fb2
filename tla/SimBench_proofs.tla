--------------------------- MODULE SimBench_proofs ---------------------------
(***************************************************************************)
(* What Links_proofs shows of the buses holds in the whole bench: whatever *)
(* the drivers and checkers beside them do, they leave the buses alone.    *)
(***************************************************************************)
EXTENDS SimBench, Links_proofs

\* A bench of another kind starts with the buses off,
LEMMA BenchInit == Init => LinkInit
  BY DEF Init

\* and its steps do not touch them.
LEMMA BenchStep ==
  ASSUME [Next]_vars
  PROVE  [LinkNext]_linkVars
<1>1. CASE UNCHANGED vars
  BY <1>1 DEF vars
<1>2. CASE Next /\ LinkSteps
  BY <1>2 DEF Next, Others, LinkNext
<1>3. CASE Next /\ ~LinkSteps
  <2>1. LinkOthers /\ bench \notin {"stream", "sav", "beq", "dma", "beqtxq"}
    BY <1>3 DEF Next, Others
  <2> QED BY <2>1 DEF LinkOthers, linkVars
<1> QED BY <1>1, <1>2, <1>3

\* The benches implement their part Links.
LEMMA BenchesAreLinks == Safety => LinkSafety
  BY BenchInit, BenchStep, PTL DEF Safety, LinkSafety

\* No queue of a bus outgrows its limit by more than a pause lets through, and
\* no transfer passes the monitor by (sim/common/stream_bus.py,
\* backpressure_bus.py), in any behaviour of the benches.
THEOREM BenchQueuesBounded == Safety => []QueuesBounded
  BY BenchesAreLinks, QueuesStayBounded, PTL

\* A bus that says it is idle has sent what it was given, a transactor's count
\* of what is in flight is what it holds, and no transmit queue with a chain is
\* forgotten (sim/test_beq_txq), in any behaviour of the benches.
THEOREM BenchIdleIsIdle == Safety => []IdleIsIdle
  BY BenchesAreLinks, IdleStaysIdle, PTL

\* The wires of either bus carry what is sent once and in order, and lose at
\* most the item on them to a reset, in any behaviour of the benches.
THEOREM BenchWiresCarry == Safety => WiresAreFifos
  BY BenchesAreLinks, WiresCarry, PTL

\* In any behaviour of the benches a sink of the bus with back pressure has room for
\* what comes (sim/common/backpressure_bus.py:274), the slave finds every packet whole
\* (monitors/beq_data_bus.py), and the DMA master takes no response for another's
\* (drivers/tlp_adap_dma_bus.py), but for what a reset leaves that hits a write.
THEOREM BenchBusAlarmsAreReal == Safety => []NoBusAlarm
  BY BenchesAreLinks, BusAlarmsAreReal, PTL

\* The transactors of the packet bus carry whole packets once and in order, and a
\* reset in the middle of one leaves no piece of it, in any behaviour of the benches.
THEOREM BenchPacketsCarry == Safety => PacketsAreFifos
  BY BenchesAreLinks, PacketsCarry, PTL
=============================================================================
