---------------------------- MODULE MCUnderLoad ----------------------------
(***************************************************************************)
(* Four queues at the index engine, and a group of two at the merging of   *)
(* interrupts: one with a threshold of two and the shorter unit of time,   *)
(* one that only waits.  A group that nobody uses is scanned too.          *)
(***************************************************************************)
EXTENDS UnderLoad
CONSTANTS q1, q2, q3, q4
MCFourQs == {q1, q2, q3, q4}
MCMerged == {<<0, 0>>, <<0, 1>>}
MCTime == [q \in (0 .. 1) \X (0 .. 1) |-> IF q = <<0, 1>> THEN 1 ELSE 0]
MCThr == [q \in (0 .. 1) \X (0 .. 1) |-> IF q = <<0, 0>> THEN 2 ELSE 0]
=============================================================================
