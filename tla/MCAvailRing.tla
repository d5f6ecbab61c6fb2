---------------------------- MODULE MCAvailRing ----------------------------
(***************************************************************************)
(* The avail ring engine for TLC.                                          *)
(***************************************************************************)
EXTENDS AvailRing
CONSTANTS q1
MCOneQ == {q1}
MCTx == [q \in Q |-> "TX"]
MCBlk == [q \in Q |-> "BLK"]
MCRam2 == [t \in QTypes |-> 2]
MCRam4 == [t \in QTypes |-> 4]
MCNid1 == [t \in QTypes |-> 1]
MCNid2 == [t \in QTypes |-> IF t = "BLK" THEN 1 ELSE 2]
=============================================================================
