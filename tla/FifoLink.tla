----------------------------- MODULE FifoLink -----------------------------
(* What a bus of the simulation promises its users, abstractly: a queue.     *)
(* What is sent comes out once and in order.  A reset of the wires loses at  *)
(* most the item on them; a reset of a whole transactor may lose a piece.    *)
EXTENDS Naturals, Sequences, SequencesExt

CONSTANTS Items, MaxLoss \* what a reset may lose
VARIABLES chan, \* sent and not yet received
          out,  \* the last item received
          rst   \* reset is asserted

\* s without the n items after the first i.
Without(s, i, n) == SubSeq(s, 1, i) \o SubSeq(s, i + n + 1, Len(s))

Put == UNCHANGED <<out, rst>> /\ LET after == chan' IN after # <<>> /\ Last(after) \in Items /\ Front(after) = chan
Take == UNCHANGED rst /\ LET before == chan IN before # <<>> /\ out' = Head(before) /\ chan' = Tail(before)
ResetOn ==
  /\ ~rst /\ rst' = TRUE /\ UNCHANGED out
  /\ \E i \in 0..Len(chan), n \in 0..MaxLoss : i + n <= Len(chan) /\ chan' = Without(chan, i, n)
ResetOff == rst /\ rst' = FALSE /\ UNCHANGED <<chan, out>>

Init == chan = <<>> /\ out = -1 /\ rst = TRUE
Next == Put \/ Take \/ ResetOn \/ ResetOff
Spec == Init /\ [][Next]_<<chan, out, rst>>
=============================================================================
