----------------------------- MODULE QueueOrder -----------------------------
(***************************************************************************)
(* The order in which the queues of a group, and the groups one after the  *)
(* other, are handed out: used by the interrupt merging and its predictor. *)
(***************************************************************************)
EXTENDS Naturals, FiniteSets

\* The first component decides, then the lane.
Before(p, r) == p[1] < r[1] \/ (p[1] = r[1] /\ p[2] < r[2])

\* The pairs of S that come before p.
Lower(S, p) == {r \in S : Before(r, p)}

\* A finite set of pairs as a sequence, the lowest first.
InOrder(S) == [k \in 1 .. Cardinality(S) |-> CHOOSE p \in S : Cardinality(Lower(S, p)) = k - 1]
=============================================================================
