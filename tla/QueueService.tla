--------------------------- MODULE QueueService ---------------------------
(***************************************************************************)
(* What a queue scheduler of virtio2 promises to the block that kicks it   *)
(* and to the engine that serves it, with no bitmap, FIFO or arbiter: a    *)
(* queue that was asked for is handed to the engine after the request, at  *)
(* most one service of a queue is open at a time, and nothing is served    *)
(* that nobody asked for.                                                  *)
(***************************************************************************)
CONSTANT Q            \* the virtqueues

VARIABLES
  want,               \* queues with a request that no service has followed yet
  serving             \* queues the engine is working on

vars == <<want, serving>>

TypeOK == want \subseteq Q /\ serving \subseteq Q

Init == want = {} /\ serving = {}

Request(q) == want' = want \cup {q} /\ UNCHANGED serving

\* A service starts.  The scheduler may keep the request as well: requests are
\* counted as "more than one", so a queue may be served once more than asked.
Take(q) ==
  /\ q \in want \ serving
  /\ serving' = serving \cup {q}
  /\ want' \in {want, want \ {q}}

\* The engine gives the queue back; if it is not done with it, it asks for it
\* again.
Release(q, done) ==
  /\ q \in serving
  /\ serving' = serving \ {q}
  /\ want' = IF done THEN want ELSE want \cup {q}

Next ==
  \E q \in Q : Request(q) \/ Take(q) \/ \E done \in BOOLEAN : Release(q, done)

Safety == Init /\ [][Next]_vars

Spec == Safety /\ \A q \in Q : WF_vars(Take(q))
=============================================================================
