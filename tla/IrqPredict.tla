---------------------------- MODULE IrqPredict ----------------------------
(***************************************************************************)
(* What interrupt merging promises: the predictor that the bench of        *)
(* virtio_irq_merge_core steps beside the device, two clocks behind its    *)
(* ports.  It has no pipeline, no RAM and no FIFO.                         *)
(***************************************************************************)
EXTENDS Naturals, Sequences, QueueOrder

CONSTANTS
  NG, NL,     \* groups of queues, and lanes: the queues of a group
  Time, Thr,  \* msix_time and msix_threshold of a queue
  TimeMod,    \* bound: the time stamp counts modulo TimeMod, 2^16 in the code
  CntMod      \* bound: a count wraps, at 2^7 in the code

VARIABLES
  input,      \* qid_input_info: wr_en, wr_time, input_count
  expected,   \* irq_qid_in_queue: interrupts still to come, in order
  now         \* time_stamp_reg2

Groups == 0 .. NG - 1
Lanes == 0 .. NL - 1
Queues == Groups \X Lanes

\* wr_time is kept 0 while wr_en is off: nothing reads it then.
Off == [en |-> FALSE, at |-> 0, cnt |-> 0]

\* The unit of queue q that time stamp t is in; wr_time is the third after it.
Unit(q, t) == (t \div 2 ^ Time[q]) % 4
Due(q, t) == (Unit(q, t) + 3) % 4

PInit == input = [q \in Queues |-> Off] /\ expected = <<>> /\ now = 0

-----------------------------------------------------------------------------
\* The device hands out the first expected interrupt or none, while fired follow.
HandsOut(fired) ==
  expected' \in {expected \o fired} \cup
    (IF expected = <<>> THEN {} ELSE {Tail(expected) \o fired})

\* Nothing reaches the predictor in this clock.
Idle == UNCHANGED input /\ HandsOut(<<>>)

\* An interrupt is asked for and is the last one the threshold waits for.
Reaches(q) ==
  /\ Thr[q] # 0 /\ (input[q].cnt + 1) % CntMod = Thr[q]
  /\ input' = [input EXCEPT ![q] = Off]
  /\ HandsOut(<<q>>)

\* It is merged; the first one sets the time.
Merges(q) ==
  /\ Thr[q] = 0 \/ (input[q].cnt + 1) % CntMod # Thr[q]
  /\ LET i == input[q]
     IN input' = [input EXCEPT ![q] =
          IF i.en THEN [i EXCEPT !.cnt = (i.cnt + 1) % CntMod]
                  ELSE [en |-> TRUE, at |-> Due(q, now), cnt |-> 1]]
  /\ HandsOut(<<>>)

\* The queues of group g whose time has come.
Expired(g) ==
  {l \in Lanes : LET i == input[<<g, l>>] IN i.en /\ i.at = Unit(<<g, l>>, now)}

\* The scan comes to group g.
Scans(g) ==
  /\ input' = [q \in Queues |-> IF q[1] = g /\ q[2] \in Expired(g) THEN Off ELSE input[q]]
  /\ HandsOut(InOrder({g} \X Expired(g)))

PNext ==
  /\ Idle \/ (\E q \in Queues : Reaches(q) \/ Merges(q)) \/ (\E g \in Groups : Scans(g))
  /\ now' \in {now, (now + 1) % TimeMod}

PSpec == PInit /\ [][PNext]_<<input, expected, now>>
=============================================================================
