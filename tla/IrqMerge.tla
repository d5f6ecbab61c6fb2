----------------------------- MODULE IrqMerge -----------------------------
(***************************************************************************)
(* virtio_irq_merge_core: interrupts of the net queues are merged until    *)
(* there are enough or their time is up.  One step is one clock.  The      *)
(* clocks alternate between an interrupt asked for and one group of a scan *)
(* over all queues; both go through a pipeline whose last stage reads what *)
(* the RAM of virtio_ctx held one clock earlier.                           *)
(***************************************************************************)
EXTENDS Naturals, FiniteSets, Sequences, QueueOrder

CONSTANTS
  NG, NL, Time, Thr, TimeMod, CntMod,  \* as in IrqPredict
  Live,          \* the queues the driver uses
  CLK_CYCLE,     \* clocks per tick of the time stamp: 100 in the code
  ENG_OUT_PFULL  \* eng_out_ff takes no further ask from here: 28 in the code

VARIABLES
  cyc, ts, imp,  \* time_cycle_cnt, time_stamp, time_stamp_imp
  scan,          \* scan_out_cnt
  flag,          \* eng_in_flag: 1 for an interrupt asked for, 0 for the scan
  s1, s2, s3,    \* the stages; s3 is also the write port of the RAM
  rsp, info,     \* the word the RAM returns; the RAM
  eo, ff,        \* eng_out; eng_out_ff
  age            \* history: ticks since a queue began to wait

vars == <<cyc, ts, imp, scan, flag, s1, s2, s3, rsp, info, eo, ff, age>>

Groups == 0 .. NG - 1
Lanes == 0 .. NL - 1

\* What the sizes must be for the machine to make sense,
Sizes ==
  /\ {NG, NL, TimeMod} \subseteq Nat \ {0}
  /\ {CntMod, CLK_CYCLE} \subseteq Nat \ {0, 1}
  /\ Live \subseteq Groups \X Lanes
  /\ \A q \in Groups \X Lanes : 2 ^ Time[q] \in Nat \ {0}

\* and for it to be in time: a scan is over before the next tick (32 groups, 100
\* clocks), and the time stamp wraps between two units of every queue (16 bits
\* of it, a unit of 2^7 ticks at most, four units).
Timing ==
  /\ 2 * NG + 2 <= CLK_CYCLE
  /\ \A q \in Live : TimeMod % (4 * 2 ^ Time[q]) = 0

Word == [Lanes -> [en : BOOLEAN, at : 0 .. 3, cnt : 0 .. CntMod - 1]]
\* The time map of a queue that does not wait is kept 0: nothing reads it then.
Off == [en |-> FALSE, at |-> 0, cnt |-> 0]
OffWord == [l \in Lanes |-> Off]
\* An empty stage.
NoOp == [flag |-> 0, g |-> 0, lanes |-> {}]

TypeOK ==
  /\ cyc \in 0 .. CLK_CYCLE - 1 /\ ts \in 0 .. TimeMod - 1 /\ imp \in BOOLEAN
  /\ scan \in 0 .. NG /\ flag \in 0 .. 1
  /\ s1 \in [flag : 0 .. 1, g : Groups, lanes : SUBSET Lanes]
  /\ s2 \in [flag : 0 .. 1, g : Groups, lanes : SUBSET Lanes, ts : 0 .. TimeMod - 1]
  /\ s3 \in [g : Groups, lanes : SUBSET Lanes, word : Word]
  /\ rsp \in Word /\ info \in [Groups -> Word]
  /\ eo \in [g : Groups, lanes : SUBSET Lanes]
  /\ ff \in Seq([g : Groups, lanes : (SUBSET Lanes) \ {{}}])
  /\ age \in [Live -> 0 .. TimeMod]

\* The first clock after reset: rst_logic has kept the one before it empty.
Init ==
  /\ cyc = 1 /\ ts = 0 /\ imp = FALSE /\ scan = 0 /\ flag = 1
  /\ s1 = NoOp /\ s2 = [flag |-> 0, g |-> 0, lanes |-> {}, ts |-> 0]
  /\ s3 = [g |-> 0, lanes |-> {}, word |-> OffWord]
  /\ rsp = OffWord /\ info = [g \in Groups |-> OffWord]
  /\ eo = [g |-> 0, lanes |-> {}] /\ ff = <<>>
  /\ age = [q \in Live |-> 0]

-----------------------------------------------------------------------------
\* The time stamp, and the scan that each of its ticks starts.
TimeTicks ==
  LET last == cyc = CLK_CYCLE - 1 IN
  /\ cyc' = (cyc + 1) % CLK_CYCLE
  /\ ts' = IF last THEN (ts + 1) % TimeMod ELSE ts
  /\ imp' = last

ScanSteps ==
  scan' = IF imp THEN 0 ELSE IF scan # NG /\ flag = 0 THEN scan + 1 ELSE scan

\* What enters the pipeline if the interrupts asked are at the port.
irq_in_rdy == flag = 1 /\ Len(ff) < ENG_OUT_PFULL
Stage0(asked) ==
  IF flag = 0
  THEN IF scan = NG THEN NoOp ELSE [flag |-> 0, g |-> scan, lanes |-> Lanes]
  ELSE IF ~irq_in_rdy \/ asked = {} THEN NoOp
  ELSE LET q == CHOOSE q \in asked : TRUE IN [flag |-> 1, g |-> q[1], lanes |-> {q[2]}]

\* The RAM is WRITE_FIRST: it returns what is written in the same clock.
RamReads ==
  rsp' = IF s1.lanes = {} THEN OffWord
         ELSE IF s3.lanes # {} /\ s3.g = s1.g THEN s3.word ELSE info[s1.g]

RamWrites == info' = IF s3.lanes = {} THEN info ELSE [info EXCEPT ![s3.g] = s3.word]

\* Mutant: stage 2 trusts the RAM alone.
SeesRam(l) == rsp[l]

\* The state of lane l as stage 2 sees it: what the stage ahead changed comes first.
Sees(l) == IF l \in s3.lanes /\ s3.g = s2.g THEN s3.word[l] ELSE rsp[l]

Unit(q, t) == (t \div 2 ^ Time[q]) % 4
Due(q, t) == (Unit(q, t) + 3) % 4

\* Lane l is done: enough interrupts are merged, or the scan finds its time up.
Full(l) ==
  LET q == <<s2.g, l>> IN
  s2.flag = 1 /\ Thr[q] # 0 /\ (Sees(l).cnt + 1) % CntMod = Thr[q]
TimeUp(l) == s2.flag = 0 /\ Sees(l).en /\ Sees(l).at = Unit(<<s2.g, l>>, s2.ts)
Fires == {l \in s2.lanes : Full(l) \/ TimeUp(l)}

\* Mutant: every interrupt that is merged sets the time again.
WritesLate(l) ==
  IF l \in Fires THEN Off
  ELSE IF l \notin s2.lanes \/ s2.flag = 0 THEN Sees(l)
  ELSE [en |-> TRUE, at |-> Due(<<s2.g, l>>, s2.ts), cnt |-> (Sees(l).cnt + 1) % CntMod]

\* What stage 2 makes of lane l: the first interrupt that is merged sets the time.
Writes(l) ==
  IF l \in Fires THEN Off
  ELSE IF l \notin s2.lanes \/ s2.flag = 0 THEN Sees(l)
  ELSE IF Sees(l).en THEN [Sees(l) EXCEPT !.cnt = (Sees(l).cnt + 1) % CntMod]
  ELSE [en |-> TRUE, at |-> Due(<<s2.g, l>>, s2.ts), cnt |-> 1]

Stage2 ==
  /\ s3' = IF s2.lanes = {} THEN [g |-> 0, lanes |-> {}, word |-> OffWord]
           ELSE [g |-> s2.g, lanes |-> s2.lanes, word |-> [l \in Lanes |-> Writes(l)]]
  /\ eo' = IF Fires = {} THEN [g |-> 0, lanes |-> {}] ELSE [g |-> s2.g, lanes |-> Fires]

\* mux_nto1 hands out the lanes of a word one by one, the lowest first.
FirstLane(w) == CHOOSE l \in w.lanes : \A k \in w.lanes : l <= k
HandedOut(rdy) ==
  IF ~rdy \/ ff = <<>> THEN ff
  ELSE LET left == Head(ff).lanes \ {FirstLane(Head(ff))} IN
       IF left = {} THEN Tail(ff) ELSE <<[Head(ff) EXCEPT !.lanes = left]>> \o Tail(ff)

\* Queue q after the stage ahead of stage 2 has written it.
Waits(q) == LET w == IF s3.lanes # {} /\ s3.g = q[1] THEN s3.word ELSE info[q[1]] IN w[q[2]]

Ages ==
  LET tick == IF s2.ts' = s2.ts THEN 0 ELSE 1
  IN age' = [q \in Live |->
       IF ~Waits(q)'.en THEN 0
       ELSE IF ~Waits(q).en THEN tick
       ELSE IF age[q] = TimeMod THEN TimeMod ELSE age[q] + tick]

Clock(asked, irq_out_rdy) ==
  /\ TimeTicks /\ ScanSteps /\ flag' = 1 - flag
  /\ s1' = Stage0(asked)
  /\ s2' = [flag |-> s1.flag, g |-> s1.g, lanes |-> s1.lanes, ts |-> ts]
  /\ RamReads /\ RamWrites /\ Stage2
  /\ ff' = HandedOut(irq_out_rdy) \o (IF eo.lanes = {} THEN <<>> ELSE <<eo>>)
  /\ Ages

Asks == {{}} \cup {{q} : q \in Live}
Next == \E asked \in Asks, irq_out_rdy \in BOOLEAN : Clock(asked, irq_out_rdy)

Spec == Init /\ [][Next]_vars

-----------------------------------------------------------------------------
\* The interrupts that are on their way out, in the order they are handed out:
\* those of eng_out_ff word by word, and those of eng_out behind them.
Pending(words) == {p \in (DOMAIN words) \X Lanes : p[2] \in words[p[1]].lanes}
QueuesOf(words) ==
  LET order == InOrder(Pending(words))
  IN [k \in DOMAIN order |-> <<words[order[k][1]].g, order[k][2]>>]
Promised == QueuesOf(Append(ff, eo))

Predict == INSTANCE IrqPredict WITH
  input <- [q \in Groups \X Lanes |-> Waits(q)],
  expected <- Promised,
  now <- s2.ts

(***************************************************************************)
(* The device does what the predictor of its bench says: an interrupt      *)
(* asked for is merged or signalled exactly as if there were no pipeline,  *)
(* though the clock before it has changed the same word                    *)
(* (virtio_irq_merge_core_eng.sv:127).                                     *)
(***************************************************************************)
PredictorAgrees == Predict!PSpec

(***************************************************************************)
(* An interrupt that waits is signalled in the third unit of time after it *)
(* began to wait: never in the second, never later, whatever the others do *)
(* (virtio_irq_merge_core_eng.sv:104, the tolerance of the bench).         *)
(***************************************************************************)
InTolerance ==
  [][\A q \in Live :
       /\ q[1] = s2.g /\ q[2] \in Fires /\ s2.flag = 0 => age[q] > 2 * 2 ^ Time[q]
       /\ age'[q] <= 3 * 2 ^ Time[q]]_vars
=============================================================================
