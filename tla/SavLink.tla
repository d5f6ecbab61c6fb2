------------------------------ MODULE SavLink ------------------------------
(* sim/common/backpressure_bus.py: a BackpressureSource and a                *)
(* BackpressureSink on the wires of one bus with back pressure: sav says     *)
(* there is room, and the source may still send MaxPause items after it went *)
(* low.  Source and sink each count those in a coroutine of their own, which *)
(* runs before or after _run at an edge.  See StreamLink for the conventions.*)
EXTENDS Integers, Sequences, FiniteSets

CONSTANTS Limit,    \* queue_occupancy_limit of the sink
          MaxPause, \* max_pause_duration
          MaxQueue  \* bound: items in the queue of the source

VARIABLES savSrc, \* the source: queue, vld and data, _not_ready_cnt, events
          savSnk, \* the sink: queue, sav, pause_sample, wake_event, _not_ready_cnt
          savRst, savOut,
          savAlarm \* the sink has raised: overflow
vars == <<savSrc, savSnk, savRst, savOut, savAlarm>>

Names == 0 .. MaxQueue + Limit + MaxPause + 1

Init ==
  /\ savSrc = [run |-> "off", q |-> <<>>, vld |-> FALSE, data |-> -1, cnt |-> MaxPause,
               active |-> FALSE, idle |-> TRUE, pause |-> FALSE, next |-> 0]
  /\ savSnk = [run |-> "off", q |-> <<>>, sav |-> FALSE, cnt |-> MaxPause, seen |-> FALSE,
               pause |-> FALSE, wake |-> FALSE, nul |-> FALSE]
  /\ savRst = TRUE /\ savOut = -1 /\ savAlarm = FALSE

-----------------------------------------------------------------------------
(* The users.                                                                *)

Send ==
  /\ Len(savSrc.q) < MaxQueue
  /\ savSrc' = [savSrc EXCEPT !.q = Append(@, savSrc.next), !.idle = FALSE,
                              !.next = (@ + 1) % Cardinality(Names)]
  /\ UNCHANGED <<savSnk, savRst, savOut, savAlarm>>

Woken(snk) == [snk EXCEPT !.wake = TRUE, !.run = IF @ = "asleep" THEN "on" ELSE @,
                          !.seen = IF snk.run = "asleep" THEN snk.pause ELSE @]
Recv ==
  /\ savSnk.q # <<>>
  /\ savOut' = Head(savSnk.q) /\ savSnk' = Woken([savSnk EXCEPT !.q = Tail(@)])
  /\ UNCHANGED <<savSrc, savRst, savAlarm>>

PauseSource ==
  /\ savSrc' = [savSrc EXCEPT !.pause = ~@]
  /\ UNCHANGED <<savSnk, savRst, savOut, savAlarm>>
PauseSink ==
  /\ savSnk' = Woken([savSnk EXCEPT !.pause = ~@])
  /\ UNCHANGED <<savSrc, savRst, savOut, savAlarm>>

-----------------------------------------------------------------------------
(* A rising edge.                                                            *)

\* _run_not_ready_cnt_thd.
Count(cnt) == IF savSnk.sav THEN 0 ELSE IF savSrc.vld THEN cnt + 1 ELSE cnt

\* Mutant: the source stops one item late.
SourceEdgeLate(cnt) ==
  IF (savSnk.sav \/ cnt < MaxPause) /\ savSrc.q # <<>> /\ ~savSrc.pause
  THEN [savSrc EXCEPT !.data = Head(savSrc.q), !.q = Tail(@), !.vld = TRUE, !.active = TRUE]
  ELSE [savSrc EXCEPT !.data = -1, !.vld = FALSE, !.active = savSrc.q # <<>>,
                      !.idle = @ \/ savSrc.q = <<>>]

\* cnt is the counter as _run finds it, counted already at this edge or not.
SourceEdge(cnt) ==
  IF (savSnk.sav \/ cnt + 1 < MaxPause) /\ savSrc.q # <<>> /\ ~savSrc.pause
  THEN [savSrc EXCEPT !.data = Head(savSrc.q), !.q = Tail(@), !.vld = TRUE, !.active = TRUE]
  ELSE [savSrc EXCEPT !.data = -1, !.vld = FALSE, !.active = savSrc.q # <<>>,
                      !.idle = @ \/ savSrc.q = <<>>]

\* The sink takes what is valid whatever sav says; it sleeps when nothing is.
SinkEdge ==
  LET got == IF savSrc.vld THEN [savSnk EXCEPT !.q = Append(@, savSrc.data)] ELSE savSnk
      set == [got EXCEPT !.sav = ~(Len(got.q) >= Limit \/ got.seen)]
  IN IF savSnk.run # "on" THEN savSnk
     ELSE IF savSrc.vld \/ savSnk.nul
     THEN [set EXCEPT !.seen = got.pause, !.wake = @ /\ savSrc.vld]
     ELSE [set EXCEPT !.wake = FALSE, !.seen = FALSE, !.run = "asleep"]

Edge ==
  /\ ~savRst
  /\ \E cs \in {savSrc.cnt, Count(savSrc.cnt)}, ck \in {savSnk.cnt, Count(savSnk.cnt)} :
       LET rise == (~savSrc.vld /\ SourceEdge(cs).vld) \/ (~savSnk.sav /\ SinkEdge.sav)
           snk == [SinkEdge EXCEPT !.cnt = Count(savSnk.cnt)]
       IN /\ savSrc' = [SourceEdge(cs) EXCEPT !.cnt = Count(savSrc.cnt)]
          /\ savSnk' = IF rise THEN Woken(snk) ELSE snk
          /\ savAlarm' = (savSnk.run = "on" /\ savSrc.vld /\ ck > MaxPause)
  /\ UNCHANGED <<savRst, savOut>>

-----------------------------------------------------------------------------
ResetOn ==
  /\ ~savRst /\ savRst' = TRUE
  /\ savSrc' = [savSrc EXCEPT !.run = "off", !.active = FALSE, !.vld = FALSE, !.data = -1,
                              !.idle = @ \/ savSrc.q = <<>>]
  /\ savSnk' = [savSnk EXCEPT !.run = "off", !.sav = FALSE, !.seen = FALSE, !.nul = FALSE]
  /\ UNCHANGED <<savOut, savAlarm>>
ResetOff ==
  /\ savRst /\ savRst' = FALSE
  /\ savSrc' = [savSrc EXCEPT !.run = "on", !.cnt = MaxPause]
  /\ savSnk' = [savSnk EXCEPT !.run = "on", !.cnt = MaxPause, !.nul = savSnk.wake,
                              !.seen = savSnk.pause]
  /\ UNCHANGED <<savOut, savAlarm>>

Next == ~savAlarm /\ (Edge \/ Send \/ Recv \/ PauseSource \/ PauseSink \/ ResetOn \/ ResetOff)
Spec == Init /\ [][Next]_vars

-----------------------------------------------------------------------------
\* What is on the bus, the oldest first: the bus is a FifoLink with this channel.
Chan == savSnk.q \o (IF savSrc.vld THEN <<savSrc.data>> ELSE <<>>) \o savSrc.q

\* Its sink never overflows: however the two counters run, the source stops in
\* time.
SavNoOverflow == ~savAlarm

\* The sink holds what it had room for and the items of one pause, no more; and
\* idle_event promises that everything sent has been accepted.
SavSinkBounded == Len(savSnk.q) <= Limit + MaxPause
SavIdleIsDrained == savSrc.idle => savSrc.q = <<>> /\ ~savSrc.vld
=============================================================================
