---------------------------- MODULE StreamLink ----------------------------
(* sim/common/stream_bus.py: a StreamDriver and a StreamSink on the wires of *)
(* one valid/ready bus, and the StreamMonitor that watches them.  Everything *)
(* the three do at a rising edge of the clock is one step; pauses, users and *)
(* resets come between two edges.  A coroutine is off (reset), on (waits for *)
(* the edge) or asleep (waits for its event).                                *)
EXTENDS Integers, Sequences, FiniteSets

CONSTANTS Limit,   \* queue_occupancy_limit of both queues
          Senders, \* coroutines that call send
          Resets   \* the bus is reset again, and not only at the start

VARIABLES strSrc, \* the driver: queue, wires it drives, events
          strSnd, \* [Senders -> "idle", "wait" for dequeue_event, "woken"]
          strSnk, \* the sink: queue, rdy, pause_sample, wake_event
          strMon, \* the monitor: coroutine, wake_event; a transfer it slept through
          strRst, strOut \* reset; what recv returned last
vars == <<strSrc, strSnd, strSnk, strMon, strRst, strOut>>

Names == 0 .. 2 * Limit + 1  \* serial numbers come round: no two in flight are equal

Init ==
  /\ strSrc = [run |-> "off", q |-> <<>>, vld |-> FALSE, data |-> -1, active |-> FALSE,
               idle |-> TRUE, pause |-> FALSE, next |-> 0]
  /\ strSnd = [s \in Senders |-> "idle"]
  /\ strSnk = [run |-> "off", q |-> <<>>, rdy |-> FALSE, seen |-> FALSE, pause |-> FALSE,
               wake |-> FALSE, nul |-> FALSE]
  /\ strMon = [run |-> "off", wake |-> FALSE, nul |-> FALSE, missed |-> FALSE]
  /\ strRst = TRUE /\ strOut = -1

-----------------------------------------------------------------------------
(* The users.                                                                *)

\* Mutant: off by one.
FullLate == Len(strSrc.q) > Limit
Full == Len(strSrc.q) >= Limit
\* send: on a full queue it waits for dequeue_event, and looks again.
Send(s) ==
  /\ strSnd[s] # "wait"
  /\ IF Full
     THEN strSnd' = [strSnd EXCEPT ![s] = "wait"] /\ UNCHANGED strSrc
     ELSE /\ strSrc' = [strSrc EXCEPT !.q = Append(@, strSrc.next), !.idle = FALSE,
                                      !.run = IF @ = "asleep" THEN "on" ELSE @,
                                      !.next = (@ + 1) % Cardinality(Names)]
          /\ strSnd' = [strSnd EXCEPT ![s] = "idle"]
  /\ UNCHANGED <<strSnk, strMon, strRst, strOut>>

\* Mutant: the event is set for a sink that does not wait for it.
WokenLate(snk) == [snk EXCEPT !.wake = TRUE]
\* wake_event is set: the sink samples the pause again before the next edge.
Woken(snk) == [snk EXCEPT !.wake = TRUE, !.run = IF @ = "asleep" THEN "on" ELSE @,
                          !.seen = IF snk.run = "asleep" THEN snk.pause ELSE @]
Recv ==
  /\ strSnk.q # <<>>
  /\ strOut' = Head(strSnk.q) /\ strSnk' = Woken([strSnk EXCEPT !.q = Tail(@)])
  /\ UNCHANGED <<strSrc, strSnd, strMon, strRst>>

PauseSource ==
  /\ strSrc' = [strSrc EXCEPT !.pause = ~@]
  /\ UNCHANGED <<strSnd, strSnk, strMon, strRst, strOut>>
PauseSink ==
  /\ strSnk' = Woken([strSnk EXCEPT !.pause = ~@])
  /\ UNCHANGED <<strSrc, strSnd, strMon, strRst, strOut>>

-----------------------------------------------------------------------------
(* A rising edge.  The handshake is sampled, then the wires change.          *)

Transfer == strSrc.vld /\ strSnk.rdy

\* Mutant: the driver does not wait for rdy.
SourceEdgeHasty ==
  IF strSrc.run # "on" THEN strSrc
  ELSE IF strSrc.q # <<>> /\ ~strSrc.pause
       THEN [strSrc EXCEPT !.data = Head(strSrc.q), !.q = Tail(@), !.vld = TRUE, !.active = TRUE]
       ELSE IF strSrc.q # <<>> THEN [strSrc EXCEPT !.data = -1, !.vld = FALSE, !.active = TRUE]
       ELSE [strSrc EXCEPT !.data = -1, !.vld = FALSE, !.active = FALSE, !.idle = TRUE, !.run = "asleep"]
SourceEdge ==
  IF strSrc.run # "on" \/ (strSrc.vld /\ ~strSnk.rdy) THEN strSrc
  ELSE IF strSrc.q # <<>> /\ ~strSrc.pause
       THEN [strSrc EXCEPT !.data = Head(strSrc.q), !.q = Tail(@),
                           !.vld = TRUE, !.active = TRUE]
       ELSE IF strSrc.q # <<>> THEN [strSrc EXCEPT !.data = -1, !.vld = FALSE, !.active = TRUE]
       ELSE [strSrc EXCEPT !.data = -1, !.vld = FALSE, !.active = FALSE, !.idle = TRUE, !.run = "asleep"]

\* The sink sleeps when it has nothing to do, unless the pause has changed since
\* it sampled it.
SinkEdge ==
  LET got == IF Transfer THEN [strSnk EXCEPT !.q = Append(@, strSrc.data)] ELSE strSnk
      paused == Len(got.q) >= Limit \/ got.seen
      set == [got EXCEPT !.rdy = ~paused]
      rests == (~strSrc.vld \/ paused) /\ got.seen = got.pause
  IN IF strSnk.run # "on" THEN strSnk
     ELSE IF ~rests THEN [set EXCEPT !.seen = got.pause]
     ELSE [set EXCEPT !.wake = FALSE, !.seen = got.nul /\ got.seen, !.run = IF got.nul THEN "on" ELSE "asleep"]
MonitorEdge ==
  IF strMon.run # "on" THEN [strMon EXCEPT !.missed = @ \/ Transfer]
  ELSE IF Transfer THEN strMon
  ELSE [strMon EXCEPT !.wake = FALSE, !.run = IF strMon.nul THEN "on" ELSE "asleep"]

\* The edge of vld or rdy that follows wakes those that sleep.
Edge ==
  LET rise == (~strSrc.vld /\ SourceEdge.vld) \/ (~strSnk.rdy /\ SinkEdge.rdy)
      mon == MonitorEdge
  IN /\ strSrc' = SourceEdge
     /\ strSnk' = IF rise THEN Woken(SinkEdge) ELSE SinkEdge
     /\ strMon' = IF rise THEN [mon EXCEPT !.wake = TRUE, !.run = IF @ = "asleep" THEN "on" ELSE @]
                  ELSE mon
     /\ strSnd' = IF Len(SourceEdge.q) = Len(strSrc.q) THEN strSnd
                  ELSE [s \in Senders |-> IF strSnd[s] = "wait" THEN "woken" ELSE strSnd[s]]
     /\ UNCHANGED <<strRst, strOut>>

-----------------------------------------------------------------------------
(* _handle_reset of the three.                                               *)

ResetOn ==
  /\ Resets /\ ~strRst /\ strRst' = TRUE
  /\ strSrc' = [strSrc EXCEPT !.run = "off", !.active = FALSE, !.vld = FALSE, !.data = -1,
                              !.idle = @ \/ strSrc.q = <<>>]
  /\ strSnk' = [strSnk EXCEPT !.run = "off", !.rdy = FALSE, !.seen = FALSE, !.nul = FALSE]
  /\ strMon' = [strMon EXCEPT !.run = "off", !.nul = FALSE]
  /\ UNCHANGED <<strSnd, strOut>>
\* A wake_event that is set when _run starts gives it a trigger that never waits.
ResetOff ==
  /\ strRst /\ strRst' = FALSE
  /\ strSrc' = [strSrc EXCEPT !.run = "on"]
  /\ strSnk' = [strSnk EXCEPT !.run = "on", !.nul = strSnk.wake, !.seen = strSnk.pause]
  /\ strMon' = [strMon EXCEPT !.run = "on", !.nul = strMon.wake]
  /\ UNCHANGED <<strSnd, strOut>>

Next == \/ Edge \/ Recv \/ PauseSource \/ PauseSink \/ ResetOn \/ ResetOff
        \/ \E s \in Senders : Send(s)
Spec == Init /\ [][Next]_vars

-----------------------------------------------------------------------------
\* What is on the bus, the oldest first: the bus is a FifoLink with this channel.
Chan == strSnk.q \o (IF strSrc.vld THEN <<strSrc.data>> ELSE <<>>) \o strSrc.q

\* idle_event promises that everything sent has been accepted, neither queue
\* outgrows its limit, and no transfer passes the monitor by.
StrIdleIsDrained == strSrc.idle => strSrc.q = <<>> /\ ~strSrc.vld
StrQueuesBounded == Len(strSrc.q) <= Limit /\ Len(strSnk.q) <= Limit
StrMonitorSeesAll == ~strMon.missed

\* Once pauses and resets are over, what is in the queue is received.
Quiet == ~strSrc.pause /\ ~strSnk.pause /\ ~strRst
StrDelivered(x) == Quiet => x \notin {Chan[i] : i \in DOMAIN Chan}
=============================================================================
