----------------------------- MODULE BeatPipe -----------------------------
(* A transactor that cuts packets into beats, the wires (SavLink), and the   *)
(* transactor that puts them together again: BeqMaster and BeqSlave of       *)
(* sim/common/drivers and monitors/beq_data_bus.py.  The user's calls, the   *)
(* two _process coroutines and the reset interleave at every await.          *)
EXTENDS Integers, Sequences, FiniteSets, QueueOrder

CONSTANTS QMax,   \* chn_queue and the queues of the wires
          MaxBeats \* bound: beats of a packet

VARIABLES pipMst, \* master: chn_queue, beats left of the packet, count, blocked call
          pipBus, \* beats in the source's and in the sink's queue
          pipSlv, \* slave: beats so far, packet it cannot put yet, chn_queue, count
          pipRst, pipOut, pipAlarm
vars == <<pipMst, pipBus, pipSlv, pipRst, pipOut, pipAlarm>>

Names == 0 .. 4 * QMax + 3
None == -1

Init ==
  /\ pipMst = [q |-> <<>>, cur |-> <<>>, flight |-> 0, put |-> None, next |-> 0, debt |-> FALSE]
  /\ pipBus = [src |-> <<>>, snk |-> <<>>]
  /\ pipSlv = [part |-> <<>>, put |-> None, q |-> <<>>, flight |-> 0]
  /\ pipRst = TRUE /\ pipOut = None /\ pipAlarm = FALSE

-----------------------------------------------------------------------------
(* The master.                                                               *)

\* send: counted, then put; a call that finds the queue full blocks.
Send ==
  /\ pipMst.put = None
  /\ pipMst' = [pipMst EXCEPT !.flight = @ + 1, !.put = pipMst.next,
                              !.next = (@ + 1) % Cardinality(Names)]
  /\ UNCHANGED <<pipBus, pipSlv, pipRst, pipOut, pipAlarm>>
SendPut ==
  /\ pipMst.put # None /\ Len(pipMst.q) < QMax
  /\ pipMst' = [pipMst EXCEPT !.q = Append(@, pipMst.put), !.put = None]
  /\ UNCHANGED <<pipBus, pipSlv, pipRst, pipOut, pipAlarm>>

Beats(tag, n) == [i \in 1..n |-> [tag |-> tag, len |-> n, sop |-> i = 1, eop |-> i = n]]
MasterGet ==
  /\ ~pipRst /\ pipMst.cur = <<>> /\ pipMst.q # <<>>
  /\ \E n \in 1..MaxBeats :
       pipMst' = [pipMst EXCEPT !.cur = Beats(Head(pipMst.q), n), !.q = Tail(@)]
  /\ UNCHANGED <<pipBus, pipSlv, pipRst, pipOut, pipAlarm>>
MasterBeat ==
  /\ ~pipRst /\ pipMst.cur # <<>> /\ Len(pipBus.src) < QMax
  /\ pipBus' = [pipBus EXCEPT !.src = Append(@, Head(pipMst.cur))]
  /\ pipMst' = [pipMst EXCEPT !.cur = Tail(@), !.flight = @ - (IF Len(pipMst.cur) = 1 THEN 1 ELSE 0)]
  /\ UNCHANGED <<pipSlv, pipRst, pipOut, pipAlarm>>

Wires ==
  /\ ~pipRst /\ pipBus.src # <<>> /\ Len(pipBus.snk) < QMax
  /\ pipBus' = [src |-> Tail(pipBus.src), snk |-> Append(pipBus.snk, Head(pipBus.src))]
  /\ UNCHANGED <<pipMst, pipSlv, pipRst, pipOut, pipAlarm>>

-----------------------------------------------------------------------------
(* The slave.                                                                *)

Malformed(beat, part) == \/ beat.sop /\ part # <<>>
                         \/ beat.eop /\ ~beat.sop /\ part = <<>>
                         \/ beat.eop /\ Len(part) + 1 # beat.len
\* Mutant: the slave overwrites a packet its queue had no room for.
SlaveBeatHasty ==
  /\ ~pipRst /\ pipBus.snk # <<>>
  /\ LET beat == Head(pipBus.snk)
     IN /\ pipAlarm' = Malformed(beat, pipSlv.part)
        /\ pipSlv' = IF beat.eop
                     THEN [pipSlv EXCEPT !.part = <<>>, !.put = beat.tag, !.flight = @ + 1]
                     ELSE [pipSlv EXCEPT !.part = Append(@, beat)]
  /\ pipBus' = [pipBus EXCEPT !.snk = Tail(@)]
  /\ UNCHANGED <<pipMst, pipRst, pipOut>>
SlaveBeat ==
  /\ ~pipRst /\ pipBus.snk # <<>> /\ pipSlv.put = None
  /\ LET beat == Head(pipBus.snk)
     IN /\ pipAlarm' = Malformed(beat, pipSlv.part)
        /\ pipSlv' = IF beat.eop
                     THEN [pipSlv EXCEPT !.part = <<>>, !.put = beat.tag, !.flight = @ + 1]
                     ELSE [pipSlv EXCEPT !.part = Append(@, beat)]
  /\ pipBus' = [pipBus EXCEPT !.snk = Tail(@)]
  /\ UNCHANGED <<pipMst, pipRst, pipOut>>
SlavePut ==
  /\ pipSlv.put # None /\ Len(pipSlv.q) < QMax
  /\ pipSlv' = [pipSlv EXCEPT !.q = Append(@, pipSlv.put), !.put = None]
  /\ UNCHANGED <<pipMst, pipBus, pipRst, pipOut, pipAlarm>>
Recv ==
  /\ pipSlv.q # <<>>
  /\ pipOut' = Head(pipSlv.q)
  /\ pipSlv' = [pipSlv EXCEPT !.q = Tail(@), !.flight = @ - 1]
  /\ UNCHANGED <<pipMst, pipBus, pipRst, pipAlarm>>

-----------------------------------------------------------------------------
\* Mutant: the count of the master outlives its queue.
ResetOnKeepsCount ==
  /\ ~pipRst /\ pipRst' = TRUE
  /\ pipMst' = [pipMst EXCEPT !.q = <<>>, !.cur = <<>>, !.debt = @ \/ pipMst.put # None]
  /\ pipBus' = [src |-> <<>>, snk |-> <<>>]
  /\ pipSlv' = [part |-> <<>>, put |-> None, q |-> <<>>, flight |-> 0]
  /\ UNCHANGED <<pipOut, pipAlarm>>
\* _handle_reset kills the coroutines and drains the queues.  A call of send
\* that is blocked outlives it, though it is no longer counted.
ResetOn ==
  /\ ~pipRst /\ pipRst' = TRUE
  /\ pipMst' = [pipMst EXCEPT !.q = <<>>, !.cur = <<>>, !.flight = 0,
                              !.debt = @ \/ pipMst.put # None]
  /\ pipBus' = [src |-> <<>>, snk |-> <<>>]
  /\ pipSlv' = [part |-> <<>>, put |-> None, q |-> <<>>, flight |-> 0]
  /\ UNCHANGED <<pipOut, pipAlarm>>
ResetOff ==
  /\ pipRst /\ pipRst' = FALSE
  /\ UNCHANGED <<pipMst, pipBus, pipSlv, pipOut, pipAlarm>>

User == Send \/ SendPut \/ Recv
Process == MasterGet \/ MasterBeat \/ Wires \/ SlaveBeat \/ SlavePut
Next == ~pipAlarm /\ (User \/ Process \/ ResetOn \/ ResetOff)
Spec == Init /\ [][Next]_vars

-----------------------------------------------------------------------------
\* The packets on their way: one is where its last beat is.
Held(put) == IF put = None THEN <<>> ELSE <<put>>
Ended(beats) == LET ends == InOrder({<<i, beats[i].tag>> : i \in {j \in DOMAIN beats : beats[j].eop}})
                IN [k \in DOMAIN ends |-> ends[k][2]]
OnWires == Ended(pipBus.snk \o pipBus.src \o pipMst.cur)
Chan == pipSlv.q \o Held(pipSlv.put) \o OnWires \o pipMst.q \o Held(pipMst.put)

\* A right master never sends beats the slave finds malformed, not even after a
\* reset in the middle of a packet.
PipNoFalseAlarm == ~pipAlarm

\* The counts behind idle() are the packets each side has, unless a reset came
\* while a call of send was blocked.
PipIdleIsIdle ==
  /\ pipSlv.flight = Len(pipSlv.q) + Len(Held(pipSlv.put))
  /\ ~pipMst.debt =>
       pipMst.flight = Len(pipMst.q) + Len(Held(pipMst.put)) + (IF pipMst.cur = <<>> THEN 0 ELSE 1)
=============================================================================
