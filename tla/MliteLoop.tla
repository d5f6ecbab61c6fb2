----------------------------- MODULE MliteLoop -----------------------------
(* The register bus of the simulation: MliteBusMaster (sim/common/drivers/   *)
(* mlite_bus.py) against MliteBusRam (monitors/mlite_bus.py).  Several tasks *)
(* call read and write at once; a write returns when it has been sent and a  *)
(* read when its response has come.  The registers hold the number of the    *)
(* last write; the wires are StreamLink.                                     *)
EXTENDS Integers, Sequences, SequencesExt, FiniteSets, FiniteSetsExt

CONSTANTS Tasks, Addrs,
          QMax,    \* req_queue, rsp_queue and the queues of the wires
          MaxWrites \* bound: writes

VARIABLES mltCall, \* [Tasks -> the call it is in]
          mltMst,  \* master: req_queue, rsp_queue, what _process_req and _process_rsp hold
          mltBus,  \* requests and responses on the wires
          mltRam,  \* registers, response queue, what _process_req and _process_rsp hold
          mltRst, mltBad
vars == <<mltCall, mltMst, mltBus, mltRam, mltRst, mltBad>>

Idle == [st |-> "idle", addr |-> 0, read |-> FALSE, floor |-> 0, val |-> 0]
Init ==
  /\ mltCall = [t \in Tasks |-> Idle]
  /\ mltMst = [q |-> <<>>, req |-> <<>>, sent |-> FALSE, rspq |-> <<>>, rsp |-> <<>>, writes |-> 0,
               acked |-> [a \in Addrs |-> 0], stale |-> FALSE]
  /\ mltBus = [req |-> <<>>, rsp |-> <<>>]
  /\ mltRam = [mem |-> [a \in Addrs |-> 0], q |-> <<>>, out |-> <<>>]
  /\ mltRst = TRUE /\ mltBad = FALSE

-----------------------------------------------------------------------------
(* read and write.                                                           *)

WritesLeft == mltMst.writes + Cardinality({t \in Tasks : mltCall[t].st = "put" /\ ~mltCall[t].read}) < MaxWrites
\* A read must see the writes that had returned when it was called: floor.
Call(t) ==
  /\ mltCall[t].st = "idle"
  /\ \E a \in Addrs, read \in BOOLEAN :
       /\ read \/ WritesLeft
       /\ mltCall' = [mltCall EXCEPT ![t] = [st |-> "put", addr |-> a, read |-> read,
                                             floor |-> mltMst.acked[a], val |-> 0]]
  /\ UNCHANGED <<mltMst, mltBus, mltRam, mltRst, mltBad>>
CallPut(t) ==
  /\ mltCall[t].st = "put" /\ Len(mltMst.q) < QMax
  /\ LET n == mltMst.writes + (IF mltCall[t].read THEN 0 ELSE 1)
     IN /\ mltMst' = [mltMst EXCEPT !.q = Append(@, t), !.writes = n]
        /\ mltCall' = [mltCall EXCEPT ![t].st = "wait", ![t].val = n]
  /\ UNCHANGED <<mltBus, mltRam, mltRst, mltBad>>

\* with_timeout of read: only a request that a reset has lost takes that long.
Lost(t) == mltCall[t].st = "wait" /\ t \notin Range(mltMst.q) \cup Range(mltMst.req)
                                              \cup Range(mltMst.rspq) \cup Range(mltMst.rsp)
ReadTimesOut(t) ==
  /\ Lost(t) /\ mltCall[t].read
  /\ mltCall' = [mltCall EXCEPT ![t] = Idle]
  /\ UNCHANGED <<mltMst, mltBus, mltRam, mltRst, mltBad>>

-----------------------------------------------------------------------------
(* _process_req and _process_rsp of the master.                               *)

Request(t) == [addr |-> mltCall[t].addr, read |-> mltCall[t].read, val |-> mltCall[t].val]
TakeReq ==
  /\ ~mltRst /\ mltMst.req = <<>> /\ mltMst.q # <<>>
  /\ mltMst' = [mltMst EXCEPT !.req = <<Head(mltMst.q)>>, !.q = Tail(@)]
  /\ UNCHANGED <<mltCall, mltBus, mltRam, mltRst, mltBad>>
\* A write is over when it is in the queue of the wires.
SendReq ==
  /\ ~mltRst /\ mltMst.req # <<>> /\ ~mltMst.sent /\ Len(mltBus.req) < QMax
  /\ LET t == mltMst.req[1]
     IN /\ mltBus' = [mltBus EXCEPT !.req = Append(@, Request(t))]
        /\ IF mltCall[t].read
           THEN mltMst' = [mltMst EXCEPT !.sent = TRUE] /\ UNCHANGED mltCall
           ELSE /\ mltMst' = [mltMst EXCEPT !.req = <<>>,
                                !.acked = [@ EXCEPT ![mltCall[t].addr] = Max({@, mltCall[t].val})]]
                /\ mltCall' = [mltCall EXCEPT ![t] = Idle]
  /\ UNCHANGED <<mltRam, mltRst, mltBad>>
\* A read then waits for room among those that wait for a response.
ExpectRsp ==
  /\ ~mltRst /\ mltMst.sent /\ Len(mltMst.rspq) < QMax
  /\ mltMst' = [mltMst EXCEPT !.sent = FALSE, !.req = <<>>, !.rspq = Append(@, mltMst.req[1])]
  /\ UNCHANGED <<mltCall, mltBus, mltRam, mltRst, mltBad>>
TakeRsp ==
  /\ ~mltRst /\ mltMst.rsp = <<>> /\ mltMst.rspq # <<>>
  /\ mltMst' = [mltMst EXCEPT !.rsp = <<Head(mltMst.rspq)>>, !.rspq = Tail(@)]
  /\ UNCHANGED <<mltCall, mltBus, mltRam, mltRst, mltBad>>
\* The read returns; it must be its own response and not an old value.
RecvRsp ==
  /\ ~mltRst /\ mltMst.rsp # <<>> /\ mltBus.rsp # <<>>
  /\ LET t == mltMst.rsp[1] IN
       /\ mltBad' = (Head(mltBus.rsp).addr # mltCall[t].addr
                     \/ Head(mltBus.rsp).val < mltCall[t].floor)
       /\ mltCall' = [mltCall EXCEPT ![t] = Idle]
  /\ mltMst' = [mltMst EXCEPT !.rsp = <<>>]
  /\ mltBus' = [mltBus EXCEPT !.rsp = Tail(@)]
  /\ UNCHANGED <<mltRam, mltRst>>

-----------------------------------------------------------------------------
(* MliteBusRam.                                                              *)

RamReq ==
  /\ ~mltRst /\ mltBus.req # <<>> /\ Len(mltRam.q) < QMax
  /\ LET r == Head(mltBus.req)
     IN mltRam' = IF r.read THEN [mltRam EXCEPT !.q = Append(@, [addr |-> r.addr, val |-> mltRam.mem[r.addr]])]
                  ELSE [mltRam EXCEPT !.mem[r.addr] = r.val]
  /\ mltBus' = [mltBus EXCEPT !.req = Tail(@)]
  /\ UNCHANGED <<mltCall, mltMst, mltRst, mltBad>>
RamRsp ==
  /\ ~mltRst /\ mltRam.q # <<>> /\ Len(mltRam.out) < QMax
  /\ mltRam' = [mltRam EXCEPT !.q = Tail(@), !.out = Append(@, Head(mltRam.q))]
  /\ UNCHANGED <<mltCall, mltMst, mltBus, mltRst, mltBad>>
Wires ==
  /\ ~mltRst /\ mltRam.out # <<>> /\ Len(mltBus.rsp) < QMax
  /\ mltRam' = [mltRam EXCEPT !.out = Tail(@)]
  /\ mltBus' = [mltBus EXCEPT !.rsp = Append(@, Head(mltRam.out))]
  /\ UNCHANGED <<mltCall, mltMst, mltRst, mltBad>>

-----------------------------------------------------------------------------
\* Mutant: the reads that wait for a response are not forgotten.
ResetOnKeepsReads ==
  /\ ~mltRst /\ mltRst' = TRUE
  /\ mltCall' = [t \in Tasks |-> IF t \in Range(mltMst.q) \cup Range(mltMst.rspq) THEN Idle
                               ELSE [mltCall[t] EXCEPT !.floor = 0]]
  /\ mltMst' = [mltMst EXCEPT !.q = <<>>, !.req = <<>>, !.sent = FALSE, !.rsp = <<>>,
                              !.acked = mltRam.mem, !.stale = @ \/ mltRam.out # <<>>]
  /\ mltBus' = [req |-> <<>>, rsp |-> <<>>]
  /\ mltRam' = [mltRam EXCEPT !.q = <<>>]
  /\ UNCHANGED mltBad
\* Reset: the calls still queued return, a queued read with nothing to shift;
\* what _process_req and _process_rsp hold is forgotten.  The RAM's queue of
\* responses on the wires is not cleared, and a write that had returned may be
\* lost.
ResetOn ==
  /\ ~mltRst /\ mltRst' = TRUE
  /\ mltCall' = [t \in Tasks |-> IF t \in Range(mltMst.q) \cup Range(mltMst.rspq) THEN Idle
                               ELSE [mltCall[t] EXCEPT !.floor = 0]]
  /\ mltMst' = [mltMst EXCEPT !.q = <<>>, !.rspq = <<>>, !.req = <<>>, !.sent = FALSE, !.rsp = <<>>,
                              !.acked = mltRam.mem,
                              !.stale = @ \/ mltRam.out # <<>>]
  /\ mltBus' = [req |-> <<>>, rsp |-> <<>>]
  /\ mltRam' = [mltRam EXCEPT !.q = <<>>]
  /\ UNCHANGED mltBad
ResetOff == mltRst /\ mltRst' = FALSE /\ UNCHANGED <<mltCall, mltMst, mltBus, mltRam, mltBad>>

Task(t) == Call(t) \/ CallPut(t) \/ ReadTimesOut(t)
Bench == TakeReq \/ SendReq \/ ExpectRsp \/ TakeRsp \/ RecvRsp \/ RamReq \/ RamRsp \/ Wires
Next == ~mltBad /\ (Bench \/ ResetOn \/ ResetOff \/ \E t \in Tasks : Task(t))
Spec == Init /\ [][Next]_vars

-----------------------------------------------------------------------------
\* A read gets the response to itself and sees every write that had returned
\* before it was called, unless the RAM kept a response across a reset.
MltReadsOwn == mltBad => mltMst.stale

\* Always again no call waits: every call returns, unless a reset came while
\* _process_req or _process_rsp held it; a read then times out and a write
\* waits for ever.
MltAnswered(t) == mltBad \/ mltCall[t].st # "wait" \/ Lost(t)
=============================================================================
