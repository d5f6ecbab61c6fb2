----------------------------- MODULE VirtioSch -----------------------------
(***************************************************************************)
(* The queue scheduler virtio_sch (src/virtio2/common/virtio_sch.sv).      *)
(* virtio_top instantiates it in front of the index engine, the avail      *)
(* ring engine, nettx and the blk descriptor engine; virtio_rx_buf has one *)
(* more.  A producer pushes queue ids (sch_req), the engine takes them     *)
(* (notify_req) and answers each one (notify_rsp, with done and cold).     *)
(*                                                                         *)
(* A two-bit word per queue remembers whether the queue is scheduled and   *)
(* whether it was asked for again meanwhile, so that a queue sits at most  *)
(* once in the hot or the cold FIFO.  Both FIFOs have room for each queue  *)
(* once and are written without looking at full.                           *)
(*                                                                         *)
(* The module has the scheduler's own registers only; the modules that     *)
(* instantiate it say where requests come from and who serves them.        *)
(***************************************************************************)
EXTENDS Integers, Sequences, FiniteSets

CONSTANTS
  Q,                  \* queue ids: 2**VQ_WIDTH of them
  ReqDepth            \* FIFO_DEPTH of u_sch_req_ff (32)

ASSUME VirtioSchAssumption == IsFiniteSet(Q) /\ ReqDepth \in Nat \ {0}

VARIABLES
  reqFf,              \* u_sch_req_ff
  reqStat,            \* req_cstat with {is_sch_req, is_notify_rsp}
  reqMask,            \* the mask register of u_req_rr_sch
  bitmap,             \* u_bitmap
  hotFf, coldFf,      \* u_hot_ff, u_cold_ff
  schStat             \* sch_cstat with sch_hot

schVars == <<reqFf, reqStat, reqMask, bitmap, hotFf, coldFf, schStat>>

RR == INSTANCE RrSch WITH SH_NUM <- 2

\* The two request lines of the arbiter: {!sch_req_ff_empty, notify_rsp_vld}.
RspPort == 0
ReqPort == 1

Elems(s) == {s[i] : i \in 1 .. Len(s)}

SchTypeOK ==
  /\ reqFf \in Seq(Q)
  /\ reqStat \in {"IDLE", "SCH_REQ", "NOTIFY_RSP"}
  /\ reqMask \subseteq {RspPort, ReqPort}
  /\ bitmap \in [Q -> {"ZERO", "ONCE", "MORE"}]
  /\ hotFf \in Seq(Q) /\ coldFf \in Seq(Q)
  /\ schStat \in {"SCH", "HOT", "COLD"}

SchInit ==
  /\ reqFf = <<>> /\ hotFf = <<>> /\ coldFf = <<>>
  /\ reqStat = "IDLE" /\ schStat = "SCH"
  /\ reqMask = RR!MaskInit
  /\ bitmap = [q \in Q |-> "ZERO"]

-----------------------------------------------------------------------------
\* sch_req handshake: sch_req_rdy is !full.
SchReq(q) ==
  /\ Len(reqFf) < ReqDepth
  /\ reqFf' = Append(reqFf, q)
  /\ UNCHANGED <<reqStat, reqMask, bitmap, hotFf, coldFf, schStat>>

\* IDLE: arbitrate between the request FIFO and the engine's response, which
\* stays valid until notify_rsp_rdy.
ReqGrant(rspVld) ==
  LET lines == {p \in {RspPort, ReqPort} : IF p = ReqPort THEN reqFf # <<>> ELSE rspVld}
      g     == RR!Grant(lines, reqMask)
  IN  /\ reqStat = "IDLE"
      /\ lines # {}
      /\ reqStat' = IF g = ReqPort THEN "SCH_REQ" ELSE "NOTIFY_RSP"
      /\ reqMask' = RR!NextMask(g)
      /\ UNCHANGED <<reqFf, bitmap, hotFf, coldFf, schStat>>

\* Mutant: a request always pushes its queue.
CommitSchReqPush ==
  LET q == Head(reqFf)
  IN  /\ reqStat = "SCH_REQ"
      /\ reqStat' = "IDLE"
      /\ reqFf' = Tail(reqFf)
      /\ bitmap' = [bitmap EXCEPT ![q] = IF @ = "ZERO" THEN "ONCE" ELSE "MORE"]
      /\ hotFf' = Append(hotFf, q)
      /\ UNCHANGED <<reqMask, coldFf, schStat>>

\* Mutant: a request for a scheduled queue is merged with the one before.
CommitSchReqMerge ==
  LET q == Head(reqFf)
  IN  /\ reqStat = "SCH_REQ"
      /\ reqStat' = "IDLE"
      /\ reqFf' = Tail(reqFf)
      /\ bitmap' = [bitmap EXCEPT ![q] = IF @ = "ZERO" THEN "ONCE" ELSE @]
      /\ hotFf' = IF bitmap[q] = "ZERO" THEN Append(hotFf, q) ELSE hotFf
      /\ UNCHANGED <<reqMask, coldFf, schStat>>

\* WRITE_BITMAP for a request: an unscheduled queue is pushed, for a scheduled
\* one it is only noted that it was asked for again.
CommitSchReq ==
  LET q == Head(reqFf)
  IN  /\ reqStat = "SCH_REQ"
      /\ reqStat' = "IDLE"
      /\ reqFf' = Tail(reqFf)
      /\ bitmap' = [bitmap EXCEPT ![q] = IF @ = "ZERO" THEN "ONCE" ELSE "MORE"]
      /\ hotFf' = IF bitmap[q] = "ZERO" THEN Append(hotFf, q) ELSE hotFf
      /\ UNCHANGED <<reqMask, coldFf, schStat>>

\* Mutant: MORE is not counted down.
RspBitmapSticky(b, done) == IF ~done \/ b = "MORE" THEN "MORE" ELSE "ZERO"

\* What a response does to the queue's word, and whether it is pushed again.
RspBitmap(b, done) ==
  IF ~done THEN "MORE" ELSE IF b = "MORE" THEN "ONCE" ELSE "ZERO"
RspPush(b, done) == ~done \/ b = "MORE"

\* WRITE_BITMAP for a response.
CommitNotifyRsp(q, done, cold) ==
  LET push == RspPush(bitmap[q], done)
  IN  /\ reqStat = "NOTIFY_RSP"
      /\ reqStat' = "IDLE"
      /\ bitmap' = [bitmap EXCEPT ![q] = RspBitmap(@, done)]
      /\ hotFf'  = IF push /\ ~cold THEN Append(hotFf, q) ELSE hotFf
      /\ coldFf' = IF push /\ cold  THEN Append(coldFf, q) ELSE coldFf
      /\ UNCHANGED <<reqFf, reqMask, schStat>>

\* SCH: wrr_sch picks a FIFO that is not empty.  It is not part of the
\* repository and is left free here, fair to both sides (weights are 2 and 1).
SchGrant(side) ==
  /\ schStat = "SCH"
  /\ (IF side = "HOT" THEN hotFf ELSE coldFf) # <<>>
  /\ schStat' = side
  /\ UNCHANGED <<reqFf, reqStat, reqMask, bitmap, hotFf, coldFf>>

\* EXE: notify_req is valid with the head of the granted FIFO ...
NotifyReqVld == schStat # "SCH"
NotifyReqQid == IF schStat = "HOT" THEN Head(hotFf) ELSE Head(coldFf)

\* ... which is popped when the engine takes it.
NotifyReqTaken ==
  /\ NotifyReqVld
  /\ schStat' = "SCH"
  /\ hotFf'  = IF schStat = "HOT"  THEN Tail(hotFf)  ELSE hotFf
  /\ coldFf' = IF schStat = "COLD" THEN Tail(coldFf) ELSE coldFf
  /\ UNCHANGED <<reqFf, reqStat, reqMask, bitmap>>

-----------------------------------------------------------------------------
\* dfx_err: a push into a FIFO that already holds every queue once.
NoDup(s) == \A i, j \in 1 .. Len(s) : s[i] = s[j] => i = j

(***************************************************************************)
(* The words of the bitmap and the FIFOs agree: with `out' the queues that *)
(* left the FIFOs and were not answered yet, a queue is scheduled iff it   *)
(* is in exactly one place.                                                *)
(***************************************************************************)
TokenInv(out) ==
  /\ NoDup(hotFf) /\ NoDup(coldFf)
  /\ Elems(hotFf) \cap Elems(coldFf) = {}
  /\ (Elems(hotFf) \cup Elems(coldFf)) \cap out = {}
  /\ \A q \in Q : bitmap[q] # "ZERO" <=> q \in Elems(hotFf) \cup Elems(coldFf) \cup out

\* What keeps the handshakes meaningful.
StatInv(rspVld) ==
  /\ reqStat = "SCH_REQ" => reqFf # <<>>
  /\ reqStat = "NOTIFY_RSP" => rspVld
  /\ schStat = "HOT" => hotFf # <<>>
  /\ schStat = "COLD" => coldFf # <<>>
=============================================================================
