----------------------------- MODULE AvailRing -----------------------------
(***************************************************************************)
(* The avail ring engine.  virtio_ring_id_engine reads entries of the      *)
(* avail rings over DMA into a small RAM, a few places per queue, and      *)
(* virtio_desc_req_ctrl hands them out, in one state machine per type of   *)
(* queue, to the descriptor engines.  Three indices of a queue tell how    *)
(* far each entry is: ui (read issued), pi (in the RAM), ci (handed out),  *)
(* between avail_idx on one side and the used index on the other.          *)
(*                                                                         *)
(* An entry is known here by its index: the driver's ring slot holds the   *)
(* last index it was posted for.  An oversized or unreadable entry is      *)
(* marked in the RAM, handed out and dealt with elsewhere like any other.  *)
(* The DMA answers in the order of the requests, as the order FIFO         *)
(* demands.                                                                *)
(***************************************************************************)
EXTENDS Integers, Sequences, FiniteSets

CONSTANTS
  Q,                  \* virtqueues
  Typ,                \* their type
  RingIdNum,          \* *_PERQ_RING_ID_NUM: RAM places per queue, by type (32, 32, 8)
  Nid,                \* entries a descriptor engine asks for at once, by type
  QDepth,             \* ring size
  IdxMod,             \* indices are 16 bits wide: 2**16
  OrderPfull,         \* DEPTH_PFULL of the order FIFO (28)
  MayStop             \* software stops, resumes and restarts queues

QTypes == {"RX", "TX", "BLK"}

ASSUME AvailRingAssumption ==
  /\ Typ \in [Q -> QTypes]
  /\ RingIdNum \in [QTypes -> Nat \ {0}] /\ Nid \in [QTypes -> Nat \ {0}]
  /\ {QDepth, IdxMod, OrderPfull} \subseteq Nat \ {0}
  /\ QDepth < IdxMod /\ IdxMod % QDepth = 0
  /\ \A t \in QTypes : IdxMod % RingIdNum[t] = 0 /\ QDepth + Nid[t] < IdxMod
  /\ MayStop \in BOOLEAN

VARIABLES
  status,             \* virtio_ctx: q_status
  idx, ui, pi, ci,    \* virtio_ctx: avail_idx, avail_ui, avail_pi, avail_ci
  used,               \* virtio_ctx: used_ptr
  want, serving,      \* the engine's scheduler
  rd,                 \* rd_cstate with its context sample: <<>> or one operation
  rdReq,              \* DMA reads under way
  orderFf,            \* u_order_fifo
  rspFf,              \* u_rsp_fifo
  notifying,          \* rsp_cstate is NOTIFY
  ram,                \* the ring id RAMs
  ask,                \* nettx_cstate, netrx_cstate, blk_cstate with their samples
  got                 \* the index after the last entry the descriptor engine took

ptrs == <<idx, ui, pi, ci, used>>
schVars == <<want, serving>>
rspVars == <<rdReq, orderFf, rspFf, notifying, ram>>
vars == <<status, ptrs, schVars, rd, rspVars, ask, got>>

Sch == INSTANCE QueueService

Statuses == {"IDLE", "STARTING", "DOING", "STOPPING"}
Idx == 0 .. IdxMod - 1
Junk == -1
Minus(a, b) == (a - b) % IdxMod
Num(q) == RingIdNum[Typ[q]]

RdSample == [q : Q, st : {"JUDGE", "RD_RING_ID", "NO_RD"}, status : Statuses,
             idx : Idx, ui : Idx, ci : Idx, num : 0 .. QDepth]
Read == [q : Q, ui : Idx, num : 0 .. QDepth]
Rsp == [q : Q, ui : Idx, ids : Seq(Idx \cup {Junk})]
Asked == [q : Q, doing : BOOLEAN, empty : BOOLEAN, ci : Idx, num : Nat, cnt : Nat, id : Idx \cup {Junk}]

TypeOK ==
  /\ status \in [Q -> Statuses]
  /\ \A p \in {idx, ui, pi, ci, used, got} : p \in [Q -> Idx]
  /\ Sch!TypeOK
  /\ rd \in Seq(RdSample) /\ Len(rd) <= 1
  /\ rdReq \in Seq(Read) /\ orderFf \in Seq(Q) /\ Len(orderFf) <= OrderPfull
  /\ rspFf \in Seq(Rsp) /\ notifying \in BOOLEAN
  /\ DOMAIN ram = Q /\ \A q \in Q : ram[q] \in [0 .. Num(q) - 1 -> Idx \cup {Junk}]
  /\ ask \in [QTypes -> Seq(Asked)] /\ \A t \in QTypes : Len(ask[t]) <= 1

Init ==
  /\ status = [q \in Q |-> "STARTING"]
  /\ idx = [q \in Q |-> 0] /\ ui = idx /\ pi = idx /\ ci = idx /\ used = idx /\ got = idx
  /\ want = {} /\ serving = {}
  /\ rd = <<>> /\ rdReq = <<>> /\ orderFf = <<>> /\ rspFf = <<>> /\ notifying = FALSE
  /\ ram = [q \in Q |-> [i \in 0 .. Num(q) - 1 |-> Junk]]
  /\ ask = [t \in QTypes |-> <<>>]

-----------------------------------------------------------------------------
(* Driver and index engine. *)

\* The driver posts while the ring has room, the index engine moves avail_idx
\* and kicks.
Post(q) ==
  /\ status[q] = "DOING"
  /\ Minus(idx[q], used[q]) < QDepth
  /\ idx' = [idx EXCEPT ![q] = (@ + 1) % IdxMod]
  /\ Sch!Request(q)
  /\ UNCHANGED <<status, ui, pi, ci, used, rd, rspVars, ask, got>>

\* What a read finds in slot s of the ring: the last index that was posted in it.
Slot(q, s) ==
  IF s \in 0 .. QDepth - 1
  THEN Minus(idx[q], CHOOSE back \in 1 .. QDepth : Minus(idx[q], back) % QDepth = s)
  ELSE Junk

-----------------------------------------------------------------------------
(* virtio_ring_id_engine: issuing reads. *)

\* Mutant: the engine does not look at the order FIFO.
RdCtxUngated(q) ==
  /\ rd = <<>>
  /\ Sch!Take(q)
  /\ rd' = <<[q |-> q, st |-> "JUDGE", status |-> status[q],
              idx |-> idx[q], ui |-> ui[q], ci |-> ci[q], num |-> 0]>>
  /\ UNCHANGED <<status, ptrs, rspVars, ask, got>>

\* RD_IDLE, RD_CTX: the context is sampled and the queue taken from the scheduler.
RdCtx(q) ==
  /\ rd = <<>>
  /\ Len(orderFf) < OrderPfull
  /\ Sch!Take(q)
  /\ rd' = <<[q |-> q, st |-> "JUDGE", status |-> status[q],
              idx |-> idx[q], ui |-> ui[q], ci |-> ci[q], num |-> 0]>>
  /\ UNCHANGED <<status, ptrs, rspVars, ask, got>>

\* JUDGE: nothing to read, not running, or the RAM is more than half full.
NoRead(s) ==
  \/ s.idx = s.ui
  \/ s.status # "DOING"
  \/ Minus(s.ui, s.ci) > Num(s.q) \div 2

\* Mutant: the half of the RAM is granted although entries are in the other.
RamRestNumWhole(s) == Num(s.q)

\* ram_rest_num: a net queue that is not half full reads at most half a RAM.
RamRestNum(s) ==
  IF Typ[s.q] # "BLK" /\ Minus(s.ui, s.ci) < Num(s.q) \div 2
  THEN Num(s.q) \div 2
  ELSE Num(s.q) - Minus(s.ui, s.ci)

RdNumPre(s) ==
  IF Minus(s.idx, s.ui) > RamRestNum(s) THEN RamRestNum(s) ELSE Minus(s.idx, s.ui)

\* Mutant: a read runs past the end of the ring.
RdNumUncut(s) == RdNumPre(s)

\* rd_num: a read ends at the end of the ring.
RdNum(s) ==
  IF (s.ui % QDepth) + RdNumPre(s) > QDepth THEN QDepth - (s.ui % QDepth) ELSE RdNumPre(s)

\* JUDGE, and the write of avail_ui in the first clock of RD_RING_ID.
Judge ==
  /\ rd # <<>> /\ rd[1].st = "JUDGE"
  /\ LET s == rd[1]
     IN  IF NoRead(s)
         THEN rd' = <<[s EXCEPT !.st = "NO_RD"]>> /\ UNCHANGED ui
         ELSE /\ rd' = <<[s EXCEPT !.st = "RD_RING_ID", !.num = RdNum(s)]>>
              /\ ui' = [ui EXCEPT ![s.q] = (s.ui + RdNum(s)) % IdxMod]
  /\ UNCHANGED <<status, idx, pi, ci, used, schVars, rspVars, ask, got>>

\* Mutant: a queue whose RAM is full is given up.
NotifyRspDoneFull(s) == s.st = "NO_RD" /\ s.status \in {"IDLE", "DOING"}

\* Mutant: a queue that is being stopped is given up, although it may be resumed.
NotifyRspDoneStopping(s) ==
  s.status \in {"IDLE", "STOPPING"} \/ (s.status = "DOING" /\ s.idx = s.ui)

NotifyRspDone(s) == s.status = "IDLE" \/ (s.status = "DOING" /\ s.idx = s.ui)

\* RD_RING_ID, NO_RD: the answer is taken; with it the read leaves.
RdAnswer ==
  /\ rd # <<>> /\ rd[1].st # "JUDGE"
  /\ LET s == rd[1]
     IN  /\ Sch!Release(s.q, NotifyRspDone(s))
         /\ IF s.st = "RD_RING_ID"
            THEN /\ rdReq' = Append(rdReq, [q |-> s.q, ui |-> s.ui, num |-> s.num])
                 /\ orderFf' = Append(orderFf, s.q)
            ELSE UNCHANGED <<rdReq, orderFf>>
  /\ rd' = <<>>
  /\ UNCHANGED <<status, ptrs, rspFf, notifying, ram, ask, got>>

-----------------------------------------------------------------------------
(* DMA, and virtio_ring_id_engine: processing responses. *)

DmaRdRsp ==
  /\ rdReq # <<>>
  /\ LET r == Head(rdReq)
     IN  rspFf' = Append(rspFf, [q |-> r.q, ui |-> r.ui,
                                 ids |-> [i \in 1 .. r.num |-> Slot(r.q, (r.ui % QDepth) + i - 1)]])
  /\ rdReq' = Tail(rdReq)
  /\ UNCHANGED <<status, ptrs, schVars, rd, orderFf, notifying, ram, ask, got>>

\* PROC_RING_ID, WR_RAM for each id, and the write of avail_pi.
ProcRingIds ==
  /\ ~notifying
  /\ orderFf # <<>> /\ rspFf # <<>> /\ Head(orderFf) = Head(rspFf).q
  /\ LET r == Head(rspFf)
     IN  /\ ram' = [ram EXCEPT ![r.q] =
                [a \in DOMAIN @ |->
                   IF \E i \in DOMAIN r.ids : (r.ui + i - 1) % Num(r.q) = a
                   THEN r.ids[CHOOSE i \in DOMAIN r.ids : (r.ui + i - 1) % Num(r.q) = a]
                   ELSE @[a]]]
         /\ pi' = [pi EXCEPT ![r.q] = (r.ui + Len(r.ids)) % IdxMod]
  /\ notifying' = TRUE
  /\ UNCHANGED <<status, idx, ui, ci, used, schVars, rd, rdReq, orderFf, rspFf, ask, got>>

\* NOTIFY: the scheduler of nettx or blk takes the notify, netrx needs none.
Notify ==
  /\ notifying
  /\ notifying' = FALSE
  /\ orderFf' = Tail(orderFf) /\ rspFf' = Tail(rspFf)
  /\ UNCHANGED <<status, ptrs, schVars, rd, rdReq, ram, ask, got>>

-----------------------------------------------------------------------------
(* virtio_desc_req_ctrl: handing out. *)

\* REQ_IDLE, RD_CTX: the context is sampled, the first id is fetched.  The
\* responses carry entries if the queue runs and its RAM is not empty.
AskCtx(q) ==
  /\ ask[Typ[q]] = <<>>
  /\ LET local == Minus(pi[q], ci[q])
         nid == Nid[Typ[q]]
     IN  ask' = [ask EXCEPT ![Typ[q]] =
                  <<[q |-> q, doing |-> status[q] = "DOING", empty |-> local = 0, ci |-> ci[q],
                     num |-> IF local > nid THEN nid ELSE local, cnt |-> 0,
                     id |-> ram[q][ci[q] % Num(q)]]>>]
  /\ UNCHANGED <<status, ptrs, schVars, rd, rspVars, got>>

Carries(a) == a.doing /\ ~a.empty

AvailIdx(a) == (a.ci + a.cnt) % IdxMod

\* An empty RAM is answered with one response that carries nothing.
Responses(a) == IF a.num = 0 THEN 1 ELSE a.num

\* RSP_ID: the descriptor engine takes a response; the next id is fetched.
AskRsp(t) ==
  /\ ask[t] # <<>> /\ ask[t][1].cnt < Responses(ask[t][1])
  /\ LET a == ask[t][1]
     IN  /\ ask' = [ask EXCEPT ![t][1].cnt = a.cnt + 1,
                               ![t][1].id = IF a.cnt + 1 < a.num
                                            THEN ram[a.q][(a.ci + a.cnt + 1) % Num(a.q)] ELSE a.id]
         /\ got' = IF Carries(a) THEN [got EXCEPT ![a.q] = (AvailIdx(a) + 1) % IdxMod] ELSE got
  /\ UNCHANGED <<status, ptrs, schVars, rd, rspVars>>

\* UPDATA_CI.
AskUpdateCi(t) ==
  /\ ask[t] # <<>> /\ ask[t][1].cnt = Responses(ask[t][1])
  /\ LET a == ask[t][1]
     IN  ci' = IF Carries(a) THEN [ci EXCEPT ![a.q] = (a.ci + a.num) % IdxMod] ELSE ci
  /\ ask' = [ask EXCEPT ![t] = <<>>]
  /\ UNCHANGED <<status, idx, ui, pi, used, schVars, rd, rspVars, got>>

\* The buffers of the entries are filled or sent and go to the used ring.
Use(q) ==
  /\ used[q] # got[q]
  /\ used' = [used EXCEPT ![q] = (@ + 1) % IdxMod]
  /\ UNCHANGED <<status, idx, ui, pi, ci, schVars, rd, rspVars, ask, got>>

\* vq_pending_chk_rsp_busy.
Busy(q) == \E i \in DOMAIN ask[Typ[q]] : ask[Typ[q]][i].q = q /\ ask[Typ[q]][i].doing

-----------------------------------------------------------------------------
(* virtio_ctx. *)

\* RD_CTX, JUDGE and the write of avail_ui take three clocks, which is less than
\* a register access: their sample is at most one change of the status old.
NotStale(q) ==
  \A i \in DOMAIN rd : rd[i].q = q /\ rd[i].st = "JUDGE" => rd[i].status = status[q]

SetStatus(q, st) == NotStale(q) /\ status' = [status EXCEPT ![q] = st]

SocNotify(q) ==
  /\ status[q] = "STARTING" /\ SetStatus(q, "DOING")
  /\ UNCHANGED <<ptrs, schVars, rd, rspVars, ask, got>>

SwStop(q) ==
  /\ MayStop
  /\ status[q] \in {"STARTING", "DOING"} /\ SetStatus(q, "STOPPING")
  /\ UNCHANGED <<ptrs, schVars, rd, rspVars, ask, got>>

SwResume(q) ==
  /\ status[q] = "STOPPING" /\ SetStatus(q, "DOING")
  /\ UNCHANGED <<ptrs, schVars, rd, rspVars, ask, got>>

\* Mutant: the state machines that hand entries out are not asked.
SwSeesIdleUnasked(q) ==
  /\ status[q] = "STOPPING" /\ pi[q] = ui[q] /\ ci[q] = used[q]
  /\ SetStatus(q, "IDLE")
  /\ UNCHANGED <<ptrs, schVars, rd, rspVars, ask, got>>

\* A read of CTRL finds the queue stopped (stop_ptr_equal).
SwSeesIdle(q) ==
  /\ status[q] = "STOPPING" /\ pi[q] = ui[q] /\ ci[q] = used[q] /\ ~Busy(q)
  /\ SetStatus(q, "IDLE")
  /\ UNCHANGED <<ptrs, schVars, rd, rspVars, ask, got>>

\* Software writes AVAIL_IDX of the IDLE queue, with the index where the device
\* stopped, then CTRL := STARTING, which sets the other pointers to it.  What was
\* posted beyond it the driver posts again.
SwStart(q) ==
  /\ status[q] = "IDLE" /\ SetStatus(q, "STARTING")
  /\ idx' = [idx EXCEPT ![q] = used[q]] /\ ui' = [ui EXCEPT ![q] = used[q]]
  /\ pi' = [pi EXCEPT ![q] = used[q]] /\ ci' = [ci EXCEPT ![q] = used[q]]
  /\ UNCHANGED <<used, schVars, rd, rspVars, ask, got>>

-----------------------------------------------------------------------------
Next ==
  \/ \E q \in Q : Post(q) \/ RdCtx(q) \/ AskCtx(q) \/ Use(q)
  \/ Judge \/ RdAnswer \/ DmaRdRsp \/ ProcRingIds \/ Notify
  \/ \E t \in QTypes : AskRsp(t) \/ AskUpdateCi(t)
  \/ \E q \in Q : SocNotify(q) \/ SwStop(q) \/ SwResume(q) \/ SwSeesIdle(q) \/ SwStart(q)

Safety == Init /\ [][Next]_vars

(***************************************************************************)
(* The clocked machines go on and the DMA answers.  The scheduler gives    *)
(* every queue its turn and the descriptor engines ask for every queue,    *)
(* one at a time: strong fairness.  What was handed out is used.           *)
(***************************************************************************)
Fairness ==
  /\ \A q \in Q : SF_vars(RdCtx(q)) /\ SF_vars(AskCtx(q)) /\ WF_vars(Use(q))
  /\ WF_vars(Judge) /\ WF_vars(RdAnswer) /\ WF_vars(DmaRdRsp)
  /\ WF_vars(ProcRingIds) /\ WF_vars(Notify)
  /\ \A t \in QTypes : WF_vars(AskRsp(t)) /\ WF_vars(AskUpdateCi(t))

Spec == Safety /\ Fairness

-----------------------------------------------------------------------------
(***************************************************************************)
(* The pointers of a queue never pass each other, across the wrap of the   *)
(* 16 bits too, and the entries that are being read and those that are     *)
(* waiting fit in the RAM together                                         *)
(* (virtio_ring_id_engine.sv:318-359, virtio_desc_req_ctrl.sv:410-443).    *)
(***************************************************************************)
PointersInOrder ==
  \A q \in Q :
    /\ Minus(pi[q], ci[q]) <= Minus(ui[q], ci[q])
    /\ Minus(ui[q], ci[q]) <= Minus(idx[q], ci[q])
    /\ Minus(ui[q], ci[q]) <= Num(q)

(***************************************************************************)
(* The descriptor engine gets every entry of the ring once and in order:   *)
(* the id it is handed is what the driver posted at the avail_idx that     *)
(* comes with it, and that is the one after the last                       *)
(* (virtio_ring_id_engine.sv:345-387, 423-531,                             *)
(* virtio_desc_req_ctrl.sv:534-639).                                       *)
(***************************************************************************)
HandsOutInOrder ==
  [][\A t \in QTypes : AskRsp(t) =>
       LET a == ask[t][1] IN Carries(a) => a.id = got[a.q] /\ AvailIdx(a) = got[a.q]]_vars

(***************************************************************************)
(* A queue that software has seen IDLE has nothing under way in the        *)
(* engine: no read that is issued or waits, no state machine that would    *)
(* still move one of its pointers, and no entry that was handed out and is *)
(* not used (virtio_ctx.sv:1675-1729 against both engines).                *)
(***************************************************************************)
IdleIsQuiet ==
  \A q \in Q : status[q] \in {"IDLE", "STARTING"} =>
    /\ \A i \in DOMAIN rdReq : rdReq[i].q # q
    /\ \A i \in DOMAIN orderFf : orderFf[i] = q => notifying /\ i = 1
    /\ \A i \in DOMAIN rd : rd[i].q = q => rd[i].st # "RD_RING_ID" /\ (rd[i].st = "JUDGE" => NoRead(rd[i]))
    /\ \A i \in DOMAIN ask[Typ[q]] : ask[Typ[q]][i].q = q => ~Carries(ask[Typ[q]][i])
    /\ used[q] = got[q]

(***************************************************************************)
(* The engine is never done with a running queue of which it has not read  *)
(* every entry: a full RAM, a stop that is taken back or a post that comes *)
(* with the answer do not lose the queue                                   *)
(* (virtio_ring_id_engine.sv:384-392).                                     *)
(***************************************************************************)
RingNotForgotten ==
  \A q \in Q : status[q] = "DOING" /\ ui[q] # idx[q] => q \in want \cup serving

(***************************************************************************)
(* Every posted entry is handed to the descriptor engine while the queue   *)
(* runs.                                                                   *)
(***************************************************************************)
EveryEntryHandedOut ==
  \A q \in Q, n \in Idx :
    status[q] = "DOING" /\ idx[q] = n ~> got[q] = n \/ status[q] # "DOING"
=============================================================================
