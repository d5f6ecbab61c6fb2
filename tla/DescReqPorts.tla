---------------------------- MODULE DescReqPorts ----------------------------
(***************************************************************************)
(* The three state machines of virtio_desc_req_ctrl, one per type of       *)
(* queue, clock by clock: they share one read port and one write port of   *)
(* virtio_ctx without any arbiter.  netrx and nettx keep to odd and even   *)
(* clocks (mark_clk), blk looks at the other two.  AvailRing has them as   *)
(* independent actions; this module shows that the sharing allows it.      *)
(***************************************************************************)
EXTENDS Integers, FiniteSets

VARIABLES
  mark,               \* mark_clk
  st,                 \* nettx_cstate, netrx_cstate, blk_cstate
  vld,                \* *_avail_id_req_vld: types with a request
  carries,            \* types whose responses carry entries: ci is to be written
  ctxRsp,             \* whose context desc_engine_ctx_info_rd_rsp holds
  ciWr                \* avail_ci_wr_req register: whose index it writes

vars == <<mark, st, vld, carries, ctxRsp, ciWr>>

QTypes == {"TX", "RX", "BLK"}
States == {"REQ_IDLE", "RD_CTX", "RD_ID_RAM", "RSP_ID", "UPDATA_CI", "FINISH", "FINISH_1D"}

TypeOK ==
  /\ mark \in {0, 1} /\ st \in [QTypes -> States]
  /\ vld \subseteq QTypes /\ carries \subseteq QTypes
  /\ {ctxRsp, ciWr} \subseteq QTypes \cup {"none"}

Init ==
  /\ mark = 0 /\ st = [t \in QTypes |-> "REQ_IDLE"]
  /\ vld = {} /\ carries = {} /\ ctxRsp = "none" /\ ciWr = "none"

-----------------------------------------------------------------------------
\* The clock of a net machine on the shared ports.
Mark(t) == IF t = "TX" THEN 0 ELSE 1

\* Mutant: blk lets only a waiting net request go first, busy or not.
StartsBehindNet(t) ==
  /\ t \in vld /\ st[t] = "REQ_IDLE"
  /\ IF t = "BLK" THEN {"TX", "RX"} \cap vld = {} ELSE mark = Mark(t)

\* Mutant: blk does not look at netrx.
StartsOverRx(t) ==
  /\ t \in vld /\ st[t] = "REQ_IDLE"
  /\ IF t = "BLK" THEN "TX" \notin vld \/ st["TX"] # "REQ_IDLE" ELSE mark = Mark(t)

\* REQ_IDLE to RD_CTX.
Starts(t) ==
  /\ t \in vld /\ st[t] = "REQ_IDLE"
  /\ IF t = "BLK"
     THEN \A net \in {"TX", "RX"} : net \notin vld \/ st[net] # "REQ_IDLE"
     ELSE mark = Mark(t)

\* Mutant: blk writes on the odd clocks, as netrx does.
UpdatesMarked(t) ==
  /\ st[t] = "UPDATA_CI"
  /\ mark = Mark(t)

\* UPDATA_CI to FINISH.
Updates(t) ==
  /\ st[t] = "UPDATA_CI"
  /\ IF t = "BLK" THEN st["TX"] # "UPDATA_CI" /\ st["RX"] # "UPDATA_CI" ELSE mark = Mark(t)

\* The next state, if the descriptor engines in taken accept their last response.
NextState(t, taken) ==
  CASE st[t] = "REQ_IDLE"  -> IF Starts(t) THEN "RD_CTX" ELSE "REQ_IDLE"
    [] st[t] = "RD_CTX"    -> "RD_ID_RAM"
    [] st[t] = "RD_ID_RAM" -> "RSP_ID"
    [] st[t] = "RSP_ID"    -> IF t \in taken THEN "UPDATA_CI" ELSE "RSP_ID"
    [] st[t] = "UPDATA_CI" -> IF Updates(t) THEN "FINISH" ELSE "UPDATA_CI"
    [] st[t] = "FINISH"    -> "FINISH_1D"
    [] st[t] = "FINISH_1D" -> "REQ_IDLE"

\* Both ports prefer nettx to netrx to blk.
Preferred(S) ==
  IF "TX" \in S THEN "TX" ELSE IF "RX" \in S THEN "RX" ELSE IF "BLK" \in S THEN "BLK" ELSE "none"

\* A request is held until RD_ID_RAM; a response is offered in RSP_ID.
Waiting == {t \in vld : st[t] # "RD_ID_RAM"}
Answering == {t \in QTypes : st[t] = "RSP_ID"}

\* One clock.  A request is taken in RD_ID_RAM; another may follow at once.
Clock(taken, new) ==
  /\ mark' = 1 - mark
  /\ st' = [t \in QTypes |-> NextState(t, taken)]
  /\ vld' = Waiting \cup new
  /\ ctxRsp' = Preferred({t \in QTypes : Starts(t)})
  /\ \E S \in SUBSET {t \in QTypes : st[t] = "RD_CTX"} :
       carries' = {t \in carries : st[t] # "RD_CTX"} \cup S
  /\ ciWr' = Preferred({t \in carries : Updates(t)})

Next == \E taken \in SUBSET Answering, new \in SUBSET (QTypes \ Waiting) : Clock(taken, new)

\* A clock in which the descriptor engine of type t takes its response.
Taken(t) ==
  \E taken \in SUBSET Answering, new \in SUBSET (QTypes \ Waiting) : t \in taken /\ Clock(taken, new)

\* The clock runs, and a descriptor engine takes its responses some time.
Spec ==
  /\ Init /\ [][Next]_vars
  /\ WF_vars(Next)
  /\ \A t \in QTypes : WF_vars(Taken(t))

-----------------------------------------------------------------------------
(***************************************************************************)
(* The context a machine samples in RD_CTX is that of its own queue: no    *)
(* two machines read in one clock (virtio_desc_req_ctrl.sv:401-407).       *)
(***************************************************************************)
SampleIsOwn == \A t \in QTypes : st[t] = "RD_CTX" => ctxRsp = t

(***************************************************************************)
(* A machine that leaves UPDATA_CI has its avail_ci in the write register: *)
(* it is neither preempted by another one nor written for a queue that     *)
(* handed nothing out (virtio_desc_req_ctrl.sv:615-639).                   *)
(***************************************************************************)
CiWritten ==
  \A t \in QTypes : (st[t] = "FINISH" /\ t \in carries) <=> ciWr = t

(***************************************************************************)
(* Every request is answered, that of blk too, whatever the traffic of the *)
(* others is: the two net machines leave blk its turn                      *)
(* (virtio_desc_req_ctrl.sv:306, 324).                                     *)
(***************************************************************************)
EveryAskAnswered == \A t \in QTypes : t \in vld ~> st[t] = "RSP_ID"
=============================================================================
