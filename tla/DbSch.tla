------------------------------- MODULE DbSch -------------------------------
(***************************************************************************)
(* virtio_db_sch (src/virtio2/common/virtio_db_sch.sv): doorbells from the *)
(* driver and SoC notifies from software share one notify_req register in  *)
(* front of the index engine's scheduler.  The two sources keep their      *)
(* request valid until it is taken; the module that instantiates this one  *)
(* passes their queue ids.                                                 *)
(***************************************************************************)
EXTENDS Sequences

VARIABLES
  dbStat,             \* cstat with sch_grant_d: "IDLE", or SCH for "SOC" or "DOORBELL"
  dbMask,             \* the mask register of u_rr_sch
  dbReq               \* notify_req_vld/notify_req_qid: <<>> or <<q>>

dbVars == <<dbStat, dbMask, dbReq>>

DbRR == INSTANCE RrSch WITH SH_NUM <- 2

\* sch_req = {doorbell_req_vld, soc_notify_req_vld}.
SocPort == 0
DoorbellPort == 1

DbInit == dbStat = "IDLE" /\ dbMask = DbRR!MaskInit /\ dbReq = <<>>

\* IDLE: grant one of the sources that ask.
DbArbitrate(lines) ==
  LET g == DbRR!Grant(lines, dbMask)
  IN  /\ dbStat = "IDLE"
      /\ lines # {}
      /\ dbStat' = IF g = SocPort THEN "SOC" ELSE "DOORBELL"
      /\ dbMask' = DbRR!NextMask(g)
      /\ UNCHANGED dbReq

\* SCH: the granted source's queue q enters the register once that is free;
\* this is the source's ready.
DbLoad(side, q) ==
  /\ dbStat = side
  /\ dbReq = <<>>
  /\ dbReq' = <<q>>
  /\ dbStat' = "IDLE"
  /\ UNCHANGED dbMask

\* sch_req handshake of the scheduler.
DbTaken ==
  /\ dbReq # <<>>
  /\ dbReq' = <<>>
  /\ UNCHANGED <<dbStat, dbMask>>
=============================================================================
