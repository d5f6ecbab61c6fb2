--------------------------- MODULE VirtioSchSys ---------------------------
(***************************************************************************)
(* virtio_sch between a producer that may kick any queue at any time and   *)
(* an engine that takes queues, works on several at once and answers them  *)
(* in any order, with any done and cold, which is what the engines of      *)
(* virtio2 do between them.                                                *)
(***************************************************************************)
EXTENDS VirtioSch

VARIABLES
  held,               \* queues the engine has taken and not answered
  rsp                 \* the engine's notify_rsp register: <<>> or one answer

vars == <<reqFf, reqStat, reqMask, bitmap, hotFf, coldFf, schStat, held, rsp>>

Answer == [q : Q, done : BOOLEAN, cold : BOOLEAN]

TypeOK ==
  /\ SchTypeOK
  /\ held \subseteq Q
  /\ rsp \in Seq(Answer) /\ Len(rsp) <= 1

Init == SchInit /\ held = {} /\ rsp = <<>>

\* Queues that left the FIFOs and whose answer has not been committed.
Out == held \cup {rsp[i].q : i \in DOMAIN rsp}

Kick(q) == SchReq(q) /\ UNCHANGED <<held, rsp>>

Arbitrate == ReqGrant(rsp # <<>>) /\ UNCHANGED <<held, rsp>>

WriteSchReq == CommitSchReq /\ UNCHANGED <<held, rsp>>

WriteNotifyRsp ==
  /\ rsp # <<>>
  /\ CommitNotifyRsp(rsp[1].q, rsp[1].done, rsp[1].cold)
  /\ rsp' = <<>>
  /\ UNCHANGED held

Pick(side) == SchGrant(side) /\ UNCHANGED <<held, rsp>>

\* The engine takes the queue that notify_req offers.
EngineTake ==
  /\ NotifyReqTaken
  /\ held' = held \cup {NotifyReqQid}
  /\ UNCHANGED rsp

\* Mutant: the engine does not wait for its notify_rsp register.
EngineAnswerQueued(q) ==
  /\ q \in held
  /\ \E done, cold \in BOOLEAN : rsp' = Append(rsp, [q |-> q, done |-> done, cold |-> cold])
  /\ held' = held \ {q}
  /\ UNCHANGED schVars

\* The engine loads its notify_rsp register; it holds one answer at a time.
EngineAnswer(q) ==
  /\ q \in held
  /\ rsp = <<>>
  /\ \E done, cold \in BOOLEAN : rsp' = <<[q |-> q, done |-> done, cold |-> cold]>>
  /\ held' = held \ {q}
  /\ UNCHANGED schVars

Next ==
  \/ \E q \in Q : Kick(q)
  \/ Arbitrate
  \/ WriteSchReq
  \/ WriteNotifyRsp
  \/ \E side \in {"HOT", "COLD"} : Pick(side)
  \/ EngineTake
  \/ \E q \in Q : EngineAnswer(q)

Safety == Init /\ [][Next]_vars

(***************************************************************************)
(* The state machines are clocked, so each step that stays enabled         *)
(* happens.  wrr_sch with two positive weights serves both sides: strong   *)
(* fairness.  The engine answers what it took; nobody has to kick.         *)
(***************************************************************************)
Fairness ==
  /\ WF_vars(Arbitrate) /\ WF_vars(WriteSchReq) /\ WF_vars(WriteNotifyRsp)
  /\ SF_vars(Pick("HOT")) /\ SF_vars(Pick("COLD"))
  /\ WF_vars(EngineTake)
  /\ \A q \in Q : SF_vars(EngineAnswer(q))

Spec == Safety /\ Fairness

-----------------------------------------------------------------------------
(***************************************************************************)
(* A queue is in one place at most - hot FIFO, cold FIFO, or with the      *)
(* engine - and it is there exactly when its word is not ZERO.  If it were *)
(* in two, the engine would run twice on one queue and a FIFO could        *)
(* overflow; if it were in none with a word that is not ZERO, every later  *)
(* kick would only set MORE and the queue would hang                       *)
(* (virtio_sch.sv:201-240).                                                *)
(***************************************************************************)
OneToken ==
  /\ TokenInv(Out)
  /\ \A i \in DOMAIN rsp : rsp[i].q \notin held

(***************************************************************************)
(* hot_ff_overflow and cold_ff_overflow of dfx_err, which the module       *)
(* asserts never to happen (virtio_sch.sv:355-374): neither FIFO is pushed *)
(* beyond VQ_NUM although nothing looks at full.                           *)
(***************************************************************************)
NoOverflow ==
  /\ Len(hotFf) <= Cardinality(Q)
  /\ Len(coldFf) <= Cardinality(Q)

SchInv == TypeOK /\ OneToken /\ StatInv(rsp # <<>>)

(***************************************************************************)
(* The scheduler implements QueueService: a kick that arrives at any       *)
(* moment - while its queue is queued, being served, or being answered -   *)
(* is followed by a service that starts after it.                          *)
(***************************************************************************)
Pending ==
  Elems(reqFf) \cup Elems(hotFf) \cup Elems(coldFf) \cup {q \in Out : bitmap[q] = "MORE"}

QS == INSTANCE QueueService WITH want <- Pending, serving <- Out

ServesEveryKick == QS!Spec

(***************************************************************************)
(* A scheduled queue is not scheduled for ever: once nobody kicks and the  *)
(* engine answers done, the MORE words count down to ZERO and the          *)
(* scheduler falls silent (virtio_sch.sv:210-218).                         *)
(***************************************************************************)
EngineIsDone == \A q \in Q : EngineAnswer(q) => rsp'[1].done

DrainsWhenDone ==
  <>[][EngineIsDone /\ \A q \in Q : ~Kick(q)]_vars
    => <>[](\A q \in Q : bitmap[q] = "ZERO")
=============================================================================
