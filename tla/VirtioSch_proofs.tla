-------------------------- MODULE VirtioSch_proofs --------------------------
(***************************************************************************)
(* virtio_sch for every set of queues and every request FIFO depth: the    *)
(* type invariant, the one-token invariant, and from it that the hot and   *)
(* cold FIFOs never overflow.  Last, the arbiter rr_sch for any number of  *)
(* lines: while a line keeps asking, every grant to another one brings its *)
(* turn nearer, so it is passed over at most SH_NUM - 1 times.             *)
(***************************************************************************)
EXTENDS VirtioSchSys, FiniteSetTheorems, SequenceTheorems, WellFoundedInduction, TLAPS

-----------------------------------------------------------------------------
(* FIFOs as sets of queues. *)

LEMMA ElemsInSet ==
  ASSUME NEW S, NEW s \in Seq(S)
  PROVE  Elems(s) \subseteq S
  BY DEF Elems

LEMMA ElemsEmpty == Elems(<<>>) = {}
  BY DEF Elems

LEMMA AppendElems ==
  ASSUME NEW S, NEW s \in Seq(S), NEW x \in S
  PROVE  /\ Append(s, x) \in Seq(S)
         /\ Elems(Append(s, x)) = Elems(s) \cup {x}
         /\ Append(s, x) # <<>>
<1>1. Len(Append(s, x)) = Len(s) + 1 /\ Len(s) \in Nat /\ Len(<<>>) = 0
  OBVIOUS
<1>2. Append(s, x) # <<>>
  BY <1>1
<1> QED BY <1>2 DEF Elems

LEMMA AppendNoDup ==
  ASSUME NEW S, NEW s \in Seq(S), NEW x \in S, NoDup(s), x \notin Elems(s)
  PROVE  NoDup(Append(s, x))
  BY DEF Elems, NoDup

LEMMA HeadInElems ==
  ASSUME NEW S, NEW s \in Seq(S), s # <<>>
  PROVE  Head(s) \in Elems(s)
  BY DEF Elems

\* Popping a FIFO without duplicates removes exactly its head.
LEMMA TailNoDup ==
  ASSUME NEW S, NEW s \in Seq(S), s # <<>>, NoDup(s)
  PROVE  /\ Tail(s) \in Seq(S)
         /\ NoDup(Tail(s))
         /\ Elems(Tail(s)) = Elems(s) \ {Head(s)}
<1>1. /\ Tail(s) \in Seq(S)
      /\ Len(Tail(s)) = Len(s) - 1
      /\ \A i \in 1 .. Len(Tail(s)) : Tail(s)[i] = s[i+1]
      /\ Head(s) = s[1] /\ Len(s) \in Nat \ {0}
  OBVIOUS
<1>2. NoDup(Tail(s))
  BY <1>1 DEF NoDup
<1>3. Elems(Tail(s)) = Elems(s) \ {Head(s)}
  <2>1. ASSUME NEW i \in 1 .. Len(Tail(s))
        PROVE  Tail(s)[i] \in Elems(s) \ {Head(s)}
    BY <1>1 DEF Elems, NoDup
  <2>2. ASSUME NEW i \in 1 .. Len(s), s[i] # Head(s)
        PROVE  s[i] \in Elems(Tail(s))
    <3>1. i - 1 \in 1 .. Len(Tail(s)) /\ s[i] = Tail(s)[i-1]
      BY <1>1, <2>2
    <3> QED BY <3>1 DEF Elems
  <2> QED BY <2>1, <2>2 DEF Elems
<1> QED BY <1>1, <1>2, <1>3

\* A FIFO of queue ids without duplicates is no longer than there are queues.
LEMMA NoDupLength ==
  ASSUME NEW S, IsFiniteSet(S), NEW s \in Seq(S), NoDup(s)
  PROVE  Len(s) <= Cardinality(S)
<1>1. s \in Injection(1 .. Len(s), S)
  BY DEF NoDup, Injection, IsInjective
<1>2. Cardinality(1 .. Len(s)) <= Cardinality(S)
  BY <1>1, FS_Injection
<1>3. Cardinality(1 .. Len(s)) = Len(s)
  <2>1. 1 \in Int /\ Len(s) \in Int /\ Len(s) >= 0
    OBVIOUS
  <2>2. Cardinality(1 .. Len(s)) = IF 1 > Len(s) THEN 0 ELSE Len(s) - 1 + 1
    BY <2>1, FS_Interval, Zenon
  <2> QED BY <2>1, <2>2
<1> QED BY <1>2, <1>3

-----------------------------------------------------------------------------
(* The request arbiter grants a line that asks for it. *)

LEMMA GrantIsRequested ==
  ASSUME NEW lines \in SUBSET {RspPort, ReqPort}, lines # {},
         NEW mask \in SUBSET {RspPort, ReqPort}
  PROVE  RR!Grant(lines, mask) \in lines
<1>1. ASSUME NEW S \in SUBSET {0, 1}, S # {}
      PROVE  RR!Lowest(S) \in S
  <2>1. \E i \in S : \A j \in S : i <= j
    <3>1. CASE 0 \in S
      BY <3>1, <1>1
    <3>2. CASE 0 \notin S
      <4>1. S = {1}
        BY <3>2, <1>1
      <4> QED BY <4>1
    <3> QED BY <3>1, <3>2
  <2> QED BY <2>1 DEF RR!Lowest
<1>2. RR!Lowest(lines) \in lines
  BY <1>1 DEF RspPort, ReqPort
<1>3. CASE lines \cap mask # {}
  BY <1>1, <1>3 DEF RspPort, ReqPort, RR!Grant
<1> QED BY <1>2, <1>3 DEF RR!Grant

-----------------------------------------------------------------------------
(***************************************************************************)
(* The one-token invariant.  SchInv adds to OneToken what ties the two     *)
(* state machines to their FIFOs: a granted side is not empty when it is   *)
(* popped, a granted response is still there when it is committed.         *)
(***************************************************************************)

LEMMA InitSchInv == Init => SchInv
  BY VirtioSchAssumption, ElemsEmpty
     DEF Init, SchInit, SchInv, TypeOK, SchTypeOK, OneToken, TokenInv, StatInv, Out,
         NoDup, RR!MaskInit, Elems

LEMMA KickInv ==
  ASSUME SchInv, NEW q \in Q, Kick(q)
  PROVE  SchInv'
  BY DEF SchInv, TypeOK, SchTypeOK, OneToken, TokenInv, StatInv, Out, Kick, SchReq

LEMMA ArbitrateInv ==
  ASSUME SchInv, Arbitrate
  PROVE  SchInv'
<1> DEFINE lines == {p \in {RspPort, ReqPort} : IF p = ReqPort THEN reqFf # <<>> ELSE rsp # <<>>}
           g == RR!Grant(lines, reqMask)
<1>1. g \in lines
  BY GrantIsRequested DEF SchInv, TypeOK, SchTypeOK, Arbitrate, ReqGrant
<1>2. /\ reqStat' = IF g = ReqPort THEN "SCH_REQ" ELSE "NOTIFY_RSP"
      /\ reqMask' = RR!NextMask(g)
      /\ UNCHANGED <<reqFf, bitmap, hotFf, coldFf, schStat, held, rsp>>
  BY DEF Arbitrate, ReqGrant
<1>3. reqMask' \subseteq {RspPort, ReqPort}
  BY <1>2 DEF RR!NextMask, RR!Port, RspPort, ReqPort
<1>4. TypeOK'
  BY <1>2, <1>3 DEF SchInv, TypeOK, SchTypeOK
<1>5. OneToken'
  BY <1>2 DEF SchInv, OneToken, TokenInv, Out
<1>6. StatInv(rsp # <<>>)'
  BY <1>1, <1>2 DEF SchInv, StatInv, RspPort, ReqPort
<1> QED BY <1>4, <1>5, <1>6 DEF SchInv

LEMMA PickInv ==
  ASSUME SchInv, NEW side \in {"HOT", "COLD"}, Pick(side)
  PROVE  SchInv'
  BY DEF SchInv, TypeOK, SchTypeOK, OneToken, TokenInv, StatInv, Out, Pick, SchGrant

(***************************************************************************)
(* A request for a queue that is nowhere is pushed; for any other queue it *)
(* only changes a word that is not ZERO into another that is not ZERO.     *)
(***************************************************************************)
LEMMA WriteSchReqInv ==
  ASSUME SchInv, WriteSchReq
  PROVE  SchInv'
<1> DEFINE q == Head(reqFf)
<1>1. reqFf \in Seq(Q) /\ reqFf # <<>> /\ q \in Q /\ Tail(reqFf) \in Seq(Q)
  BY DEF SchInv, TypeOK, SchTypeOK, StatInv, WriteSchReq, CommitSchReq
<1>2. /\ reqStat' = "IDLE" /\ reqFf' = Tail(reqFf)
      /\ bitmap' = [bitmap EXCEPT ![q] = IF @ = "ZERO" THEN "ONCE" ELSE "MORE"]
      /\ UNCHANGED <<reqMask, coldFf, schStat, held, rsp>>
  BY DEF WriteSchReq, CommitSchReq
<1>3. bitmap' \in [Q -> {"ZERO", "ONCE", "MORE"}] /\ bitmap'[q] # "ZERO"
      /\ \A p \in Q \ {q} : bitmap'[p] = bitmap[p]
  BY <1>1, <1>2 DEF SchInv, TypeOK, SchTypeOK
<1>4. CASE bitmap[q] = "ZERO"
  <2>1. hotFf' = Append(hotFf, q)
    BY <1>4 DEF WriteSchReq, CommitSchReq
  <2>2. q \notin Elems(hotFf) \cup Elems(coldFf) \cup Out
    BY <1>1, <1>4 DEF SchInv, OneToken, TokenInv
  <2>3. hotFf' \in Seq(Q) /\ Elems(hotFf') = Elems(hotFf) \cup {q} /\ hotFf' # <<>>
    BY <1>1, <2>1, AppendElems DEF SchInv, TypeOK, SchTypeOK
  <2>4. NoDup(hotFf')
    BY <1>1, <2>1, <2>2, AppendNoDup DEF SchInv, TypeOK, SchTypeOK, OneToken, TokenInv
  <2>5. Out' = Out
    BY <1>2 DEF Out
  <2>6. TokenInv(Out)'
    BY <1>1, <1>2, <1>3, <2>2, <2>3, <2>4, <2>5 DEF SchInv, OneToken, TokenInv
  <2> QED
    BY <1>1, <1>2, <1>3, <2>3, <2>6 DEF SchInv, TypeOK, SchTypeOK, OneToken, StatInv
<1>5. CASE bitmap[q] # "ZERO"
  <2>1. UNCHANGED hotFf
    BY <1>5 DEF WriteSchReq, CommitSchReq
  <2>2. Out' = Out
    BY <1>2 DEF Out
  <2>3. TokenInv(Out)'
    BY <1>1, <1>2, <1>3, <1>5, <2>1, <2>2 DEF SchInv, OneToken, TokenInv
  <2> QED
    BY <1>1, <1>2, <1>3, <2>1, <2>3 DEF SchInv, TypeOK, SchTypeOK, OneToken, StatInv
<1> QED BY <1>4, <1>5

(***************************************************************************)
(* An answered queue is out until here; it goes back to a FIFO, with a     *)
(* word that is not ZERO, or nowhere, with ZERO.                           *)
(***************************************************************************)
LEMMA WriteNotifyRspInv ==
  ASSUME SchInv, WriteNotifyRsp
  PROVE  SchInv'
<1> DEFINE q == rsp[1].q
           push == RspPush(bitmap[q], rsp[1].done)
<1>1. rsp \in Seq(Answer) /\ Len(rsp) = 1 /\ rsp[1] \in Answer /\ DOMAIN rsp = {1}
  <2>1. rsp \in Seq(Answer) /\ Len(rsp) <= 1 /\ rsp # <<>>
    BY DEF SchInv, TypeOK, WriteNotifyRsp
  <2>2. Len(rsp) \in Nat /\ Len(rsp) # 0
    BY <2>1, EmptySeq, LenProperties
  <2>3. ASSUME NEW n \in Nat, n # 0, n <= 1 PROVE n = 1
    BY <2>3
  <2>4. Len(rsp) = 1
    BY <2>1, <2>2, <2>3, Zenon
  <2> QED BY <2>1, <2>4
<1>2. q \in Q /\ q \notin held /\ Out = held \cup {q}
  BY <1>1 DEF SchInv, OneToken, Answer, Out
<1>3. /\ reqStat' = "IDLE" /\ rsp' = <<>>
      /\ bitmap' = [bitmap EXCEPT ![q] = RspBitmap(@, rsp[1].done)]
      /\ UNCHANGED <<reqFf, reqMask, schStat, held>>
  BY DEF WriteNotifyRsp, CommitNotifyRsp
<1>4. Out' = held
  BY <1>3 DEF Out
<1>5. /\ bitmap' \in [Q -> {"ZERO", "ONCE", "MORE"}]
      /\ bitmap'[q] # "ZERO" <=> push
      /\ \A p \in Q \ {q} : bitmap'[p] = bitmap[p]
  BY <1>2, <1>3 DEF SchInv, TypeOK, SchTypeOK, RspBitmap, RspPush
<1>6. q \notin Elems(hotFf) \cup Elems(coldFf)
  BY <1>2 DEF SchInv, OneToken, TokenInv
<1>7. ASSUME NEW ff \in Seq(Q), NoDup(ff), q \notin Elems(ff)
      PROVE  /\ Append(ff, q) \in Seq(Q)
             /\ Elems(Append(ff, q)) = Elems(ff) \cup {q}
             /\ NoDup(Append(ff, q))
             /\ Append(ff, q) # <<>>
  BY <1>2, <1>7, AppendElems, AppendNoDup
<1>8. CASE push /\ rsp[1].cold
  <2>1. hotFf' = hotFf /\ coldFf' = Append(coldFf, q)
    BY <1>8 DEF WriteNotifyRsp, CommitNotifyRsp
  <2>2. /\ coldFf' \in Seq(Q) /\ Elems(coldFf') = Elems(coldFf) \cup {q}
        /\ NoDup(coldFf') /\ coldFf' # <<>>
    BY <1>6, <1>7, <2>1 DEF SchInv, TypeOK, SchTypeOK, OneToken, TokenInv
  <2>3. TokenInv(Out)'
    BY <1>2, <1>4, <1>5, <1>6, <1>8, <2>1, <2>2 DEF SchInv, OneToken, TokenInv
  <2> QED
    BY <1>3, <1>5, <2>1, <2>2, <2>3 DEF SchInv, TypeOK, SchTypeOK, OneToken, StatInv
<1>9. CASE push /\ ~rsp[1].cold
  <2>1. coldFf' = coldFf /\ hotFf' = Append(hotFf, q)
    BY <1>9 DEF WriteNotifyRsp, CommitNotifyRsp
  <2>2. /\ hotFf' \in Seq(Q) /\ Elems(hotFf') = Elems(hotFf) \cup {q}
        /\ NoDup(hotFf') /\ hotFf' # <<>>
    BY <1>6, <1>7, <2>1 DEF SchInv, TypeOK, SchTypeOK, OneToken, TokenInv
  <2>3. TokenInv(Out)'
    BY <1>2, <1>4, <1>5, <1>6, <1>9, <2>1, <2>2 DEF SchInv, OneToken, TokenInv
  <2> QED
    BY <1>3, <1>5, <2>1, <2>2, <2>3 DEF SchInv, TypeOK, SchTypeOK, OneToken, StatInv
<1>10. CASE ~push
  <2>1. hotFf' = hotFf /\ coldFf' = coldFf
    BY <1>10 DEF WriteNotifyRsp, CommitNotifyRsp
  <2>2. TokenInv(Out)'
    BY <1>2, <1>4, <1>5, <1>6, <1>10, <2>1 DEF SchInv, OneToken, TokenInv
  <2> QED
    BY <1>3, <1>5, <2>1, <2>2 DEF SchInv, TypeOK, SchTypeOK, OneToken, StatInv
<1> QED BY <1>8, <1>9, <1>10

\* The engine takes the head of the granted FIFO: it leaves that FIFO, where
\* it was once, and is out.
LEMMA EngineTakeInv ==
  ASSUME SchInv, EngineTake
  PROVE  SchInv'
<1> DEFINE q == NotifyReqQid
<1>1. /\ schStat' = "SCH" /\ held' = held \cup {q}
      /\ UNCHANGED <<reqFf, reqStat, reqMask, bitmap, rsp>>
  BY DEF EngineTake, NotifyReqTaken
<1>2. schStat \in {"HOT", "COLD"}
  BY DEF SchInv, TypeOK, SchTypeOK, EngineTake, NotifyReqTaken, NotifyReqVld
<1>3. ASSUME NEW ff \in Seq(Q), ff # <<>>, NoDup(ff)
      PROVE  /\ Tail(ff) \in Seq(Q) /\ NoDup(Tail(ff))
             /\ Elems(Tail(ff)) = Elems(ff) \ {Head(ff)}
             /\ Head(ff) \in Elems(ff) /\ Head(ff) \in Q
  BY <1>3, TailNoDup, HeadInElems, ElemsInSet
<1>4. CASE schStat = "HOT"
  <2>1. q = Head(hotFf) /\ hotFf' = Tail(hotFf) /\ coldFf' = coldFf /\ hotFf # <<>>
    BY <1>4 DEF EngineTake, NotifyReqTaken, NotifyReqQid, SchInv, StatInv
  <2>2. /\ hotFf' \in Seq(Q) /\ NoDup(hotFf') /\ Elems(hotFf') = Elems(hotFf) \ {q}
        /\ q \in Elems(hotFf) /\ q \in Q
    BY <1>3, <2>1 DEF SchInv, TypeOK, SchTypeOK, OneToken, TokenInv
  <2>3. Out' = Out \cup {q} /\ q \notin Out
    BY <1>1, <2>2 DEF Out, SchInv, OneToken, TokenInv
  <2>4. TokenInv(Out)'
    BY <1>1, <2>1, <2>2, <2>3 DEF SchInv, OneToken, TokenInv
  <2>5. \A i \in DOMAIN rsp : rsp[i].q \notin held'
    BY <1>1, <2>3 DEF SchInv, OneToken, Out
  <2> QED
    BY <1>1, <2>1, <2>2, <2>4, <2>5 DEF SchInv, TypeOK, SchTypeOK, OneToken, StatInv
<1>5. CASE schStat = "COLD"
  <2>1. q = Head(coldFf) /\ coldFf' = Tail(coldFf) /\ hotFf' = hotFf /\ coldFf # <<>>
    BY <1>5 DEF EngineTake, NotifyReqTaken, NotifyReqQid, SchInv, StatInv
  <2>2. /\ coldFf' \in Seq(Q) /\ NoDup(coldFf') /\ Elems(coldFf') = Elems(coldFf) \ {q}
        /\ q \in Elems(coldFf) /\ q \in Q
    BY <1>3, <2>1 DEF SchInv, TypeOK, SchTypeOK, OneToken, TokenInv
  <2>3. Out' = Out \cup {q} /\ q \notin Out
    BY <1>1, <2>2 DEF Out, SchInv, OneToken, TokenInv
  <2>4. TokenInv(Out)'
    BY <1>1, <2>1, <2>2, <2>3 DEF SchInv, OneToken, TokenInv
  <2>5. \A i \in DOMAIN rsp : rsp[i].q \notin held'
    BY <1>1, <2>3 DEF SchInv, OneToken, Out
  <2> QED
    BY <1>1, <2>1, <2>2, <2>4, <2>5 DEF SchInv, TypeOK, SchTypeOK, OneToken, StatInv
<1> QED BY <1>2, <1>4, <1>5

\* Answering moves a queue from held to the response register.
LEMMA EngineAnswerInv ==
  ASSUME SchInv, NEW q \in Q, EngineAnswer(q)
  PROVE  SchInv'
<1>1. PICK done \in BOOLEAN, cold \in BOOLEAN :
        rsp' = <<[q |-> q, done |-> done, cold |-> cold]>>
  BY DEF EngineAnswer
<1>2. /\ q \in held /\ rsp = <<>> /\ held' = held \ {q} /\ UNCHANGED schVars
  BY DEF EngineAnswer
<1>3. rsp' \in Seq(Answer) /\ Len(rsp') = 1 /\ DOMAIN rsp' = {1} /\ rsp'[1].q = q
  BY <1>1 DEF Answer
<1>4. Out = held /\ Out' = held
  BY <1>2, <1>3 DEF Out
<1>5. TypeOK'
  BY <1>2, <1>3 DEF schVars, SchInv, TypeOK, SchTypeOK
<1>6. OneToken'
  BY <1>2, <1>3, <1>4 DEF schVars, SchInv, OneToken, TokenInv
<1>7. StatInv(rsp # <<>>)'
  BY <1>1, <1>2 DEF schVars, SchInv, StatInv
<1> QED BY <1>5, <1>6, <1>7 DEF SchInv

LEMMA StepSchInv == SchInv /\ [Next]_vars => SchInv'
<1> SUFFICES ASSUME SchInv, [Next]_vars PROVE SchInv'
  OBVIOUS
<1>1. CASE UNCHANGED vars
  BY <1>1 DEF vars, SchInv, TypeOK, SchTypeOK, OneToken, TokenInv, StatInv, Out
<1> QED
  BY <1>1, KickInv, ArbitrateInv, WriteSchReqInv, WriteNotifyRspInv, PickInv,
     EngineTakeInv, EngineAnswerInv DEF Next

\* virtio_sch keeps its type invariant and the one-token invariant.
THEOREM SchInvariant == Safety => []SchInv
<1> QED BY InitSchInv, StepSchInv, PTL DEF Safety

(***************************************************************************)
(* The registers keep their types: the answer register takes an answer     *)
(* only when it is free, and only queues enter the FIFOs                   *)
(* (virtio_sch.sv:97-353).                                                 *)
(***************************************************************************)
THEOREM TypeCorrect == Safety => []TypeOK
<1>1. SchInv => TypeOK
  BY DEF SchInv
<1> QED BY <1>1, SchInvariant, PTL

(***************************************************************************)
(* Each queue is in exactly one of hot FIFO, cold FIFO and engine when its *)
(* word is not ZERO, and nowhere when it is: the engine never serves a     *)
(* queue twice at once and no scheduled queue is lost                      *)
(* (virtio_sch.sv:201-240, 270, 299).                                      *)
(***************************************************************************)
THEOREM OneTokenPerQueue == Safety => []OneToken
<1>1. SchInv => OneToken
  BY DEF SchInv
<1> QED BY <1>1, SchInvariant, PTL

(***************************************************************************)
(* hot_ff_overflow and cold_ff_overflow never rise: VQ_NUM entries are     *)
(* enough for the unguarded writes (virtio_sch.sv:245-297).                *)
(***************************************************************************)
THEOREM FifosNeverOverflow == Safety => []NoOverflow
<1>1. SchInv => NoOverflow
  BY VirtioSchAssumption, NoDupLength
     DEF SchInv, TypeOK, SchTypeOK, OneToken, TokenInv, NoOverflow
<1> QED BY <1>1, SchInvariant, PTL

-----------------------------------------------------------------------------
(***************************************************************************)
(* virtio_sch implements the safety part of QueueService: every step maps  *)
(* to a Request, Take, Release or stutter.                                 *)
(***************************************************************************)

LEMMA HeadTailElems ==
  ASSUME NEW S, NEW s \in Seq(S), s # <<>>
  PROVE  Elems(s) = {Head(s)} \cup Elems(Tail(s))
<1>1. /\ Len(Tail(s)) = Len(s) - 1 /\ Len(s) \in Nat \ {0}
      /\ \A i \in 1 .. Len(Tail(s)) : Tail(s)[i] = s[i+1]
      /\ Head(s) = s[1]
  OBVIOUS
<1>2. ASSUME NEW i \in 1 .. Len(Tail(s))
      PROVE  Tail(s)[i] \in Elems(s)
  BY <1>1 DEF Elems
<1>3. ASSUME NEW i \in 1 .. Len(s), i # 1
      PROVE  s[i] \in Elems(Tail(s))
  <2>1. i - 1 \in 1 .. Len(Tail(s)) /\ s[i] = Tail(s)[i-1]
    BY <1>1, <1>3
  <2> QED BY <2>1 DEF Elems
<1>4. Head(s) \in Elems(s)
  BY HeadInElems
<1> QED BY <1>1, <1>2, <1>3, <1>4 DEF Elems

\* Every answer in the response register is about a queue.
LEMMA OutIsQueues == SchInv => Out \subseteq Q
<1> SUFFICES ASSUME SchInv PROVE Out \subseteq Q
  OBVIOUS
<1>1. ASSUME NEW i \in DOMAIN rsp PROVE rsp[i].q \in Q
  <2>1. rsp \in Seq(Answer) /\ i \in 1 .. Len(rsp)
    BY LenProperties DEF SchInv, TypeOK
  <2>2. rsp[i] \in Answer
    BY <2>1, ElementOfSeq
  <2> QED BY <2>2 DEF Answer
<1> QED BY <1>1 DEF Out, SchInv, TypeOK

LEMMA KickRefines ==
  ASSUME SchInv, NEW q \in Q, Kick(q)
  PROVE  QS!Request(q)
<1>1. Elems(reqFf') = Elems(reqFf) \cup {q}
  BY AppendElems DEF SchInv, TypeOK, SchTypeOK, Kick, SchReq
<1>2. UNCHANGED <<bitmap, hotFf, coldFf, held, rsp>>
  BY DEF Kick, SchReq
<1>3. Out' = Out
  BY <1>2 DEF Out
<1> QED BY <1>1, <1>2, <1>3 DEF QS!Request, Pending

\* Committing a request keeps its queue pending: it is pushed, or its word is
\* MORE wherever it is.
LEMMA WriteSchReqRefines ==
  ASSUME SchInv, WriteSchReq
  PROVE  Pending' = Pending /\ Out' = Out
<1> DEFINE q == Head(reqFf)
<1>1. reqFf \in Seq(Q) /\ reqFf # <<>> /\ q \in Q
  BY DEF SchInv, TypeOK, SchTypeOK, StatInv, WriteSchReq, CommitSchReq
<1>2. /\ reqFf' = Tail(reqFf)
      /\ bitmap' = [bitmap EXCEPT ![q] = IF @ = "ZERO" THEN "ONCE" ELSE "MORE"]
      /\ UNCHANGED <<coldFf, held, rsp>>
      /\ hotFf' = IF bitmap[q] = "ZERO" THEN Append(hotFf, q) ELSE hotFf
  BY DEF WriteSchReq, CommitSchReq
<1>3. /\ bitmap'[q] = IF bitmap[q] = "ZERO" THEN "ONCE" ELSE "MORE"
      /\ \A p \in Q \ {q} : bitmap'[p] = bitmap[p]
  BY <1>1, <1>2 DEF SchInv, TypeOK, SchTypeOK
<1>4. Elems(reqFf) = {q} \cup Elems(reqFf')
  BY <1>1, <1>2, HeadTailElems
<1>5. Out' = Out /\ Out \subseteq Q
  BY <1>2, OutIsQueues DEF Out
<1>6. \A p : p # q => (p \in Elems(hotFf') <=> p \in Elems(hotFf))
  BY <1>1, <1>2, AppendElems DEF SchInv, TypeOK, SchTypeOK
<1>7. \A p : p # q => (p \in Pending' <=> p \in Pending)
  BY <1>2, <1>3, <1>4, <1>5, <1>6 DEF Pending
<1>8. q \in Pending
  BY <1>4 DEF Pending
<1>9. q \in Pending'
  <2>1. CASE bitmap[q] = "ZERO"
    <3>1. q \in Elems(hotFf')
      BY <1>1, <1>2, <2>1, AppendElems DEF SchInv, TypeOK, SchTypeOK
    <3> QED BY <3>1 DEF Pending
  <2>2. CASE bitmap[q] # "ZERO"
    <3>1. q \in Elems(hotFf) \cup Elems(coldFf) \cup Out
      BY <1>1, <2>2 DEF SchInv, OneToken, TokenInv
    <3>2. bitmap'[q] = "MORE" /\ hotFf' = hotFf /\ coldFf' = coldFf
      BY <1>2, <1>3, <2>2
    <3> QED BY <1>5, <3>1, <3>2 DEF Pending
  <2> QED BY <2>1, <2>2
<1>10. Pending' = Pending
  BY <1>7, <1>8, <1>9, Zenon DEF Pending
<1> QED BY <1>5, <1>10

\* Taking a queue is a Take; its request goes unless there is another one.
LEMMA EngineTakeRefines ==
  ASSUME SchInv, EngineTake
  PROVE  QS!Take(NotifyReqQid)
<1> DEFINE q == NotifyReqQid
<1>1. /\ held' = held \cup {q} /\ UNCHANGED <<reqFf, bitmap, rsp>>
  BY DEF EngineTake, NotifyReqTaken
<1>2. Out' = Out \cup {q}
  BY <1>1 DEF Out
<1>3. /\ q \in Elems(hotFf) \cup Elems(coldFf)
      /\ Elems(hotFf') \cup Elems(coldFf') = (Elems(hotFf) \cup Elems(coldFf)) \ {q}
  <2>1. CASE schStat = "HOT"
    <3>1. q = Head(hotFf) /\ hotFf' = Tail(hotFf) /\ coldFf' = coldFf /\ hotFf # <<>>
      BY <2>1 DEF EngineTake, NotifyReqTaken, NotifyReqQid, SchInv, StatInv
    <3>2. q \in Elems(hotFf) /\ Elems(hotFf') = Elems(hotFf) \ {q}
      BY <3>1, TailNoDup, HeadInElems DEF SchInv, TypeOK, SchTypeOK, OneToken, TokenInv
    <3> QED BY <3>1, <3>2 DEF SchInv, OneToken, TokenInv
  <2>2. CASE schStat = "COLD"
    <3>1. q = Head(coldFf) /\ coldFf' = Tail(coldFf) /\ hotFf' = hotFf /\ coldFf # <<>>
      BY <2>2 DEF EngineTake, NotifyReqTaken, NotifyReqQid, SchInv, StatInv
    <3>2. q \in Elems(coldFf) /\ Elems(coldFf') = Elems(coldFf) \ {q}
      BY <3>1, TailNoDup, HeadInElems DEF SchInv, TypeOK, SchTypeOK, OneToken, TokenInv
    <3> QED BY <3>1, <3>2 DEF SchInv, OneToken, TokenInv
  <2> QED
    BY <2>1, <2>2 DEF SchInv, TypeOK, SchTypeOK, EngineTake, NotifyReqTaken, NotifyReqVld
<1>4. q \notin Out
  BY <1>3 DEF SchInv, OneToken, TokenInv
<1>5. q \in Pending
  BY <1>3 DEF Pending
<1>6. Pending' \in {Pending, Pending \ {q}}
  <2>1. \A p : p # q => (p \in Pending <=> p \in Pending')
    BY <1>1, <1>2, <1>3 DEF Pending
  <2> QED BY <1>5, <2>1
<1> QED BY <1>2, <1>4, <1>5, <1>6 DEF QS!Take

\* Committing an answer is a Release: an answer that is not done asks again, and
\* one that is done leaves a request made meanwhile (MORE) in a FIFO.
LEMMA WriteNotifyRspRefines ==
  ASSUME SchInv, WriteNotifyRsp
  PROVE  \E q \in Q, done \in BOOLEAN : QS!Release(q, done)
<1> DEFINE q == rsp[1].q
           done == rsp[1].done
           push == RspPush(bitmap[q], done)
<1>1. rsp \in Seq(Answer) /\ rsp # <<>> /\ Len(rsp) <= 1
  BY DEF SchInv, TypeOK, WriteNotifyRsp
<1>2. DOMAIN rsp = {1}
  <2>1. Len(rsp) \in Nat /\ Len(rsp) # 0 /\ DOMAIN rsp = 1 .. Len(rsp)
    BY <1>1, EmptySeq, LenProperties
  <2>2. ASSUME NEW n \in Nat, n # 0, n <= 1 PROVE 1 .. n = {1}
    BY <2>2
  <2> QED BY <1>1, <2>1, <2>2, Zenon
<1>3. q \in Q /\ done \in BOOLEAN /\ q \notin held /\ Out = held \cup {q}
  <2>1. rsp[1] \in Answer
    BY <1>1, <1>2, LenProperties
  <2> QED BY <1>2, <2>1 DEF Answer, SchInv, OneToken, Out
<1>4. /\ rsp' = <<>> /\ UNCHANGED <<reqFf, held>>
      /\ bitmap' = [bitmap EXCEPT ![q] = RspBitmap(@, done)]
      /\ hotFf'  = IF push /\ ~rsp[1].cold THEN Append(hotFf, q) ELSE hotFf
      /\ coldFf' = IF push /\ rsp[1].cold  THEN Append(coldFf, q) ELSE coldFf
  BY DEF WriteNotifyRsp, CommitNotifyRsp
<1>5. Out' = held /\ Out' = Out \ {q} /\ q \in Out
  BY <1>3, <1>4 DEF Out
<1>6. \A p \in Q \ {q} : bitmap'[p] = bitmap[p]
  BY <1>3, <1>4 DEF SchInv, TypeOK, SchTypeOK
<1>7. Elems(hotFf') \cup Elems(coldFf')
        = Elems(hotFf) \cup Elems(coldFf) \cup (IF push THEN {q} ELSE {})
  BY <1>3, <1>4, AppendElems DEF SchInv, TypeOK, SchTypeOK
<1>8. q \notin Elems(hotFf) \cup Elems(coldFf)
  BY <1>5 DEF SchInv, OneToken, TokenInv
<1>9. \A p : p # q => (p \in Pending' <=> p \in Pending)
  BY <1>4, <1>5, <1>6, <1>7, OutIsQueues DEF Pending
<1>10. q \in Pending <=> q \in Elems(reqFf) \/ bitmap[q] = "MORE"
  BY <1>5, <1>8 DEF Pending
<1>11. q \in Pending' <=> q \in Elems(reqFf) \/ ~done \/ bitmap[q] = "MORE"
  <2>1. q \in Pending' <=> q \in Elems(reqFf) \/ push
    BY <1>4, <1>5, <1>7, <1>8 DEF Pending
  <2> QED BY <2>1 DEF RspPush
<1>12. Pending' = IF done THEN Pending ELSE Pending \cup {q}
  <2>1. CASE done
    <3>1. q \in Pending' <=> q \in Pending
      BY <1>10, <1>11, <2>1
    <3>2. Pending' = Pending
      BY <1>9, <3>1, Zenon DEF Pending
    <3> QED BY <2>1, <3>2
  <2>2. CASE ~done
    <3>1. q \in Pending'
      BY <1>11, <2>2
    <3>2. \A p : p \in Pending' <=> p \in Pending \cup {q}
      BY <1>9, <3>1
    <3>3. Pending' = Pending \cup {q}
      BY <3>2, Zenon DEF Pending
    <3> QED BY <2>2, <3>3
  <2> QED BY <2>1, <2>2
<1>13. QS!Release(q, done)
  BY <1>5, <1>12 DEF QS!Release
<1> QED BY <1>3, <1>13

\* A queue the engine answers stays out until the answer is committed.
LEMMA EngineAnswerRefines ==
  ASSUME SchInv, NEW q \in Q, EngineAnswer(q)
  PROVE  Pending' = Pending /\ Out' = Out
<1>1. PICK done \in BOOLEAN, cold \in BOOLEAN :
        rsp' = <<[q |-> q, done |-> done, cold |-> cold]>>
  BY DEF EngineAnswer
<1>2. /\ q \in held /\ rsp = <<>> /\ held' = held \ {q} /\ UNCHANGED schVars
  BY DEF EngineAnswer
<1>3. Out' = Out
  BY <1>1, <1>2 DEF Out
<1> QED BY <1>2, <1>3 DEF Pending, schVars

(***************************************************************************)
(* No kick is lost, whatever the interleaving: the scheduler is a          *)
(* QueueService for every set of queues (virtio_sch.sv:97-353).  That      *)
(* pending queues are served in the end is liveness and is model-checked.  *)
(***************************************************************************)
THEOREM SchedulerRefinesService == Safety => QS!Safety
<1>1. Init => QS!Init
  BY ElemsEmpty DEF Init, SchInit, QS!Init, Pending, Out
<1>2. SchInv /\ [Next]_vars => [QS!Next]_(QS!vars)
  <2> SUFFICES ASSUME SchInv, [Next]_vars PROVE [QS!Next]_(QS!vars)
    OBVIOUS
  <2>1. ASSUME NEW q \in Q, Kick(q) PROVE QS!Next
    BY <2>1, KickRefines DEF QS!Next
  <2>2. CASE Arbitrate
    BY <2>2 DEF Arbitrate, ReqGrant, QS!vars, Pending, Out
  <2>3. CASE WriteSchReq
    BY <2>3, WriteSchReqRefines DEF QS!vars
  <2>4. CASE WriteNotifyRsp
    BY <2>4, WriteNotifyRspRefines DEF QS!Next
  <2>5. ASSUME NEW side \in {"HOT", "COLD"}, Pick(side) PROVE UNCHANGED QS!vars
    BY <2>5 DEF Pick, SchGrant, QS!vars, Pending, Out
  <2>6. CASE EngineTake
    <3>1. NotifyReqQid \in Q
      BY <2>6, HeadInElems, ElemsInSet
         DEF SchInv, TypeOK, SchTypeOK, StatInv, EngineTake, NotifyReqTaken, NotifyReqVld,
             NotifyReqQid
    <3> QED BY <2>6, <3>1, EngineTakeRefines DEF QS!Next
  <2>7. ASSUME NEW q \in Q, EngineAnswer(q) PROVE UNCHANGED QS!vars
    BY <2>7, EngineAnswerRefines DEF QS!vars
  <2>8. CASE UNCHANGED vars
    BY <2>8 DEF vars, QS!vars, Pending, Out
  <2> QED BY <2>1, <2>2, <2>3, <2>4, <2>5, <2>6, <2>7, <2>8 DEF Next
<1> QED BY <1>1, <1>2, SchInvariant, PTL DEF Safety, QS!Safety

-----------------------------------------------------------------------------
(* The arbiter, for any number of lines.                                   *)

CONSTANT SH_NUM
Arb == INSTANCE RrSch

\* The mask as a pointer: the lines from p upwards.  Reset is From(SH_NUM).
From(p) == {i \in Arb!Port : i >= p}

\* How many lines come before line i when the pointer is p.
Dist(i, p) == IF i >= p THEN i - p ELSE i - p + SH_NUM

\* A set of lines that is not empty has a lowest line.
LEMMA LowestOfPorts ==
  ASSUME SH_NUM \in Nat, NEW S \in SUBSET Arb!Port, S # {}
  PROVE  Arb!Lowest(S) \in S /\ \A j \in S : Arb!Lowest(S) <= j
<1> DEFINE R == {ss \in Nat \X Nat : ss[1] < ss[2]}
<1>1. S \subseteq Nat
  BY DEF Arb!Port
<1>2. IsWellFoundedOn(R, Nat)
  BY NatLessThanWellFounded DEF OpToRel
<1>3. \E x \in S : \A y \in S : ~(<<y, x>> \in R)
  <2> HIDE DEF R
  <2> QED BY <1>1, <1>2, WFMin
<1>4. PICK x \in S : \A y \in S : ~(<<y, x>> \in R)
  BY <1>3
<1>5. ASSUME NEW y \in S PROVE x <= y
  <2>1. x \in Nat /\ y \in Nat /\ ~(<<y, x>> \in R)
    BY <1>1, <1>4
  <2>2. ~(y < x)
    BY <2>1
  <2> QED BY <2>1, <2>2
<1> QED BY <1>5 DEF Arb!Lowest

(***************************************************************************)
(* The grant goes to a line that asks, and the next mask is the pointer    *)
(* just above it (rr_sch.sv:31-54).                                        *)
(***************************************************************************)
THEOREM GrantAsks ==
  ASSUME SH_NUM \in Nat, NEW req \in SUBSET Arb!Port, req # {}, NEW p \in 0 .. SH_NUM
  PROVE  /\ Arb!Grant(req, From(p)) \in req
         /\ Arb!NextMask(Arb!Grant(req, From(p))) = From(Arb!Grant(req, From(p)) + 1)
<1>1. Arb!Grant(req, From(p)) \in req
  BY LowestOfPorts DEF Arb!Grant, From
<1>2. \A g \in Arb!Port : Arb!NextMask(g) = From(g + 1)
  BY DEF Arb!NextMask, From, Arb!Port
<1> QED BY <1>1, <1>2

\* The pointer moves from p to the line after g; g comes before i.
LEMMA Nearer ==
  ASSUME SH_NUM \in Nat, NEW i \in 0 .. SH_NUM - 1, NEW g \in 0 .. SH_NUM - 1,
         NEW p \in 0 .. SH_NUM, g # i,
         (g <= i /\ i < p /\ g < p) \/ (g >= p /\ (i >= p => g <= i))
  PROVE  Dist(i, g + 1) < Dist(i, p)
  BY DEF Dist

(***************************************************************************)
(* Bounded bypass: a line that asks and is not granted is strictly nearer  *)
(* to its turn afterwards.  virtio_sch relies on it for requests against   *)
(* responses, virtio_db_sch for doorbells against SoC notifies.            *)
(***************************************************************************)
THEOREM BoundedBypass ==
  ASSUME SH_NUM \in Nat, NEW req \in SUBSET Arb!Port, NEW i \in req, NEW p \in 0 .. SH_NUM,
         Arb!Grant(req, From(p)) # i
  PROVE  Dist(i, Arb!Grant(req, From(p)) + 1) < Dist(i, p)
<1> DEFINE g == Arb!Grant(req, From(p))
<1>1. g \in req
  BY GrantAsks
<1>2. i \in 0 .. SH_NUM - 1 /\ g \in 0 .. SH_NUM - 1
  BY <1>1 DEF Arb!Port
<1>3. CASE req \cap From(p) = {}
  <2>1. g = Arb!Lowest(req)
    BY <1>3 DEF Arb!Grant
  <2>2. g <= i
    BY <2>1, LowestOfPorts
  <2>3. \A j \in req : j < p
    BY <1>3 DEF From, Arb!Port
  <2> QED BY <1>1, <1>2, <2>2, <2>3, Nearer
<1>4. CASE req \cap From(p) # {}
  <2>1. g = Arb!Lowest(req \cap From(p))
    BY <1>4 DEF Arb!Grant
  <2>2. req \cap From(p) \in SUBSET Arb!Port
    BY DEF From
  <2>3. g \in From(p) /\ (i \in From(p) => g <= i)
    BY <1>4, <2>1, <2>2, LowestOfPorts
  <2>4. g >= p /\ (i >= p => g <= i)
    BY <2>3 DEF From
  <2> QED BY <1>2, <2>4, Nearer
<1> QED BY <1>3, <1>4
=============================================================================
