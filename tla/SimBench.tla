------------------------------ MODULE SimBench ------------------------------
(***************************************************************************)
(* The benches of the repository side by side for TLC: a behaviour is one  *)
(* of one bench, chosen at the start; the variables of the others stay     *)
(* Off.  Those of Links have their bounds in the configuration, the others *)
(* in their instances, where Live chooses small ones.                      *)
(***************************************************************************)
EXTENDS Links

CONSTANTS Benches, \* the benches to check
          Live     \* small instances

VARIABLES
  blkWk, blkVq, blkReq, blkMem, blkCk, blkEk, blkHw,
  netWk, netQ, netCk, netEk, netHw,
  vqWk, vqQ, vqCo, vqHw,
  pmdQ, pmdWk, pmdErr, pmdHw, pmdAlarm, pmdTx, pmdRx, pmdBlk, pmdBe,
  mltCall, mltMst, mltBus, mltRam, mltRst, mltBad,
  memFree, memAlloc, memReg, memGot,
  qsQ, qsCh, qsHw, qsStop, qsAlarm,
  tsoPlan, tsoQ, tsoCnt, tsoAlarm, tsoMiss

-----------------------------------------------------------------------------
(* The plans of the two benches that take them.                              *)

\* One queue of every kind, with two chains of a bad block, data and a
\* descriptor to write; and two queues at a time, of one good chain each.
QsChains == << << <<"bad">>, <<>> >>, << <<"good", "good">> >> >>
QsRecords == [mode : {"plain", "slot", "err", "down"}, chains : {<<QsChains>>}, qosEn : BOOLEAN,
              ok : BOOLEAN, stopping : BOOLEAN, ptr : {0, 3}]
QsShort(mode) == [mode |-> mode, chains |-> <<(<< << <<"good">> >> >>)>>, qosEn |-> FALSE, ok |-> TRUE,
                  stopping |-> FALSE, ptr |-> 0]
QsPair == <<QsShort("plain"), QsShort("slot")>>
QsPlans == IF Live THEN {<<r>> : r \in {c \in QsRecords : c.ok /\ c.qosEn /\ c.ptr = 0 /\ c.stopping /\ c.mode = "slot"}}
           ELSE {QsPair} \cup {<<r>> : r \in {c \in QsRecords : (c.ok \/ c.qosEn) /\ (c.stopping <=> c.ptr = 3)}}

\* Packets at most two parameters away from one that is segmented, packets at
\* the limit of 32 Kbyte, and a short one; then the one that ends the test.
TsoBase == [eth |-> 0, ver |-> 4, proto |-> "tcp", opt |-> 0, trans |-> 0, lenErr |-> 0, vio |-> 1,
            flags |-> 1, gsoType |-> 1, gso |-> 128, err |-> 0, tso |-> 1, csum |-> 1, len |-> 480,
            seqRoom |-> 100000, end |-> FALSE]
TsoAlts == [eth |-> 0..2, ver |-> {4, 6}, proto |-> {"tcp", "udp", "icmp"}, opt |-> {0, 1}, trans |-> {0, 1},
            lenErr |-> {0, 1}, vio |-> {0, 1}, flags |-> {0, 1}, gsoType |-> {0, 1, 3, 4}, gso |-> {128, 200},
            err |-> {0, 1}, tso |-> {0, 1}, csum |-> {0, 1}, len |-> {260, 480}, seqRoom |-> {200, 100000},
            end |-> {FALSE}]
TsoNear(p) == UNION {{[p EXCEPT ![f] = v] : v \in TsoAlts[f]} : f \in DOMAIN TsoAlts}
TsoLast == [TsoBase EXCEPT !.vio = 0, !.len = 100, !.flags = 0, !.gsoType = 0, !.gso = 160, !.end = TRUE]
TsoShort == [TsoBase EXCEPT !.vio = 0, !.len = 20, !.flags = 0, !.gsoType = 4, !.ver = 6]
TsoBig == UNION {TsoNear([TsoBase EXCEPT !.tso = 0, !.csum = c, !.len = n]) :
                   c \in {0, 1}, n \in {32768, 32769, 65536}}
TsoFirst == IF Live THEN {TsoBase, TsoShort}
            ELSE {TsoShort} \cup UNION {TsoNear(p) : p \in TsoNear(TsoBase)} \cup {p \in TsoBig : p.tso = 0}

-----------------------------------------------------------------------------
(* The instances.                                                            *)

VqB == INSTANCE VqBlk WITH QLen <- 8, Segs <- {1, 2}, MaxLoop <- IF Live THEN 1 ELSE 2, MaxTests <- 2,
                           Cases <- IF Live THEN {"mixed", "idx"} ELSE {"mixed", "chain_1", "idx", "equal_qlen"}
VqN == INSTANCE VqNet WITH QLen <- 4, Chains <- IF Live THEN {2} ELSE {1, 2}, NPkts <- 2, Burst <- 2, MaxTests <- 2,
                           Cases <- {"send", "recv", "err", "restart"}
VqT == INSTANCE VqTest WITH QSize <- 2, Chains <- IF Live THEN {2} ELSE {1, 2}, NPkts <- IF Live THEN 1 ELSE 2, MaxBells <- 1,
                            MaxTests <- 2, Cases <- IF Live THEN {"err", "pause"} ELSE {"send", "err", "crazy", "pause"}
Tx == INSTANCE NetTxPmd WITH QSz <- 2, Direct <- IF Live THEN {1} ELSE {1, 2}, MaxGen <- 1, TxSeq <- 1,
                             TxRefs <- IF Live THEN 1 ELSE 2, TxBatch <- IF Live THEN 1 ELSE 2
Rx == INSTANCE NetRxPmd WITH QSz <- 2, Direct <- {1}, MaxGen <- 1, RxSeq <- 1, RxRefs <- 2
VTx == INSTANCE VnetTx WITH Msix <- {FALSE}, QSz <- 1, Direct <- {1}, MaxGen <- 1, MaxDefects <- 1, TxSeq <- 1,
                            TxRefs <- 2, TxBatch <- 1, MaxPolls <- 1
VRx == INSTANCE VnetRx WITH Msix <- {TRUE}, QSz <- 2, Direct <- {1}, MaxGen <- 1, MaxDefects <- 1, RxSeq <- 1,
                            RxRefs <- 1
Blk == INSTANCE BlkPmd WITH QSz <- 2, Direct <- {1}, MaxGen <- 1, BlkSeq <- 1, BlkTags <- 2, BlkBatch <- 1,
                            Types <- {"data"}
Mlt == INSTANCE MliteLoop WITH QMax <- Limit, Tasks <- {1, 2}, Addrs <- IF Live THEN {1} ELSE {1, 2}, MaxWrites <- 1
Mem == INSTANCE MemPool WITH Log <- 2, MaxLive <- 3, MaxFaults <- 2
Qs == INSTANCE QsMgr WITH Qids <- {1, 2}, CntMax <- IF Live THEN 1 ELSE 2, CtxDown <- TRUE, PtrMod <- 4,
                          Plans <- QsPlans
Tso == INSTANCE TsoBench WITH Plans <- {<<p, TsoLast>> : p \in TsoFirst}, MstMax <- 8, ProMax <- 2,
                              BeatMax <- 10, Wrong <- {1, 32, 33, 100}

\* The variables of the three queues of the top level simulation.
pmdVars == <<pmdQ, pmdWk, pmdErr, pmdHw, pmdAlarm, pmdTx, pmdRx, pmdBlk, pmdBe>>
vqbVars == <<blkWk, blkVq, blkReq, blkMem, blkCk, blkEk, blkHw>>
vqnVars == <<netWk, netQ, netCk, netEk, netHw>>
vqtVars == <<vqWk, vqQ, vqCo, vqHw>>
mltVars == <<mltCall, mltMst, mltBus, mltRam, mltRst, mltBad>>
memVars == <<memFree, memAlloc, memReg, memGot>>
qsVars == <<qsQ, qsCh, qsHw, qsStop, qsAlarm>>
tsoVars == <<tsoPlan, tsoQ, tsoCnt, tsoAlarm, tsoMiss>>
vars == <<linkVars, vqbVars, vqnVars, vqtVars, pmdVars, mltVars, memVars, qsVars, tsoVars>>

-----------------------------------------------------------------------------
Init ==
  /\ bench \in Benches
  /\ LinkInit
  /\ IF bench = "vqblk" THEN VqB!Init
     ELSE blkWk = Off /\ blkVq = Off /\ blkReq = Off /\ blkMem = Off /\ blkCk = Off /\ blkEk = Off /\ blkHw = Off
  /\ IF bench = "vqnet" THEN VqN!Init ELSE netWk = Off /\ netQ = Off /\ netCk = Off /\ netEk = Off /\ netHw = Off
  /\ IF bench = "vq" THEN VqT!Init ELSE vqWk = Off /\ vqQ = Off /\ vqCo = Off /\ vqHw = Off
  /\ CASE bench = "tx" -> Tx!Init [] bench = "rx" -> Rx!Init [] bench = "blk" -> Blk!Init
       [] bench = "vnettx" -> VTx!Init [] bench = "vnetrx" -> VRx!Init
       [] OTHER -> pmdQ = Off /\ pmdWk = Off /\ pmdErr = Off /\ pmdHw = Off /\ pmdAlarm = Off
  /\ bench \notin {"tx", "vnettx"} => pmdTx = Off
  /\ bench \notin {"rx", "vnetrx"} => pmdRx = Off
  /\ bench # "blk" => pmdBlk = Off /\ pmdBe = Off
  /\ IF bench = "mlite" THEN Mlt!Init
     ELSE mltCall = Off /\ mltMst = Off /\ mltBus = Off /\ mltRam = Off /\ mltRst = Off /\ mltBad = Off
  /\ IF bench = "mem" THEN Mem!Init ELSE memFree = Off /\ memAlloc = Off /\ memReg = Off /\ memGot = Off
  /\ IF bench = "qs" THEN Qs!Init ELSE qsQ = Off /\ qsCh = Off /\ qsHw = Off /\ qsStop = Off /\ qsAlarm = Off
  /\ IF bench = "tso" THEN Tso!Init ELSE tsoPlan = Off /\ tsoQ = Off /\ tsoCnt = Off /\ tsoAlarm = Off /\ tsoMiss = Off

\* The benches that do not run stay as they are.
Others ==
  /\ LinkOthers
  /\ IF bench = "vqblk" THEN TRUE ELSE UNCHANGED vqbVars
  /\ IF bench = "vqnet" THEN TRUE ELSE UNCHANGED vqnVars
  /\ IF bench = "vq" THEN TRUE ELSE UNCHANGED vqtVars
  /\ IF bench \in {"tx", "rx", "blk", "vnettx", "vnetrx"} THEN TRUE ELSE UNCHANGED <<pmdQ, pmdWk, pmdErr, pmdHw, pmdAlarm>>
  /\ IF bench \in {"tx", "vnettx"} THEN TRUE ELSE UNCHANGED pmdTx
  /\ IF bench \in {"rx", "vnetrx"} THEN TRUE ELSE UNCHANGED pmdRx
  /\ IF bench = "blk" THEN TRUE ELSE UNCHANGED <<pmdBlk, pmdBe>>
  /\ IF bench = "mlite" THEN TRUE ELSE UNCHANGED mltVars
  /\ IF bench = "mem" THEN TRUE ELSE UNCHANGED memVars
  /\ IF bench = "qs" THEN TRUE ELSE UNCHANGED qsVars
  /\ IF bench = "tso" THEN TRUE ELSE UNCHANGED tsoVars

Next ==
  /\ \/ bench = "vqblk" /\ VqB!Next
     \/ bench = "vqnet" /\ VqN!Next
     \/ bench = "vq" /\ VqT!Next
     \/ bench = "tx" /\ Tx!Next
     \/ bench = "rx" /\ Rx!Next
     \/ bench = "blk" /\ Blk!Next
     \/ bench = "vnettx" /\ VTx!Next
     \/ bench = "vnetrx" /\ VRx!Next
     \/ bench = "mlite" /\ Mlt!Next
     \/ bench = "mem" /\ Mem!Next
     \/ bench = "qs" /\ Qs!Next
     \/ bench = "tso" /\ Tso!Next
     \/ LinkSteps
  /\ Others
Safety == Init /\ [][Next]_vars

\* The fairness of the benches, one coroutine or device of each to a line: every
\* one that waits for a timer or an edge of the clock goes on.  It is strong
\* where time passes for one whatever the others do meanwhile.
Turn1 == Others /\ \/ bench = "vqblk" /\ VqB!Worker
                   \/ bench = "vqnet" /\ VqN!Worker
                   \/ bench = "vq" /\ VqT!Worker
                   \/ bench = "tx" /\ ~pmdAlarm /\ Tx!Urgent
                   \/ bench = "stream" /\ Str!Edge
                   \/ bench = "mlite" /\ Mlt!Bench
                   \/ bench = "dma" /\ Dma!Master
                   \/ bench = "qs" /\ Qs!Next
                   \/ bench = "tso" /\ Tso!Next
                   \/ bench = "beqtxq" /\ Btq!Next
Turn2 == Others /\ \/ bench = "vqblk" /\ VqB!Checker
                   \/ bench = "vqnet" /\ VqN!Checkers
                   \/ bench = "vq" /\ VqT!Pause
                   \/ bench = "stream" /\ Str!Recv
                   \/ bench = "mlite" /\ Mlt!ResetOff
                   \/ bench = "dma" /\ Dma!Ram
Turn3 == Others /\ \/ bench = "vqblk" /\ (VqB!EkPoll \/ VqB!EkStopped)
                   \/ bench = "vqnet" /\ VqN!EkPoll
                   \/ bench = "vq" /\ VqT!CheckInfo
                   \/ bench = "stream" /\ Str!ResetOff
                   \/ bench = "mlite" /\ Mlt!CallPut(1)
                   \/ bench = "dma" /\ Dma!WriteRspGet
Turn4 == Others /\ \/ bench = "vqblk" /\ VqB!BlkHandler
                   \/ bench = "vqnet" /\ (VqN!TxHandler \/ VqN!RxHandler)
                   \/ bench = "mlite" /\ Mlt!CallPut(2)
                   \/ bench = "dma" /\ Dma!ReadRspGet
Turn5 == Others /\ \/ bench = "vqblk" /\ VqB!Device
                   \/ bench = "vqnet" /\ VqN!RxHandlerResumes
Turn6 == Others /\ bench = "vqnet" /\ (VqN!DevTx \/ VqN!DevRx)
Turn7 == Others /\ bench = "vqnet" /\ VqN!DevUsed
Timed1 == Others /\ \/ bench = "vq" /\ VqT!DevDesc
                    \/ bench = "tx" /\ Tx!Calm /\ Tx!TxWorker
Timed2 == Others /\ bench = "tx" /\ Tx!Calm /\ (Tx!Stuttering(Tx!Worker) \/ Tx!CleanDrop)
Timed3 == Others /\ bench = "tx" /\ Tx!Calm /\ Tx!Stuttering(Tx!ErrSeen)
Timed4 == Others /\ bench = "tx" /\ Tx!Calm /\ Tx!Stuttering(Tx!ErrInfo)
Timed5 == Others /\ bench = "tx" /\ Tx!Calm /\ Tx!Stuttering(Tx!SocNotifyService)
Timed6 == Others /\ bench = "tx" /\ Tx!Calm /\ Tx!Stuttering(Tx!HwUsed \/ Tx!HwIdle)
Timed7 == Others /\ bench = "tx" /\ Tx!Calm /\ Tx!HwSend
Fair == /\ WF_vars(Turn1) /\ WF_vars(Turn2) /\ WF_vars(Turn3) /\ WF_vars(Turn4)
        /\ WF_vars(Turn5) /\ WF_vars(Turn6) /\ WF_vars(Turn7)
        /\ SF_vars(Timed1) /\ SF_vars(Timed2) /\ SF_vars(Timed3) /\ SF_vars(Timed4)
        /\ SF_vars(Timed5) /\ SF_vars(Timed6) /\ SF_vars(Timed7)
FairSpec == Safety /\ Fair

-----------------------------------------------------------------------------
(* What the benches promise: each property asks the same question of every   *)
(* bench it makes sense for.                                                 *)

\* No comparison, assertion or lookup of a bench fails while the device is
\* right: a bench that cries wolf is switched off.
NoFalseAlarm ==
  /\ NoBusAlarm
  /\ CASE bench = "vqblk" -> VqB!BlkNoFalseAlarm
       [] bench = "vqnet" -> VqN!NetNoFalseAlarm
       [] bench = "vq" -> VqT!VqNoFalseAlarm
       [] bench = "tx" -> Tx!TxNoFalseAlarm
       [] bench = "rx" -> Rx!RxNoFalseAlarm
       [] bench = "blk" -> Blk!BlkNoFalseAlarm
       [] bench = "vnettx" -> VTx!VtxNoFalseAlarm
       [] bench = "vnetrx" -> VRx!VrxNoFalseAlarm
       [] bench = "qs" -> Qs!QsNoFalseAlarm
       [] bench = "tso" -> Tso!TsoNoFalseAlarm
       [] bench = "beqtxq" -> Btq!BtqNoFalseAlarm
       [] OTHER -> TRUE

\* What is handed out is held in one place or free, never both, never lost: the
\* descriptor ids of every driver and the blocks of the memory pool.
IdsKept ==
  CASE bench = "vqblk" -> VqB!BlkConserved
    [] bench = "vqnet" -> VqN!NetIdsConserved
    [] bench = "vq" -> VqT!VqIdsConserved
    [] bench = "tx" -> Tx!TxIdsKept
    [] bench = "rx" -> Rx!RxIdsKept
    [] bench = "blk" -> Blk!BlkIdsKept
    [] bench = "vnettx" -> VTx!VtxIdsKept
    [] bench = "vnetrx" -> VRx!VrxIdsKept
    [] bench = "mem" -> Mem!MemConserved
    [] bench = "beqtxq" -> Btq!BtqSlotsKept
    [] OTHER -> TRUE

\* The references a bench keeps to compare with later are those of what is on
\* its way through the device, in the order in which it comes out.
RefsKept ==
  CASE bench = "tx" -> Tx!TxRefsMatch
    [] bench = "rx" -> Rx!RxRefsMatch /\ Rx!RxNoStaleRef
    [] bench = "blk" -> Blk!BlkTagsKept
    [] bench = "vnettx" -> VTx!VtxRefsMatch
    [] bench = "vnetrx" -> VRx!VrxRefsMatch /\ VRx!VrxNoStaleRef
    [] bench = "qs" -> Qs!QsPendingKept
    [] bench = "beqtxq" -> Btq!BtqRefsMatch
    [] OTHER -> TRUE

\* A test is over only when everything was checked and given back.
EndsLast ==
  CASE bench = "tx" -> Tx!TxNoLeak
    [] bench = "vnettx" -> VTx!VtxNoLeak
    [] bench = "vnetrx" -> VRx!VrxNoLeak
    [] bench = "qs" -> Qs!QsStopsLast
    [] bench = "tso" -> Tso!TsoStopsLast
    [] OTHER -> TRUE

\* A test ends only with its error seen, or with everything it sent compared, and
\* the comparison of a segmented packet overlooks a byte only in the first chunk of
\* a piece whose headers it does not parse.
TestsChecked ==
  /\ [](bench = "tso" => Tso!TsoMissesFirst)
  /\ [][/\ bench = "vqblk" => VqB!BlkErrorSeen
        /\ bench = "vq" => VqT!VqEndsChecked]_vars

\* An access to memory succeeds when it may and returns its own data, a read returns
\* what was written before its call, and a fault put in the way of a read fails one.
ReadsRight ==
  /\ [](CASE bench = "mlite" -> Mlt!MltReadsOwn
          [] bench = "mem" -> Mem!MemAccessRight /\ Mem!MemFailsWhenFull
          [] OTHER -> TRUE)
  /\ [][/\ bench = "dma" => Dma!DmaReadsFresh
        /\ bench = "mem" => Mem!MemFaultsKept]_vars

\* Every test ends: no driver, checker or device waits for the others for ever.
TestOver ==
  CASE bench = "vqblk" -> VqB!BlkOver
    [] bench = "vqnet" -> VqN!NetOver
    [] bench = "vq" -> VqT!VqOver
    [] bench = "tx" -> Tx!TxOver
    [] bench = "qs" -> Qs!QsOver
    [] bench = "tso" -> Tso!TsoOver
    [] bench = "beqtxq" -> Btq!BtqOver
    [] OTHER -> TRUE
TestsEnd == <>TestOver

\* Nothing stays on its way for ever: what is sent is received once pauses and
\* resets are over, and what is called is answered.
Answer(x) ==
  CASE bench = "stream" -> Str!StrDelivered(x)
    [] bench = "mlite" -> x \in {1, 2} => Mlt!MltAnswered(x)
    [] bench = "dma" -> Dma!DmaAnswered
    [] OTHER -> TRUE
AllAnswered == \A x \in 0..3 : []<>Answer(x)
=============================================================================
