-------------------------------- MODULE Links --------------------------------
(***************************************************************************)
(* The buses of the simulation, the transactors on them and the descriptor *)
(* engine of a bench, side by side, and what they promise those who use    *)
(* them.  A behaviour is one of one of them; the variables of the others   *)
(* stay as they are.                                                       *)
(***************************************************************************)
EXTENDS Integers, Sequences, FiniteSets

CONSTANTS Limit, MaxPause,           \* room of a queue, items after a pause
          Senders,                   \* coroutines that send on the valid/ready bus
          MayReset,                  \* it is reset
          MaxBeats,                  \* bound: beats of a packet
          MaxOps, MaxResets, Faulty, \* DMA bus, see DmaLoop
          Depth, LocalMax, MaxRead, NewMax, Lens, NChains, Batch, MaxFaults \* see BeqTxq

ASSUME LinksAssumption == Limit \in Nat /\ MaxPause \in Nat \ {0} /\ MaxBeats \in Nat

VARIABLES bench,
  strSrc, strSnd, strSnk, strMon, strRst, strOut,
  savSrc, savSnk, savRst, savOut, savAlarm,
  pipMst, pipBus, pipSlv, pipRst, pipOut, pipAlarm,
  dmaUsr, dmaWr, dmaRd, dmaBus, dmaRam, dmaAlarm,
  btqWk, btqTxq, btqCtx, btqEng, btqHw

Str == INSTANCE StreamLink WITH Resets <- MayReset
Sav == INSTANCE SavLink WITH MaxQueue <- Limit
Pip == INSTANCE BeatPipe WITH QMax <- Limit
Dma == INSTANCE DmaLoop WITH QMax <- Limit
Btq == INSTANCE BeqTxq

strVars == <<strSrc, strSnd, strSnk, strMon, strRst, strOut>>
savVars == <<savSrc, savSnk, savRst, savOut, savAlarm>>
pipVars == <<pipMst, pipBus, pipSlv, pipRst, pipOut, pipAlarm>>
dmaVars == <<dmaUsr, dmaWr, dmaRd, dmaBus, dmaRam, dmaAlarm>>
btqVars == <<btqWk, btqTxq, btqCtx, btqEng, btqHw>>
linkVars == <<bench, strVars, savVars, pipVars, dmaVars, btqVars>>

-----------------------------------------------------------------------------
Off == "off"

LinkInit ==
  /\ IF bench = "stream" THEN Str!Init
     ELSE strSrc = Off /\ strSnd = Off /\ strSnk = Off /\ strMon = Off /\ strRst = Off /\ strOut = Off
  /\ IF bench = "sav" THEN Sav!Init ELSE savSrc = Off /\ savSnk = Off /\ savRst = Off /\ savOut = Off /\ savAlarm = Off
  /\ IF bench = "beq" THEN Pip!Init
     ELSE pipMst = Off /\ pipBus = Off /\ pipSlv = Off /\ pipRst = Off /\ pipOut = Off /\ pipAlarm = Off
  /\ IF bench = "dma" THEN Dma!Init
     ELSE dmaUsr = Off /\ dmaWr = Off /\ dmaRd = Off /\ dmaBus = Off /\ dmaRam = Off /\ dmaAlarm = Off
  /\ IF bench = "beqtxq" THEN Btq!Init ELSE btqWk = Off /\ btqTxq = Off /\ btqCtx = Off /\ btqEng = Off /\ btqHw = Off

\* What does not run stays as it is.
LinkOthers ==
  /\ UNCHANGED bench
  /\ IF bench = "stream" THEN TRUE ELSE UNCHANGED strVars
  /\ IF bench = "sav" THEN TRUE ELSE UNCHANGED savVars
  /\ IF bench = "beq" THEN TRUE ELSE UNCHANGED pipVars
  /\ IF bench = "dma" THEN TRUE ELSE UNCHANGED dmaVars
  /\ IF bench = "beqtxq" THEN TRUE ELSE UNCHANGED btqVars

LinkSteps ==
  \/ bench = "stream" /\ Str!Next
  \/ bench = "sav" /\ Sav!Next
  \/ bench = "beq" /\ Pip!Next
  \/ bench = "dma" /\ Dma!Next
  \/ bench = "beqtxq" /\ Btq!Next
LinkNext == LinkSteps /\ LinkOthers
LinkSafety == LinkInit /\ [][LinkNext]_linkVars

-----------------------------------------------------------------------------
\* No queue of a bus outgrows its limit by more than a pause lets through, and
\* no transfer passes the monitor by.
QueuesBounded ==
  /\ bench = "stream" => Str!StrQueuesBounded /\ Str!StrMonitorSeesAll
  /\ bench = "sav" => Sav!SavSinkBounded

\* No sink has more than it can take, no transactor finds a packet in pieces or
\* a response that is another's.
NoBusAlarm ==
  /\ bench = "sav" => Sav!SavNoOverflow
  /\ bench = "beq" => Pip!PipNoFalseAlarm
  /\ bench = "dma" => Dma!DmaNoFalseAlarm

\* A bus or transactor that says it is idle has nothing left to do.
IdleIsIdle ==
  /\ bench = "stream" => Str!StrIdleIsDrained
  /\ bench = "sav" => Sav!SavIdleIsDrained
  /\ bench = "beq" => Pip!PipIdleIsIdle
  /\ bench = "dma" => Dma!DmaIdleIsIdle
  /\ bench = "beqtxq" => Btq!BtqNotForgotten

\* Each bus is a queue for its users whatever pauses and resets do: the wires
\* lose at most the item on them to a reset.
Wires == INSTANCE FifoLink WITH
  Items <- Nat, MaxLoss <- 1,
  chan <- IF bench = "stream" THEN Str!Chan ELSE IF bench = "sav" THEN Sav!Chan ELSE <<>>,
  out <- IF bench = "stream" THEN strOut ELSE IF bench = "sav" THEN savOut ELSE -1,
  rst <- IF bench = "stream" THEN strRst ELSE IF bench = "sav" THEN savRst ELSE TRUE
WiresAreFifos == Wires!Spec

\* A pair of transactors for whole packets is a queue for its users too, of which
\* a reset may lose all: no part of a packet is left behind.
Packets == INSTANCE FifoLink WITH
  Items <- Nat, MaxLoss <- 4 * Limit + 2,
  chan <- IF bench = "beq" THEN Pip!Chan ELSE <<>>,
  out <- IF bench = "beq" THEN pipOut ELSE -1,
  rst <- IF bench = "beq" THEN pipRst ELSE TRUE
PacketsAreFifos == Packets!Spec
=============================================================================
