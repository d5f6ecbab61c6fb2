------------------------------ MODULE DmaLoop ------------------------------
(* The DMA bus of the simulation: DmaMaster (sim/common/drivers/             *)
(* tlp_adap_dma_bus.py) against DmaRam (monitors/tlp_adap_dma_bus.py).       *)
(* Reads and writes go their own ways; a response is told by its place and   *)
(* its rd2rsp_loop tag.  Memory is one location that holds the number of the *)
(* last write; the wires are SavLink, with both queues of one as one queue.  *)
EXTENDS Integers, Sequences, SequencesExt, FiniteSets

CONSTANTS QMax,   \* room of every queue
          MaxOps, \* bound: reads and writes
          MaxResets, \* bound: resets
          Faulty  \* reads of these numbers hit an injected fault

VARIABLES dmaUsr, \* the user: next operation, writes known to be done, last read
          dmaWr,  \* DmaMasterWrite: command, response and result queues
          dmaRd,  \* DmaMasterRead
          dmaBus, \* the four channels
          dmaRam, \* DmaRam: memory, beats so far, response queues
          dmaAlarm
vars == <<dmaUsr, dmaWr, dmaRd, dmaBus, dmaRam, dmaAlarm>>

Init ==
  /\ dmaUsr = [next |-> 1, resets |-> 0, acked |-> 0, seen |-> 0, hit |-> FALSE]
  /\ dmaWr = [q |-> <<>>, cur |-> <<>>, cmd |-> <<>>, rspq |-> <<>>, res |-> <<>>]
  /\ dmaRd = [q |-> <<>>, cmd |-> <<>>, rspq |-> <<>>, part |-> <<>>, res |-> <<>>, flight |-> 0]
  /\ dmaBus = [wreq |-> <<>>, wrsp |-> <<>>, rreq |-> <<>>, rrsp |-> <<>>]
  /\ dmaRam = [mem |-> 0, part |-> <<>>, wput |-> <<>>, wrsp |-> <<>>, rq |-> <<>>, cur |-> <<>>]
  /\ dmaAlarm = FALSE

Beats(tag, n) == [i \in 1..n |-> [tag |-> tag, len |-> n, sop |-> i = 1, eop |-> i = n]]
Malformed(beat, part) == \/ beat.sop /\ part # <<>>
                         \/ beat.eop /\ ~beat.sop /\ part = <<>>
                         \/ beat.eop /\ Len(part) + 1 # beat.len
Room(q) == Len(q) < QMax

-----------------------------------------------------------------------------
(* Writes.                                                                   *)

WriteCall ==
  /\ dmaUsr.next <= MaxOps /\ Room(dmaWr.q)
  /\ \E n \in 1..2, rsp \in BOOLEAN :
       dmaWr' = [dmaWr EXCEPT !.q = Append(@, [tag |-> dmaUsr.next, len |-> n, rsp |-> rsp])]
  /\ dmaUsr' = [dmaUsr EXCEPT !.next = @ + 1]
  /\ UNCHANGED <<dmaRd, dmaBus, dmaRam, dmaAlarm>>
\* _process_write: beat by beat, then the command waits for its response.
WriteGet ==
  /\ dmaWr.cmd = <<>> /\ dmaWr.q # <<>>
  /\ LET cmd == Head(dmaWr.q)
     IN dmaWr' = [dmaWr EXCEPT !.q = Tail(@), !.cmd = <<cmd>>, !.cur = Beats(cmd.tag, cmd.len)]
  /\ UNCHANGED <<dmaUsr, dmaRd, dmaBus, dmaRam, dmaAlarm>>
WriteBeat ==
  /\ dmaWr.cur # <<>> /\ Room(dmaBus.wreq)
  /\ dmaBus' = [dmaBus EXCEPT !.wreq = Append(@, Head(dmaWr.cur))]
  /\ dmaWr' = [dmaWr EXCEPT !.cur = Tail(@)]
  /\ UNCHANGED <<dmaUsr, dmaRd, dmaRam, dmaAlarm>>
WriteSent ==
  /\ dmaWr.cmd # <<>> /\ dmaWr.cur = <<>> /\ Room(dmaWr.rspq)
  /\ dmaWr' = [dmaWr EXCEPT !.cmd = <<>>, !.rspq = @ \o dmaWr.cmd]
  /\ UNCHANGED <<dmaUsr, dmaRd, dmaBus, dmaRam, dmaAlarm>>
\* _process_write_resp.
WriteResp ==
  /\ dmaWr.rspq # <<>> /\ dmaBus.wrsp # <<>> /\ Room(dmaWr.res)
  /\ LET cmd == Head(dmaWr.rspq) tag == Head(dmaBus.wrsp)
     IN /\ dmaWr' = [dmaWr EXCEPT !.rspq = Tail(@), !.res = IF cmd.rsp THEN Append(@, tag) ELSE @]
        /\ dmaAlarm' = (tag # cmd.tag)
  /\ dmaBus' = [dmaBus EXCEPT !.wrsp = Tail(@)]
  /\ UNCHANGED <<dmaUsr, dmaRd, dmaRam>>
WriteRspGet ==
  /\ dmaWr.res # <<>>
  /\ dmaUsr' = [dmaUsr EXCEPT !.acked = Head(dmaWr.res)]
  /\ dmaWr' = [dmaWr EXCEPT !.res = Tail(@)]
  /\ UNCHANGED <<dmaRd, dmaBus, dmaRam, dmaAlarm>>

\* Mutant: a packet of one beat is acknowledged and not stored.
RamWriteLong ==
  /\ dmaBus.wreq # <<>> /\ dmaRam.wput = <<>>
  /\ LET beat == Head(dmaBus.wreq)
     IN /\ dmaAlarm' = Malformed(beat, dmaRam.part)
        /\ dmaRam' = IF beat.eop THEN [dmaRam EXCEPT !.part = <<>>, !.wput = <<beat.tag>>,
                                                     !.mem = IF beat.sop THEN @ ELSE beat.tag]
                     ELSE [dmaRam EXCEPT !.part = Append(@, beat)]
  /\ dmaBus' = [dmaBus EXCEPT !.wreq = Tail(@)]
  /\ UNCHANGED <<dmaUsr, dmaWr, dmaRd>>

\* DmaRam._process_write and _process_wr_resp.
RamWrite ==
  /\ dmaBus.wreq # <<>> /\ dmaRam.wput = <<>>
  /\ LET beat == Head(dmaBus.wreq)
     IN /\ dmaAlarm' = Malformed(beat, dmaRam.part)
        /\ dmaRam' = IF beat.eop THEN [dmaRam EXCEPT !.part = <<>>, !.mem = beat.tag, !.wput = <<beat.tag>>]
                     ELSE [dmaRam EXCEPT !.part = Append(@, beat)]
  /\ dmaBus' = [dmaBus EXCEPT !.wreq = Tail(@)]
  /\ UNCHANGED <<dmaUsr, dmaWr, dmaRd>>
RamWritten ==
  /\ dmaRam.wput # <<>> /\ Room(dmaRam.wrsp)
  /\ dmaRam' = [dmaRam EXCEPT !.wput = <<>>, !.wrsp = @ \o dmaRam.wput]
  /\ UNCHANGED <<dmaUsr, dmaWr, dmaRd, dmaBus, dmaAlarm>>
RamWriteRsp ==
  /\ dmaRam.wrsp # <<>> /\ Room(dmaBus.wrsp)
  /\ dmaBus' = [dmaBus EXCEPT !.wrsp = Append(@, Head(dmaRam.wrsp))]
  /\ dmaRam' = [dmaRam EXCEPT !.wrsp = Tail(@)]
  /\ UNCHANGED <<dmaUsr, dmaWr, dmaRd, dmaAlarm>>

-----------------------------------------------------------------------------
(* Reads.                                                                    *)

ReadCall ==
  /\ dmaUsr.next <= MaxOps /\ Room(dmaRd.q)
  /\ \E n \in 1..2 :
       dmaRd' = [dmaRd EXCEPT !.flight = @ + 1,
                   !.q = Append(@, [tag |-> dmaUsr.next, len |-> n, floor |-> dmaUsr.acked])]
  /\ dmaUsr' = [dmaUsr EXCEPT !.next = @ + 1]
  /\ UNCHANGED <<dmaWr, dmaBus, dmaRam, dmaAlarm>>
\* _process_read.
ReadReq ==
  /\ dmaRd.cmd = <<>> /\ dmaRd.q # <<>> /\ Room(dmaBus.rreq)
  /\ dmaBus' = [dmaBus EXCEPT !.rreq = Append(@, Head(dmaRd.q))]
  /\ dmaRd' = [dmaRd EXCEPT !.q = Tail(@), !.cmd = <<Head(dmaRd.q)>>]
  /\ UNCHANGED <<dmaUsr, dmaWr, dmaRam, dmaAlarm>>
ReadSent ==
  /\ dmaRd.cmd # <<>> /\ Room(dmaRd.rspq)
  /\ dmaRd' = [dmaRd EXCEPT !.cmd = <<>>, !.rspq = @ \o dmaRd.cmd]
  /\ UNCHANGED <<dmaUsr, dmaWr, dmaBus, dmaRam, dmaAlarm>>
\* _process_read_resp: the first beat must open and the last one close the
\* packet, and all carry the tag of the oldest command.
ReadResp ==
  /\ dmaRd.rspq # <<>> /\ dmaBus.rrsp # <<>> /\ Room(dmaRd.res)
  /\ LET cmd == Head(dmaRd.rspq)
         beat == Head(dmaBus.rrsp)
         i == Len(dmaRd.part) + 1
     IN /\ dmaAlarm' = (beat.tag # cmd.tag \/ (i = 1 /\ ~beat.sop) \/ (i = cmd.len /\ ~beat.eop))
        /\ dmaRd' = IF i < cmd.len THEN [dmaRd EXCEPT !.part = Append(@, beat)]
                    ELSE [dmaRd EXCEPT !.part = <<>>, !.rspq = Tail(@), !.flight = @ - 1,
                            !.res = Append(@, [cmd |-> cmd, data |-> beat.data, err |-> beat.err])]
  /\ dmaBus' = [dmaBus EXCEPT !.rrsp = Tail(@)]
  /\ UNCHANGED <<dmaUsr, dmaWr, dmaRam>>
ReadRspGet ==
  /\ dmaRd.res # <<>>
  /\ LET r == Head(dmaRd.res)
     IN dmaUsr' = [dmaUsr EXCEPT !.seen = IF r.err THEN @ ELSE r.data]
  /\ dmaRd' = [dmaRd EXCEPT !.res = Tail(@)]
  /\ UNCHANGED <<dmaWr, dmaBus, dmaRam, dmaAlarm>>

\* DmaRam._process_read and _process_rd_resp: memory is read when the latency
\* of the request has passed; a fault answers zeros and an error.
RamRead ==
  /\ dmaBus.rreq # <<>> /\ Room(dmaRam.rq)
  /\ dmaRam' = [dmaRam EXCEPT !.rq = Append(@, Head(dmaBus.rreq))]
  /\ dmaBus' = [dmaBus EXCEPT !.rreq = Tail(@)]
  /\ UNCHANGED <<dmaUsr, dmaWr, dmaRd, dmaAlarm>>
RamReadMem ==
  /\ dmaRam.cur = <<>> /\ dmaRam.rq # <<>>
  /\ LET r == Head(dmaRam.rq)
         err == r.tag \in Faulty
         beats == Beats(r.tag, r.len)
     IN dmaRam' = [dmaRam EXCEPT !.rq = Tail(@),
                     !.cur = [i \in 1..r.len |->
                                [tag |-> r.tag, sop |-> beats[i].sop, eop |-> beats[i].eop, err |-> err,
                                 data |-> IF err THEN 0 ELSE dmaRam.mem]]]
  /\ UNCHANGED <<dmaUsr, dmaWr, dmaRd, dmaBus, dmaAlarm>>
RamReadRsp ==
  /\ dmaRam.cur # <<>> /\ Room(dmaBus.rrsp)
  /\ dmaBus' = [dmaBus EXCEPT !.rrsp = Append(@, Head(dmaRam.cur))]
  /\ dmaRam' = [dmaRam EXCEPT !.cur = Tail(@)]
  /\ UNCHANGED <<dmaUsr, dmaWr, dmaRd, dmaAlarm>>

-----------------------------------------------------------------------------
\* Reset.  A write command that is flushed has no event to look at, which
\* raises; write responses the sink has already received stay in its queue.
Reset ==
  /\ dmaUsr.resets < MaxResets
  /\ \E kept \in 0..Len(dmaBus.wrsp) :
       /\ dmaBus' = [wreq |-> <<>>, wrsp |-> SubSeq(dmaBus.wrsp, 1, kept), rreq |-> <<>>, rrsp |-> <<>>]
       /\ LET flushed == dmaWr.q \o dmaWr.cmd \o dmaWr.rspq
          IN /\ dmaAlarm' = (flushed # <<>>)
             /\ dmaUsr' = [dmaUsr EXCEPT !.resets = @ + 1, !.hit = flushed # <<>> \/ kept > 0]
  /\ dmaWr' = [dmaWr EXCEPT !.q = <<>>, !.cur = <<>>, !.cmd = <<>>, !.rspq = <<>>, !.res = <<>>]
  /\ dmaRd' = [dmaRd EXCEPT !.q = <<>>, !.cmd = <<>>, !.rspq = <<>>, !.part = <<>>, !.flight = 0]
  /\ dmaRam' = [dmaRam EXCEPT !.part = <<>>, !.wput = <<>>, !.wrsp = <<>>, !.rq = <<>>, !.cur = <<>>]

User == WriteCall \/ WriteRspGet \/ ReadCall \/ ReadRspGet
Master == WriteGet \/ WriteBeat \/ WriteSent \/ WriteResp \/ ReadReq \/ ReadSent \/ ReadResp
Ram == RamWrite \/ RamWritten \/ RamWriteRsp \/ RamRead \/ RamReadMem \/ RamReadRsp
Next == ~dmaAlarm /\ (User \/ Master \/ Ram \/ Reset)
Spec == Init /\ [][Next]_vars

-----------------------------------------------------------------------------
\* No check fails, and no reset raises that comes while no write is on its way.
DmaNoFalseAlarm == dmaAlarm => dmaUsr.hit

\* A read returns what memory held between its call and its return: at least
\* the writes whose response the user had got when it called, and never less
\* than an earlier read.
DmaReadsFresh ==
  dmaRd.res # <<>> /\ dmaRd'.res # dmaRd.res =>
    \A i \in DOMAIN dmaRd.res :
      LET r == dmaRd.res[i]
      IN ~r.err => r.data >= r.cmd.floor /\ r.data >= dmaUsr.seen /\ r.data <= dmaRam.mem

\* Nothing is left over: when all is answered, the queues of commands are empty.
DmaIdleIsIdle == dmaRd.flight = Len(dmaRd.q) + Len(dmaRd.cmd) + Len(dmaRd.rspq)
\* When there are no more calls, all will be answered.
DmaAnswered == dmaAlarm \/ (dmaUsr.next > MaxOps => dmaRd.flight = 0 /\ dmaWr.rspq = <<>>)
=============================================================================
