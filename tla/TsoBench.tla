----------------------------- MODULE TsoBench -----------------------------
(* The bench of the segmentation and checksum unit, sim/test_tso_csum: a     *)
(* packet is built with an error in one of its 32 byte beats or none, sent   *)
(* through VionettxMaster, and taken apart by process_network_packet, whose  *)
(* pieces are compared with what the unit sends on.  A packet is the lengths *)
(* of its parts; a piece is the range of bytes it carries.                   *)
EXTENDS Integers, Sequences, SequencesExt, FiniteSets, FiniteSetsExt

CONSTANTS Plans,   \* the tests: a sequence of packets, each with the parameters of vio_net_req
                   \* [eth, ver, proto, opt, trans, lenErr, vio, flags, gsoType, gso, err, tso, csum,
                   \* len, seqRoom, end]; seqRoom: bytes left before the sequence number wraps
          MstMax, ProMax, \* sizes of chn_queue (8) and net_pro2rsp_queue (32)
          Wrong,   \* bytes of a piece that a wrong unit may change
          BeatMax  \* bound: an error is in one of the first beats or in the last one

VARIABLES tsoPlan, \* packets still to send
          tsoQ,    \* chn_queue, net_req2rsp_queue, net_pro2rsp_queue, the unit's output
          tsoCnt,  \* real_cnt, rsp_pkt_cnt, the end of _process_beq_rsp
          tsoAlarm,\* an assertion failed, on a changed byte ("caught") or on none ("false"), or a
                   \* function raised ("raise")
          tsoMiss  \* changed bytes the comparison let pass, with the way it compared
vars == <<tsoPlan, tsoQ, tsoCnt, tsoAlarm, tsoMiss>>

Init ==
  /\ tsoPlan \in Plans
  /\ tsoQ = [mst |-> <<>>, req |-> <<>>, pend |-> <<>>, pro |-> <<>>, out |-> <<>>]
  /\ tsoCnt = [real |-> 0, rsp |-> 1, over |-> FALSE]
  /\ tsoAlarm = "none" /\ tsoMiss = {}

-----------------------------------------------------------------------------
(* build_network_packet and build_vio_nettx_packet.                          *)

VioLen == 12
BeatLen == 32
Beats(bytes) == (bytes + BeatLen - 1) \div BeatLen
EthLen(p) == CASE p.eth = 0 -> 14 [] p.eth = 1 -> 18 [] p.eth = 2 -> 22
IpLen(p) == IF p.ver = 6 THEN 40 ELSE IF p.opt = 1 THEN 24 ELSE 20
TransLen(p) == CASE p.proto = "tcp" -> IF p.trans = 1 THEN 32 ELSE 20
                 [] p.proto \in {"udp", "icmp"} -> 8
HdrLen(p) == EthLen(p) + IpLen(p) + TransLen(p)
PayloadLen(p) == Max({0, p.len - VioLen - HdrLen(p)})
DataLen(p) == IF p.vio = 1 THEN VioLen + HdrLen(p) + PayloadLen(p) ELSE p.len

\* The beat that is in error, the region it is in (1 header, 2 header and
\* payload, 3 payload, 4 random data) and where it begins in the payload.
ErrBeats(p) == IF p.err = 0 THEN {0} ELSE {b \in 0..Beats(p.len) - 1 : b < BeatMax \/ b = Beats(p.len) - 1}
Region(p, beat) ==
  LET hdr == HdrLen(p) + VioLen
  IN CASE p.err = 0 -> 0
       [] p.err = 1 /\ p.vio = 0 -> 4
       [] p.err = 1 /\ p.vio = 1 -> IF (beat + 1) * BeatLen <= hdr THEN 1
                                    ELSE IF beat * BeatLen < hdr THEN 2 ELSE 3
Relative(p, beat) == IF p.err = 0 THEN 0 ELSE beat * BeatLen - (HdrLen(p) + VioLen)
Crosses(p, beat) ==
  LET start == Relative(p, beat)
      end == start + Min({BeatLen, PayloadLen(p) - start})
  IN Region(p, beat) = 3 /\ start \div p.gso # (end - 1) \div p.gso

-----------------------------------------------------------------------------
(* process_network_packet: the pieces of a packet, of its payload when it is *)
(* segmented and of its data otherwise.  flag: sop 2, eop 1, both 3.         *)

\* Both conditions ask for this much: an IP packet whose lengths are right.
Parsable(p) == p.lenErr = 0 /\ p.vio = 1 /\ p.eth \in {0, 1} /\ p.opt = 0
GsoMatches(p) == (p.gsoType = 1 /\ p.ver = 4) \/ (p.gsoType = 4 /\ p.ver = 6)
Segmentable(p) == Parsable(p) /\ p.tso = 1 /\ GsoMatches(p) /\ p.proto = "tcp"
TsoApplies(p, region) ==
  Segmentable(p) /\ (p.err = 0 \/ region = 3) /\ p.len >= 160 /\ p.gso >= 128
CsumApplies(p) == Parsable(p) /\ p.err = 0 /\ p.csum = 1 /\ p.flags = 1 /\ p.proto \in {"tcp", "udp"}
ErrApplies(p, region) ==
  \/ p.lenErr = 1 /\ p.vio = 1 /\ p.eth \in {0, 1}
  \/ region \in {1, 2, 4} /\ p.err = 1
  \/ ~Segmentable(p) /\ region = 3
  \/ p.len < 13

\* The payload in steps of gso_size; id and seq go up with it, and FIN and PSH
\* stay in the last segment.
Segment(p, i, n) ==
  [from |-> (i - 1) * p.gso, to |-> Min({i * p.gso, PayloadLen(p)}), id |-> i - 1, seq |-> (i - 1) * p.gso,
   fin |-> i = n, vflags |-> 0, flag |-> 3, len |-> HdrLen(p) + Min({i * p.gso, PayloadLen(p)}) - (i - 1) * p.gso]
Segments(p) == LET n == (PayloadLen(p) + p.gso - 1) \div p.gso IN [i \in 1..n |-> Segment(p, i, n)]
\* The segments the error is in are popped at one index, once or twice.
Pops(p, beat, segs) ==
  LET at == Relative(p, beat) \div p.gso + 1
  IN IF p.err = 0 THEN segs
     ELSE IF Crosses(p, beat) THEN RemoveAt(RemoveAt(segs, at), at) ELSE RemoveAt(segs, at)

MaxPiece == 32768
Piece(from, to, vflags, flag) ==
  [from |-> from, to |-> to, id |-> 0, seq |-> 0, fin |-> TRUE, vflags |-> vflags, flag |-> flag, len |-> to - from]
\* split_packet, of what is longer than MaxPiece, with the virtio header.
Split(bytes, vflags) ==
  [k \in 1..(bytes + MaxPiece - 1) \div MaxPiece |->
    LET start == (k - 1) * MaxPiece
        end == Min({start + MaxPiece, bytes})
    IN Piece(IF start = 0 THEN VioLen ELSE start, end, vflags,
             IF start = 0 THEN 2 ELSE IF end >= bytes THEN 1 ELSE 0)]
Whole(p, vflags) ==
  IF DataLen(p) > MaxPiece THEN Split(DataLen(p), vflags) ELSE <<Piece(VioLen, DataLen(p), vflags, 3)>>
Reference(p, beat) ==
  LET region == Region(p, beat)
  IN IF TsoApplies(p, region) THEN Pops(p, beat, Segments(p))
     ELSE IF CsumApplies(p) THEN Whole(p, 0)
     ELSE IF ErrApplies(p, region) THEN <<>>
     ELSE Whole(p, p.flags)
\* A sequence number past 2^32 does not go into its field.
SeqOverflows(p, beat) ==
  TsoApplies(p, Region(p, beat)) /\ \E i \in DOMAIN Segments(p) : Segments(p)[i].seq >= p.seqRoom

-----------------------------------------------------------------------------
(* The unit (external): it sends on the segments no beat of which is in      *)
(* error, drops any other packet with an error, and may change one byte.     *)

Touched(p, beat, seg) ==
  p.err = 1 /\ LET start == beat * BeatLen - VioLen - HdrLen(p)
               IN seg.from < start + BeatLen /\ start < seg.to
HwPieces(p, beat) ==
  IF TsoApplies(p, Region(p, beat))
  THEN SelectSeq(Segments(p), LAMBDA seg : ~Touched(p, beat, seg))
  ELSE IF p.err = 1 \/ (p.lenErr = 1 /\ p.vio = 1 /\ p.eth # 2) \/ DataLen(p) <= VioLen THEN <<>>
  ELSE LET n == Beats(DataLen(p)) \div (MaxPiece \div BeatLen)
               + (IF Beats(DataLen(p)) % (MaxPiece \div BeatLen) = 0 THEN 0 ELSE 1)
           vflags == IF CsumApplies(p) THEN 0 ELSE p.flags
       IN [k \in 1..n |-> Piece(IF k = 1 THEN VioLen ELSE (k - 1) * MaxPiece, Min({k * MaxPiece, DataLen(p)}),
                                vflags, (IF k = 1 THEN 2 ELSE 0) + (IF k = n THEN 1 ELSE 0))]
Changes(pieces) == {[piece |-> 0, byte |-> 0]}
  \cup {c \in [piece : {1, Len(pieces)} \cap DOMAIN pieces, byte : Wrong] : c.byte <= pieces[c.piece].len}
Sent(pieces, c) == [i \in DOMAIN pieces |-> [piece |-> pieces[i], bad |-> IF i = c.piece THEN c.byte ELSE 0]]

-----------------------------------------------------------------------------
(* compare_network_packet.                                                   *)

\* compare_data_in_256bit_chunks: the index of the first chunk that differs, 0
\* when none does and also when it is the first one; -1 for another length.  Bytes
\* from elsewhere in the packet differ in every chunk.
\* Mutant: the headers are taken for two chunks.
ChunkIdxHeaders(got, bad, ref) ==
  IF got.len # ref.len THEN -1
  ELSE IF got.from # ref.from THEN Beats(got.len) - 1
  ELSE IF bad <= 2 * BeatLen THEN 0 ELSE (bad - 1) \div BeatLen
ChunkIdx(got, bad, ref) ==
  IF got.len # ref.len THEN -1
  ELSE IF got.from # ref.from THEN Beats(got.len) - 1
  ELSE IF bad = 0 THEN 0 ELSE (bad - 1) \div BeatLen
\* Whether the headers are compared field by field.
Parsed(p, flag) ==
  /\ p.vio = 1 /\ (p.tso = 1 \/ p.csum = 1) /\ p.eth \in {0, 1} /\ p.opt = 0 /\ flag \in {2, 3}
  /\ \/ GsoMatches(p) /\ p.proto = "tcp"
     \/ p.flags = 1 /\ p.proto \in {"tcp", "udp"} /\ ~GsoMatches(p)
\* The four comparisons of a parsed piece.
EthDiffers(p, bad) == bad \in 1..EthLen(p)
IpDiffers(p, got, bad, ref) == bad \in EthLen(p) + 1..EthLen(p) + IpLen(p) \/ got.id # ref.id \/ got.len # ref.len
TransDiffers(p, got, bad, ref) ==
  bad \in EthLen(p) + IpLen(p) + 1..HdrLen(p) \/ got.seq # ref.seq \/ got.fin # ref.fin
PayloadDiffers(p, bad) == bad > HdrLen(p) + BeatLen
Differs(p, got, bad, ref) ==
  \/ ChunkIdx(got, bad, ref) # 0
  \/ Parsed(p, ref.flag) /\ (EthDiffers(p, bad) \/ IpDiffers(p, got, bad, ref)
                             \/ TransDiffers(p, got, bad, ref) \/ PayloadDiffers(p, bad))

-----------------------------------------------------------------------------
(* The coroutines of the test.                                               *)

Running == tsoAlarm = "none" /\ ~tsoCnt.over

\* vio_net_req; VionettxMaster.send queues the packet.
VioNetReq ==
  /\ Running /\ tsoPlan # <<>> /\ Len(tsoQ.mst) < MstMax
  /\ \E beat \in ErrBeats(Head(tsoPlan)) :
       LET r == [p |-> Head(tsoPlan), beat |-> beat]
       IN tsoQ' = [tsoQ EXCEPT !.mst = Append(@, r), !.req = Append(@, r)]
  /\ tsoPlan' = Tail(tsoPlan) /\ UNCHANGED <<tsoCnt, tsoAlarm, tsoMiss>>
\* VionettxMaster._process puts the packet on the bus, beat by beat.
MasterProcess ==
  /\ Running /\ tsoQ.mst # <<>>
  /\ LET r == Head(tsoQ.mst)
         pieces == HwPieces(r.p, r.beat)
     IN \E c \in Changes(pieces) :
          tsoQ' = [tsoQ EXCEPT !.mst = Tail(@), !.out = @ \o Sent(pieces, c)]
  /\ UNCHANGED <<tsoPlan, tsoCnt, tsoAlarm, tsoMiss>>

\* _process_net_req_process counts a piece and then waits for room for it.
NetReqProcess ==
  /\ Running /\ tsoQ.req # <<>> /\ tsoQ.pend = <<>>
  /\ LET r == Head(tsoQ.req)
         pieces == Reference(r.p, r.beat)
     IN /\ tsoQ' = [tsoQ EXCEPT !.req = Tail(@), !.pend = [i \in DOMAIN pieces |-> [p |-> r.p, piece |-> pieces[i]]]]
        /\ tsoCnt' = [tsoCnt EXCEPT !.real = @ + Min({1, Len(pieces)})]
        /\ tsoAlarm' = IF SeqOverflows(r.p, r.beat) THEN "raise" ELSE tsoAlarm
  /\ UNCHANGED <<tsoPlan, tsoMiss>>
\* Mutant: only the first piece of a packet is counted.
PutPieceUncounted ==
  /\ Running /\ tsoQ.pend # <<>> /\ Len(tsoQ.pro) < ProMax
  /\ tsoQ' = [tsoQ EXCEPT !.pend = Tail(@), !.pro = Append(@, Head(tsoQ.pend))]
  /\ UNCHANGED <<tsoPlan, tsoAlarm, tsoMiss, tsoCnt>>
PutPiece ==
  /\ Running /\ tsoQ.pend # <<>> /\ Len(tsoQ.pro) < ProMax
  /\ tsoQ' = [tsoQ EXCEPT !.pend = Tail(@), !.pro = Append(@, Head(tsoQ.pend))]
  /\ tsoCnt' = [tsoCnt EXCEPT !.real = @ + Min({1, Len(tsoQ.pend) - 1})]
  /\ UNCHANGED <<tsoPlan, tsoAlarm, tsoMiss>>

\* _process_beq_rsp.
BeqRsp ==
  /\ Running /\ tsoQ.out # <<>> /\ tsoQ.pro # <<>>
  /\ LET got == Head(tsoQ.out)
         ref == Head(tsoQ.pro)
         bad == \/ Differs(ref.p, got.piece, got.bad, ref.piece)
                \/ got.piece.flag # ref.piece.flag \/ got.piece.vflags # ref.piece.vflags
     IN /\ tsoAlarm' = IF ~bad THEN tsoAlarm ELSE IF got.bad = 0 THEN "false" ELSE "caught"
        /\ tsoMiss' = IF bad \/ got.bad = 0 THEN tsoMiss
                      ELSE tsoMiss \cup {[byte |-> got.bad, parsed |-> Parsed(ref.p, ref.piece.flag)]}
        /\ tsoCnt' = [tsoCnt EXCEPT !.rsp = @ + 1, !.over = ref.p.end /\ tsoCnt.rsp = tsoCnt.real]
  /\ tsoQ' = [tsoQ EXCEPT !.out = Tail(@), !.pro = Tail(@)]
  /\ UNCHANGED tsoPlan

Next == VioNetReq \/ MasterProcess \/ NetReqProcess \/ PutPiece \/ BeqRsp
Spec == Init /\ [][Next]_vars

-----------------------------------------------------------------------------
\* An assertion of the test that fails has found a byte the unit changed: the
\* pieces of the bench are those of a right unit, in its order.
TsoNoFalseAlarm == tsoAlarm # "false"

\* What the comparison lets pass is in the first chunk of a piece whose headers
\* it does not look at.
TsoMissesFirst == \A m \in tsoMiss : ~m.parsed /\ m.byte <= BeatLen

\* The checker stops after the last piece of the last packet, not before, and
\* it does stop.
TsoStopsLast ==
  tsoCnt.over => /\ tsoPlan = <<>> /\ tsoQ.pend = <<>> /\ tsoQ.pro = <<>> /\ tsoQ.out = <<>>
                 /\ tsoQ.req = <<>> /\ tsoQ.mst = <<>>
TsoOver == tsoAlarm # "none" \/ tsoCnt.over
=============================================================================
