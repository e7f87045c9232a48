---------------------------- MODULE H264Packets ----------------------------
(***************************************************************************)
(* How src/spook/rtp-h263.c cuts a frame from the H.264 encoder into NAL   *)
(* units and RTP packets, and how send_rtp_packet of rtp.c numbers them,   *)
(* for one endpoint.  Packets get lost: the network may lose one of a UDP  *)
(* endpoint, and one that does not fit into the send buffer of an          *)
(* interleaved endpoint ends h263_send.  The client puts NAL units         *)
(* together again by the rules of RFC 6184, with what the packets say.     *)
(*                                                                         *)
(* The encoder is external.  Its frames are NAL units behind start codes   *)
(* of four bytes, without start codes in them (it inserts a 3 after two    *)
(* zeros) and not ending in zero; one frame has one slice, its last unit,  *)
(* and the units before it - parameter sets and SEI - fit into a packet    *)
(* (EncoderAssumption).                                                    *)
(***************************************************************************)
EXTENDS Integers, SequencesExt, FiniteSetsExt

CONSTANTS Frames,     \* sequences of NAL units, which are sequences of bytes
          MaxPkt,     \* MAX_RTP_PKT_LENGTH
          SeqNums,     \* sequence numbers, 2^16
          MaxLost,    \* bound: packets lost in a row
          NULL

ASSUME H264Assumption == /\ MaxPkt \in Nat \ {0} /\ MaxLost \in Nat
                         /\ SeqNums \in Nat /\ SeqNums > MaxLost + 1

Byte == 0..255
Fragment == [s : {0, 1}, e : {0, 1}, type : 0..31]   \* an FU header

(* The parts of the byte that begins a unit. *)
F(byte) == byte \div 128
Nri(byte) == (byte \div 32) % 4
Type(byte) == byte % 32

NotSlices == {6, 7, 8}     \* SEI, sequence and picture parameters

(* External: what the encoder makes. *)
Encoded(f) ==
    /\ f \in Seq(Seq(Byte)) /\ f # <<>>
    /\ \A i \in DOMAIN f :
         LET u == f[i] IN
         /\ u # <<>> /\ u[Len(u)] # 0
         /\ \A k \in 1..(Len(u) - 2) : u[k] = 0 /\ u[k + 1] = 0 => u[k + 2] = 3
         /\ Type(u[1]) \in NotSlices <=> i < Len(f)
         /\ i < Len(f) => Len(u) <= MaxPkt + 1

ASSUME EncoderAssumption == \A f \in Frames : Encoded(f)
ASSUME H264NullAssumption ==
    NULL \notin Seq(Byte) /\ NULL \notin Int /\ NULL \notin Fragment

VARIABLES
    d,         \* the frame, out->d
    used,      \* uiDecodeUsed
    stream,    \* the NAL unit with its start code, h264BS.pStream
    remain,    \* s32NaluRemain
    seqnum,    \* ep->seqnum
    pc,        \* where h263_send is
    \* the client: last sequence number, fragments so far, units of this frame
    last, part, got,
    \* history: the units of the frame, whether a packet of it has not arrived,
    \* packets lost since the last that arrived, whether one had the marker
    nals, whole, lost, marked

sendVars == <<d, used, stream, remain>>
vars == <<sendVars, seqnum, pc, last, part, got, nals, whole, lost, marked>>

StartCode == <<0, 0, 0, 1>>
AnnexB(units) == FlattenSeq([i \in DOMAIN units |-> StartCode \o units[i]])

TypeOK ==
    /\ d \in Seq(Byte)
    /\ used \in 0..Len(d) /\ Len(stream) <= Len(d) /\ remain <= Len(stream)
    /\ seqnum \in 0..(SeqNums - 1) /\ last \in (0..(SeqNums - 1)) \cup {NULL}
    /\ pc \in {"idle", "nalu", "send", "gone"}
    /\ Len(got) <= Len(nals)
    /\ whole \in BOOLEAN /\ marked \in BOOLEAN /\ lost \in 0..MaxLost

Init ==
    /\ d = <<>> /\ used = 0 /\ stream = <<>> /\ remain = 0
    /\ seqnum \in 0..(SeqNums - 1)
    /\ last = NULL /\ part = NULL /\ got = <<>> /\ lost = 0
    /\ pc = "idle"
    /\ nals = <<>> /\ whole = FALSE /\ marked = FALSE

-----------------------------------------------------------------------------
(* The zeros before position i of s, from position offset on.  Positions   *)
(* count from 0, as in the code.                                           *)
numZeros(s, offset, i) ==
    Max({n \in 0..(i - offset) : \A k \in (i - n)..(i - 1) : s[k + 1] = 0})

(* The first 1 behind two or more zeros, and where these begin; length 0   *)
(* when there is none.                                                     *)
findStartCode_2(s, offset) ==
    LET found == {i \in offset..(Len(s) - 1) :
                     s[i + 1] = 1 /\ numZeros(s, offset, i) > 1}
        i == Min(found)
        n == numZeros(s, offset, i)
    IN  IF found = {} THEN [pos |-> Len(s), len |-> 0]
        ELSE [pos |-> i - n, len |-> n + 1]

(* The bytes of s up to the next start code, or all; NULL (the code's      *)
(* JK_H264DEC_ERR_BADBS) when s has none.                                  *)
JK_BitStreamLoadNALU_FM(s) ==
    LET first == findStartCode_2(s, 0)
        second == findStartCode_2(s, first.len)
    IN  IF first.len = 0 THEN NULL
        ELSE IF second.len # 0 THEN SubSeq(s, 1, second.pos - first.pos)
        ELSE s

-----------------------------------------------------------------------------
(* External: the client.  A packet without fragment header is a unit; of   *)
(* fragments it wants the first, all and the last.                         *)
Gap == last # NULL /\ seqnum # (last + 1) % SeqNums

(* What there is of a unit with this packet, NULL when a part is missing. *)
Begun(p) ==
    IF p.fu = NULL THEN <<p.f * 128 + p.nri * 32 + p.type>> \o p.data
    ELSE IF p.fu.s = 1 THEN <<p.f * 128 + p.nri * 32 + p.fu.type>> \o p.data
    ELSE IF part = NULL \/ Gap THEN NULL ELSE part \o p.data

Ends(p) == p.fu = NULL \/ p.fu.e = 1

Receive(p) ==
    /\ last' = seqnum
    /\ part' = IF Ends(p) THEN NULL ELSE Begun(p)
    /\ got' = IF Ends(p) /\ Begun(p) # NULL THEN Append(got, Begun(p)) ELSE got

(* Slip: a packet that is not sent uses no number. *)
send_rtp_packet_keeps(p, next) ==
    /\ marked' = (marked \/ p.marker)
    /\ UNCHANGED nals
    /\ \/ Receive(p) /\ lost' = 0 /\ UNCHANGED whole
          /\ seqnum' = (seqnum + 1) % SeqNums /\ pc' = next
       \/ /\ lost < MaxLost /\ lost' = lost + 1 /\ whole' = FALSE
          /\ UNCHANGED <<last, part, got>>
          /\ \/ pc' = next /\ seqnum' = (seqnum + 1) % SeqNums
             \/ pc' = "idle" /\ UNCHANGED seqnum
       \/ pc' = "gone" /\ UNCHANGED <<seqnum, last, part, got, whole, lost>>

(* The packet arrives, or is lost: on its way, or - h263_send then returns *)
(* - because an interleaved connection has no room.  When sendmsg or the   *)
(* RTCP report behind it fails, the endpoint is torn down.  (A UDP         *)
(* endpoint meets the one loss and an interleaved one the other, here any  *)
(* endpoint both.)                                                         *)
send_rtp_packet(p, next) ==
    /\ marked' = (marked \/ p.marker)
    /\ UNCHANGED nals
    /\ \/ Receive(p) /\ lost' = 0 /\ UNCHANGED whole
          /\ seqnum' = (seqnum + 1) % SeqNums /\ pc' = next
       \/ /\ lost < MaxLost /\ lost' = lost + 1 /\ whole' = FALSE
          /\ UNCHANGED <<last, part, got>>
          /\ seqnum' = (seqnum + 1) % SeqNums /\ pc' \in {next, "idle"}
       \/ pc' = "gone" /\ UNCHANGED <<seqnum, last, part, got, whole, lost>>

-----------------------------------------------------------------------------
(* h263_process_frame, and h263_send begins. *)
h263_process_frame(f) ==
    /\ pc = "idle" /\ pc' = "nalu"
    /\ d' = AnnexB(f) /\ used' = 0 /\ stream' = <<>> /\ remain' = 0
    /\ nals' = f /\ whole' = TRUE /\ got' = <<>> /\ marked' = FALSE
    /\ UNCHANGED <<seqnum, last, part, lost>>

(* The head of h263_send's loop: the next unit, or the end. *)
h263_send_load ==
    LET unit == JK_BitStreamLoadNALU_FM(SubSeq(d, used + 1, Len(d)))
    IN  /\ pc = "nalu" /\ used < Len(d) /\ unit # NULL
        /\ pc' = "send"
        /\ stream' = unit /\ used' = used + Len(unit)
        /\ remain' = Len(unit) - 5
        /\ UNCHANGED <<d, seqnum, last, part, got, nals, whole, lost, marked>>

h263_send_return ==
    /\ pc = "nalu"
    /\ \/ used >= Len(d)
       \/ JK_BitStreamLoadNALU_FM(SubSeq(d, used + 1, Len(d))) = NULL
    /\ pc' = "idle"
    /\ UNCHANGED <<sendVars, seqnum, last, part, got, nals, whole, lost, marked>>

header == stream[5]

(* A fragmented unit has had its first fragment: fewer bytes remain than   *)
(* the unit has.                                                           *)
Fragmented == remain # Len(stream) - 5

(* A short unit goes into one packet.  Parameter sets and SEI do not end a *)
(* frame.                                                                  *)
h263_send_single ==
    /\ pc = "send" /\ ~Fragmented /\ remain <= MaxPkt
    /\ send_rtp_packet([f |-> F(header), nri |-> Nri(header), type |-> Type(header),
                        fu |-> NULL, data |-> SubSeq(stream, 6, Len(stream)),
                        marker |-> Type(header) \notin NotSlices], "nalu")
    /\ UNCHANGED sendVars

(* Slip: a last fragment of full length is not seen to be the last. *)
h263_send_fragment_short ==
    /\ pc = "send" /\ (Fragmented \/ remain > MaxPkt)
    /\ LET from == Len(stream) - remain
           fin == remain < MaxPkt
       IN  send_rtp_packet(
             [f |-> F(header), nri |-> Nri(header), type |-> 28,
              fu |-> [s |-> IF Fragmented THEN 0 ELSE 1,
                      e |-> IF fin THEN 1 ELSE 0, type |-> Type(header)],
              data |-> SubSeq(stream, from + 1, from + Min({remain, MaxPkt})),
              marker |-> fin],
             IF remain - MaxPkt > 0 THEN "send" ELSE "nalu")
    /\ remain' = remain - MaxPkt
    /\ UNCHANGED <<d, used, stream>>

(* A long unit goes, without its first byte, into fragments of MaxPkt      *)
(* bytes.  The last one ends the unit and the frame.                       *)
h263_send_fragment ==
    /\ pc = "send" /\ (Fragmented \/ remain > MaxPkt)
    /\ LET from == Len(stream) - remain
           fin == remain <= MaxPkt
       IN  send_rtp_packet(
             [f |-> F(header), nri |-> Nri(header), type |-> 28,
              fu |-> [s |-> IF Fragmented THEN 0 ELSE 1,
                      e |-> IF fin THEN 1 ELSE 0, type |-> Type(header)],
              data |-> SubSeq(stream, from + 1, from + Min({remain, MaxPkt})),
              marker |-> fin],
             IF remain - MaxPkt > 0 THEN "send" ELSE "nalu")
    /\ remain' = remain - MaxPkt
    /\ UNCHANGED <<d, used, stream>>

(* Another client's endpoint in place of the one torn down.  Its first     *)
(* number is random.                                                       *)
new_rtp_endpoint ==
    /\ pc = "gone" /\ pc' = "idle"
    /\ seqnum' \in 0..(SeqNums - 1)
    /\ last' = NULL /\ part' = NULL /\ got' = <<>> /\ lost' = 0
    /\ nals' = <<>> /\ whole' = FALSE /\ marked' = FALSE
    /\ UNCHANGED sendVars

Next == \/ \E f \in Frames : h263_process_frame(f)
        \/ h263_send_load \/ h263_send_return
        \/ h263_send_single \/ h263_send_fragment
        \/ new_rtp_endpoint

Spec == Init /\ [][Next]_vars

-----------------------------------------------------------------------------
(* The sequence s is some of the first k units of the frame, in order. *)
SomeOf(s, k) ==
    \E at \in [1..Len(s) -> 1..k] :
      /\ \A i, j \in 1..Len(s) : i < j => at[i] < at[j]
      /\ \A i \in 1..Len(s) : s[i] = nals[at[i]]

(* The client puts together the units the encoder made, in their order and *)
(* none out of parts of several, whatever packets it misses; and all of    *)
(* them when it misses none.  This takes the search for start codes, the   *)
(* split of the first byte, and the fragments' bounds and flags together.  *)
(* And it finds the end of a frame: the marker is on its last packet and   *)
(* on no other.  (A unit other than a slice would get one too if it did    *)
(* not fit into a packet.)                                                 *)
UnitsRebuilt ==
    /\ TypeOK
    /\ SomeOf(got, Len(nals))
    /\ pc = "idle" /\ whole => got = nals /\ marked
    /\ marked => pc # "send" /\ (pc = "nalu" => used >= Len(d))

(* The client can tell from the numbers that something is missing, also    *)
(* when h263_send gave up in the middle of a frame and went on with the    *)
(* next.                                                                   *)
LossIsVisible ==
    last # NULL /\ pc # "gone" => (lost > 0 <=> seqnum # (last + 1) % SeqNums)

=============================================================================
