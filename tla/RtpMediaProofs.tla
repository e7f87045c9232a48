--------------------------- MODULE RtpMediaProofs ---------------------------
(***************************************************************************)
(* What goes into RTP, for every value of the constants.                   *)
(*                                                                         *)
(* The audio path keeps blocks, samples and timestamps in order, for every *)
(* block length, every ring of at least two blocks and every correction.   *)
(* The sequence numbers of the video track show every loss, and the client *)
(* puts the units of every frame together again, of those that arrive.     *)
(***************************************************************************)
EXTENDS H264Packets, AudioPath, SequenceTheorems, WellFoundedInduction, TLAPS

(***************************************************************************)
(* The audio path.                                                         *)
(***************************************************************************)
(* How many blocks the ring holds. *)
N == buflen \div FrameLen

(* A queued frame. *)
Block == [d : 0..(buflen - 1), no : Nat, data : [1..FrameLen -> Nat]]

AudioTypeOK ==
    /\ buf \in [0..(buflen - 1) -> Nat] /\ put \in Seq(Nat) /\ queue \in Seq(Block)
    /\ i_r \in Nat /\ i_w \in Nat /\ avail \in 0..(FrameLen - 1)
    /\ adjust_rate \in Int /\ adjust_count \in Int
    /\ nread \in Nat /\ correction \in Int /\ blocks \in Nat
    /\ apc \in {"idle", "encode", "send"} /\ alaw \in Seq(Nat)
    /\ timestamp \in Nat /\ rawaudio_len \in Nat /\ off \in Nat
    /\ max_data_size \in Nat \ {0} /\ played \in Nat

(* The ring: a block never goes round its end, so writing is avail ahead   *)
(* of reading; what lies between is the newest part of the sample stream.  *)
RingInv ==
    /\ \E r \in 0..(N - 1) : i_r = r * FrameLen
    /\ i_w = i_r + avail
    /\ Len(put) = blocks * FrameLen + avail
    /\ Len(put) = nread + correction
    /\ \A k \in 1..avail : buf[i_r + k - 1] = put[blocks * FrameLen + k]

(* A frame is a piece of the sample stream.  While fewer blocks have been  *)
(* completed, itself included, than the ring holds it is still where it    *)
(* was recorded, and the thread reads that many blocks ahead of it.        *)
Good(f) ==
    /\ f \in Block
    /\ f.no < blocks
    /\ f.d + FrameLen <= buflen
    /\ \A k \in 1..FrameLen : f.data[k] = put[f.no * FrameLen + k]
    /\ blocks - f.no < N =>
          /\ f.d + (blocks - f.no) * FrameLen \in {i_r, i_r + buflen}
          /\ \A k \in 1..FrameLen : buf[f.d + k - 1] = f.data[k]

(* The frames in the queue. *)
QueueInv == \A k \in 1..Len(queue) : Good(queue[k])

(* The frame being encoded and sent. *)
EncodeInv ==
    /\ apc = "idle" => alaw = <<>>
    /\ apc # "idle" => Good(pcm)
    /\ Len(alaw) <= FrameLen
    /\ apc = "send" => Len(alaw) = FrameLen
    /\ apc # "idle" /\ blocks - pcm.no < N =>
          \A k \in 1..Len(alaw) : alaw[k] = pcm.data[k]

(* The timestamp is behind by the frame processed last. *)
SendInv ==
    /\ timestamp + rawaudio_len = played
    /\ apc = "send" => rawaudio_len = FrameLen
    /\ apc # "send" => sent = NoFrame
    /\ TimestampsCountSamples

AudioInv == AudioTypeOK /\ RingInv /\ QueueInv /\ EncodeInv /\ SendInv

-----------------------------------------------------------------------------
(* The ring holds N blocks, two or more. *)
LEMMA RingSize ==
    /\ FrameLen \in Nat /\ FrameLen > 1 /\ N \in Nat /\ N >= 2
    /\ buflen \in Nat /\ buflen = N * FrameLen /\ buflen >= 2 * FrameLen
<1>1. /\ FrameLen \in Nat /\ FrameLen > 1 /\ RateLen \in Nat /\ RateLen >= 2 * FrameLen
  BY AudioAssumption
<1>2. PICK m \in Nat : m = RateLen \div FrameLen
  BY <1>1
<1>3. RateLen = FrameLen * m + (RateLen % FrameLen) /\ RateLen % FrameLen \in 0..(FrameLen - 1)
  BY <1>1, <1>2
<1>4. buflen = m * FrameLen
  BY <1>1, <1>3 DEF buflen
<1>5. m >= 2
  BY <1>1, <1>3
<1>6. N = m
  BY <1>1, <1>4 DEF N
<1>7. m * FrameLen >= 2 * FrameLen
  BY <1>1, <1>5
<1> QED
  BY <1>1, <1>4, <1>5, <1>6, <1>7

(* Inside the ring and one round beyond, % takes off a round or nothing. *)
LEMMA Wraps ==
    ASSUME NEW x \in Nat, x < 2 * buflen
    PROVE  x % buflen = IF x < buflen THEN x ELSE x - buflen
BY RingSize

(* A block from the position of reading on fits before the end. *)
LEMMA BlockFits ==
    ASSUME AudioInv
    PROVE  /\ i_r + FrameLen <= buflen /\ i_w < buflen
           /\ \E r \in 0..(N - 1) :
                  (IF i_r + FrameLen = buflen THEN 0 ELSE i_r + FrameLen) = r * FrameLen
<1>1. PICK r \in 0..(N - 1) : i_r = r * FrameLen
  BY DEF AudioInv, RingInv
<1>2. /\ FrameLen \in Nat /\ FrameLen > 1 /\ N \in Nat /\ N >= 2 /\ r \in Nat
      /\ buflen = N * FrameLen
  BY RingSize
<1>3. (r + 1) * FrameLen = i_r + FrameLen
  BY <1>1, <1>2
<1>4. PICK t \in Nat : N = (r + 1) + t
  <2>1. N - (r + 1) \in Nat
    BY <1>2
  <2> QED
    BY <2>1, <1>2
<1>5. buflen = (r + 1) * FrameLen + t * FrameLen /\ t * FrameLen \in Nat
  BY <1>2, <1>4
<1>6. i_r + FrameLen <= buflen
  BY <1>1, <1>2, <1>3, <1>5
<1>7. i_w < buflen
  <2>1. i_w = i_r + avail /\ i_r \in Nat /\ avail \in Nat /\ avail < FrameLen
    BY <1>2 DEF AudioInv, AudioTypeOK, RingInv
  <2> QED
    BY <1>2, <1>6, <2>1
<1>8. CASE t = 0
  <2>1. i_r + FrameLen = buflen
    BY <1>2, <1>3, <1>5, <1>8
  <2>2. 0 \in 0..(N - 1) /\ 0 = 0 * FrameLen
    BY <1>2
  <2> QED
    BY <1>6, <1>7, <2>1, <2>2
<1>9. CASE t # 0
  <2>1. r + 1 \in 0..(N - 1)
    BY <1>2, <1>4, <1>9
  <2>2. t * FrameLen > 0
    BY <1>2, <1>9
  <2>3. i_r + FrameLen # buflen
    BY <1>1, <1>2, <1>3, <1>5, <2>2
  <2> QED
    BY <1>3, <1>6, <1>7, <2>1, <2>3
<1> QED
  BY <1>8, <1>9

(* What one round of audio_ring_input writes: c copies of the sample, at   *)
(* i_w and behind it.                                                      *)
Writes(c) ==
    /\ c \in {0, 1, 2}
    /\ buf' = [x \in 0..(buflen - 1) |->
                  IF \/ c >= 1 /\ x = i_w
                     \/ c = 2 /\ x = (IF i_w + 1 = buflen THEN 0 ELSE i_w + 1)
                  THEN nread + 1 ELSE buf[x]]
    /\ i_w' = IF i_w + c < buflen THEN i_w + c ELSE i_w + c - buflen
    /\ put' \in Seq(Nat) /\ Len(put') = Len(put) + c
    /\ \A k \in 1..Len(put) : put'[k] = put[k]
    /\ \A k \in (Len(put) + 1)..(Len(put) + c) : put'[k] = nread + 1
    /\ nread' = nread + 1 /\ correction' = correction + c - 1

(* That is what the loop of audio_ring_input does. *)
LEMMA RoundWrites ==
    ASSUME AudioInv, InputSample
    PROVE  Writes(Copies)
<1>1. PICK c \in {0, 1, 2} : c = Copies
  BY DEF Copies
<1>2. /\ buflen \in Nat /\ buflen >= 4 /\ i_w \in Nat /\ i_w < buflen
      /\ buf \in [0..(buflen - 1) -> Nat] /\ nread \in Nat
      /\ put \in Seq(Nat) /\ Len(put) \in Nat
  <2>1. buflen \in Nat /\ buflen >= 4
    BY RingSize
  <2>2. put \in Seq(Nat) /\ Len(put) \in Nat
    BY LenProperties DEF AudioInv, AudioTypeOK
  <2> QED
    BY <2>1, <2>2, BlockFits DEF AudioInv, AudioTypeOK
<1>3. /\ i_w % buflen = i_w
      /\ (i_w + 1) % buflen = (IF i_w + 1 = buflen THEN 0 ELSE i_w + 1)
      /\ (i_w + c) % buflen = (IF i_w + c < buflen THEN i_w + c ELSE i_w + c - buflen)
  <2>1. \A j \in {0, 1, 2} : i_w + j \in Nat /\ i_w + j < 2 * buflen
    BY <1>2
  <2>2. ASSUME NEW j \in {0, 1, 2}
        PROVE  (i_w + j) % buflen = IF i_w + j < buflen THEN i_w + j ELSE i_w + j - buflen
    <3>1. PICK y \in Nat : y = i_w + j /\ y < 2 * buflen
      BY <2>1
    <3>2. y % buflen = IF y < buflen THEN y ELSE y - buflen
      BY <3>1, Wraps, Zenon
    <3> QED
      BY <3>1, <3>2, <1>2
  <2>3. i_w + 0 = i_w
    BY <1>2
  <2>4. i_w % buflen = i_w
    BY <2>2, <2>3, <1>2
  <2>5. (i_w + 1) % buflen = (IF i_w + 1 < buflen THEN i_w + 1 ELSE i_w + 1 - buflen)
    BY <2>2, Zenon
  <2>6. (IF i_w + 1 < buflen THEN i_w + 1 ELSE i_w + 1 - buflen)
            = (IF i_w + 1 = buflen THEN 0 ELSE i_w + 1)
    BY <1>2
  <2>7. (i_w + c) % buflen = (IF i_w + c < buflen THEN i_w + c ELSE i_w + c - buflen)
    BY <2>2, Zenon
  <2> QED
    BY <2>4, <2>5, <2>6, <2>7
<1>4. \A x : (\E j \in 0..(c - 1) : x = (i_w + j) % buflen) <=>
              \/ c >= 1 /\ x = i_w
              \/ c = 2 /\ x = (IF i_w + 1 = buflen THEN 0 ELSE i_w + 1)
  <2>1. i_w + 0 = i_w
    BY <1>2
  <2>2. CASE c = 0
    BY <2>2
  <2>3. CASE c = 1
    <3>1. 0..(c - 1) = {0}
      BY <2>3
    <3> QED
      BY <2>1, <2>3, <3>1, <1>3
  <2>4. CASE c = 2
    <3>1. 0..(c - 1) = {0, 1}
      BY <2>4
    <3> QED
      BY <2>1, <2>4, <3>1, <1>3
  <2> QED
    BY <2>2, <2>3, <2>4
<1>5. buf' = Fill(buf, i_w, nread + 1, c) /\ DOMAIN buf = 0..(buflen - 1)
  BY <1>1, <1>2 DEF InputSample
<1>6. PICK t : t = [k \in 1..c |-> nread + 1]
  OBVIOUS
<1>7. t \in Seq(Nat) /\ Len(t) = c /\ (\A k \in 1..c : t[k] = nread + 1)
  BY <1>2, <1>6
<1>8. put' = put \o t
  BY <1>1, <1>6 DEF InputSample
<1>9. /\ put' \in Seq(Nat) /\ Len(put') = Len(put) + c
      /\ \A k \in 1..(Len(put) + c) :
            put'[k] = IF k <= Len(put) THEN put[k] ELSE t[k - Len(put)]
  BY <1>2, <1>7, <1>8, ConcatProperties
<1>10. /\ \A k \in 1..Len(put) : put'[k] = put[k]
       /\ \A k \in (Len(put) + 1)..(Len(put) + c) : put'[k] = nread + 1
  <2>1. ASSUME NEW k \in (Len(put) + 1)..(Len(put) + c) PROVE put'[k] = nread + 1
    <3>1. k \in 1..(Len(put) + c) /\ ~ (k <= Len(put)) /\ k - Len(put) \in 1..c
      BY <1>2
    <3> QED
      BY <3>1, <1>7, <1>9
  <2> QED
    BY <2>1, <1>2, <1>9
<1>11. buf' = [x \in 0..(buflen - 1) |->
                  IF \/ c >= 1 /\ x = i_w
                     \/ c = 2 /\ x = (IF i_w + 1 = buflen THEN 0 ELSE i_w + 1)
                  THEN nread + 1 ELSE buf[x]]
  BY <1>4, <1>5 DEF Fill
<1>12. Writes(c)
  BY <1>1, <1>3, <1>9, <1>10, <1>11 DEF Writes, InputSample
<1> QED
  BY <1>1, <1>12

(* The round as a whole: behind the FrameLenth sample a block is complete. *)
Round(c) ==
    /\ Writes(c)
    /\ IF avail + c >= FrameLen
       THEN /\ i_r' = (IF i_r + FrameLen = buflen THEN 0 ELSE i_r + FrameLen)
            /\ blocks' = blocks + 1 /\ avail' = avail + c - FrameLen
       ELSE UNCHANGED <<i_r, blocks>> /\ avail' = avail + c

(* Every sample read is such a round. *)
LEMMA InputIsRound ==
    ASSUME AudioInv, InputSample
    PROVE  \E c \in {0, 1, 2} : c = Copies /\ Round(c)
<1>1. PICK c : c = Copies
  OBVIOUS
<1>2. Writes(c)
  BY <1>1, RoundWrites
<1>3. /\ avail \in Nat /\ FrameLen \in Nat /\ c \in {0, 1, 2}
      /\ avail + c - FrameLen = (avail + c) - FrameLen
  BY <1>2, RingSize DEF Writes, AudioInv, AudioTypeOK
<1>4. ASSUME avail + c >= FrameLen PROVE Round(c)
  <2>1. QueueBlock(buf') /\ avail' = Left(avail + c)
    BY <1>1, <1>4 DEF InputSample
  <2>2. /\ i_r' = (IF i_r + FrameLen = buflen THEN 0 ELSE i_r + FrameLen)
        /\ blocks' = blocks + 1 /\ avail' = avail + c - FrameLen
    BY <2>1, <1>3 DEF QueueBlock, Left
  <2> QED
    BY <1>2, <1>3, <1>4, <2>2 DEF Round
<1>5. ASSUME ~ (avail + c >= FrameLen) PROVE Round(c)
  <2>1. avail' = avail + c /\ UNCHANGED <<i_r, blocks>>
    BY <1>1, <1>5 DEF InputSample
  <2> QED
    BY <1>2, <1>5, <2>1 DEF Round
<1> QED
  BY <1>1, <1>3, <1>4, <1>5

(* A multiple of the block length. *)
LEMMA Times ==
    ASSUME NEW m \in Nat, NEW n \in Nat
    PROVE  /\ m * FrameLen \in Nat
           /\ (m + 1) * FrameLen = m * FrameLen + FrameLen
           /\ m < n => m * FrameLen + FrameLen <= n * FrameLen
<1>1. FrameLen \in Nat
  BY RingSize
<1>2. m * FrameLen \in Nat /\ (m + 1) * FrameLen = m * FrameLen + FrameLen
  BY <1>1
<1>3. ASSUME m < n PROVE m * FrameLen + FrameLen <= n * FrameLen
  <2>1. PICK t \in Nat : n = (m + 1) + t
    <3>1. n - (m + 1) \in Nat /\ n = (m + 1) + (n - (m + 1))
      BY <1>3
    <3> QED
      BY <3>1
  <2>2. n * FrameLen = (m + 1) * FrameLen + t * FrameLen /\ t * FrameLen \in Nat
    BY <1>1, <2>1
  <2> QED
    BY <1>1, <1>2, <2>2
<1> QED
  BY <1>2, <1>3

(* What a round writes lies outside a block that starts e before the       *)
(* position r of reading, one round of the ring taken off or not.          *)
LEMMA Apart ==
    ASSUME NEW r \in Nat, NEW a \in Nat, NEW c \in {0, 1, 2}, NEW b \in Nat,
           NEW e \in Nat, NEW k \in 1..FrameLen,
           a < FrameLen, r + FrameLen <= buflen, b + FrameLen <= buflen,
           e >= FrameLen, b + e = r \/ b + e = r + buflen,
           \/ a + c < FrameLen /\ e + FrameLen <= buflen
           \/ e + 2 * FrameLen <= buflen
    PROVE  /\ b + k - 1 \in 0..(buflen - 1)
           /\ ~ (c >= 1 /\ b + k - 1 = r + a)
           /\ ~ (c = 2 /\ b + k - 1 = (IF r + a + 1 = buflen THEN 0 ELSE r + a + 1))
<1>1. FrameLen \in Nat /\ FrameLen > 1 /\ buflen \in Nat
  BY RingSize
<1>2. b + k - 1 \in 0..(buflen - 1)
  BY <1>1
<1>3. ~ (c >= 1 /\ b + k - 1 = r + a)
  BY <1>1
<1>4. ASSUME c = 2 PROVE b + k - 1 # r + a + 1
  BY <1>1, <1>4
<1>5. ASSUME c = 2, r + a + 1 = buflen PROVE b + k - 1 # 0
  BY <1>1, <1>5
<1> QED
  BY <1>2, <1>3, <1>4, <1>5

(* A round leaves the frames out there as they are described, or makes     *)
(* them late.                                                              *)
LEMMA GoodStays ==
    ASSUME AudioInv, NEW c, Round(c), NEW f, Good(f)
    PROVE  Good(f)'
<1>1. /\ c \in {0, 1, 2} /\ blocks \in Nat /\ blocks' \in {blocks, blocks + 1}
      /\ i_r \in Nat /\ avail \in Nat /\ avail < FrameLen /\ i_w = i_r + avail
      /\ Len(put) = blocks * FrameLen + avail /\ Len(put) \in Nat
      /\ buf \in [0..(buflen - 1) -> Nat]
  BY RingSize, LenProperties DEF Round, Writes, AudioInv, AudioTypeOK, RingInv
<1>2. /\ FrameLen \in Nat /\ FrameLen > 1 /\ N \in Nat /\ N >= 2
      /\ buflen \in Nat /\ buflen = N * FrameLen /\ buflen >= 2 * FrameLen
      /\ i_r + FrameLen <= buflen
  BY RingSize, BlockFits
<1>3. /\ f \in Block /\ f.no \in Nat /\ f.no < blocks /\ f.d \in Nat
      /\ f.d + FrameLen <= buflen
      /\ f.data \in [1..FrameLen -> Nat]
      /\ \A k \in 1..FrameLen : f.data[k] = put[f.no * FrameLen + k]
  BY <1>2 DEF Good, Block
<1>round. c \in {0, 1, 2} /\ avail \in Nat /\ avail < FrameLen
  BY <1>1
<1>4. \A k \in 1..FrameLen : f.data[k] = put'[f.no * FrameLen + k]
  <2>1. f.no * FrameLen \in Nat /\ f.no * FrameLen + FrameLen <= blocks * FrameLen
    BY <1>1, <1>3, Times
  <2>2. blocks * FrameLen \in Nat
    BY <1>1, Times
  <2>3. \A k \in 1..FrameLen : f.no * FrameLen + k \in 1..Len(put)
    BY <1>1, <1>2, <2>1, <2>2
  <2> QED
    BY <1>3, <2>3 DEF Round, Writes
<1>5. ASSUME blocks' - f.no < N
      PROVE  /\ f.d + (blocks' - f.no) * FrameLen \in {i_r', i_r' + buflen}
             /\ \A k \in 1..FrameLen : buf'[f.d + k - 1] = f.data[k]
  <2>0. PICK b \in Nat : b = f.d /\ b + FrameLen <= buflen
    BY <1>3
  <2>1. PICK m \in Nat : m = blocks - f.no /\ m >= 1
    BY <1>1, <1>3
  <2>2. PICK e \in Nat : e = m * FrameLen
    BY <2>1, Times
  <2>3. /\ f.d + e \in {i_r, i_r + buflen}
        /\ \A k \in 1..FrameLen : buf[f.d + k - 1] = f.data[k]
    <3>1. blocks - f.no < N
      <4>1. blocks \in Nat /\ f.no \in Nat /\ N \in Nat
        BY <1>1, <1>2, <1>3
      <4>2. blocks' = blocks \/ blocks' = blocks + 1
        BY <1>1
      <4> QED
        BY <1>5, <4>1, <4>2
    <3>2. e = (blocks - f.no) * FrameLen
      BY <2>1, <2>2
    <3> QED
      BY <3>1, <3>2 DEF Good
  <2>4. e >= FrameLen
    <3>1. 0 * FrameLen + FrameLen <= m * FrameLen
      BY <2>1, Times
    <3> QED
      BY <3>1, <2>2, <1>2
  <2>5. (m + 1) * FrameLen = e + FrameLen
    BY <2>1, <2>2, Times
  <2>6. m < N
    <3>1. blocks \in Nat /\ f.no \in Nat /\ N \in Nat
      BY <1>1, <1>2, <1>3
    <3>2. blocks' = blocks \/ blocks' = blocks + 1
      BY <1>1
    <3> QED
      BY <1>5, <2>1, <3>1, <3>2
  <2>7. e + FrameLen <= buflen
    BY <1>2, <2>1, <2>2, <2>6, Times
  <2>place. /\ FrameLen \in Nat /\ FrameLen > 1 /\ e \in Nat /\ buflen \in Nat
            /\ i_r \in Nat /\ i_r + FrameLen <= buflen
            /\ b + e = i_r \/ b + e = i_r + buflen
    BY <1>1, <1>2, <2>0, <2>2, <2>3
  <2>8. ASSUME \/ avail + c < FrameLen /\ e + FrameLen <= buflen
               \/ e + 2 * FrameLen <= buflen
        PROVE  \A k \in 1..FrameLen : buf'[f.d + k - 1] = f.data[k]
    <3> SUFFICES ASSUME NEW k \in 1..FrameLen PROVE buf'[f.d + k - 1] = f.data[k]
      OBVIOUS
    <3>1. /\ b + k - 1 \in 0..(buflen - 1)
          /\ ~ (c >= 1 /\ b + k - 1 = i_r + avail)
          /\ ~ (c = 2 /\ b + k - 1 = (IF i_r + avail + 1 = buflen
                                        THEN 0 ELSE i_r + avail + 1))
      BY <1>round, <2>0, <2>4, <2>8, <2>place, Apart
    <3>2. buf'[b + k - 1] = buf[b + k - 1]
      BY <1>1, <3>1 DEF Round, Writes
    <3> QED
      BY <2>0, <2>3, <3>2
  <2>9. CASE avail + c < FrameLen
    <3>1. i_r' = i_r /\ blocks' = blocks
      BY <2>9, <1>1, <1>2 DEF Round
    <3>2. blocks' - f.no = m
      BY <2>1, <3>1
    <3> QED
      BY <2>2, <2>3, <2>7, <2>8, <2>9, <3>1, <3>2
  <2>10. CASE avail + c >= FrameLen
    <3>1. /\ i_r' = (IF i_r + FrameLen = buflen THEN 0 ELSE i_r + FrameLen)
          /\ blocks' = blocks + 1
      BY <2>10 DEF Round
    <3>2. blocks' - f.no = m + 1
      BY <1>1, <1>3, <2>1, <3>1
    <3>3. m + 1 < N
      BY <1>2, <1>5, <2>1, <3>2
    <3>4. e + 2 * FrameLen <= buflen
      <4>1. (m + 1) * FrameLen + FrameLen <= N * FrameLen
        BY <1>2, <2>1, <3>3, Times
      <4> QED
        BY <4>1, <2>2, <2>5, <1>2
    <3>5. (blocks' - f.no) * FrameLen = e + FrameLen
      BY <3>2, <2>5
    <3>6. b + (e + FrameLen) \in {i_r', i_r' + buflen}
      <4>1. CASE b + e = i_r
        <5>1. b + (e + FrameLen) = i_r + FrameLen
          BY <2>0, <2>place, <4>1
        <5> QED
          BY <5>1, <2>place, <3>1
      <4>2. CASE b + e = i_r + buflen
        <5>1. b + (e + FrameLen) = (i_r + FrameLen) + buflen
          BY <2>0, <2>place, <4>2
        <5>2. i_r + FrameLen # buflen
          BY <2>0, <2>place, <3>4, <4>2
        <5> QED
          BY <5>1, <5>2, <3>1
      <4> QED
        BY <2>place, <4>1, <4>2
    <3> QED
      BY <2>0, <2>8, <3>4, <3>5, <3>6
  <2> QED
    BY <2>9, <2>10, <1>1, <1>2
<1>6. f.no < blocks'
  BY <1>1, <1>3
<1> QED
  BY <1>3, <1>4, <1>5, <1>6 DEF Good

(* What a round has written, up to the end of the block, is the sample     *)
(* stream from the block's beginning on.                                   *)
LEMMA Window ==
    ASSUME AudioInv, NEW c, Round(c), NEW k \in 1..FrameLen, k <= avail + c
    PROVE  buf'[i_r + k - 1] = put'[blocks * FrameLen + k]
<1>1. /\ c \in {0, 1, 2} /\ FrameLen \in Nat /\ FrameLen > 1 /\ buflen \in Nat
      /\ buflen >= 2 * FrameLen /\ i_r \in Nat /\ avail \in Nat /\ avail < FrameLen
      /\ i_w = i_r + avail /\ i_r + FrameLen <= buflen /\ k \in Nat
  BY RingSize, BlockFits DEF Round, Writes, AudioInv, AudioTypeOK, RingInv
<1>2. PICK b \in Nat : b = blocks * FrameLen
  BY Times DEF AudioInv, AudioTypeOK
<1>3. Len(put) = b + avail
  BY <1>2 DEF AudioInv, RingInv
<1>4. i_r + k - 1 \in 0..(buflen - 1)
  BY <1>1
<1>5. CASE k <= avail
  <2>1. /\ i_r + k - 1 # i_w
        /\ i_r + k - 1 # (IF i_w + 1 = buflen THEN 0 ELSE i_w + 1)
    BY <1>1, <1>5
  <2>2. buf'[i_r + k - 1] = buf[i_r + k - 1]
    BY <1>4, <2>1 DEF Round, Writes
  <2>3. k \in 1..avail /\ b + k \in 1..Len(put)
    BY <1>1, <1>2, <1>3, <1>5
  <2>4. buf[i_r + k - 1] = put[b + k]
    BY <1>2, <2>3 DEF AudioInv, RingInv
  <2>5. put'[b + k] = put[b + k]
    BY <2>3 DEF Round, Writes
  <2> QED
    BY <1>2, <2>2, <2>4, <2>5
<1>6. CASE k > avail
  <2>1. \/ c >= 1 /\ i_r + k - 1 = i_w
        \/ c = 2 /\ i_r + k - 1 = (IF i_w + 1 = buflen THEN 0 ELSE i_w + 1)
    BY <1>1, <1>6
  <2>2. buf'[i_r + k - 1] = nread + 1
    BY <1>4, <2>1 DEF Round, Writes
  <2>3. b + k \in (Len(put) + 1)..(Len(put) + c)
    BY <1>1, <1>2, <1>3, <1>6
  <2>4. put'[b + k] = nread + 1
    BY <2>3 DEF Round, Writes
  <2> QED
    BY <1>2, <2>2, <2>4
<1> QED
  BY <1>1, <1>5, <1>6

(* A block queued by a round is the next piece of the stream. *)
LEMMA NewIsGood ==
    ASSUME AudioInv, NEW c, Round(c), avail + c >= FrameLen, NEW f,
           f = [d |-> i_r, no |-> blocks,
                data |-> [k \in 1..FrameLen |-> buf'[(i_r + k - 1) % buflen]]]
    PROVE  Good(f)'
<1>1. /\ FrameLen \in Nat /\ FrameLen > 1 /\ buflen \in Nat /\ N >= 2 /\ N \in Nat
      /\ i_r \in Nat /\ i_r + FrameLen <= buflen /\ i_r \in 0..(buflen - 1)
      /\ blocks \in Nat
  BY RingSize, BlockFits DEF AudioInv, AudioTypeOK
<1>2. /\ c \in {0, 1, 2} /\ avail \in Nat /\ nread \in Nat
      /\ buf \in [0..(buflen - 1) -> Nat]
  BY RingSize DEF AudioInv, AudioTypeOK, Round, Writes
<1>3. ASSUME NEW k \in 1..FrameLen
      PROVE  /\ i_r + k - 1 \in 0..(buflen - 1)
             /\ f.data[k] = buf'[i_r + k - 1]
  <2>1. PICK x \in Nat : x = i_r + k - 1 /\ x < buflen /\ x \in 0..(buflen - 1)
    BY <1>1
  <2>2. x % buflen = x
    <3>1. x < 2 * buflen
      BY <1>1, <2>1
    <3> QED
      BY <2>1, <3>1, Wraps
  <2> QED
    BY <2>1, <2>2
<1>4. \A k \in 1..FrameLen : f.data[k] = put'[blocks * FrameLen + k]
  BY <1>1, <1>2, <1>3, Window
<1>5. buf' \in [0..(buflen - 1) -> Nat]
  BY <1>2 DEF Round, Writes
<1>6. f.data \in [1..FrameLen -> Nat]
  <2>1. \A k \in 1..FrameLen : buf'[(i_r + k - 1) % buflen] \in Nat
    BY <1>3, <1>5
  <2> QED
    BY <2>1
<1>7. f \in Block /\ f.no = blocks /\ f.d = i_r
  BY <1>1, <1>6 DEF Block
<1>8. /\ i_r' = (IF i_r + FrameLen = buflen THEN 0 ELSE i_r + FrameLen)
      /\ blocks' = blocks + 1
  BY DEF Round
<1>9. f.no < blocks' /\ blocks' - f.no = 1
  BY <1>1, <1>7, <1>8
<1>10. f.d + (blocks' - f.no) * FrameLen \in {i_r', i_r' + buflen}
  <2>1. (blocks' - f.no) * FrameLen = FrameLen
    BY <1>1, <1>9
  <2> QED
    BY <1>1, <1>7, <1>8, <2>1
<1> QED
  BY <1>1, <1>3, <1>4, <1>7, <1>9, <1>10 DEF Good

(* The ring after a round. *)
LEMMA RingStays ==
    ASSUME AudioInv, NEW c, Round(c)
    PROVE  /\ RingInv'
           /\ buf' \in [0..(buflen - 1) -> Nat] /\ put' \in Seq(Nat)
           /\ i_r' \in Nat /\ i_w' \in Nat /\ avail' \in 0..(FrameLen - 1)
           /\ nread' \in Nat /\ correction' \in Int /\ blocks' \in Nat
<1>1. /\ c \in {0, 1, 2} /\ FrameLen \in Nat /\ FrameLen > 1 /\ buflen \in Nat
      /\ buflen >= 2 * FrameLen /\ i_r \in Nat /\ avail \in Nat /\ avail < FrameLen
      /\ i_w = i_r + avail /\ i_r + FrameLen <= buflen /\ i_w < buflen
  <2>1. c \in {0, 1, 2}
    BY DEF Round, Writes
  <2>2. i_r \in Nat /\ avail \in Nat /\ avail < FrameLen /\ i_w = i_r + avail
    BY RingSize DEF AudioInv, AudioTypeOK, RingInv
  <2> QED
    BY <2>1, <2>2, RingSize, BlockFits
<1>0. /\ blocks \in Nat /\ nread \in Nat /\ correction \in Int
      /\ buf \in [0..(buflen - 1) -> Nat]
  BY DEF AudioInv, AudioTypeOK
<1>2. PICK b \in Nat : b = blocks * FrameLen /\ (blocks + 1) * FrameLen = b + FrameLen
  BY <1>0, Times
<1>3. Len(put) = b + avail /\ Len(put) = nread + correction
  BY <1>2 DEF AudioInv, RingInv
<1>4. /\ buf' \in [0..(buflen - 1) -> Nat] /\ put' \in Seq(Nat)
      /\ nread' \in Nat /\ correction' \in Int
      /\ Len(put') = nread' + correction' /\ Len(put') = b + avail + c
  BY <1>0, <1>1, <1>2, <1>3 DEF Round, Writes
<1>5. i_w' = IF i_w + c < buflen THEN i_w + c ELSE i_w + c - buflen
  BY DEF Round, Writes
<1>6. CASE avail + c < FrameLen
  <2>1. i_r' = i_r /\ blocks' = blocks /\ avail' = avail + c
    BY <1>1, <1>6 DEF Round
  <2>2. avail' \in 0..(FrameLen - 1)
    BY <1>1, <1>6, <2>1
  <2>3. i_w' = i_r' + avail'
    BY <1>1, <1>5, <1>6, <2>1
  <2>4. Len(put') = blocks' * FrameLen + avail'
    <3>1. blocks' * FrameLen = b
      BY <1>2, <2>1
    <3>2. Len(put') = b + avail + c
      BY <1>4
    <3>3. b + avail + c = b + (avail + c)
      BY <1>1, b \in Nat
    <3> QED
      BY <2>1, <3>1, <3>2, <3>3
  <2>5. ASSUME NEW k \in 1..avail'
        PROVE  buf'[i_r' + k - 1] = put'[blocks' * FrameLen + k]
    <3>1. k \in 1..FrameLen /\ k <= avail + c
      BY <1>1, <1>6, <2>1
    <3> QED
      BY <2>1, <3>1, Window
  <2>6. \E r \in 0..(N - 1) : i_r' = r * FrameLen
    BY <2>1 DEF AudioInv, RingInv
  <2>7. RingInv'
    BY <1>4, <2>3, <2>4, <2>5, <2>6 DEF RingInv
  <2> QED
    <3>1. i_r' \in Nat /\ i_w' \in Nat /\ blocks' \in Nat
      BY <1>0, <1>1, <2>1, <2>2, <2>3
    <3> QED
      BY <1>4, <2>2, <2>7, <3>1
<1>7. CASE avail + c >= FrameLen
  <2>1. /\ i_r' = (IF i_r + FrameLen = buflen THEN 0 ELSE i_r + FrameLen)
        /\ blocks' = blocks + 1 /\ avail' = avail + c - FrameLen
    BY <1>7 DEF Round
  <2>2. avail' \in 0..1 /\ avail' \in 0..(FrameLen - 1)
    BY <1>1, <1>7, <2>1
  <2>3. PICK r \in 0..(N - 1) : i_r' = r * FrameLen
    BY <2>1, BlockFits
  <2>4. i_r' \in Nat /\ i_r' + FrameLen <= buflen
    <3>1. N \in Nat /\ buflen = N * FrameLen /\ r \in Nat /\ r < N
      BY RingSize
    <3> QED
      BY <2>3, <3>1, Times
  <2>5. i_w' = i_r' + avail'
    <3>1. CASE i_r + FrameLen = buflen
      BY <1>1, <1>5, <1>7, <2>1, <2>2, <3>1
    <3>2. CASE i_r + FrameLen # buflen
      BY <1>1, <1>5, <1>7, <2>1, <2>2, <2>4, <3>2
    <3> QED
      BY <3>1, <3>2
  <2>6. Len(put') = blocks' * FrameLen + avail'
    <3>1. blocks' * FrameLen = b + FrameLen
      BY <1>2, <2>1
    <3>2. Len(put') = b + avail + c
      BY <1>4
    <3>3. b + avail + c = (b + FrameLen) + (avail + c - FrameLen)
      BY <1>1, b \in Nat
    <3> QED
      BY <2>1, <3>1, <3>2, <3>3
  <2>7. ASSUME NEW k \in 1..avail'
        PROVE  buf'[i_r' + k - 1] = put'[blocks' * FrameLen + k]
    <3>1. k = 1 /\ c = 2 /\ avail + 1 = FrameLen
      BY <1>1, <2>1, <2>2
    <3>2. i_r' + k - 1 = (IF i_w + 1 = buflen THEN 0 ELSE i_w + 1)
      BY <1>1, <2>1, <2>4, <3>1
    <3>3. i_r' + k - 1 \in 0..(buflen - 1)
      <4>1. PICK x \in Nat : x = i_r' /\ x + FrameLen <= buflen
        BY <2>4
      <4>2. \A j \in 1..FrameLen : x + j - 1 \in 0..(buflen - 1)
        <5>1. FrameLen \in Nat /\ buflen \in Nat /\ x + FrameLen <= buflen /\ x \in Nat
          BY <1>1, <4>1
        <5> QED
          BY ONLY <5>1
      <4>3. k \in 1..FrameLen
        BY <1>1, <3>1
      <4> QED
        BY <4>1, <4>2, <4>3
    <3>4. buf'[i_r' + k - 1] = nread + 1
      BY <3>1, <3>2, <3>3 DEF Round, Writes
    <3>5. blocks' * FrameLen + k = b + FrameLen + 1
      BY <1>2, <2>1, <3>1
    <3>6. b + FrameLen + 1 \in (Len(put) + 1)..(Len(put) + c)
      BY <1>1, <1>3, <3>1, b \in Nat
    <3>7. put'[b + FrameLen + 1] = nread + 1
      BY <3>6 DEF Round, Writes
    <3> QED
      BY <3>4, <3>5, <3>7
  <2>8. RingInv'
    BY <1>4, <2>3, <2>5, <2>6, <2>7 DEF RingInv
  <2> QED
    <3>1. i_w' \in Nat /\ blocks' \in Nat
      BY <1>0, <2>1, <2>2, <2>4, <2>5
    <3> QED
      BY <1>4, <2>2, <2>4, <2>8, <3>1
<1> QED
  BY <1>1, <1>6, <1>7

-----------------------------------------------------------------------------
(* Frames keep their place in the stream while the audio thread rests. *)
LEMMA GoodRests ==
    ASSUME UNCHANGED ringVars, NEW f, Good(f)
    PROVE  Good(f)'
BY DEF ringVars, Good

(* The frames of the queue stay good when nothing is put into it. *)
LEMMA QueueRests ==
    ASSUME AudioInv, queue' = queue, \A f : Good(f) => Good(f)'
    PROVE  QueueInv'
<1>1. ASSUME NEW k \in 1..Len(queue) PROVE Good(queue[k])'
  <2>1. PICK f : f = queue[k] /\ Good(f) /\ f = queue'[k]
    BY DEF AudioInv, QueueInv
  <2>2. Good(f)'
    BY <2>1
  <2> QED
    BY <2>1, <2>2 DEF Good
<1> QED
  BY <1>1 DEF QueueInv

(* The ring stays what it is, too. *)
LEMMA RingRests ==
    ASSUME AudioInv, UNCHANGED ringVars
    PROVE  /\ RingInv'
           /\ buf' \in [0..(buflen - 1) -> Nat] /\ put' \in Seq(Nat)
           /\ i_r' \in Nat /\ i_w' \in Nat /\ avail' \in 0..(FrameLen - 1)
           /\ adjust_rate' \in Int /\ adjust_count' \in Int
           /\ nread' \in Nat /\ correction' \in Int /\ blocks' \in Nat
BY DEF AudioInv, AudioTypeOK, RingInv, ringVars

(* What the event loop has in hand stays what it is while the loop rests   *)
(* and the audio thread completes at most a block.                         *)
LEMMA LoopRests ==
    ASSUME AudioInv, UNCHANGED loopVars, blocks' \in {blocks, blocks + 1},
           \A f : Good(f) => Good(f)'
    PROVE  EncodeInv' /\ SendInv'
<1>1. SendInv'
  BY DEF AudioInv, SendInv, TimestampsCountSamples, loopVars
<1>2. ASSUME apc # "idle", blocks' - pcm.no < N
      PROVE  \A k \in 1..Len(alaw) : alaw[k] = pcm.data[k]
  <2>1. pcm.no \in Nat /\ blocks \in Nat /\ N \in Nat
    BY <1>2, RingSize DEF AudioInv, EncodeInv, Good, Block, AudioTypeOK
  <2>2. blocks - pcm.no < N
    BY <1>2, <2>1
  <2> QED
    BY <1>2, <2>2 DEF AudioInv, EncodeInv
<1>3. apc # "idle" => Good(pcm)'
  <2>1. PICK f : f = pcm /\ f = pcm'
    BY DEF loopVars
  <2>2. apc # "idle" => Good(f)'
    BY <2>1 DEF AudioInv, EncodeInv
  <2> QED
    BY <2>1, <2>2 DEF Good
<1> QED
  BY <1>1, <1>2, <1>3 DEF EncodeInv, AudioInv, loopVars

(* The beginning of audio_ring_input. *)
LEMMA InputBeginsInv ==
    ASSUME AudioInv, InputBegins
    PROVE  AudioInv'
<1>1. avail' = avail
  <2>1. i_w = i_r + avail /\ i_r \in Nat /\ avail \in Nat
    BY RingSize DEF AudioInv, AudioTypeOK, RingInv
  <2> QED
    BY <2>1 DEF InputBegins
<1>2. adjust_rate' \in Int /\ adjust_count' \in Int
  <2>1. adjust_rate \in Int /\ adjust_count \in Int /\ Rates \subseteq Int
    BY AudioAssumption DEF AudioInv, AudioTypeOK
  <2>2. \/ adjust_rate' \in Rates /\ adjust_count' = 1
        \/ adjust_rate' = adjust_rate /\ adjust_count' = adjust_count
    BY DEF InputBegins
  <2>3. adjust_rate' \in Int
    BY <2>1, <2>2, Zenon
  <2>4. adjust_count' \in Int
    BY <2>1, <2>2
  <2> QED
    BY <2>3, <2>4
<1>3. /\ UNCHANGED <<buf, i_r, i_w, avail, nread, correction, put, blocks, queue>>
      /\ UNCHANGED loopVars
  BY <1>1 DEF InputBegins
<1>4. \A f : Good(f) => Good(f)'
  BY <1>3 DEF Good
<1>5. EncodeInv' /\ SendInv'
  BY <1>3, <1>4, LoopRests
<1>6. QueueInv'
  BY <1>3, <1>4 DEF QueueInv, AudioInv
<1>7. RingInv'
  BY <1>3 DEF RingInv, AudioInv
<1>8. AudioTypeOK'
  BY <1>2, <1>3 DEF AudioTypeOK, AudioInv, loopVars
<1> QED
  BY <1>5, <1>6, <1>7, <1>8 DEF AudioInv

(* One round of its loop. *)
LEMMA InputSampleInv ==
    ASSUME AudioInv, InputSample
    PROVE  AudioInv'
<1>1. PICK c \in {0, 1, 2} : c = Copies /\ Round(c)
  BY InputIsRound
<1>2. /\ RingInv'
      /\ buf' \in [0..(buflen - 1) -> Nat] /\ put' \in Seq(Nat)
      /\ i_r' \in Nat /\ i_w' \in Nat /\ avail' \in 0..(FrameLen - 1)
      /\ nread' \in Nat /\ correction' \in Int /\ blocks' \in Nat
  BY <1>1, RingStays
<1>3. \A f : Good(f) => Good(f)'
  BY <1>1, GoodStays
<1>4. UNCHANGED loopVars /\ blocks' \in {blocks, blocks + 1}
  BY <1>1 DEF InputSample, Round
<1>5. EncodeInv' /\ SendInv'
  BY <1>3, <1>4, LoopRests
<1>6. adjust_rate' \in Int /\ adjust_count' \in Int
  BY DEF InputSample, AudioInv, AudioTypeOK
<1>7. queue \in Seq(Block) /\ (\A k \in 1..Len(queue) : Good(queue[k]))
  BY DEF AudioInv, AudioTypeOK, QueueInv
<1>8. ASSUME queue' = queue
      PROVE  queue' \in Seq(Block) /\ QueueInv'
  BY <1>3, <1>7, <1>8, QueueRests
<1>9. ASSUME NEW f, queue' = Append(queue, f), Good(f)'
      PROVE  queue' \in Seq(Block) /\ QueueInv'
  <2>1. f \in Block
    BY <1>9 DEF Good
  <2>2. /\ queue' \in Seq(Block) /\ Len(queue') = Len(queue) + 1 /\ Len(queue) \in Nat
        /\ \A k \in 1..Len(queue) : queue'[k] = queue[k]
        /\ queue'[Len(queue) + 1] = f
    BY <1>7, <1>9, <2>1, AppendProperties, LenProperties
  <2>3. ASSUME NEW k \in 1..Len(queue') PROVE Good(queue[k])'
    <3>1. CASE k = Len(queue) + 1
      BY <1>9, <2>2, <3>1 DEF Good
    <3>2. CASE k # Len(queue) + 1
      <4>1. k \in 1..Len(queue)
        BY <2>2, <3>2
      <4>2. PICK g : g = queue[k] /\ Good(g) /\ g = queue'[k]
        BY <1>7, <2>2, <4>1
      <4>3. Good(g)'
        BY <1>3, <4>2
      <4> QED
        BY <4>2, <4>3 DEF Good
    <3> QED
      BY <3>1, <3>2
  <2> QED
    BY <2>2, <2>3 DEF QueueInv
<1>10. queue' \in Seq(Block) /\ QueueInv'
  <2>1. CASE avail + c >= FrameLen
    <3>1. PICK f : f = [d |-> i_r, no |-> blocks,
                        data |-> [k \in 1..FrameLen |-> buf'[(i_r + k - 1) % buflen]]]
      OBVIOUS
    <3>2. queue' = queue \/ queue' = Append(queue, f)
      BY <1>1, <2>1, <3>1 DEF InputSample, QueueBlock
    <3>3. Good(f)'
      BY <1>1, <2>1, <3>1, NewIsGood
    <3> QED
      BY <1>8, <1>9, <3>2, <3>3
  <2>2. CASE ~ (avail + c >= FrameLen)
    BY <1>1, <1>8, <2>2 DEF InputSample
  <2> QED
    BY <2>1, <2>2
<1>11. AudioTypeOK'
  BY <1>2, <1>4, <1>6, <1>10 DEF AudioTypeOK, AudioInv, loopVars
<1> QED
  BY <1>2, <1>5, <1>10, <1>11 DEF AudioInv

(* sq_run hands the oldest frame to the encoder, or passes it over. *)
LEMMA TakeFrameInv ==
    ASSUME AudioInv, TakeFrame
    PROVE  AudioInv'
<1>1. UNCHANGED ringVars
  BY DEF TakeFrame
<1>2. queue \in Seq(Block) /\ queue # <<>> /\ (\A k \in 1..Len(queue) : Good(queue[k]))
  BY DEF AudioInv, AudioTypeOK, QueueInv, TakeFrame
<1>3. /\ queue' \in Seq(Block) /\ Len(queue') = Len(queue) - 1
      /\ Len(queue) \in Nat /\ Len(queue) > 0
      /\ \A k \in 1..Len(queue') : queue'[k] = queue[k + 1]
      /\ Head(queue) = queue[1]
  BY <1>2, HeadTailProperties, LenProperties, EmptySeq DEF TakeFrame
<1>4. QueueInv'
  <2>1. ASSUME NEW k \in 1..Len(queue') PROVE Good(queue[k])'
    <3>1. k + 1 \in 1..Len(queue)
      BY <1>3
    <3>2. PICK f : f = queue[k + 1] /\ Good(f) /\ f = queue'[k]
      BY <1>2, <1>3, <3>1
    <3>3. Good(f)'
      BY <1>1, <3>2, GoodRests
    <3> QED
      BY <3>2, <3>3 DEF Good
  <2> QED
    BY <2>1 DEF QueueInv
<1>5. SendInv'
  BY DEF TakeFrame, SendInv, TimestampsCountSamples, AudioInv
<1>6. alaw' = alaw /\ alaw = <<>> /\ Len(alaw) = 0
  BY DEF TakeFrame, AudioInv, EncodeInv
<1>7. EncodeInv'
  <2>1. FrameLen \in Nat
    BY RingSize
  <2>2. CASE pcm' = Head(queue) /\ apc' = "encode"
    <3>1. PICK f : f = queue[1] /\ Good(f) /\ f = pcm'
      BY <1>2, <1>3, <2>2
    <3>2. Good(f)'
      BY <1>1, <3>1, GoodRests
    <3>3. Good(pcm)'
      BY <3>1, <3>2 DEF Good
    <3> QED
      BY <1>6, <2>1, <2>2, <3>3 DEF EncodeInv
  <2>3. CASE apc' = apc
    BY <1>6, <2>1, <2>3 DEF EncodeInv, TakeFrame
  <2> QED
    BY <2>2, <2>3 DEF TakeFrame
<1>8. AudioTypeOK'
  BY <1>1, <1>3, RingRests DEF AudioTypeOK, AudioInv, TakeFrame
<1> QED
  BY <1>1, <1>4, <1>5, <1>7, <1>8, RingRests DEF AudioInv

(* alaw_encode reads one sample where it lies in the ring. *)
LEMMA EncodeSampleInv ==
    ASSUME AudioInv, EncodeSample
    PROVE  AudioInv'
<1>1. UNCHANGED ringVars /\ apc = "encode" /\ UNCHANGED <<apc, pcm, queue>>
  BY DEF EncodeSample
<1>2. /\ FrameLen \in Nat /\ buflen \in Nat /\ alaw \in Seq(Nat) /\ Len(alaw) \in Nat
      /\ Len(alaw) < FrameLen
  BY RingSize, LenProperties DEF AudioInv, AudioTypeOK, EncodeSample
<1>3. Good(pcm)
  BY <1>1 DEF AudioInv, EncodeInv
<1>4. /\ pcm.d \in Nat /\ pcm.d + FrameLen <= buflen
      /\ blocks - pcm.no < N =>
            \A k \in 1..FrameLen : buf[pcm.d + k - 1] = pcm.data[k]
  BY <1>2, <1>3 DEF Good, Block
<1>5. PICK x : x = buf[pcm.d + Len(alaw)] /\ x \in Nat
  <2>1. pcm.d + Len(alaw) \in 0..(buflen - 1)
    BY <1>2, <1>4
  <2>2. buf \in [0..(buflen - 1) -> Nat]
    BY DEF AudioInv, AudioTypeOK
  <2> QED
    BY <2>1, <2>2
<1>6. /\ alaw' \in Seq(Nat) /\ Len(alaw') = Len(alaw) + 1
      /\ \A k \in 1..Len(alaw) : alaw'[k] = alaw[k]
      /\ alaw'[Len(alaw) + 1] = x
  BY <1>2, <1>5, AppendProperties DEF EncodeSample
<1>7. ASSUME blocks - pcm.no < N, NEW k \in 1..Len(alaw')
      PROVE  alaw'[k] = pcm.data[k]
  <2>1. CASE k = Len(alaw) + 1
    <3>1. k \in 1..FrameLen /\ pcm.d + k - 1 = pcm.d + Len(alaw)
      BY <1>2, <1>4, <2>1
    <3> QED
      BY <1>4, <1>5, <1>6, <1>7, <2>1, <3>1
  <2>2. CASE k # Len(alaw) + 1
    <3>1. k \in 1..Len(alaw)
      BY <1>2, <1>6, <2>2
    <3> QED
      BY <1>1, <1>6, <1>7, <3>1 DEF AudioInv, EncodeInv
  <2> QED
    BY <2>1, <2>2
<1>8. \A f : Good(f) => Good(f)'
  BY <1>1, GoodRests
<1>9. EncodeInv'
  <2>1. PICK f : f = pcm /\ f = pcm'
    BY <1>1
  <2>2. Good(pcm)'
    <3>1. Good(f)'
      BY <1>3, <1>8, <2>1
    <3> QED
      BY <2>1, <3>1 DEF Good
  <2>3. apc' = "encode" /\ blocks' = blocks /\ Len(alaw') <= FrameLen
    BY <1>1, <1>2, <1>6 DEF ringVars
  <2> QED
    BY <1>1, <1>7, <2>2, <2>3 DEF EncodeInv
<1>10. SendInv'
  BY DEF EncodeSample, SendInv, TimestampsCountSamples, AudioInv
<1>11. QueueInv'
  BY <1>1, <1>8, QueueRests
<1>12. AudioTypeOK'
  BY <1>1, <1>6, RingRests DEF AudioTypeOK, AudioInv, EncodeSample
<1> QED
  BY <1>1, <1>9, <1>10, <1>11, <1>12, RingRests DEF AudioInv

(* rawaudio_process_frame, or the frame is passed over. *)
LEMMA DeliverAlawInv ==
    ASSUME AudioInv, DeliverAlaw
    PROVE  AudioInv'
<1>1. /\ UNCHANGED ringVars /\ UNCHANGED <<queue, max_data_size, sent>>
      /\ apc = "encode" /\ Len(alaw) = FrameLen
  BY DEF DeliverAlaw
<1>2. /\ FrameLen \in Nat /\ timestamp \in Nat /\ rawaudio_len \in Nat /\ played \in Nat
      /\ timestamp + rawaudio_len = played /\ off \in Nat /\ alaw \in Seq(Nat)
  BY RingSize DEF AudioInv, AudioTypeOK, SendInv
<1>3. sent' = NoFrame
  BY <1>1 DEF AudioInv, SendInv
<1>4. QueueInv'
  BY <1>1, GoodRests, QueueRests
<1>5. CASE Process /\ apc' = "send" /\ off' = 0 /\ played' = played + Len(alaw)
           /\ UNCHANGED <<pcm, alaw>>
  <2>1. /\ timestamp' = timestamp + rawaudio_len /\ rawaudio_len' = FrameLen
        /\ apc' = "send" /\ off' = 0 /\ played' = played + FrameLen
        /\ pcm' = pcm /\ alaw' = alaw /\ blocks' = blocks
    BY <1>1, <1>5 DEF Process, ringVars
  <2>2. SendInv'
    BY <1>2, <1>3, <2>1 DEF SendInv, TimestampsCountSamples
  <2>3. Good(pcm)'
    <3>1. PICK f : f = pcm /\ f = pcm' /\ Good(f)
      BY <1>1, <2>1 DEF AudioInv, EncodeInv
    <3>2. Good(f)'
      BY <1>1, <3>1, GoodRests
    <3> QED
      BY <3>1, <3>2 DEF Good
  <2>4. EncodeInv'
    BY <1>1, <1>2, <2>1, <2>3 DEF EncodeInv, AudioInv
  <2>5. AudioTypeOK'
    BY <1>1, <1>2, <2>1, RingRests DEF AudioTypeOK, AudioInv
  <2> QED
    BY <1>1, <1>4, <2>2, <2>4, <2>5, RingRests DEF AudioInv
<1>6. CASE /\ apc' = "idle" /\ pcm' = NoFrame /\ alaw' = <<>>
           /\ UNCHANGED <<timestamp, rawaudio_len, off, played>>
  <2>1. SendInv'
    BY <1>2, <1>3, <1>6 DEF SendInv, TimestampsCountSamples
  <2>2. EncodeInv'
    BY <1>2, <1>6 DEF EncodeInv
  <2>3. AudioTypeOK'
    BY <1>1, <1>2, <1>6, RingRests DEF AudioTypeOK, AudioInv
  <2> QED
    BY <1>1, <1>4, <2>1, <2>2, <2>3, RingRests DEF AudioInv
<1> QED
  BY <1>5, <1>6 DEF DeliverAlaw

(* One packet of rawaudio_send, or the end of the endpoint. *)
LEMMA SendPacketInv ==
    ASSUME AudioInv, SendPacket
    PROVE  AudioInv'
<1>1. /\ UNCHANGED ringVars
      /\ UNCHANGED <<queue, apc, pcm, alaw, timestamp, rawaudio_len, max_data_size, played>>
      /\ apc = "send" /\ off < rawaudio_len
  BY DEF SendPacket
<1>2. /\ FrameLen \in Nat /\ timestamp \in Nat /\ rawaudio_len = FrameLen /\ played \in Nat
      /\ timestamp + FrameLen = played /\ off \in Nat /\ off < FrameLen
      /\ alaw \in Seq(Nat) /\ Len(alaw) = FrameLen
      /\ max_data_size \in Nat /\ max_data_size > 0
  BY <1>1, RingSize DEF AudioInv, AudioTypeOK, SendInv, EncodeInv
<1>3. EncodeInv'
  <2>1. PICK f : f = pcm /\ f = pcm' /\ Good(f)
    BY <1>1 DEF AudioInv, EncodeInv
  <2>2. Good(f)'
    BY <1>1, <2>1, GoodRests
  <2>3. Good(pcm)'
    BY <2>1, <2>2 DEF Good
  <2>4. blocks' = blocks
    BY <1>1 DEF ringVars
  <2> QED
    BY <1>1, <2>3, <2>4 DEF EncodeInv, AudioInv
<1>4. QueueInv'
  BY <1>1, GoodRests, QueueRests
<1>5. off' \in Nat /\ SendInv'
  <2>1. CASE off' = rawaudio_len /\ sent' = sent
    <3>1. SendInv'
      BY <1>1, <2>1 DEF SendInv, TimestampsCountSamples, AudioInv
    <3> QED
      BY <1>2, <2>1, <3>1
  <2>2. ASSUME NEW plen,
               plen = IF rawaudio_len - off > max_data_size
                      THEN max_data_size ELSE rawaudio_len - off,
               off' = off + plen,
               sent' = [ts |-> timestamp + off, from |-> off,
                        data |-> SubSeq(alaw, off + 1, off + plen)]
        PROVE  off' \in Nat /\ SendInv'
    <3>1. plen \in 1..max_data_size /\ off + plen <= FrameLen /\ plen \in Nat
      BY <1>2, <2>2
    <3>2. \A i \in (off + 1)..(off + plen) : alaw[i] \in Nat
      BY <1>2, <3>1, ElementOfSeq
    <3>3. PICK s : s = SubSeq(alaw, off + 1, off + plen)
      OBVIOUS
    <3>4. /\ Len(s) = (IF off + 1 <= off + plen THEN (off + plen) - (off + 1) + 1 ELSE 0)
          /\ \A i \in 1..((off + plen) - (off + 1) + 1) : s[i] = alaw[(off + 1) + i - 1]
      BY <1>2, <3>1, <3>2, <3>3, SubSeqProperties
    <3>5. Len(s) = plen
      BY <1>2, <3>1, <3>4
    <3>6. s[1] = alaw[off + 1]
      <4>1. 1 \in 1..((off + plen) - (off + 1) + 1) /\ (off + 1) + 1 - 1 = off + 1
        BY <1>2, <3>1
      <4> QED
        BY <3>4, <4>1
    <3>7. timestamp + off = (played - FrameLen) + off /\ off + 1 \in 1..FrameLen
      BY <1>2
    <3>8. sent'.ts = timestamp + off /\ sent'.from = off /\ sent'.data = s
      BY <2>2, <3>3
    <3>9. TimestampsCountSamples'
      BY <1>1, <3>1, <3>5, <3>6, <3>7, <3>8 DEF TimestampsCountSamples
    <3> QED
      BY <1>1, <1>2, <2>2, <3>1, <3>9 DEF SendInv, AudioInv
  <2> QED
    BY <2>1, <2>2 DEF SendPacket
<1>6. AudioTypeOK'
  BY <1>1, <1>5, RingRests DEF AudioTypeOK, AudioInv
<1> QED
  BY <1>1, <1>3, <1>4, <1>5, <1>6, RingRests DEF AudioInv

(* The end of rawaudio_send. *)
LEMMA FrameSentInv ==
    ASSUME AudioInv, FrameSent
    PROVE  AudioInv'
<1>1. /\ UNCHANGED ringVars /\ queue' = queue
      /\ UNCHANGED <<timestamp, rawaudio_len, off, max_data_size, played>>
      /\ apc' = "idle" /\ alaw' = <<>> /\ sent' = NoFrame
  BY DEF FrameSent
<1>2. SendInv'
  BY <1>1 DEF SendInv, TimestampsCountSamples, AudioInv
<1>3. EncodeInv'
  BY <1>1, RingSize DEF EncodeInv
<1>4. QueueInv'
  BY <1>1, GoodRests, QueueRests
<1>5. AudioTypeOK'
  BY <1>1, RingRests DEF AudioTypeOK, AudioInv
<1> QED
  BY <1>1, <1>2, <1>3, <1>4, <1>5, RingRests DEF AudioInv

(* The empty ring and the empty queue. *)
LEMMA InitAudioInv == AudioInit => AudioInv
<1> SUFFICES ASSUME AudioInit PROVE AudioInv
  OBVIOUS
<1>1. /\ FrameLen \in Nat /\ FrameLen > 1 /\ N \in Nat /\ N >= 2 /\ buflen \in Nat
  BY RingSize
<1>2. AudioTypeOK
  <2>1. max_data_size \in Nat \ {0}
    BY AudioAssumption DEF AudioInit
  <2> QED
    BY <1>1, <2>1 DEF AudioInit, AudioTypeOK
<1>3. RingInv
  <2>1. 0 \in 0..(N - 1) /\ 0 = 0 * FrameLen
    BY <1>1
  <2> QED
    BY <2>1 DEF AudioInit, RingInv
<1>4. QueueInv /\ EncodeInv /\ SendInv
  BY <1>1 DEF AudioInit, QueueInv, EncodeInv, SendInv, TimestampsCountSamples
<1> QED
  BY <1>2, <1>3, <1>4 DEF AudioInv

(* Every step keeps the invariant. *)
LEMMA NextAudioInv == AudioInv /\ [AudioNext]_audioVars => AudioInv'
<1> SUFFICES ASSUME AudioInv, [AudioNext]_audioVars PROVE AudioInv'
  OBVIOUS
<1>1. CASE UNCHANGED audioVars
  <2>1. UNCHANGED ringVars /\ UNCHANGED loopVars /\ queue' = queue /\ blocks' = blocks
    BY <1>1 DEF audioVars, ringVars
  <2>2. \A f : Good(f) => Good(f)'
    BY <2>1, GoodRests
  <2>3. EncodeInv' /\ SendInv' /\ QueueInv'
    BY <2>1, <2>2, LoopRests, QueueRests
  <2>4. AudioTypeOK'
    BY <2>1, RingRests DEF AudioTypeOK, AudioInv, loopVars
  <2> QED
    BY <2>1, <2>3, <2>4, RingRests DEF AudioInv
<1> QED
  BY <1>1, InputBeginsInv, InputSampleInv, TakeFrameInv, EncodeSampleInv, DeliverAlawInv,
     SendPacketInv, FrameSentInv DEF AudioNext, AudioThread, AudioLoop

-----------------------------------------------------------------------------
(* A good frame is a piece of the sample stream, as the code sees it. *)
LEMMA GoodIsPiece ==
    ASSUME AudioInv, NEW f, Good(f)
    PROVE  f.data = SubSeq(put, f.no * FrameLen + 1, (f.no + 1) * FrameLen)
<1>1. FrameLen \in Nat /\ FrameLen > 1
  BY RingSize
<1>2. /\ f.no \in Nat /\ f.no < blocks /\ f.data \in [1..FrameLen -> Nat] /\ blocks \in Nat
      /\ \A k \in 1..FrameLen : f.data[k] = put[f.no * FrameLen + k]
  BY DEF Good, Block, AudioInv, AudioTypeOK
<1>3. PICK x \in Nat : x = f.no * FrameLen /\ (f.no + 1) * FrameLen = x + FrameLen
  BY <1>2, Times
<1>4. \A k \in 1..FrameLen : f.data[k] = put[x + k]
  BY <1>2, <1>3
<1>5. \A i \in (x + 1)..(x + FrameLen) : put[i] \in Nat
  <2>1. ASSUME NEW i \in (x + 1)..(x + FrameLen) PROVE put[i] \in Nat
    <3>1. PICK k \in 1..FrameLen : i = x + k
      <4>1. i - x \in 1..FrameLen /\ i = x + (i - x)
        BY <1>1, x \in Nat
      <4> QED
        BY <4>1
    <3> QED
      BY <1>2, <1>4, <3>1
  <2> QED
    BY <2>1
<1>6. PICK s : s = SubSeq(put, x + 1, x + FrameLen)
  OBVIOUS
<1>7. /\ s \in Seq(Nat)
      /\ Len(s) = (IF x + 1 <= x + FrameLen THEN (x + FrameLen) - (x + 1) + 1 ELSE 0)
      /\ \A i \in 1..((x + FrameLen) - (x + 1) + 1) : s[i] = put[(x + 1) + i - 1]
  BY <1>1, <1>5, <1>6, x \in Nat, SubSeqProperties
<1>8. Len(s) = FrameLen /\ (x + FrameLen) - (x + 1) + 1 = FrameLen
  BY <1>1, <1>7, x \in Nat
<1>9. ASSUME NEW k \in 1..FrameLen PROVE s[k] = f.data[k]
  <2>1. (x + 1) + k - 1 = x + k
    BY <1>1, x \in Nat
  <2> QED
    BY <1>4, <1>7, <1>8, <2>1
<1>10. s \in [1..FrameLen -> Nat]
  BY <1>7, <1>8, LenProperties
<1>11. f.data = s
  <2>1. PICK g \in [1..FrameLen -> Nat] : g = f.data
    BY <1>2
  <2>2. \A k \in 1..FrameLen : s[k] = g[k]
    BY <1>9, <2>1
  <2>3. g = s
    <3>1. g = [k \in 1..FrameLen |-> g[k]] /\ s = [k \in 1..FrameLen |-> s[k]]
      BY <1>10
    <3> QED
      BY <2>2, <3>1, Zenon
  <2> QED
    BY <2>1, <2>3
<1> QED
  BY <1>3, <1>6, <1>11

(* Every state of the audio path satisfies the inductive invariant. *)
THEOREM AudioInvHolds == AudioSpec => []AudioInv
<1>1. AudioInit => AudioInv
  BY InitAudioInv
<1>2. AudioInv /\ [AudioNext]_audioVars => AudioInv'
  BY NextAudioInv
<1> QED
  BY <1>1, <1>2, PTL DEF AudioSpec

(* audio_ring_input loses nothing between two blocks and two calls: for    *)
(* every block length, ring, correction and cut of the input the blocks it *)
(* queues are the successive pieces of the corrected sample stream.        *)
THEOREM BlocksInOrderHolds == AudioSpec => []BlocksInOrder
<1>1. AudioInv => BlocksInOrder
  <2> SUFFICES ASSUME AudioInv PROVE BlocksInOrder
    OBVIOUS
  <2>1. queue \in Seq(Block) /\ DOMAIN queue = 1..Len(queue)
    BY LenProperties DEF AudioInv, AudioTypeOK
  <2>2. ASSUME NEW k \in DOMAIN queue
        PROVE  /\ queue[k].d + FrameLen <= buflen
               /\ queue[k].data = SubSeq(put, queue[k].no * FrameLen + 1,
                                               (queue[k].no + 1) * FrameLen)
    <3>1. Good(queue[k])
      BY <2>1 DEF AudioInv, QueueInv
    <3> QED
      BY <3>1, GoodIsPiece DEF Good
  <2>3. avail = Len(put) - blocks * FrameLen
    <3>1. PICK b \in Nat : b = blocks * FrameLen
      BY Times DEF AudioInv, AudioTypeOK
    <3>2. Len(put) = b + avail /\ avail \in Int
      BY <3>1, RingSize DEF AudioInv, AudioTypeOK, RingInv
    <3>3. avail = (b + avail) - b
      BY <3>2, b \in Nat
    <3> QED
      BY <3>1, <3>2, <3>3
  <2> QED
    BY <2>2, <2>3 DEF BlocksInOrder, AudioInv, AudioTypeOK, RingInv
<1> QED
  BY <1>1, AudioInvHolds, PTL

(* alaw_encode sends other samples than the frame's only when, with the    *)
(* frame itself, as many blocks have been completed as the ring holds: a   *)
(* shorter backlog of the event loop tears no block.                       *)
THEOREM StaleOnlyBehindBacklogHolds == AudioSpec => []StaleOnlyBehindBacklog
<1>1. AudioInv => StaleOnlyBehindBacklog
  <2> SUFFICES ASSUME AudioInv, alaw # <<>>, ~ (blocks - pcm.no >= N)
               PROVE  alaw = SubSeq(pcm.data, 1, Len(alaw))
    BY DEF StaleOnlyBehindBacklog, N
  <2>1. apc # "idle" /\ Good(pcm) /\ Len(alaw) <= FrameLen
    BY DEF AudioInv, EncodeInv
  <2>2. /\ pcm.no \in Nat /\ pcm.data \in [1..FrameLen -> Nat] /\ blocks \in Nat
        /\ N \in Nat /\ FrameLen \in Nat
    BY <2>1, RingSize DEF Good, Block, AudioInv, AudioTypeOK
  <2>3. \A k \in 1..Len(alaw) : alaw[k] = pcm.data[k]
    <3>1. blocks - pcm.no < N
      BY <2>2
    <3> QED
      BY <2>1, <3>1 DEF AudioInv, EncodeInv
  <2>4. alaw \in Seq(Nat) /\ Len(alaw) \in Nat
    BY LenProperties DEF AudioInv, AudioTypeOK
  <2>5. \A i \in 1..Len(alaw) : pcm.data[i] \in Nat
    BY <2>1, <2>2, <2>4
  <2>6. PICK s : s = SubSeq(pcm.data, 1, Len(alaw))
    OBVIOUS
  <2>7. /\ s \in Seq(Nat)
        /\ Len(s) = (IF 1 <= Len(alaw) THEN Len(alaw) - 1 + 1 ELSE 0)
        /\ \A i \in 1..(Len(alaw) - 1 + 1) : s[i] = pcm.data[1 + i - 1]
    BY <2>4, <2>5, <2>6, SubSeqProperties
  <2>8. Len(s) = Len(alaw) /\ Len(alaw) - 1 + 1 = Len(alaw)
    BY <2>4, <2>7
  <2>9. ASSUME NEW k \in 1..Len(alaw) PROVE s[k] = alaw[k]
    <3>1. 1 + k - 1 = k
      BY <2>4
    <3> QED
      BY <2>3, <2>7, <2>8, <3>1
  <2>10. s = alaw
    BY <2>4, <2>7, <2>8, <2>9, SeqEqual
  <2> QED
    BY <2>6, <2>10
<1> QED
  BY <1>1, AudioInvHolds, PTL

(* Across frames, packets and failed sends the timestamp of a packet of    *)
(* rawaudio_send is the number of samples delivered before its first.      *)
THEOREM TimestampsCountSamplesHolds == AudioSpec => []TimestampsCountSamples
<1>1. AudioInv => TimestampsCountSamples
  BY DEF AudioInv, SendInv
<1> QED
  BY <1>1, AudioInvHolds, PTL

(***************************************************************************)
(* The packets of the video track.                                         *)
(***************************************************************************)
(* The client is behind by the packets lost since the last that arrived.   *)
LossInv ==
    /\ seqnum \in 0..(SeqNums - 1) /\ lost \in 0..MaxLost
    /\ last # NULL => last \in 0..(SeqNums - 1)
    /\ last # NULL /\ pc # "gone" => seqnum = (last + 1 + lost) % SeqNums

(* The number after x, on the circle of sequence numbers. *)
LEMMA Circle ==
    ASSUME NEW x \in Nat, x < 2 * SeqNums
    PROVE  /\ SeqNums \in Nat /\ SeqNums > 1
           /\ x % SeqNums = IF x < SeqNums THEN x ELSE x - SeqNums
BY H264Assumption

(* One more is lost, or arrives. *)
LEMMA Counts ==
    ASSUME NEW y \in 0..(SeqNums - 1), NEW k \in 0..MaxLost
    PROVE  /\ (y + 1) % SeqNums \in 0..(SeqNums - 1)
           /\ (y + 1 + 0) % SeqNums = (y + 1) % SeqNums
           /\ k < MaxLost => (((y + 1 + k) % SeqNums) + 1) % SeqNums = (y + 1 + (k + 1)) % SeqNums
           /\ k > 0 <=> (y + 1 + k) % SeqNums # (y + 1) % SeqNums
<1>1. SeqNums \in Nat /\ MaxLost \in Nat /\ SeqNums > MaxLost + 1
  BY H264Assumption
<1>2. \A x \in Nat : x < 2 * SeqNums =>
          x % SeqNums = IF x < SeqNums THEN x ELSE x - SeqNums
  BY Circle
<1>3. /\ (y + 1) % SeqNums = IF y + 1 < SeqNums THEN y + 1 ELSE y + 1 - SeqNums
      /\ (y + 1 + k) % SeqNums = IF y + 1 + k < SeqNums THEN y + 1 + k ELSE y + 1 + k - SeqNums
  BY <1>1, <1>2
<1>4. ASSUME k < MaxLost
      PROVE  (((y + 1 + k) % SeqNums) + 1) % SeqNums = (y + 1 + (k + 1)) % SeqNums
  <2>1. (y + 1 + (k + 1)) % SeqNums =
            IF y + 1 + (k + 1) < SeqNums THEN y + 1 + (k + 1) ELSE y + 1 + (k + 1) - SeqNums
    BY <1>1, <1>2, <1>4
  <2>2. PICK z \in 0..(SeqNums - 1) : z = (y + 1 + k) % SeqNums
    BY <1>1, <1>3
  <2>3. (z + 1) % SeqNums = IF z + 1 < SeqNums THEN z + 1 ELSE z + 1 - SeqNums
    BY <1>1, <1>2
  <2>4. (IF z + 1 < SeqNums THEN z + 1 ELSE z + 1 - SeqNums)
          = (IF y + 1 + (k + 1) < SeqNums THEN y + 1 + (k + 1) ELSE y + 1 + (k + 1) - SeqNums)
    BY <1>1, <1>3, <1>4, <2>2
  <2> QED
    BY <2>1, <2>2, <2>3, <2>4
<1>5. (y + 1) % SeqNums \in 0..(SeqNums - 1) /\ y + 1 + 0 = y + 1
  BY <1>1, <1>3
<1>6. k > 0 <=> (y + 1 + k) % SeqNums # (y + 1) % SeqNums
  BY <1>1, <1>3
<1> QED
  BY <1>4, <1>5, <1>6

(* A packet sent, lost or the endpoint's last. *)
LEMMA PacketCounts ==
    ASSUME LossInv, NEW p, NEW next, send_rtp_packet(p, next), pc # "gone"
    PROVE  LossInv'
<1>1. seqnum \in 0..(SeqNums - 1) /\ lost \in 0..MaxLost
      /\ (last # NULL => last \in 0..(SeqNums - 1) /\ seqnum = (last + 1 + lost) % SeqNums)
  BY DEF LossInv
<1>2. SeqNums \in Nat /\ MaxLost \in Nat
  BY H264Assumption
<1>3. (seqnum + 1) % SeqNums \in 0..(SeqNums - 1)
  BY <1>1, <1>2, Counts
<1>4. CASE Receive(p) /\ lost' = 0 /\ seqnum' = (seqnum + 1) % SeqNums
  <2>1. last' = seqnum
    BY <1>4 DEF Receive
  <2>2. seqnum' = (last' + 1 + lost') % SeqNums
    BY <1>1, <1>2, <1>4, <2>1, Counts
  <2> QED
    BY <1>1, <1>2, <1>3, <1>4, <2>1, <2>2 DEF LossInv
<1>5. CASE lost < MaxLost /\ lost' = lost + 1 /\ last' = last /\ seqnum' = (seqnum + 1) % SeqNums
  <2>1. last # NULL => seqnum' = (last + 1 + lost') % SeqNums
    BY <1>1, <1>2, <1>5, Counts
  <2>2. lost' \in 0..MaxLost
    BY <1>1, <1>2, <1>5
  <2> QED
    BY <1>1, <1>3, <1>5, <2>1, <2>2 DEF LossInv
<1>6. CASE pc' = "gone" /\ UNCHANGED <<seqnum, last, lost>>
  BY <1>1, <1>6 DEF LossInv
<1> QED
  BY <1>4, <1>5, <1>6 DEF send_rtp_packet

(* Every step keeps client and numbers that far apart. *)
LEMMA NextLossInv == LossInv /\ [Next]_vars => LossInv'
<1> SUFFICES ASSUME LossInv, [Next]_vars PROVE LossInv'
  OBVIOUS
<1>1. CASE \E f \in Frames : h263_process_frame(f)
  BY <1>1 DEF LossInv, h263_process_frame
<1>2. CASE h263_send_load \/ h263_send_return
  BY <1>2 DEF LossInv, h263_send_load, h263_send_return
<1>3. CASE h263_send_single
  BY <1>3, PacketCounts DEF h263_send_single
<1>4. CASE h263_send_fragment
  BY <1>4, PacketCounts DEF h263_send_fragment
<1>5. CASE new_rtp_endpoint
  BY <1>5, H264Assumption DEF LossInv, new_rtp_endpoint
<1>6. CASE UNCHANGED vars
  BY <1>6 DEF LossInv, vars
<1> QED
  BY <1>1, <1>2, <1>3, <1>4, <1>5, <1>6 DEF Next

(* A client can tell from the sequence numbers that packets are missing,   *)
(* also when h263_send gave up in the middle of a frame: for every frame,  *)
(* packet length and number of sequence numbers, as long as not all of     *)
(* these are lost in a row.                                                *)
THEOREM LossIsVisibleHolds == Spec => []LossIsVisible
<1>1. Init => LossInv
  BY H264Assumption DEF Init, LossInv
<1>2. LossInv => LossIsVisible
  BY H264Assumption, Counts DEF LossInv, LossIsVisible
<1> QED
  BY <1>1, <1>2, NextLossInv, PTL DEF Spec

(***************************************************************************)
(* The units of a frame.  The bytes of a frame are its units, each behind  *)
(* a start code (FrameLaid); the search for start codes takes them apart   *)
(* again (Loads); fragments are pieces of a unit that follow each other    *)
(* (NextPart); and the client has as much of a unit as has been sent, or   *)
(* knows from the numbers that it has not (UnitsInv).                      *)
(***************************************************************************)
(* Induction, for a set of numbers. *)
LEMMA Induction ==
    ASSUME NEW P, 0 \in P, \A n \in Nat : n \in P => n + 1 \in P
    PROVE  \A n \in Nat : n \in P
<1> SUFFICES ASSUME Nat \ P # {} PROVE FALSE
  OBVIOUS
<1>2. PICK x \in Nat \ P : \A y \in Nat \ P : ~ (<<y, x>> \in OpToRel(<, Nat))
  BY NatLessThanWellFounded, WFMin
<1>3. \A y \in Nat \ P : ~ (y < x)
  BY <1>2 DEF OpToRel
<1>4. x # 0 /\ x - 1 \in Nat
  OBVIOUS
<1>5. x - 1 \in P
  BY <1>3, <1>4
<1> QED
  BY <1>4, <1>5

(* g[i] is the first i sequences of s joined. *)
Joins(g, s, n) ==
  /\ g[0] = <<>>
  /\ \A i \in 1..n : g[i] = g[i - 1] \o s[i]

\* Sequences can be joined one after the other.
LEMMA JoinExists ==
    ASSUME NEW S, NEW m \in Nat, NEW s \in [1..m -> Seq(S)]
    PROVE  \E g \in [0..m -> Seq(S)] : Joins(g, s, m)
<1> DEFINE P == {n \in Nat : n <= m => \E g \in [0..n -> Seq(S)] : Joins(g, s, n)}
<1>1. 0 \in P
  <2> DEFINE h == [i \in 0..0 |-> <<>>]
  <2>1. h \in [0..0 -> Seq(S)] /\ Joins(h, s, 0)
    BY DEF Joins
  <2> QED BY <2>1
<1>2. ASSUME NEW n \in Nat, n \in P PROVE n + 1 \in P
  <2> SUFFICES ASSUME n + 1 <= m PROVE \E g \in [0..(n + 1) -> Seq(S)] : Joins(g, s, n + 1)
    OBVIOUS
  <2>1. PICK g \in [0..n -> Seq(S)] : Joins(g, s, n)
    BY <1>2
  <2> DEFINE h == [i \in 0..(n + 1) |-> IF i <= n THEN g[i] ELSE g[n] \o s[n + 1]]
  <2>2. h \in [0..(n + 1) -> Seq(S)]
    <3>1. g[n] \o s[n + 1] \in Seq(S)
      BY ConcatProperties
    <3> QED BY <3>1
  <2>4. h[n + 1] = g[n] \o s[n + 1] /\ \A i \in 0..n : h[i] = g[i]
    OBVIOUS
  <2> HIDE DEF h
  <2>3. Joins(h, s, n + 1)
    <3>1. h[0] = <<>>
      BY <2>1, <2>4 DEF Joins
    <3>2. ASSUME NEW i \in 1..(n + 1) PROVE h[i] = h[i - 1] \o s[i]
      <4>1. CASE i <= n
        <5>0. i \in 1..n
          BY <4>1
        <5>1. g[i] = g[i - 1] \o s[i]
          BY <5>0, <2>1, Zenon DEF Joins
        <5>2. h[i] = g[i] /\ h[i - 1] = g[i - 1]
          BY <4>1, <2>4
        <5> QED BY <5>1, <5>2
      <4>2. CASE i = n + 1
        <5>1. h[i - 1] = g[n]
          BY <4>2, <2>4
        <5> QED BY <5>1, <4>2, <2>4
      <4>3. i <= n \/ i = n + 1
        OBVIOUS
      <4> QED BY <4>1, <4>2, <4>3
    <3> QED BY <3>1, <3>2 DEF Joins
  <2> QED BY <2>2, <2>3
<1>3. m \in P
  <2> HIDE DEF P
  <2> QED BY <1>1, <1>2, Induction
<1> QED
  BY <1>3

(* FlattenSeq *)
LEMMA FlattenJoins ==
    ASSUME NEW S, NEW m \in Nat, m > 0, NEW s \in [1..m -> Seq(S)]
    PROVE  \E g \in [0..m -> Seq(S)] : Joins(g, s, m) /\ FlattenSeq(s) = g[m]
<1>1. PICK g \in [0..m -> Seq(S)] : Joins(g, s, m)
  BY JoinExists
<1>2. Len(s) = m
  OBVIOUS
<1> DEFINE Def(f) == [i \in 1..Len(s) |-> IF i = 1 THEN s[i] ELSE f[i-1] \o s[i]]
           gg == [i \in 1..m |-> g[i]]
           f == CHOOSE h : h = Def(h)
<1>3. gg = Def(gg)
  <2>1. ASSUME NEW i \in 1..m 
        PROVE g[i] = IF i = 1 THEN s[i] ELSE gg[i-1] \o s[i]
    <3>1. CASE i = 1
      <4>1. g[1] = g[1 - 1] \o s[1] /\ g[0] = <<>>
        BY <3>1, <1>1, Zenon DEF Joins
      <4>2. s[1] \in Seq(S) /\ 1 - 1 = 0
        BY <3>1
      <4>3. g[1] = <<>> \o s[1]
        BY <4>1, <4>2, Zenon
      <4>4. g[1] = s[1]
        BY <4>2, <4>3, ConcatEmptySeq, Zenon
      <4> QED BY <3>1, <4>4
    <3>2. CASE i # 1
      <4>1. gg[i - 1] = g[i - 1]
        BY <3>2
      <4>2. g[i] = g[i - 1] \o s[i]
        BY <1>1, Zenon DEF Joins
      <4> QED BY <3>2, <4>1, <4>2, Zenon
    <3> QED BY <3>1, <3>2
  <2>2. gg = [i \in 1..m |-> IF i = 1 THEN s[i] ELSE gg[i-1] \o s[i]]
    BY <2>1, Zenon
  <2> QED BY <1>2, <2>2, Zenon
<1>4. f = Def(f)
  <2> HIDE DEF Def, gg
  <2> QED
  BY <1>3
<1>5. FlattenSeq(s) = f[m]
  BY <1>2 DEF FlattenSeq
<1> DEFINE P == {n \in Nat : n + 1 <= m => f[n + 1] = g[n + 1]}
<1> HIDE DEF f
<1>6. \A i \in 1..m : f[i] = IF i = 1 THEN s[i] ELSE f[i - 1] \o s[i]
  <2>1. ASSUME NEW i \in 1..m PROVE Def(f)[i] = IF i = 1 THEN s[i] ELSE f[i - 1] \o s[i]
    BY <1>2, Zenon
  <2> HIDE DEF Def
  <2> QED BY <2>1, <1>4, Zenon
<1>7. m - 1 \in P
  <2>1. 0 \in P
    <3>0. 1 \in 1..m
      OBVIOUS
    <3>1. g[1] = g[1 - 1] \o s[1]
      BY <1>1, <3>0, Zenon DEF Joins
    <3>2. g[0] = <<>> /\ s[1] \in Seq(S)
      BY <3>0, <1>1 DEF Joins
    <3>5. g[1] = <<>> \o s[1]
      BY <3>1, <3>2, 1 - 1 = 0, Zenon
    <3>3. g[1] = s[1]
      BY <3>5, <3>2, ConcatEmptySeq, Zenon
    <3>4. f[1] = s[1]
      BY <1>6, <3>0, Zenon
    <3> QED BY <3>3, <3>4
  <2>2. ASSUME NEW n \in Nat, n \in P PROVE n + 1 \in P
    <3> SUFFICES ASSUME n + 2 <= m PROVE f[n + 2] = g[n + 2]
      OBVIOUS
    <3>0. n + 2 \in 1..m /\ n + 2 # 1 /\ (n + 2) - 1 = n + 1
      OBVIOUS
    <3>1. f[n + 2] = f[n + 1] \o s[n + 2]
      BY <3>0, <1>6, Zenon
    <3>2. g[n + 2] = g[n + 1] \o s[n + 2]
      BY <3>0, <1>1, Zenon DEF Joins
    <3>3. f[n + 1] = g[n + 1]
      BY <2>2
    <3> QED BY <3>1, <3>2, <3>3, Zenon
  <2>3. m - 1 \in Nat
    OBVIOUS
  <2> HIDE DEF P
  <2> QED BY <2>1, <2>2, <2>3, Induction
<1>8. f[m] = g[m]
  BY <1>7
<1> QED
  BY <1>1, <1>5, <1>8

-----------------------------------------------------------------------------
(* Where the units of a frame lie in its bytes: unit i, behind its start   *)
(* code, ends at o[i].                                                     *)
Laid(bytes, f, o) ==
    /\ o \in [0..Len(f) -> Nat] /\ o[0] = 0 /\ o[Len(f)] = Len(bytes)
    /\ \A i \in 1..Len(f) :
         /\ o[i] = o[i - 1] + (4 + Len(f[i])) /\ o[i] <= Len(bytes)
         /\ \A j \in 1..4 : bytes[o[i - 1] + j] = StartCode[j]
         /\ \A j \in 1..Len(f[i]) : bytes[o[i - 1] + 4 + j] = f[i][j]

(* A unit with its start code. *)
LEMMA Coded ==
    ASSUME NEW u \in Seq(Byte)
    PROVE  /\ StartCode \o u \in Seq(Byte) /\ Len(StartCode \o u) = 4 + Len(u)
           /\ \A j \in 1..4 : (StartCode \o u)[j] = StartCode[j]
           /\ \A j \in 1..Len(u) : (StartCode \o u)[4 + j] = u[j]
<1>1. StartCode \in Seq(Byte) /\ Len(StartCode) = 4
  BY DEF StartCode, Byte
<1>2. ASSUME NEW c \in Seq(Byte)
      PROVE  /\ c \o u \in Seq(Byte) /\ Len(c \o u) = Len(c) + Len(u)
             /\ \A j \in 1..Len(c) : (c \o u)[j] = c[j]
             /\ \A j \in 1..Len(u) : (c \o u)[Len(c) + j] = u[j]
  OBVIOUS
<1>3. /\ StartCode \o u \in Seq(Byte) /\ Len(StartCode \o u) = Len(StartCode) + Len(u)
      /\ \A j \in 1..Len(StartCode) : (StartCode \o u)[j] = StartCode[j]
      /\ \A j \in 1..Len(u) : (StartCode \o u)[Len(StartCode) + j] = u[j]
  <2>1. StartCode \in Seq(Byte)
    BY <1>1
  <2> QED BY <2>1, <1>2, Zenon
<1>4. Len(StartCode) = 4
  BY <1>1
<1> QED
  BY <1>3, <1>4, Zenon

(* The bytes of a frame are its units behind their start codes. *)
LEMMA FrameLaid ==
    ASSUME NEW f, Encoded(f)
    PROVE  AnnexB(f) \in Seq(Byte) /\ \E o : Laid(AnnexB(f), f, o)
<1> DEFINE n == Len(f)
           s == [i \in 1..n |-> StartCode \o f[i]]
<1>1. n \in Nat /\ n > 0 /\ DOMAIN f = 1..n /\ \A i \in 1..n : f[i] \in Seq(Byte)
  BY DEF Encoded
<1>2. \A i \in 1..n : f[i] \in Seq(Byte) /\ Len(f[i]) \in Nat
  BY <1>1, LenProperties
<1> HIDE DEF n
<1>3. s \in [1..n -> Seq(Byte)]
  BY <1>1, Coded
<1>4. PICK g \in [0..n -> Seq(Byte)] : Joins(g, s, n) /\ FlattenSeq(s) = g[n]
  <2> HIDE DEF s
  <2> QED BY <1>1, <1>3, FlattenJoins
<1>5. AnnexB(f) = g[n]
  BY <1>1, <1>4 DEF AnnexB
<1> DEFINE o == [i \in 0..n |-> Len(g[i])]
           Piece(m, i) == /\ o[i] <= Len(g[m])
                          /\ \A j \in 1..Len(s[i]) : g[m][o[i - 1] + j] = s[i][j]
           P == {m \in Nat : m <= n => \A i \in 1..m : Piece(m, i)}
<1>6. g[0] = <<>> /\ \A i \in 1..n : g[i] = g[i - 1] \o s[i]
  BY <1>4, Zenon DEF Joins
<1> HIDE DEF s
<1>7. \A i \in 0..n : o[i] = Len(g[i]) /\ o[i] \in Nat /\ g[i] \in Seq(Byte)
  BY LenProperties
<1> HIDE DEF o
<1>8. ASSUME NEW m \in Nat, m + 1 <= n
      PROVE  /\ Len(g[m + 1]) = o[m] + Len(s[m + 1]) /\ Len(s[m + 1]) \in Nat
             /\ \A j \in 1..o[m] : g[m + 1][j] = g[m][j]
             /\ \A j \in 1..Len(s[m + 1]) : g[m + 1][o[m] + j] = s[m + 1][j]
  <2>0. m + 1 \in 1..n /\ m \in 0..n /\ (m + 1) - 1 = m
    BY <1>8, <1>1
  <2>1. g[m + 1] = g[m] \o s[m + 1]
    BY <2>0, <1>6, Zenon
  <2>2. g[m] \in Seq(Byte) /\ s[m + 1] \in Seq(Byte)
    BY <2>0, <1>3
  <2>3. o[m] = Len(g[m]) /\ o[m] \in Nat /\ Len(s[m + 1]) \in Nat
    BY <2>0, <2>2, <1>7, LenProperties
  <2> DEFINE a == g[m]
             b == s[m + 1]
             c == g[m + 1]
  <2>4. a \in Seq(Byte) /\ b \in Seq(Byte) /\ c = a \o b
    BY <2>1, <2>2, Zenon
  <2> HIDE DEF a, b, c
  <2>5. /\ Len(c) = Len(a) + Len(b)
        /\ \A i \in 1..Len(a) : c[i] = a[i]
        /\ \A i \in 1..Len(b) : c[Len(a) + i] = b[i]
    BY <2>4
  <2>6. o[m] = Len(a) /\ Len(b) \in Nat
    BY <2>3 DEF a, b
  <2> QED BY <2>5, <2>6 DEF a, b, c
<1>9. n \in P
  <2>1. 0 \in P
    OBVIOUS
  <2>2. ASSUME NEW m \in Nat, m \in P PROVE m + 1 \in P
    <3> SUFFICES ASSUME m + 1 <= n, NEW i \in 1..(m + 1) PROVE Piece(m + 1, i)
      OBVIOUS
    <3>1. m \in 0..n /\ m + 1 \in 0..n /\ o[m] \in Nat /\ o[m + 1] = Len(g[m + 1])
      BY <1>1, <1>7
    <3>2. CASE i <= m
      <4>1. Piece(m, i) /\ o[m] = Len(g[m])
        <5>1. m <= n /\ i \in 1..m
          BY <3>1, <3>2, <1>1
        <5>2. \A h \in 1..m : Piece(m, h)
          BY <2>2, <5>1
        <5>3. o[m] = Len(g[m])
          BY <3>1, <1>7, Zenon
        <5> QED BY <5>1, <5>2, <5>3, Zenon
      <4>2. i \in 1..n /\ i - 1 \in 0..n /\ i \in 0..n
        BY <3>2, <1>1
      <4>3. o[i] <= o[m] /\ o[i] \in Nat /\ o[i - 1] \in Nat
        BY <4>1, <4>2, <1>7
      <4>4. o[i] = o[i - 1] + Len(s[i]) /\ Len(s[i]) \in Nat
        <5>1. i - 1 \in Nat /\ (i - 1) + 1 = i /\ i <= n
          BY <4>2
        <5>2. Len(g[i]) = o[i - 1] + Len(s[i]) /\ Len(s[i]) \in Nat
          BY <5>1, <1>8
        <5> QED BY <5>2, <4>2, <1>7
      <4>5. ASSUME NEW j \in 1..Len(s[i]) PROVE g[m + 1][o[i - 1] + j] = s[i][j]
        <5>1. o[i - 1] + j \in 1..o[m]
          BY <4>3, <4>4, <3>1
        <5>2. g[m + 1][o[i - 1] + j] = g[m][o[i - 1] + j]
          BY <5>1, <1>8
        <5> QED BY <5>2, <4>1
      <4>6. o[i] <= Len(g[m + 1])
        BY <1>8, <3>1, <4>3
      <4> QED BY <4>5, <4>6
    <3>3. CASE i = m + 1
      <4>1. i - 1 = m
        BY <3>3
      <4>2. \A j \in 1..Len(s[m + 1]) : g[m + 1][o[m] + j] = s[m + 1][j]
        BY <1>8
      <4>3. \A j \in 1..Len(s[i]) : g[m + 1][o[i - 1] + j] = s[i][j]
        BY <3>3, <4>1, <4>2
      <4>4. o[i] <= Len(g[m + 1])
        BY <3>1, <3>3, <1>7
      <4> QED BY <4>3, <4>4
    <3> QED BY <3>2, <3>3
  <2> HIDE DEF P
  <2> QED BY <1>1, <2>1, <2>2, Induction
<1>10. \A i \in 1..n : Piece(n, i)
  BY <1>9, <1>1
<1>11. Laid(g[n], f, o)
  <2>1. o \in [0..n -> Nat] /\ o[0] = 0 /\ o[n] = Len(g[n])
    BY <1>1, <1>6, <1>7 DEF o
  <2>2. ASSUME NEW i \in 1..n
        PROVE  /\ o[i] = o[i - 1] + (4 + Len(f[i])) /\ o[i] <= Len(g[n])
               /\ \A j \in 1..4 : g[n][o[i - 1] + j] = StartCode[j]
               /\ \A j \in 1..Len(f[i]) : g[n][o[i - 1] + 4 + j] = f[i][j]
    <3>1. s[i] = StartCode \o f[i] /\ f[i] \in Seq(Byte) /\ Len(f[i]) \in Nat
      BY <1>2 DEF s
    <3>2. /\ Len(s[i]) = 4 + Len(f[i])
          /\ \A j \in 1..4 : s[i][j] = StartCode[j]
          /\ \A j \in 1..Len(f[i]) : s[i][4 + j] = f[i][j]
      BY <3>1, Coded
    <3>3. i \in 0..n /\ i - 1 \in 0..n /\ i - 1 \in Nat /\ (i - 1) + 1 = i /\ i <= n
      BY <1>1
    <3>4. Len(g[i]) = o[i - 1] + Len(s[i])
      BY <3>3, <1>8
    <3>5. o[i] = o[i - 1] + (4 + Len(f[i])) /\ o[i - 1] \in Nat
      <4>1. o[i] = Len(g[i]) /\ o[i - 1] \in Nat
        BY <3>3, <1>7
      <4>2. Len(f[i]) \in Nat
        BY <3>1
      <4>3. Len(s[i]) = 4 + Len(f[i])
        BY <3>2
      <4>4. o[i] = o[i - 1] + (4 + Len(f[i]))
        BY <4>1, <4>3, <3>4
      <4> QED BY <4>1, <4>4
    <3>6. o[i] <= Len(g[n]) /\ \A j \in 1..Len(s[i]) : g[n][o[i - 1] + j] = s[i][j]
      BY <1>10
    <3>7. ASSUME NEW j \in 1..4 PROVE g[n][o[i - 1] + j] = StartCode[j]
      <4>1. j \in 1..Len(s[i])
        BY <3>1, <3>2
      <4> QED BY <4>1, <3>2, <3>6
    <3>8. ASSUME NEW j \in 1..Len(f[i]) PROVE g[n][o[i - 1] + 4 + j] = f[i][j]
      <4>1. 4 + j \in 1..Len(s[i]) /\ o[i - 1] + 4 + j = o[i - 1] + (4 + j)
        BY <3>1, <3>2, <3>5
      <4>2. g[n][o[i - 1] + (4 + j)] = s[i][4 + j]
        BY <4>1, <3>6
      <4> QED BY <4>1, <4>2, <3>2
    <3> QED BY <3>5, <3>6, <3>7, <3>8
  <2> QED BY <2>1, <2>2 DEF Laid, n
<1>12. n \in 0..n
  BY <1>1
<1> QED
  BY <1>5, <1>7, <1>11, <1>12

-----------------------------------------------------------------------------
(* A bounded set of numbers has a greatest. *)
LEMMA MaxOf ==
    ASSUME NEW m \in Nat, NEW S \in SUBSET (0..m), S # {}
    PROVE  Max(S) \in S /\ \A x \in S : x <= Max(S)
<1> DEFINE P == {n \in Nat : (\E x \in S : x >= m - n) => \E x \in S : \A y \in S : y <= x}
<1>1. 0 \in P
  OBVIOUS
<1>2. ASSUME NEW n \in Nat, n \in P PROVE n + 1 \in P
  <2> SUFFICES ASSUME NEW x \in S, x >= m - (n + 1) PROVE \E z \in S : \A y \in S : y <= z
    OBVIOUS
  <2>1. CASE \E z \in S : z >= m - n
    BY <2>1, <1>2
  <2>2. CASE ~ \E z \in S : z >= m - n
    <3>1. \A y \in S : y <= x
      BY <2>2
    <3> QED BY <3>1
  <2> QED BY <2>1, <2>2
<1>3. m \in P
  <2> HIDE DEF P
  <2> QED BY <1>1, <1>2, Induction
<1>4. PICK x \in S : \A y \in S : y <= x
  <2>1. PICK x : x \in S
    OBVIOUS
  <2>2. x \in 0..m
    BY <2>1
  <2>3. x >= m - m
    BY <2>2
  <2> QED BY <1>3, <2>1, <2>3
<1>5. \A y \in S : x >= y
  BY <1>4
<1>6. Max(S) \in S /\ \A y \in S : Max(S) >= y
  BY <1>5 DEF Max
<1> QED
  BY <1>6

(* The zeros before a position are z when there are z and no more. *)
LEMMA Zeros ==
    ASSUME NEW s, NEW offset \in Nat, NEW i \in Nat, NEW z \in Nat, offset + z <= i,
           \A j \in (i - z)..(i - 1) : s[j + 1] = 0,
           offset + z = i \/ s[i - z] # 0
    PROVE  numZeros(s, offset, i) = z
<1> DEFINE S == {n \in 0..(i - offset) : \A k \in (i - n)..(i - 1) : s[k + 1] = 0}
<1>1. z \in S
  OBVIOUS
<1>2. ASSUME NEW n \in S PROVE n <= z
  <2> SUFFICES ASSUME n > z PROVE FALSE
    OBVIOUS
  <2>1. i - z - 1 \in (i - n)..(i - 1) /\ (i - z - 1) + 1 = i - z /\ offset + z # i
    OBVIOUS
  <2>2. s[(i - z - 1) + 1] = 0
    BY <2>1
  <2> QED BY <2>1, <2>2
<1>3. S \in SUBSET (0..(i - offset)) /\ i - offset \in Nat
  OBVIOUS
<1>4. numZeros(s, offset, i) = Max(S)
  BY DEF numZeros
<1> HIDE DEF S
<1>5. Max(S) \in S /\ \A x \in S : x <= Max(S)
  BY <1>1, <1>3, MaxOf
<1> DEFINE m == Max(S)
<1> HIDE DEF m
<1>6. m \in S /\ z <= m
  BY <1>1, <1>5 DEF m
<1>7. m \in Nat /\ m <= z
  BY <1>2, <1>3, <1>6
<1> QED
  BY <1>4, <1>6, <1>7 DEF m

(* Two zeros before a position are two zeros. *)
LEMMA TwoZeros ==
    ASSUME NEW s, NEW offset \in Nat, NEW i \in Nat, offset <= i,
           numZeros(s, offset, i) > 1
    PROVE  offset + 2 <= i /\ s[i] = 0 /\ s[i - 1] = 0
<1> DEFINE S == {n \in 0..(i - offset) : \A k \in (i - n)..(i - 1) : s[k + 1] = 0}
           m == Max(S)
<1>1. 0 \in S
  OBVIOUS
<1>2. S \in SUBSET (0..(i - offset)) /\ i - offset \in Nat
  OBVIOUS
<1>3. numZeros(s, offset, i) = m
  BY DEF numZeros
<1>4. m \in S
  <2> HIDE DEF S
  <2> QED BY <1>1, <1>2, MaxOf
<1> HIDE DEF m
<1>5. m \in 0..(i - offset) /\ m > 1 /\ \A k \in (i - m)..(i - 1) : s[k + 1] = 0
  BY <1>3, <1>4
<1>6. i - 1 \in (i - m)..(i - 1) /\ i - 2 \in (i - m)..(i - 1) /\ (i - 1) + 1 = i /\ (i - 2) + 1 = i - 1
  BY <1>5
<1>7. s[(i - 1) + 1] = 0 /\ s[(i - 2) + 1] = 0
  BY <1>5, <1>6
<1> QED
  BY <1>5, <1>6, <1>7

(* The first start code found. *)
LEMMA Found ==
    ASSUME NEW s, Len(s) \in Nat, NEW offset \in Nat, NEW i \in offset..(Len(s) - 1), s[i + 1] = 1,
           NEW z \in Nat, numZeros(s, offset, i) = z, z > 1,
           \A j \in offset..(i - 1) : ~ (s[j + 1] = 1 /\ numZeros(s, offset, j) > 1)
    PROVE  findStartCode_2(s, offset) = [pos |-> i - z, len |-> z + 1]
<1> DEFINE found == {j \in offset..(Len(s) - 1) : s[j + 1] = 1 /\ numZeros(s, offset, j) > 1}
<1>1. i \in found /\ \A j \in found : i <= j
  OBVIOUS
<1>2. found \in SUBSET Int
  OBVIOUS
<1>3. Min(found) = i
  <2> HIDE DEF found
  <2>1. \A x \in found : (\A y \in found : x <= y) => x = i
    BY <1>1, <1>2
  <2>2. Min(found) \in found /\ \A y \in found : Min(found) <= y
    BY <1>1 DEF Min
  <2> QED BY <2>1, <2>2
<1>4. found # {}
  BY <1>1
<1> QED
  BY <1>3, <1>4 DEF findStartCode_2

(* No start code. *)
LEMMA NotFound ==
    ASSUME NEW s, NEW offset,
           \A j \in offset..(Len(s) - 1) : ~ (s[j + 1] = 1 /\ numZeros(s, offset, j) > 1)
    PROVE  findStartCode_2(s, offset).len = 0
BY DEF findStartCode_2

(* The head of h263_send's loop finds the next unit with its start code,   *)
(* no more and no less.                                                    *)
LEMMA Loads ==
    ASSUME NEW f, Encoded(f), NEW bytes \in Seq(Byte), NEW o, Laid(bytes, f, o),
           NEW k \in 1..Len(f)
    PROVE  /\ o[k - 1] < Len(bytes)
           /\ JK_BitStreamLoadNALU_FM(SubSeq(bytes, o[k - 1] + 1, Len(bytes))) = StartCode \o f[k]
<1> DEFINE b == o[k - 1]
           s == SubSeq(bytes, b + 1, Len(bytes))
           u == f[k]
           L == Len(u)
<1>1. Len(f) \in Nat /\ u \in Seq(Byte) /\ L \in Nat /\ L > 0 /\ u[L] # 0
  BY DEF Encoded
<1>2. \A j \in 1..(L - 2) : u[j] = 0 /\ u[j + 1] = 0 => u[j + 2] = 3
  BY DEF Encoded
<1>3. /\ b \in Nat /\ o[k] = b + (4 + L) /\ o[k] <= Len(bytes)
      /\ \A j \in 1..4 : bytes[b + j] = StartCode[j]
      /\ \A j \in 1..L : bytes[b + 4 + j] = u[j]
  <2>1. k - 1 \in 0..Len(f)
    BY <1>1
  <2>2. b \in Nat
    BY <2>1 DEF Laid
  <2>3. /\ o[k] = o[k - 1] + (4 + Len(f[k])) /\ o[k] <= Len(bytes)
        /\ \A j \in 1..4 : bytes[o[k - 1] + j] = StartCode[j]
        /\ \A j \in 1..Len(f[k]) : bytes[o[k - 1] + 4 + j] = f[k][j]
    BY DEF Laid
  <2> QED BY <2>2, <2>3
<1>4. k < Len(f) => /\ o[k] + 4 <= Len(bytes)
                    /\ \A j \in 1..4 : bytes[o[k] + j] = StartCode[j]
  <2> SUFFICES ASSUME k < Len(f)
               PROVE  /\ o[k] + 4 <= Len(bytes)
                      /\ \A j \in 1..4 : bytes[o[k] + j] = StartCode[j]
    OBVIOUS
  <2>0. k + 1 \in 1..Len(f) /\ (k + 1) - 1 = k /\ k \in 0..Len(f)
    BY <1>1
  <2>1. k + 1 \in 1..Len(f) /\ (k + 1) - 1 = k /\ o[k] \in Nat
    BY <2>0 DEF Laid
  <2>2. /\ o[k + 1] = o[(k + 1) - 1] + (4 + Len(f[k + 1])) /\ o[k + 1] <= Len(bytes)
        /\ \A j \in 1..4 : bytes[o[(k + 1) - 1] + j] = StartCode[j]
    BY <2>1 DEF Laid
  <2>3. Len(f[k + 1]) \in Nat
    BY <2>1 DEF Encoded
  <2>4. o[k + 1] = o[k] + (4 + Len(f[k + 1]))
    BY <2>1, <2>2
  <2>5. o[k] + 4 <= Len(bytes)
    BY <2>1, <2>2, <2>3, <2>4, LenProperties
  <2> QED BY <2>1, <2>2, <2>5
<1>5. k = Len(f) => o[k] = Len(bytes)
  BY DEF Laid
<1>6. StartCode[1] = 0 /\ StartCode[2] = 0 /\ StartCode[3] = 0 /\ StartCode[4] = 1
  BY DEF StartCode
<1>7. Len(bytes) \in Nat /\ b < Len(bytes)
  BY <1>1, <1>3, LenProperties
<1> HIDE DEF b, u, L
<1>8. /\ s \in Seq(Byte) /\ Len(s) = Len(bytes) - b
      /\ \A j \in 1..(Len(bytes) - b) : s[j] = bytes[b + j]
  BY <1>3, <1>7, SubSeqProperties
<1> HIDE DEF s
<1>9. Len(s) \in Nat /\ Len(s) >= 4 + L
  BY <1>1, <1>3, <1>7, <1>8
<1>10. s[1] = 0 /\ s[2] = 0 /\ s[3] = 0 /\ s[4] = 1
  <2>1. ASSUME NEW j \in 1..4 PROVE s[j] = StartCode[j]
    <3>1. j \in 1..(Len(bytes) - b)
      BY <1>1, <1>3, <1>7, <1>8, <1>9
    <3> QED BY <3>1, <1>3, <1>8
  <2> QED BY <2>1, <1>6
<1>11. ASSUME NEW j \in 1..L PROVE s[4 + j] = u[j]
  <2>1. 4 + j \in 1..(Len(bytes) - b) /\ b + (4 + j) = b + 4 + j
    BY <1>1, <1>3, <1>7, <1>8, <1>9
  <2>2. s[4 + j] = bytes[b + (4 + j)]
    BY <2>1, <1>8
  <2> QED BY <2>1, <2>2, <1>3
<1>12. k < Len(f) => /\ Len(s) >= 8 + L /\ s[5 + L] = 0 /\ s[6 + L] = 0 /\ s[7 + L] = 0 /\ s[8 + L] = 1
  <2> SUFFICES ASSUME k < Len(f)
               PROVE  Len(s) >= 8 + L /\ s[5 + L] = 0 /\ s[6 + L] = 0 /\ s[7 + L] = 0 /\ s[8 + L] = 1
    OBVIOUS
  <2>1. Len(s) >= 8 + L
    BY <1>1, <1>3, <1>4, <1>7, <1>8
  <2>2. ASSUME NEW j \in 1..4 PROVE s[4 + L + j] = StartCode[j]
    <3>1. 4 + L + j \in 1..(Len(bytes) - b) /\ b + (4 + L + j) = o[k] + j
      BY <2>1, <1>1, <1>3, <1>7, <1>8
    <3>2. s[4 + L + j] = bytes[b + (4 + L + j)]
      BY <3>1, <1>8
    <3> QED BY <3>1, <3>2, <1>4
  <2>3. 4 + L + 1 = 5 + L /\ 4 + L + 2 = 6 + L /\ 4 + L + 3 = 7 + L /\ 4 + L + 4 = 8 + L
    BY <1>1
  <2>4. s[4 + L + 1] = 0 /\ s[4 + L + 2] = 0 /\ s[4 + L + 3] = 0 /\ s[4 + L + 4] = 1
    BY <2>2, <1>6
  <2> QED BY <2>1, <2>3, <2>4
<1>13. k = Len(f) => Len(s) = 4 + L
  BY <1>1, <1>3, <1>5, <1>7, <1>8
<1>14. findStartCode_2(s, 0) = [pos |-> 0, len |-> 4]
  <2>1. numZeros(s, 0, 3) = 3
    <3>1. \A j \in (3 - 3)..(3 - 1) : s[j + 1] = 0
      BY <1>10
    <3>2. 0 \in Nat /\ 3 \in Nat /\ 0 + 3 <= 3 /\ 0 + 3 = 3
      OBVIOUS
    <3> QED BY <3>1, <3>2, Zeros
  <2>2. \A j \in 0..(3 - 1) : ~ (s[j + 1] = 1 /\ numZeros(s, 0, j) > 1)
    BY <1>10
  <2>3. 3 \in 0..(Len(s) - 1) /\ s[3 + 1] = 1
    BY <1>1, <1>9, <1>10
  <2>4. findStartCode_2(s, 0) = [pos |-> 3 - 3, len |-> 3 + 1]
    BY <1>9, <2>1, <2>2, <2>3, Found
  <2> QED BY <2>4
<1>15. ASSUME NEW j \in 4..(3 + L) PROVE ~ (s[j + 1] = 1 /\ numZeros(s, 4, j) > 1)
  <2> SUFFICES ASSUME s[j + 1] = 1, numZeros(s, 4, j) > 1 PROVE FALSE
    OBVIOUS
  <2>1. j \in Nat /\ 6 <= j /\ s[j] = 0 /\ s[j - 1] = 0
    BY TwoZeros
  <2> DEFINE i == j - 5
  <2>2. i \in 1..(L - 2) /\ 4 + i = j - 1 /\ 4 + (i + 1) = j /\ 4 + (i + 2) = j + 1
    BY <2>1, <1>1
  <2> HIDE DEF i
  <2>3. i \in 1..L /\ i + 1 \in 1..L /\ i + 2 \in 1..L
    BY <2>2, <1>1
  <2>4. s[4 + i] = u[i] /\ s[4 + (i + 1)] = u[i + 1] /\ s[4 + (i + 2)] = u[i + 2]
    BY <2>3, <1>11
  <2>5. u[i] = 0 /\ u[i + 1] = 0 /\ u[i + 2] = 1
    BY <2>1, <2>2, <2>4
  <2> QED BY <2>2, <2>5, <1>2
<1>16. StartCode \o u \in Seq(Byte) /\ Len(StartCode \o u) = 4 + L
       /\ (\A j \in 1..4 : (StartCode \o u)[j] = StartCode[j])
       /\ \A j \in 1..L : (StartCode \o u)[4 + j] = u[j]
  BY <1>1, Coded DEF L
<1> DEFINE c == StartCode \o u
<1> HIDE DEF c
<1>17. c \in Seq(Byte) /\ Len(c) = 4 + L /\ \A j \in 1..(4 + L) : c[j] = s[j]
  <2>1. c \in Seq(Byte) /\ Len(c) = 4 + L
    BY <1>16 DEF c
  <2>2. ASSUME NEW j \in 1..4 PROVE c[j] = s[j]
    <3>1. c[j] = StartCode[j]
      BY <1>16 DEF c
    <3> QED BY <3>1, <1>6, <1>10
  <2>3. ASSUME NEW j \in 1..L PROVE c[4 + j] = s[4 + j]
    BY <1>11, <1>16 DEF c
  <2>4. ASSUME NEW j \in 1..(4 + L), ~ (j \in 1..4) PROVE c[j] = s[j]
    <3>1. j - 4 \in 1..L /\ 4 + (j - 4) = j
      BY <2>4, <1>1
    <3>2. c[4 + (j - 4)] = s[4 + (j - 4)]
      BY <3>1, <2>3
    <3> QED BY <3>1, <3>2
  <2> QED BY <2>1, <2>2, <2>4
<1>18. CASE k < Len(f)
  <2>1. numZeros(s, 4, 7 + L) = 3
    <3>1. ASSUME NEW j \in ((7 + L) - 3)..((7 + L) - 1) PROVE s[j + 1] = 0
      <4>1. j + 1 = 5 + L \/ j + 1 = 6 + L \/ j + 1 = 7 + L
        BY <1>1
      <4> QED BY <4>1, <1>12, <1>18
    <3>2. L \in 1..L /\ (7 + L) - 3 = 4 + L /\ 7 + L \in Nat /\ 4 + 3 <= 7 + L
      BY <1>1
    <3>3. s[(7 + L) - 3] # 0
      BY <3>2, <1>1, <1>11
    <3> QED BY <3>1, <3>2, <3>3, Zeros
  <2>2. ASSUME NEW j \in 4..((7 + L) - 1) PROVE ~ (s[j + 1] = 1 /\ numZeros(s, 4, j) > 1)
    <3>1. j \in 4..(3 + L) \/ j + 1 = 5 + L \/ j + 1 = 6 + L \/ j + 1 = 7 + L
      BY <1>1
    <3> QED BY <3>1, <1>12, <1>15, <1>18
  <2>3. 7 + L \in 4..(Len(s) - 1) /\ s[(7 + L) + 1] = 1
    <3>1. (7 + L) + 1 = 8 + L
      BY <1>1
    <3> QED BY <3>1, <1>1, <1>9, <1>12, <1>18
  <2>4. findStartCode_2(s, 4) = [pos |-> (7 + L) - 3, len |-> 3 + 1]
    <3>1. Len(s) \in Nat /\ 4 \in Nat /\ 3 \in Nat /\ 3 > 1
      BY <1>9
    <3> QED BY <2>1, <2>2, <2>3, <3>1, Found, Zenon
  <2>5. /\ findStartCode_2(s, 4).len # 0
        /\ findStartCode_2(s, 4).pos - findStartCode_2(s, 0).pos = 4 + L
    BY <1>1, <1>14, <2>4
  <2>6. findStartCode_2(s, 0).len = 4 /\ 4 # 0
    BY <1>14
  <2>7. JK_BitStreamLoadNALU_FM(s) = SubSeq(s, 1, 4 + L)
    BY <2>5, <2>6 DEF JK_BitStreamLoadNALU_FM
  <2>8. SubSeq(s, 1, 4 + L) = c
    BY <1>1, <1>8, <1>9, <1>17
  <2> QED BY <2>7, <2>8, <1>7 DEF s, b, c, u
<1>19. CASE k = Len(f)
  <2>1. ASSUME NEW j \in 4..(Len(s) - 1) PROVE ~ (s[j + 1] = 1 /\ numZeros(s, 4, j) > 1)
    <3>1. j \in 4..(3 + L)
      BY <1>1, <1>13, <1>19
    <3> QED BY <3>1, <1>15
  <2>2. findStartCode_2(s, 4).len = 0
    BY <2>1, NotFound
  <2>3. findStartCode_2(s, 0).len = 4 /\ 4 # 0
    BY <1>14
  <2>4. JK_BitStreamLoadNALU_FM(s) = s
    BY <2>2, <2>3 DEF JK_BitStreamLoadNALU_FM
  <2>5. s = c
    BY <1>1, <1>8, <1>13, <1>17, <1>19, SeqEqual
  <2> QED BY <2>4, <2>5, <1>7 DEF s, b, c, u
<1> QED
  BY <1>1, <1>18, <1>19

-----------------------------------------------------------------------------
(* Part of a stream, behind its start code, is part of the unit. *)
LEMMA Slice ==
    ASSUME NEW u \in Seq(Byte), NEW a \in Nat, NEW b \in Nat, 1 <= a, b <= Len(u), a <= b + 1
    PROVE  SubSeq(StartCode \o u, 4 + a, 4 + b) = SubSeq(u, a, b)
<1> DEFINE c == StartCode \o u
           x == SubSeq(c, 4 + a, 4 + b)
           y == SubSeq(u, a, b)
<1>1. /\ c \in Seq(Byte) /\ Len(c) = 4 + Len(u) /\ Len(u) \in Nat
      /\ \A j \in 1..Len(u) : c[4 + j] = u[j]
  BY Coded, LenProperties
<1> HIDE DEF c
<1>2. /\ x \in Seq(Byte) /\ Len(x) = b + 1 - a
      /\ \A j \in 1..(b + 1 - a) : x[j] = c[(4 + a) + j - 1]
  BY <1>1
<1>3. /\ y \in Seq(Byte) /\ Len(y) = b + 1 - a
      /\ \A j \in 1..(b + 1 - a) : y[j] = u[a + j - 1]
  BY <1>1
<1> HIDE DEF x, y
<1>4. ASSUME NEW j \in 1..(b + 1 - a) PROVE x[j] = y[j]
  <2>1. a + j - 1 \in 1..Len(u) /\ (4 + a) + j - 1 = 4 + (a + j - 1)
    BY <1>1
  <2>2. c[4 + (a + j - 1)] = u[a + j - 1]
    BY <2>1, <1>1
  <2> QED BY <2>1, <2>2, <1>2, <1>3
<1>5. x = y
  <2>1. Len(x) = Len(y) /\ \A j \in 1..Len(x) : x[j] = y[j]
    BY <1>2, <1>3, <1>4
  <2> QED BY <1>2, <1>3, <2>1, SeqEqual
<1> QED
  BY <1>5 DEF x, y, c

(* The next fragment continues what there is of the unit. *)
LEMMA NextPart ==
    ASSUME NEW u \in Seq(Byte), NEW i \in Nat, NEW m \in Nat, 1 <= i, i + m <= Len(u)
    PROVE  SubSeq(u, 1, i) \o SubSeq(StartCode \o u, (4 + i) + 1, (4 + i) + m) = SubSeq(u, 1, i + m)
<1>1. Len(u) \in Nat /\ (4 + i) + 1 = 4 + (i + 1) /\ (4 + i) + m = 4 + (i + m)
  BY LenProperties
<1>2. SubSeq(StartCode \o u, (4 + i) + 1, (4 + i) + m) = SubSeq(u, i + 1, i + m)
  <2>1. i + 1 \in Nat /\ i + m \in Nat /\ 1 <= i + 1 /\ i + 1 <= (i + m) + 1
    OBVIOUS
  <2>2. SubSeq(StartCode \o u, 4 + (i + 1), 4 + (i + m)) = SubSeq(u, i + 1, i + m)
    BY <2>1, Slice, Zenon
  <2> QED BY <1>1, <2>2, Zenon
<1>3. SubSeq(u, 1, i) \o SubSeq(u, i + 1, i + m) = SubSeq(u, 1, i + m)
  BY <1>1
<1> QED
  BY <1>2, <1>3, Zenon

(* The first byte of a unit, as it is split over the headers of a packet   *)
(* and put together again.                                                 *)
LEMMA FirstByte ==
    ASSUME NEW u \in Seq(Byte), u # <<>>
    PROVE  /\ (StartCode \o u)[5] = u[1] /\ u[1] \in Byte
           /\ F(u[1]) * 128 + Nri(u[1]) * 32 + Type(u[1]) = u[1]
           /\ <<u[1]>> = SubSeq(u, 1, 1)
<1>1. Len(u) \in Nat /\ Len(u) > 0 /\ u[1] \in Byte
  BY LenProperties
<1>2. (StartCode \o u)[5] = u[1]
  <2>1. 1 \in 1..Len(u) /\ 4 + 1 = 5
    BY <1>1
  <2>2. (StartCode \o u)[4 + 1] = u[1]
    BY <2>1, Coded, Zenon
  <2> QED BY <2>1, <2>2, Zenon
<1>3. \A b \in 0..255 : (b \div 128) * 128 + ((b \div 32) % 4) * 32 + (b % 32) = b
  OBVIOUS
<1>4. F(u[1]) * 128 + Nri(u[1]) * 32 + Type(u[1]) = u[1]
  BY <1>1, <1>3 DEF Byte, F, Nri, Type
<1>5. <<u[1]>> = SubSeq(u, 1, 1)
  BY <1>1
<1> QED
  BY <1>1, <1>2, <1>4, <1>5, Zenon

(* What was put together so far stays in order when another unit follows. *)
LEMMA SomeMore ==
    ASSUME NEW s, NEW j \in Nat, NEW m \in Nat, j <= m, SomeOf(s, j)
    PROVE  SomeOf(s, m)
<1>1. PICK at \in [1..Len(s) -> 1..j] :
        /\ \A h, i \in 1..Len(s) : h < i => at[h] < at[i]
        /\ \A i \in 1..Len(s) : s[i] = nals[at[i]]
  BY DEF SomeOf
<1>2. at \in [1..Len(s) -> 1..m]
  OBVIOUS
<1> QED
  BY <1>1, <1>2 DEF SomeOf

\* A unit behind some of those before it.
LEMMA SomeNext ==
    ASSUME NEW s \in Seq(Seq(Byte)), NEW k \in Nat, k > 0, SomeOf(s, k - 1),
           nals[k] \in Seq(Byte)
    PROVE  SomeOf(Append(s, nals[k]), k)
<1> DEFINE n == Len(s)
           t == Append(s, nals[k])
<1>1. n \in Nat
  BY LenProperties
<1>2. PICK at \in [1..n -> 1..(k - 1)] :
        /\ \A h, i \in 1..n : h < i => at[h] < at[i]
        /\ \A i \in 1..n : s[i] = nals[at[i]]
  BY DEF SomeOf
<1>3. Len(t) = n + 1 /\ t[n + 1] = nals[k] /\ \A i \in 1..n : t[i] = s[i]
  OBVIOUS
<1> HIDE DEF n, t
<1> DEFINE to == [i \in 1..(n + 1) |-> IF i = n + 1 THEN k ELSE at[i]]
<1>4. to \in [1..(n + 1) -> 1..k]
  BY <1>1
<1>5. to[n + 1] = k /\ \A i \in 1..n : to[i] = at[i] /\ at[i] \in 1..(k - 1)
  BY <1>1
<1> HIDE DEF to
<1>6. ASSUME NEW h \in 1..(n + 1), NEW i \in 1..(n + 1), h < i PROVE to[h] < to[i]
  <2>1. CASE i = n + 1
    BY <2>1, <1>1, <1>5, <1>6
  <2>2. CASE i # n + 1
    <3>1. h \in 1..n /\ i \in 1..n
      BY <2>2, <1>1, <1>6
    <3> QED BY <3>1, <1>2, <1>5, <1>6
  <2> QED BY <2>1, <2>2
<1>7. ASSUME NEW i \in 1..(n + 1) PROVE t[i] = nals[to[i]]
  <2>1. CASE i = n + 1
    BY <2>1, <1>3, <1>5
  <2>2. CASE i # n + 1
    <3>1. i \in 1..n
      BY <2>2, <1>1
    <3> QED BY <3>1, <1>2, <1>3, <1>5
  <2> QED BY <2>1, <2>2
<1>8. SomeOf(t, k)
  BY <1>3, <1>4, <1>6, <1>7 DEF SomeOf
<1> QED
  BY <1>8 DEF t

-----------------------------------------------------------------------------
(* The invariant.  Rebuilt(k): the client has units from among the first   *)
(* k.  Loaded(k): the loop has taken k units of the frame.                 *)
UnitTypes ==
    /\ d \in Seq(Byte) /\ used \in 0..Len(d)
    /\ stream \in Seq(Byte) /\ Len(stream) <= Len(d)
    /\ remain \in Int /\ remain <= Len(stream)
    /\ pc \in {"idle", "nalu", "send", "gone"}
    /\ got \in Seq(Seq(Byte)) /\ nals \in Seq(Seq(Byte))
    /\ whole \in BOOLEAN /\ marked \in BOOLEAN
    /\ part \in Seq(Byte) \cup {NULL} /\ (last = NULL => part = NULL)

Rebuilt(k) == Len(got) <= k /\ SomeOf(got, k)

Loaded(k) == \E o : Laid(d, nals, o) /\ used = o[k]

(* At the head of the loop: a frame without loss is there so far. *)
Loading(k) ==
    /\ Rebuilt(k) /\ (whole => got = SubSeq(nals, 1, k))
    /\ marked <=> k = Len(nals)

(* Unit k is being sent.  The client has as much of it as has been sent,   *)
(* or has given it up; which of them is not known while packets are lost.  *)
SoFar(k) == SubSeq(nals[k], 1, Len(nals[k]) - remain)

Sending(k) ==
    /\ k > 0 /\ stream = StartCode \o nals[k] /\ remain <= Len(nals[k]) - 1
    /\ Fragmented => 0 < remain /\ MaxPkt < Len(nals[k]) - 1
    /\ ~ marked
    /\ Rebuilt(k - 1) /\ (whole => got = SubSeq(nals, 1, k - 1))
    /\ Fragmented /\ lost = 0 => part \in {NULL, SoFar(k)}
    /\ Fragmented /\ whole => lost = 0 /\ part = SoFar(k)

InFrame(k) ==
    /\ Encoded(nals) /\ Loaded(k)
    /\ pc = "nalu" => Loading(k)
    /\ pc = "send" => Sending(k)

UnitsInv ==
    /\ UnitTypes /\ LossInv
    /\ pc \in {"nalu", "send"} => \E k \in 0..Len(nals) : InFrame(k)
    /\ pc \in {"idle", "gone"} => Rebuilt(Len(nals))
    /\ pc = "idle" /\ whole => got = nals /\ marked

(* What a unit of a frame is. *)
LEMMA UnitOf ==
    ASSUME NEW f, Encoded(f), NEW k \in 1..Len(f)
    PROVE  /\ Len(f) \in Nat /\ f[k] \in Seq(Byte) /\ f[k] # <<>>
           /\ Len(f[k]) \in Nat /\ Len(f[k]) > 0
           /\ Type(f[k][1]) \in NotSlices <=> k < Len(f)
           /\ k < Len(f) => Len(f[k]) <= MaxPkt + 1
<1>1. f \in Seq(Seq(Byte)) /\ DOMAIN f = 1..Len(f) /\ Len(f) \in Nat
  BY DEF Encoded
<1>2. f[k] \in Seq(Byte) /\ f[k] # <<>>
  BY <1>1 DEF Encoded
<1>3. Type(f[k][1]) \in NotSlices <=> k < Len(f)
  BY <1>1 DEF Encoded
<1>4. k < Len(f) => Len(f[k]) <= MaxPkt + 1
  BY <1>1 DEF Encoded
<1>5. Len(f[k]) \in Nat /\ Len(f[k]) > 0
  BY <1>2, LenProperties
<1> QED
  BY <1>1, <1>2, <1>3, <1>4, <1>5

(* The frame rests while a packet is sent. *)
LEMMA FrameRests ==
    ASSUME NEW k, Encoded(nals), Loaded(k), UNCHANGED <<d, used, nals>>
    PROVE  Encoded(nals)' /\ Loaded(k)'
<1>1. Loaded(k)'
  BY DEF Loaded, Laid
<1>2. Encoded(nals)'
  BY DEF Encoded
<1> QED
  BY <1>1, <1>2

(* Nothing new arrives. *)
LEMMA NothingNew ==
    ASSUME NEW j \in Nat, NEW m \in Nat, j <= m, Rebuilt(j), got' = got, nals' = nals,
           got \in Seq(Seq(Byte))
    PROVE  Rebuilt(m)'
<1>1. Len(got) <= m
  BY LenProperties DEF Rebuilt
<1>2. SomeOf(got, m)
  BY SomeMore DEF Rebuilt
<1>3. SomeOf(got, m)'
  BY <1>2 DEF SomeOf
<1> QED
  BY <1>1, <1>3 DEF Rebuilt

(* Unit k arrives. *)
LEMMA UnitArrives ==
    ASSUME NEW k \in Nat, k > 0, Rebuilt(k - 1), got \in Seq(Seq(Byte)), nals[k] \in Seq(Byte),
           got' = Append(got, nals[k]), nals' = nals
    PROVE  Rebuilt(k)' /\ got' \in Seq(Seq(Byte))
<1>1. Len(got') = Len(got) + 1 /\ got' \in Seq(Seq(Byte)) /\ Len(got) \in Nat
  BY AppendProperties, LenProperties
<1>2. SomeOf(Append(got, nals[k]), k)
  BY SomeNext DEF Rebuilt
<1>3. SomeOf(got, k)'
  BY <1>2 DEF SomeOf
<1>4. Len(got') <= k
  BY <1>1 DEF Rebuilt
<1> QED
  BY <1>1, <1>3, <1>4 DEF Rebuilt

(* A packet of unit k, sent, lost or the last of the endpoint: the         *)
(* invariant holds when the packet is the right one, that is, when with it *)
(* there is as much of the unit as has been sent, or nothing.              *)
LEMMA PacketKeeps ==
    ASSUME UnitsInv, pc = "send", NEW k \in 1..Len(nals), InFrame(k),
           NEW p, NEW next, send_rtp_packet(p, next), UNCHANGED <<d, used, stream>>,
           remain' \in Int, remain' <= Len(stream), p.marker \in BOOLEAN,
           \/ /\ next = "nalu" /\ Ends(p) /\ (p.marker <=> k = Len(nals))
              /\ Begun(p) \in {NULL, nals[k]} /\ (whole => Begun(p) = nals[k])
           \/ /\ next = "send" /\ ~ Ends(p) /\ ~ p.marker
              /\ 0 < remain' /\ remain' <= Len(nals[k]) - 1 /\ MaxPkt < Len(nals[k]) - 1
              /\ Begun(p) \in {NULL, SubSeq(nals[k], 1, Len(nals[k]) - remain')}
              /\ whole => Begun(p) = SubSeq(nals[k], 1, Len(nals[k]) - remain')
    PROVE  UnitsInv'
<1> DEFINE so == SubSeq(nals[k], 1, Len(nals[k]) - remain')
<1>1. /\ UnitTypes /\ LossInv /\ Sending(k) /\ Encoded(nals) /\ Loaded(k)
  BY DEF UnitsInv, InFrame
<1>2. /\ Len(nals) \in Nat /\ k \in Nat /\ k > 0 /\ k <= Len(nals) /\ k \in 0..Len(nals)
      /\ k - 1 \in Nat /\ k - 1 <= k /\ k - 1 <= Len(nals)
  BY <1>1, UnitOf
<1>3. nals[k] \in Seq(Byte) /\ nals[k] # NULL /\ Len(nals[k]) \in Nat
  <2>1. nals[k] \in Seq(Byte) /\ Len(nals[k]) \in Nat
    BY <1>1, UnitOf
  <2> QED BY <2>1, H264NullAssumption
<1>4. nals' = nals /\ marked' = (marked \/ p.marker) /\ ~ marked
  BY <1>1 DEF send_rtp_packet, Sending
<1>5. LossInv'
  BY <1>1, PacketCounts
<1>6. Encoded(nals)' /\ Loaded(k)'
  BY <1>1, <1>4, FrameRests
<1>7. Rebuilt(k - 1) /\ got \in Seq(Seq(Byte)) /\ (whole => got = SubSeq(nals, 1, k - 1))
  BY <1>1 DEF Sending, UnitTypes
<1>8. /\ d' \in Seq(Byte) /\ used' \in 0..Len(d') /\ stream' \in Seq(Byte) /\ Len(stream') <= Len(d')
      /\ remain' \in Int /\ remain' <= Len(stream') /\ nals' \in Seq(Seq(Byte)) /\ marked' \in BOOLEAN
  BY <1>1, <1>4 DEF UnitTypes
<1>9. PICK n \in Nat : n = Len(nals)
  BY <1>2
<1>10. CASE Receive(p) /\ lost' = 0 /\ whole' = whole /\ pc' = next
  <2>1. last' # NULL
    BY <1>1, <1>10, H264NullAssumption, H264Assumption DEF LossInv, Receive
  <2>2. whole' \in BOOLEAN
    BY <1>1, <1>10 DEF UnitTypes
  <2>3. CASE next = "nalu"
    <3>1. Ends(p) /\ (p.marker <=> k = Len(nals)) /\ Begun(p) \in {NULL, nals[k]} /\ (whole => Begun(p) = nals[k])
      BY <2>3
    <3>2. part' = NULL /\ got' = IF Begun(p) # NULL THEN Append(got, Begun(p)) ELSE got
      BY <1>10, <3>1 DEF Receive
    <3>3. Rebuilt(k)' /\ got' \in Seq(Seq(Byte)) /\ (whole => got' = SubSeq(nals, 1, k))
      <4>1. CASE Begun(p) = NULL
        <5>1. got' = got /\ ~ whole
          BY <4>1, <3>1, <3>2, <1>3
        <5> QED BY <5>1, <1>2, <1>4, <1>7, NothingNew
      <4>2. CASE Begun(p) # NULL
        <5>1. got' = Append(got, nals[k])
          BY <4>2, <3>1, <3>2
        <5>2. Rebuilt(k)' /\ got' \in Seq(Seq(Byte))
          BY <5>1, <1>2, <1>3, <1>4, <1>7, UnitArrives
        <5>3. Append(SubSeq(nals, 1, k - 1), nals[k]) = SubSeq(nals, 1, k)
          BY <1>1, <1>2 DEF UnitTypes
        <5> QED BY <5>1, <5>2, <5>3, <1>7, Zenon
      <4> QED BY <4>1, <4>2
    <3>4. Loading(k)'
      BY <3>1, <3>3, <1>4, <1>10 DEF Loading
    <3>5. InFrame(k)'
      BY <3>4, <1>6, <1>10, <2>3 DEF InFrame
    <3>6. UnitTypes'
      BY <1>8, <1>10, <2>1, <2>2, <2>3, <3>2, <3>3 DEF UnitTypes
    <3>7. Len(nals') = Len(nals) /\ pc' = "nalu"
      BY <1>4, <1>10, <2>3
    <3> QED BY <3>5, <3>6, <3>7, <1>2, <1>5 DEF UnitsInv
  <2>4. CASE next = "send"
    <3>1. /\ ~ Ends(p) /\ ~ p.marker
          /\ 0 < remain' /\ remain' <= Len(nals[k]) - 1 /\ MaxPkt < Len(nals[k]) - 1
          /\ Begun(p) \in {NULL, so} /\ (whole => Begun(p) = so)
      BY <2>4
    <3>2. part' = Begun(p) /\ got' = got
      BY <1>10, <3>1 DEF Receive
    <3>3. so \in Seq(Byte)
      BY <1>3, <1>8, <3>1
    <3>4. SoFar(k)' = so
      BY <1>4 DEF SoFar
    <3> HIDE DEF so
    <3>5. Rebuilt(k - 1)' /\ (whole' => got' = SubSeq(nals', 1, k - 1))
      BY <3>2, <1>2, <1>4, <1>7, <1>10, NothingNew
    <3>6. Sending(k)'
      <4>1. k > 0 /\ stream' = StartCode \o nals'[k] /\ remain' <= Len(nals'[k]) - 1
        BY <1>1, <1>4, <3>1 DEF Sending
      <4>2. part' \in {NULL, SoFar(k)'} /\ (whole' => lost' = 0 /\ part' = SoFar(k)')
        BY <3>1, <3>2, <3>4, <1>10
      <4>3. ~ marked'
        BY <1>4, <3>1
      <4>4. 0 < remain' /\ MaxPkt < Len(nals'[k]) - 1
        BY <1>4, <3>1
      <4> QED BY <4>1, <4>2, <4>3, <4>4, <3>5 DEF Sending
    <3>7. InFrame(k)'
      BY <3>6, <1>6, <1>10, <2>4 DEF InFrame
    <3>8. UnitTypes'
      <4>1. part' \in Seq(Byte) \cup {NULL}
        BY <3>1, <3>2, <3>3
      <4>2. got' \in Seq(Seq(Byte))
        BY <3>2, <1>7
      <4> QED BY <4>1, <4>2, <1>8, <1>10, <2>1, <2>2, <2>4 DEF UnitTypes
    <3>9. Len(nals') = Len(nals) /\ pc' = "send"
      BY <1>4, <1>10, <2>4
    <3> QED BY <3>7, <3>8, <3>9, <1>2, <1>5 DEF UnitsInv
  <2> QED BY <2>3, <2>4
<1>11. CASE lost' = lost + 1 /\ whole' = FALSE /\ UNCHANGED <<last, part, got>> /\ pc' \in {next, "idle"}
  <2>1. UnitTypes'
    BY <1>1, <1>8, <1>11 DEF UnitTypes
  <2>2. Rebuilt(k - 1)' /\ Rebuilt(k)' /\ Rebuilt(n)'
    BY <1>2, <1>9, <1>4, <1>7, <1>11, NothingNew
  <2>3. CASE pc' = "idle"
    <3>1. Rebuilt(Len(nals))'
      BY <2>2, <1>4, <1>9 DEF Rebuilt
    <3> QED BY <2>1, <2>3, <3>1, <1>5, <1>11 DEF UnitsInv
  <2>4. CASE pc' = next
    <3>1. lost' # 0
      BY <1>1, <1>11, H264Assumption DEF LossInv
    <3>2. pc' = "nalu" => Loading(k)'
      BY <2>2, <2>4, <1>4, <1>11 DEF Loading
    <3>3. pc' = "send" => Sending(k)'
      BY <1>1, <1>4, <1>11, <2>2, <2>4, <3>1 DEF Sending
    <3>4. InFrame(k)'
      BY <3>2, <3>3, <1>6 DEF InFrame
    <3>5. Len(nals') = Len(nals) /\ pc' \in {"nalu", "send"}
      BY <1>4, <2>4
    <3> QED BY <3>4, <3>5, <2>1, <1>2, <1>5 DEF UnitsInv
  <2> QED BY <2>3, <2>4, <1>11
<1>12. CASE pc' = "gone" /\ UNCHANGED <<last, part, got, whole>>
  <2>1. UnitTypes'
    BY <1>1, <1>8, <1>12 DEF UnitTypes
  <2>2. Rebuilt(n)'
    BY <1>2, <1>9, <1>4, <1>7, <1>12, NothingNew
  <2>3. Rebuilt(Len(nals))'
    BY <2>2, <1>4, <1>9 DEF Rebuilt
  <2> QED BY <2>1, <2>3, <1>5, <1>12 DEF UnitsInv
<1> QED
  BY <1>10, <1>11, <1>12 DEF send_rtp_packet

(* A short unit in one packet. *)
LEMMA SingleKeeps == UnitsInv /\ h263_send_single => UnitsInv'
<1> SUFFICES ASSUME UnitsInv, h263_send_single PROVE UnitsInv'
  OBVIOUS
<1>1. pc = "send" /\ ~ Fragmented /\ UnitTypes
  BY DEF h263_send_single, UnitsInv
<1>2. PICK k \in 0..Len(nals) : InFrame(k)
  BY <1>1 DEF UnitsInv
<1>3. Sending(k) /\ Encoded(nals)
  BY <1>1, <1>2 DEF InFrame
<1>4. k \in 1..Len(nals)
  BY <1>3 DEF Sending
<1> DEFINE u == nals[k]
           p == [f |-> F(header), nri |-> Nri(header), type |-> Type(header),
                 fu |-> NULL, data |-> SubSeq(stream, 6, Len(stream)),
                 marker |-> Type(header) \notin NotSlices]
<1>5. send_rtp_packet(p, "nalu") /\ UNCHANGED <<d, used, stream, remain>>
  BY DEF h263_send_single, sendVars
<1>6. /\ u \in Seq(Byte) /\ u # <<>> /\ Len(u) \in Nat /\ Len(u) > 0
      /\ (Type(u[1]) \in NotSlices <=> k < Len(nals))
      /\ Len(nals) \in Nat
  BY <1>3, <1>4, UnitOf
<1>7. stream = StartCode \o u
  BY <1>3 DEF Sending
<1> HIDE DEF u
<1>8. header = u[1]
  BY <1>6, <1>7, FirstByte, Zenon DEF header
<1>9. Begun(p) = u
  <2>1. Begun(p) = <<F(header) * 128 + Nri(header) * 32 + Type(header)>> \o SubSeq(stream, 6, Len(stream))
    BY DEF Begun
  <2>2. F(header) * 128 + Nri(header) * 32 + Type(header) = u[1] /\ <<u[1]>> = SubSeq(u, 1, 1)
    BY <1>6, <1>8, FirstByte
  <2>3. Len(stream) = 4 + Len(u)
    BY <1>6, <1>7, Coded, Zenon
  <2> DEFINE m == Len(u) - 1
  <2>4. m \in Nat /\ 1 + m = Len(u) /\ (4 + 1) + 1 = 6 /\ (4 + 1) + m = 4 + Len(u) /\ 1 + m <= Len(u) /\ 1 \in Nat /\ 1 <= 1
    BY <1>6
  <2> HIDE DEF m
  <2>5. SubSeq(u, 1, 1) \o SubSeq(StartCode \o u, (4 + 1) + 1, (4 + 1) + m) = SubSeq(u, 1, 1 + m)
    BY <1>6, <2>4, NextPart, Zenon
  <2>6. SubSeq(u, 1, Len(u)) = u
    BY <1>6
  <2>7. <<u[1]>> \o SubSeq(stream, 6, Len(stream)) = u
    BY <1>7, <2>2, <2>3, <2>4, <2>5, <2>6, Zenon
  <2> QED BY <2>1, <2>2, <2>7, Zenon
<1>10. Ends(p) /\ p.marker \in BOOLEAN /\ (p.marker <=> k = Len(nals))
  <2>1. p.fu = NULL /\ p.marker = (Type(header) \notin NotSlices)
    OBVIOUS
  <2> HIDE DEF p
  <2>2. Ends(p) /\ p.marker \in BOOLEAN
    BY <2>1 DEF Ends
  <2>3. Type(header) \in NotSlices <=> k < Len(nals)
    BY <1>6, <1>8, Zenon
  <2>4. k < Len(nals) <=> k # Len(nals)
    BY <1>4, <1>6
  <2> QED BY <2>1, <2>2, <2>3, <2>4, Zenon
<1>11. remain' \in Int /\ remain' <= Len(stream)
  BY <1>1, <1>5 DEF UnitTypes
<1> HIDE DEF p
<1> QED
  BY <1>1, <1>2, <1>4, <1>5, <1>9, <1>10, <1>11, PacketKeeps DEF u

(* The lesser of two numbers. *)
LEMMA MinTwo ==
    ASSUME NEW a \in Int, NEW b \in Int
    PROVE  Min({a, b}) = IF a <= b THEN a ELSE b
BY DEF Min

(* As much of the unit as the client has with a fragment. *)
LEMMA FragmentBegun ==
    ASSUME UnitsInv, pc = "send", NEW k \in 1..Len(nals), InFrame(k),
           Fragmented \/ remain > MaxPkt,
           NEW m \in Nat, m <= remain, ~ Fragmented => m < remain,
           NEW p, p.f = F(header), p.nri = Nri(header), p.fu \in Fragment,
           p.fu.s = (IF Fragmented THEN 0 ELSE 1), p.fu.type = Type(header),
           p.data = SubSeq(stream, (Len(stream) - remain) + 1, (Len(stream) - remain) + m)
    PROVE  /\ Begun(p) \in {NULL, SubSeq(nals[k], 1, Len(nals[k]) - (remain - m))}
           /\ whole => Begun(p) = SubSeq(nals[k], 1, Len(nals[k]) - (remain - m))
<1> DEFINE u == nals[k]
           i == Len(u) - remain
<1>1. Sending(k) /\ Encoded(nals) /\ UnitTypes /\ LossInv
  BY DEF UnitsInv, InFrame
<1>2. u \in Seq(Byte) /\ u # <<>> /\ Len(u) \in Nat /\ Len(u) > 0 /\ remain \in Int
  BY <1>1, UnitOf DEF UnitTypes
<1>3. stream = StartCode \o u /\ remain <= Len(u) - 1
  BY <1>1 DEF Sending
<1> HIDE DEF u
<1>4. Len(stream) = 4 + Len(u)
  BY <1>2, <1>3, Coded, Zenon
<1>5. /\ i \in Nat /\ 1 <= i /\ i + m <= Len(u) /\ Len(stream) - remain = 4 + i
      /\ Len(u) - (remain - m) = i + m
  BY <1>2, <1>3, <1>4
<1>6. SubSeq(u, 1, i) \o p.data = SubSeq(u, 1, i + m)
  <2>1. SubSeq(u, 1, i) \o SubSeq(StartCode \o u, (4 + i) + 1, (4 + i) + m) = SubSeq(u, 1, i + m)
    <3> HIDE DEF i
    <3> QED BY <1>2, <1>5, NextPart, Zenon
  <2>2. p.data = SubSeq(StartCode \o u, (4 + i) + 1, (4 + i) + m)
    BY <1>3, <1>5, Zenon
  <2> QED BY <2>1, <2>2, Zenon
<1>7. p.fu # NULL
  BY H264NullAssumption
<1>8. CASE ~ Fragmented
  <2>1. Begun(p) = <<p.f * 128 + p.nri * 32 + p.fu.type>> \o p.data
    BY <1>7, <1>8 DEF Begun
  <2>2. header = u[1]
    BY <1>2, <1>3, FirstByte, Zenon DEF header
  <2>3. p.f * 128 + p.nri * 32 + p.fu.type = u[1] /\ <<u[1]>> = SubSeq(u, 1, 1)
    BY <1>2, <2>2, FirstByte
  <2>4. i = 1
    BY <1>2, <1>4, <1>8 DEF Fragmented
  <2>5. Begun(p) = SubSeq(u, 1, i + m)
    BY <1>6, <2>1, <2>3, <2>4, Zenon
  <2> QED BY <2>5, <1>5 DEF u
<1>9. CASE Fragmented
  <2>1. Begun(p) = IF part = NULL \/ Gap THEN NULL ELSE part \o p.data
    BY <1>7, <1>9 DEF Begun
  <2>2. lost > 0 => part = NULL \/ Gap
    <3>1. last = NULL => part = NULL
      BY <1>1 DEF UnitTypes
    <3>2. last # NULL /\ lost > 0 => Gap
      BY <1>1, H264Assumption, Counts DEF LossInv, Gap
    <3> QED BY <3>1, <3>2
  <2>3. lost = 0 => ~ Gap
    BY <1>1, H264Assumption, Counts DEF LossInv, Gap
  <2>4. lost = 0 \/ lost > 0
    BY <1>1, H264Assumption DEF LossInv
  <2>5. lost = 0 => part \in {NULL, SubSeq(u, 1, i)}
    BY <1>1, <1>9 DEF Sending, SoFar, u
  <2>6. whole => lost = 0 /\ part = SubSeq(u, 1, i)
    BY <1>1, <1>9 DEF Sending, SoFar, u
  <2>7. SubSeq(u, 1, i) # NULL
    <3>1. SubSeq(u, 1, i) \in Seq(Byte)
      BY <1>2, <1>5
    <3> QED BY <3>1, H264NullAssumption
  <2>8. Begun(p) \in {NULL, SubSeq(u, 1, i + m)}
    BY <2>1, <2>2, <2>4, <2>5, <1>6, Zenon
  <2>9. whole => Begun(p) = SubSeq(u, 1, i + m)
    BY <2>1, <2>3, <2>6, <2>7, <1>6, Zenon
  <2> QED BY <2>8, <2>9, <1>5, Zenon DEF u
<1> QED
  BY <1>8, <1>9

(* A fragment of a long unit, which is the last of its frame. *)
LEMMA FragmentKeeps == UnitsInv /\ h263_send_fragment => UnitsInv'
<1> SUFFICES ASSUME UnitsInv, h263_send_fragment PROVE UnitsInv'
  OBVIOUS
<1>1. pc = "send" /\ (Fragmented \/ remain > MaxPkt) /\ UnitTypes
  BY DEF h263_send_fragment, UnitsInv
<1>2. PICK k \in 0..Len(nals) : InFrame(k)
  BY <1>1 DEF UnitsInv
<1>3. Sending(k) /\ Encoded(nals)
  BY <1>1, <1>2 DEF InFrame
<1>4. k \in 1..Len(nals)
  BY <1>3 DEF Sending
<1> DEFINE u == nals[k]
           from == Len(stream) - remain
           m == Min({remain, MaxPkt})
           fin == remain <= MaxPkt
           next == IF remain - MaxPkt > 0 THEN "send" ELSE "nalu"
           p == [f |-> F(header), nri |-> Nri(header), type |-> 28,
                 fu |-> [s |-> IF Fragmented THEN 0 ELSE 1,
                         e |-> IF fin THEN 1 ELSE 0, type |-> Type(header)],
                 data |-> SubSeq(stream, from + 1, from + m), marker |-> fin]
<1>5. send_rtp_packet(p, next) /\ UNCHANGED <<d, used, stream>> /\ remain' = remain - MaxPkt
  BY DEF h263_send_fragment
<1>6. /\ u \in Seq(Byte) /\ u # <<>> /\ Len(u) \in Nat /\ Len(u) > 0
      /\ Len(nals) \in Nat /\ (k < Len(nals) => Len(u) <= MaxPkt + 1)
  BY <1>3, <1>4, UnitOf
<1>7. /\ stream = StartCode \o u /\ remain <= Len(u) - 1
      /\ (Fragmented => 0 < remain /\ MaxPkt < Len(u) - 1)
  BY <1>3 DEF Sending
<1>8. MaxPkt \in Nat /\ MaxPkt > 0 /\ remain \in Int /\ Len(stream) \in Nat
  BY <1>1, H264Assumption, LenProperties DEF UnitTypes
<1> HIDE DEF u
<1>9. Len(stream) = 4 + Len(u)
  BY <1>6, <1>7, Coded, Zenon
<1>10. 0 < remain /\ MaxPkt < Len(u) - 1
  BY <1>1, <1>6, <1>7, <1>8, <1>9 DEF Fragmented
<1>11. k = Len(nals)
  BY <1>4, <1>6, <1>8, <1>10
<1>12. m = (IF remain <= MaxPkt THEN remain ELSE MaxPkt)
  BY <1>8, MinTwo
<1>13. header = u[1] /\ u[1] \in 0..255
  BY <1>6, <1>7, FirstByte, Zenon DEF header, Byte
<1>14. p.fu \in Fragment
  <2>1. Type(header) \in 0..31
    <3>1. \A b \in 0..255 : b % 32 \in 0..31
      OBVIOUS
    <3>2. header % 32 \in 0..31
      BY <1>13, <3>1, Zenon
    <3> QED BY <3>2 DEF Type
  <2>2. p.fu = [s |-> IF Fragmented THEN 0 ELSE 1, e |-> IF fin THEN 1 ELSE 0, type |-> Type(header)]
    OBVIOUS
  <2> HIDE DEF p
  <2>3. (IF Fragmented THEN 0 ELSE 1) \in {0, 1} /\ (IF fin THEN 1 ELSE 0) \in {0, 1}
    OBVIOUS
  <2> QED BY <2>1, <2>2, <2>3 DEF Fragment
<1>15. p.f = F(header) /\ p.nri = Nri(header) /\ p.fu.type = Type(header)
       /\ p.fu.s = (IF Fragmented THEN 0 ELSE 1) /\ p.data = SubSeq(stream, from + 1, from + m)
       /\ p.marker = fin /\ p.fu.e = (IF fin THEN 1 ELSE 0)
  OBVIOUS
<1> HIDE DEF p, m
<1>16. m \in Nat /\ m <= remain /\ (~ Fragmented => m < remain)
  <2>1. ~ Fragmented => remain > MaxPkt
    BY <1>1
  <2> QED BY <1>8, <1>10, <1>12, <2>1
<1>17. /\ Begun(p) \in {NULL, SubSeq(u, 1, Len(u) - (remain - m))}
       /\ whole => Begun(p) = SubSeq(u, 1, Len(u) - (remain - m))
  BY <1>1, <1>2, <1>4, <1>14, <1>15, <1>16, FragmentBegun DEF u
<1>18. remain' \in Int /\ remain' <= Len(stream)
  BY <1>1, <1>5, <1>8 DEF UnitTypes
<1>19. CASE fin
  <2>1. next = "nalu" /\ m = remain /\ remain - m = 0
    BY <1>8, <1>12, <1>19
  <2>2. Ends(p) /\ p.marker \in BOOLEAN /\ (p.marker <=> k = Len(nals))
    BY <1>11, <1>15, <1>19 DEF Ends
  <2>3. SubSeq(u, 1, Len(u) - (remain - m)) = u
    <3>1. Len(u) - (remain - m) = Len(u) /\ SubSeq(u, 1, Len(u)) = u
      BY <1>6, <2>1
    <3> QED BY <3>1, Zenon
  <2>4. Begun(p) \in {NULL, u} /\ (whole => Begun(p) = u)
    BY <1>17, <2>3, Zenon
  <2>5. send_rtp_packet(p, "nalu")
    BY <1>5, <2>1
  <2> QED BY <1>1, <1>2, <1>4, <1>5, <1>18, <2>2, <2>4, <2>5, PacketKeeps DEF u
<1>20. CASE ~ fin
  <2>1. next = "send" /\ m = MaxPkt /\ remain - m = remain' /\ 0 < remain' /\ remain' <= Len(u) - 1
    BY <1>5, <1>7, <1>8, <1>12, <1>20
  <2>2. ~ Ends(p) /\ p.marker \in BOOLEAN /\ ~ p.marker
    <3>1. p.fu # NULL
      BY <1>14, H264NullAssumption
    <3>2. p.fu.e = 0
      BY <1>15, <1>20
    <3>3. ~ fin /\ fin \in BOOLEAN /\ (p.marker = fin)
      BY <1>8, <1>15, <1>20
    <3>4. p.marker \in BOOLEAN /\ ~ p.marker
      <4> HIDE DEF fin
      <4> QED BY <3>3, Zenon
    <3> QED BY <3>1, <3>2, <3>4 DEF Ends
  <2>3. /\ Begun(p) \in {NULL, SubSeq(u, 1, Len(u) - remain')}
        /\ whole => Begun(p) = SubSeq(u, 1, Len(u) - remain')
    BY <1>17, <2>1, Zenon
  <2>4. send_rtp_packet(p, "send")
    BY <1>5, <2>1
  <2> QED BY <1>1, <1>2, <1>4, <1>5, <1>10, <1>18, <2>1, <2>2, <2>3, <2>4, PacketKeeps DEF u
<1> QED
  BY <1>19, <1>20

(* The head of the loop takes the next unit. *)
LEMMA LoadKeeps == UnitsInv /\ h263_send_load => UnitsInv'
<1> SUFFICES ASSUME UnitsInv, h263_send_load PROVE UnitsInv'
  OBVIOUS
<1>1. pc = "nalu" /\ used < Len(d) /\ UnitTypes /\ LossInv
  BY DEF h263_send_load, UnitsInv
<1>2. PICK k \in 0..Len(nals) : InFrame(k)
  BY <1>1 DEF UnitsInv
<1>3. Loading(k) /\ Encoded(nals) /\ Loaded(k)
  BY <1>1, <1>2 DEF InFrame
<1>4. PICK o : Laid(d, nals, o) /\ used = o[k]
  BY <1>3 DEF Loaded
<1>5. Len(nals) \in Nat /\ d \in Seq(Byte) /\ Len(d) \in Nat
  BY <1>1, LenProperties DEF UnitTypes
<1>6. k + 1 \in 1..Len(nals) /\ (k + 1) - 1 = k
  BY <1>1, <1>4, <1>5 DEF Laid
<1> DEFINE u == nals[k + 1]
           unit == JK_BitStreamLoadNALU_FM(SubSeq(d, used + 1, Len(d)))
<1>7. unit = StartCode \o u
  <2>1. JK_BitStreamLoadNALU_FM(SubSeq(d, o[(k + 1) - 1] + 1, Len(d))) = StartCode \o u
    BY <1>3, <1>4, <1>5, <1>6, Loads, Zenon
  <2> QED BY <2>1, <1>4, <1>6, Zenon
<1>8. /\ pc' = "send" /\ stream' = unit /\ used' = used + Len(unit)
      /\ remain' = Len(unit) - 5
      /\ UNCHANGED <<d, seqnum, last, part, got, nals, whole, lost, marked>>
  BY DEF h263_send_load
<1>9. u \in Seq(Byte) /\ Len(u) \in Nat /\ Len(u) > 0
  BY <1>3, <1>6, UnitOf
<1> HIDE DEF u, unit
<1>10. unit \in Seq(Byte) /\ Len(unit) = 4 + Len(u)
  BY <1>7, <1>9, Coded, Zenon
<1>11. /\ o[k + 1] = o[(k + 1) - 1] + (4 + Len(nals[k + 1])) /\ o[k + 1] <= Len(d)
       /\ k \in 0..Len(nals)
  BY <1>4, <1>6 DEF Laid
<1>12. used' = o[k + 1] /\ used' \in 0..Len(d) /\ Len(unit) <= Len(d)
  <2>1. used \in 0..Len(d)
    BY <1>1 DEF UnitTypes
  <2>2. o[k + 1] = used + (4 + Len(u))
    BY <1>4, <1>6, <1>11 DEF u
  <2> QED BY <1>5, <1>8, <1>9, <1>10, <1>11, <2>1, <2>2
<1>13. Encoded(nals)'
  BY <1>3, <1>8 DEF Encoded
<1>14. Loaded(k + 1)'
  <2>1. Laid(d', nals', o) /\ used' = o[k + 1]
    BY <1>4, <1>8, <1>12
  <2> QED BY <2>1 DEF Loaded
<1>15. remain' = Len(u) - 1 /\ ~ Fragmented'
  BY <1>8, <1>9, <1>10 DEF Fragmented
<1>16. Sending(k + 1)'
  <2>1. Rebuilt(k)' /\ (whole' => got' = SubSeq(nals', 1, k)) /\ ~ marked'
    <3>1. k # Len(nals) /\ k \in Nat /\ k <= k
      BY <1>5, <1>6
    <3>2. Rebuilt(k) /\ got \in Seq(Seq(Byte)) /\ ~ marked /\ (whole => got = SubSeq(nals, 1, k))
      BY <1>1, <1>3, <3>1 DEF Loading, UnitTypes
    <3>3. Rebuilt(k)'
      BY <1>8, <3>1, <3>2, NothingNew
    <3> QED BY <1>8, <3>2, <3>3
  <2>2. Rebuilt((k + 1) - 1)' /\ (whole' => got' = SubSeq(nals', 1, (k + 1) - 1))
    BY <1>6, <2>1, Zenon
  <2>3. k + 1 > 0 /\ stream' = StartCode \o nals'[k + 1] /\ remain' <= Len(nals'[k + 1]) - 1
    <3>1. k + 1 > 0
      BY <1>6
    <3>2. stream' = StartCode \o nals'[k + 1]
      BY <1>7, <1>8, Zenon DEF u
    <3>3. remain' <= Len(nals'[k + 1]) - 1
      BY <1>8, <1>9, <1>15 DEF u
    <3> QED BY <3>1, <3>2, <3>3
  <2> QED BY <1>15, <2>1, <2>2, <2>3 DEF Sending
<1>17. InFrame(k + 1)'
  BY <1>8, <1>13, <1>14, <1>16 DEF InFrame
<1>18. UnitTypes'
  <2>1. remain' \in Int /\ remain' <= Len(stream')
    BY <1>8, <1>9, <1>10
  <2>2. stream' \in Seq(Byte) /\ Len(stream') <= Len(d') /\ used' \in 0..Len(d')
    BY <1>8, <1>10, <1>12
  <2> QED BY <1>1, <1>8, <2>1, <2>2 DEF UnitTypes
<1>19. LossInv'
  BY <1>1, NextLossInv DEF Next
<1>20. k + 1 \in 0..Len(nals)'
  BY <1>5, <1>6, <1>8
<1> QED
  BY <1>8, <1>17, <1>18, <1>19, <1>20 DEF UnitsInv

(* The head of the loop finds nothing more: the whole frame has been sent. *)
LEMMA ReturnKeeps == UnitsInv /\ h263_send_return => UnitsInv'
<1> SUFFICES ASSUME UnitsInv, h263_send_return PROVE UnitsInv'
  OBVIOUS
<1>1. pc = "nalu" /\ UnitTypes /\ LossInv
  BY DEF h263_send_return, UnitsInv
<1>2. PICK k \in 0..Len(nals) : InFrame(k)
  BY <1>1 DEF UnitsInv
<1>3. Loading(k) /\ Encoded(nals) /\ Loaded(k)
  BY <1>1, <1>2 DEF InFrame
<1>4. PICK o : Laid(d, nals, o) /\ used = o[k]
  BY <1>3 DEF Loaded
<1>5. nals \in Seq(Seq(Byte)) /\ Len(nals) \in Nat /\ d \in Seq(Byte) /\ Len(d) \in Nat
  BY <1>1, LenProperties DEF UnitTypes
<1>6. k = Len(nals)
  <2> SUFFICES ASSUME k # Len(nals) PROVE FALSE
    OBVIOUS
  <2>1. k + 1 \in 1..Len(nals) /\ (k + 1) - 1 = k
    BY <1>5
  <2>2. /\ o[(k + 1) - 1] < Len(d)
        /\ JK_BitStreamLoadNALU_FM(SubSeq(d, o[(k + 1) - 1] + 1, Len(d))) = StartCode \o nals[k + 1]
    BY <1>3, <1>4, <1>5, <2>1, Loads, Zenon
  <2>3. /\ used < Len(d)
        /\ JK_BitStreamLoadNALU_FM(SubSeq(d, used + 1, Len(d))) = StartCode \o nals[k + 1]
    BY <1>4, <2>1, <2>2, Zenon
  <2>4. StartCode \o nals[k + 1] \in Seq(Byte)
    <3>1. nals[k + 1] \in Seq(Byte)
      BY <1>3, <2>1, UnitOf
    <3> QED BY <3>1, Coded, Zenon
  <2>5. StartCode \o nals[k + 1] # NULL
    BY <2>4, H264NullAssumption
  <2>6. used \in Nat
    BY <1>1 DEF UnitTypes
  <2>7. used >= Len(d) \/ JK_BitStreamLoadNALU_FM(SubSeq(d, used + 1, Len(d))) = NULL
    BY DEF h263_send_return
  <2>8. JK_BitStreamLoadNALU_FM(SubSeq(d, used + 1, Len(d))) # NULL
    BY <2>3, <2>5, Zenon
  <2>9. used >= Len(d)
    BY <2>7, <2>8, Zenon
  <2>10. ~ (used >= Len(d))
    <3>1. \A u, l \in Nat : u < l => ~ (u >= l)
      OBVIOUS
    <3> QED BY <1>5, <2>3, <2>6, <3>1, Zenon
  <2> QED BY <2>9, <2>10, Zenon
<1>7. Rebuilt(Len(nals)) /\ (whole => got = nals /\ marked)
  <2>1. SubSeq(nals, 1, Len(nals)) = nals
    BY <1>5
  <2> QED BY <1>3, <1>6, <2>1, Zenon DEF Loading
<1>8. PICK n : n = Len(nals)
  OBVIOUS
<1>9. pc' = "idle" /\ UNCHANGED <<sendVars, seqnum, last, part, got, nals, whole, lost, marked>>
  BY DEF h263_send_return
<1>10. UnitTypes'
  BY <1>1, <1>9 DEF UnitTypes, sendVars
<1>11. Rebuilt(n)'
  BY <1>7, <1>8, <1>9 DEF Rebuilt, SomeOf
<1>12. Rebuilt(Len(nals))'
  BY <1>8, <1>9, <1>11 DEF Rebuilt
<1>13. LossInv'
  BY <1>1, NextLossInv DEF Next
<1> QED
  BY <1>7, <1>9, <1>10, <1>12, <1>13 DEF UnitsInv

(* None of the units of a frame. *)
LEMMA NoneYet ==
    ASSUME NEW k \in Nat
    PROVE  SomeOf(<<>>, k)
<1> DEFINE at == [i \in 1..0 |-> 1]
<1>1. at \in [1..Len(<<>>) -> 1..k] /\ \A i \in 1..Len(<<>>) : FALSE
  OBVIOUS
<1> QED
  BY <1>1 DEF SomeOf

(* The next frame. *)
LEMMA ProcessKeeps ==
    ASSUME UnitsInv, NEW f \in Frames, h263_process_frame(f)
    PROVE  UnitsInv'
<1>1. UnitTypes /\ LossInv
  BY DEF UnitsInv
<1>2. /\ pc' = "nalu" /\ d' = AnnexB(f) /\ used' = 0 /\ stream' = <<>> /\ remain' = 0
      /\ nals' = f /\ whole' = TRUE /\ got' = <<>> /\ marked' = FALSE
      /\ UNCHANGED <<last, part>>
  BY DEF h263_process_frame
<1>3. Encoded(f)
  BY EncoderAssumption
<1>4. f \in Seq(Seq(Byte)) /\ f # <<>>
  BY <1>3 DEF Encoded
<1>5. Len(f) \in Nat /\ Len(f) # 0
  BY <1>4, LenProperties, EmptySeq
<1>6. AnnexB(f) \in Seq(Byte) /\ Len(AnnexB(f)) \in Nat
  BY <1>3, FrameLaid, LenProperties
<1>7. PICK o : Laid(AnnexB(f), f, o)
  BY <1>3, FrameLaid
<1>8. Loaded(0)'
  <2>1. Laid(d', nals', o) /\ used' = o[0]
    <3>1. o[0] = 0
      BY <1>7 DEF Laid
    <3> QED BY <1>2, <1>7, <3>1
  <2> QED BY <2>1 DEF Loaded
<1>9. Encoded(nals)'
  BY <1>2, <1>3 DEF Encoded
<1>10. Loading(0)'
  <2>1. SomeOf(got, 0)'
    <3>1. \A i \in 1..Len(<<>>) : FALSE
      OBVIOUS
    <3>2. [i \in 1..0 |-> 1] \in [1..Len(<<>>) -> 1..0]
      OBVIOUS
    <3> QED BY <1>2, <3>1, <3>2 DEF SomeOf
  <2>2. Len(<<>>) = 0 /\ SubSeq(f, 1, 0) = <<>>
    BY <1>4
  <2>3. Rebuilt(0)'
    BY <1>2, <2>1, <2>2 DEF Rebuilt
  <2> QED BY <1>2, <1>5, <2>2, <2>3 DEF Loading
<1>11. InFrame(0)'
  BY <1>2, <1>8, <1>9, <1>10 DEF InFrame
<1>12. 0 \in 0..Len(nals)'
  BY <1>2, <1>5
<1>13. UnitTypes'
  <2>1. used' \in 0..Len(d') /\ Len(stream') <= Len(d') /\ remain' \in Int /\ remain' <= Len(stream')
    BY <1>2, <1>6
  <2>2. stream' \in Seq(Byte) /\ got' \in Seq(Seq(Byte))
    BY <1>2
  <2> QED BY <1>1, <1>2, <1>4, <1>6, <2>1, <2>2 DEF UnitTypes
<1>14. LossInv'
  BY <1>1, NextLossInv DEF Next
<1> QED
  BY <1>2, <1>11, <1>12, <1>13, <1>14 DEF UnitsInv

(* Another client's endpoint, which has nothing yet. *)
LEMMA EndpointKeeps == UnitsInv /\ new_rtp_endpoint => UnitsInv'
<1> SUFFICES ASSUME UnitsInv, new_rtp_endpoint PROVE UnitsInv'
  OBVIOUS
<1>1. UnitTypes /\ LossInv
  BY DEF UnitsInv
<1>2. /\ pc' = "idle" /\ last' = NULL /\ part' = NULL /\ got' = <<>>
      /\ nals' = <<>> /\ whole' = FALSE /\ marked' = FALSE
      /\ UNCHANGED <<d, used, stream, remain>>
  BY DEF new_rtp_endpoint, sendVars
<1>3. UnitTypes'
  <2>1. nals' \in Seq(Seq(Byte)) /\ got' \in Seq(Seq(Byte))
    BY <1>2
  <2> QED BY <1>1, <1>2, <2>1 DEF UnitTypes
<1>4. Rebuilt(0)'
  <2>1. SomeOf(got, 0)'
    <3>1. \A i \in 1..Len(<<>>) : FALSE
      OBVIOUS
    <3>2. [i \in 1..0 |-> 1] \in [1..Len(<<>>) -> 1..0]
      OBVIOUS
    <3> QED BY <1>2, <3>1, <3>2 DEF SomeOf
  <2>2. Len(<<>>) = 0
    OBVIOUS
  <2> QED BY <1>2, <2>1, <2>2 DEF Rebuilt
<1>5. Rebuilt(Len(nals))'
  <2>1. Len(nals') = 0
    BY <1>2
  <2> QED BY <1>4, <2>1 DEF Rebuilt
<1>6. LossInv'
  BY <1>1, NextLossInv DEF Next
<1> QED
  BY <1>2, <1>3, <1>5, <1>6 DEF UnitsInv

(* Nothing happens to the endpoint. *)
LEMMA UnitsRest == UnitsInv /\ UNCHANGED vars => UnitsInv'
<1> SUFFICES ASSUME UnitsInv, UNCHANGED vars PROVE UnitsInv'
  OBVIOUS
<1>1. UNCHANGED <<d, used, stream, remain, seqnum, pc, last, part, got, nals, whole, lost, marked>>
  BY DEF vars, sendVars
<1>2. UnitTypes' /\ LossInv'
  BY <1>1 DEF UnitsInv, UnitTypes, LossInv
<1>3. pc' \in {"nalu", "send"} => \E k \in 0..Len(nals') : InFrame(k)'
  <2> SUFFICES ASSUME pc' \in {"nalu", "send"} PROVE \E k \in 0..Len(nals') : InFrame(k)'
    OBVIOUS
  <2>1. PICK k \in 0..Len(nals) : InFrame(k)
    BY <1>1 DEF UnitsInv
  <2>2. Encoded(nals)' /\ Loaded(k)'
    BY <1>1, <2>1, FrameRests DEF InFrame
  <2>3. (pc = "nalu" => Loading(k)') /\ (pc = "send" => Sending(k)')
    BY <1>1, <2>1 DEF InFrame, Loading, Sending, Rebuilt, SomeOf, SoFar, Fragmented
  <2> QED BY <1>1, <2>2, <2>3 DEF InFrame
<1>4. pc' \in {"idle", "gone"} => Rebuilt(Len(nals))'
  BY <1>1 DEF UnitsInv, Rebuilt, SomeOf
<1> QED
  BY <1>1, <1>2, <1>3, <1>4 DEF UnitsInv

\* Every step of packetizer, network and client keeps the invariant.
LEMMA NextUnitsInv == UnitsInv /\ [Next]_vars => UnitsInv'
BY LoadKeeps, ReturnKeeps, SingleKeeps, FragmentKeeps, ProcessKeeps, EndpointKeeps, UnitsRest DEF Next

\* It holds before the first frame.
LEMMA InitUnitsInv == Init => UnitsInv
<1> SUFFICES ASSUME Init PROVE UnitsInv
  OBVIOUS
<1>1. Rebuilt(0)
  <2>1. Len(<<>>) = 0 /\ SomeOf(<<>>, 0)
    BY NoneYet
  <2> QED BY <2>1 DEF Init, Rebuilt
<1>2. UnitTypes
  <2>1. <<>> \in Seq(Byte) /\ <<>> \in Seq(Seq(Byte)) /\ Len(<<>>) = 0
    OBVIOUS
  <2>2. /\ d = <<>> /\ used = 0 /\ stream = <<>> /\ remain = 0 /\ pc = "idle" /\ got = <<>>
        /\ nals = <<>> /\ whole = FALSE /\ marked = FALSE /\ last = NULL /\ part = NULL
    BY DEF Init
  <2>3. used \in 0..Len(d) /\ Len(stream) <= Len(d) /\ remain \in Int /\ remain <= Len(stream)
    BY <2>1, <2>2
  <2>4. d \in Seq(Byte) /\ stream \in Seq(Byte) /\ got \in Seq(Seq(Byte)) /\ nals \in Seq(Seq(Byte))
    BY <2>1, <2>2
  <2> QED BY <2>2, <2>3, <2>4, Zenon DEF UnitTypes
<1>3. LossInv
  BY H264Assumption DEF Init, LossInv
<1>4. Rebuilt(Len(nals))
  <2>1. Len(nals) = 0
    BY DEF Init
  <2> QED BY <1>1, <2>1, Zenon
<1> QED
  BY <1>2, <1>3, <1>4 DEF Init, UnitsInv

\* The units of a frame are found one after the other, and what the client
\* holds is the beginning of the current one (JK_BitStreamLoadNALU_FM,
\* send_rtp_packet).
THEOREM UnitsInvHolds == Spec => []UnitsInv
BY InitUnitsInv, NextUnitsInv, PTL DEF Spec

(* The client puts together the units the encoder made, in order and whole,  *)
(* whatever packets are lost, and all of them when none is; and the marker   *)
(* is on the last packet of a frame and on no other: for every frame an      *)
(* encoder makes, every packet length and every number of losses in a row    *)
(* that the sequence numbers can tell.                                       *)
THEOREM UnitsRebuiltHolds == Spec => []UnitsRebuilt
<1>1. UnitsInv => UnitsRebuilt
  <2> SUFFICES ASSUME UnitsInv PROVE UnitsRebuilt
    OBVIOUS
  <2>1. UnitTypes /\ LossInv
    BY DEF UnitsInv
  <2>2. got \in Seq(Seq(Byte)) /\ Len(nals) \in Nat /\ Len(got) \in Nat
    BY <2>1, LenProperties DEF UnitTypes
  <2>3. /\ Rebuilt(Len(nals))
        /\ marked => pc # "send" /\ (pc = "nalu" => used >= Len(d))
    <3>1. CASE pc \in {"nalu", "send"}
      <4>1. PICK k \in 0..Len(nals) : InFrame(k)
        BY <3>1 DEF UnitsInv
      <4>2. pc = "nalu" => Rebuilt(k) /\ (marked <=> k = Len(nals))
        BY <4>1 DEF InFrame, Loading
      <4>3. pc = "send" => Rebuilt(k - 1) /\ ~ marked /\ k > 0
        BY <4>1 DEF InFrame, Sending
      <4>4. ASSUME NEW j \in Nat, j <= Len(nals), Rebuilt(j) PROVE Rebuilt(Len(nals))
        <5>1. SomeOf(got, Len(nals)) /\ Len(got) <= Len(nals)
          BY <2>2, <4>4, SomeMore DEF Rebuilt
        <5> QED BY <5>1 DEF Rebuilt
      <4>5. k = Len(nals) => used >= Len(d)
        <5>1. PICK o : Laid(d, nals, o) /\ used = o[k]
          BY <4>1 DEF InFrame, Loaded
        <5>2. used \in Nat
          BY <2>1 DEF UnitTypes
        <5>3. k = Len(nals) => used = Len(d)
          BY <5>1 DEF Laid
        <5> QED BY <5>2, <5>3
      <4>6. k \in Nat /\ k <= Len(nals) /\ (k > 0 => k - 1 \in Nat /\ k - 1 <= Len(nals))
        BY <2>2
      <4> QED BY <3>1, <4>2, <4>3, <4>4, <4>5, <4>6
    <3>2. CASE pc \in {"idle", "gone"}
      BY <3>2 DEF UnitsInv
    <3> QED BY <3>1, <3>2, <2>1 DEF UnitTypes
  <2>4. TypeOK
    BY <2>1, <2>3 DEF UnitTypes, LossInv, TypeOK, Rebuilt
  <2>5. SomeOf(got, Len(nals)) /\ (pc = "idle" /\ whole => got = nals /\ marked)
    BY <2>3 DEF UnitsInv, Rebuilt
  <2> QED BY <2>3, <2>4, <2>5 DEF UnitsRebuilt
<1> QED
  BY <1>1, UnitsInvHolds, PTL

=============================================================================
