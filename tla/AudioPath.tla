----------------------------- MODULE AudioPath -----------------------------
(***************************************************************************)
(* Audio from the microphone to the RTP packets of one endpoint.           *)
(*                                                                         *)
(*   audio thread: audio_ring_input (audio.c) puts samples into a ring of  *)
(*     one second, corrected to the rate the meter asks for, and queues a  *)
(*     frame for every complete block.  The frame's data are not copied:   *)
(*     f->d points into the ring.                                          *)
(*   event loop: sq_run takes a frame, alaw_encode (encoder-alaw.c) reads  *)
(*     the samples where they are, rawaudio_process_frame and              *)
(*     rawaudio_send (rtp-rawaudio.c) cut the result into packets.         *)
(*                                                                         *)
(* The threads interleave sample by sample.  A sample is the number it has *)
(* in the input.  Lengths count samples: with the one channel input-oss.c  *)
(* configures, a PCM sample has two bytes and an A-law sample one.         *)
(***************************************************************************)
EXTENDS Integers, Sequences

CONSTANTS FrameLen,     \* ring->framelen: 4608 bytes
          RateLen,      \* samples in a second, from which buflen is made
          InLens,       \* lengths of what the microphone delivers
          Rates,        \* what the meter may ask for: one sample in so many
          QueueCells,   \* cells of conf->queue: 16
          MaxData,      \* what max_data_size may be
          MaxIn,        \* bound: samples of a behaviour
          NoFrame

(* The ring holds at least two blocks (3, with 8000 samples in a second):  *)
(* in a ring of one, the second copy of a doubled sample overwrites the    *)
(* beginning of the block before that is queued.                           *)
ASSUME AudioAssumption ==
    /\ FrameLen \in Nat /\ FrameLen > 1 /\ RateLen \in Nat /\ RateLen >= 2 * FrameLen
    /\ InLens \subseteq Nat \ {0} /\ Rates \subseteq Int
    /\ QueueCells \in Nat \ {0} /\ MaxData \subseteq Nat \ {0} /\ MaxIn \in Nat

VARIABLES
    \* the ring and the audio thread
    buf, i_r, i_w, avail, adjust_rate, adjust_count,
    nread,          \* samples read from the microphone
    todo,       \* samples left of the present call of audio_ring_input
    correction, \* as in the code; summed up over the calls
    \* the event loop
    queue, apc, pcm, alaw, timestamp, rawaudio_len, off, max_data_size, sent,
    \* history: all samples put into the ring, blocks completed, samples of
    \* the frames processed so far
    put, blocks, played

ringVars == <<buf, i_r, i_w, avail, adjust_rate, adjust_count, nread, todo,
              correction, put, blocks>>
loopVars == <<apc, pcm, alaw, timestamp, rawaudio_len, off, max_data_size,
              sent, played>>
audioVars == <<ringVars, queue, loopVars>>

(* Slip: the ring is not cut to whole frames. *)
buflen_uncut == RateLen

(* new_audio_ring: buflen is cut to whole frames. *)
buflen == RateLen - (RateLen % FrameLen)

AudioInit ==
    /\ buf = [k \in 0..(buflen - 1) |-> 0]
    /\ i_r = 0 /\ i_w = 0 /\ avail = 0 /\ adjust_rate = 0 /\ adjust_count = 0
    /\ nread = 0 /\ todo = 0 /\ correction = 0
    /\ queue = <<>> /\ apc = "idle" /\ pcm = NoFrame /\ alaw = <<>>
    /\ timestamp = 0 /\ rawaudio_len = 0 /\ off = 0 /\ max_data_size \in MaxData
    /\ sent = NoFrame
    /\ put = <<>> /\ blocks = 0 /\ played = 0

-----------------------------------------------------------------------------
(* The beginning of audio_ring_input, with len samples: every 30 seconds   *)
(* the meter sets a new rate, effective at once; avail is worked out anew. *)
InputBegins ==
    /\ todo = 0
    /\ \E len \in InLens :
         /\ nread + len <= MaxIn
         /\ todo' = len
    /\ \/ /\ adjust_rate' \in Rates /\ adjust_count' = 1
       \/ UNCHANGED <<adjust_rate, adjust_count>>
    /\ avail' = IF i_w < i_r THEN buflen - i_r + i_w ELSE i_w - i_r
    /\ UNCHANGED <<buf, i_r, i_w, nread, correction, put, blocks, queue, loopVars>>

(* What the loop of audio_ring_input does with the sample in hand: leave   *)
(* it out, put it in twice, or put it in.                                  *)
Copies == IF adjust_rate # 0 /\ adjust_count = 1
          THEN IF adjust_rate < 0 THEN 0 ELSE 2
          ELSE 1

(* k copies of sample s from position w on. *)
Fill(b, w, s, k) ==
    [c \in DOMAIN b |-> IF \E j \in 0..(k - 1) : c = (w + j) % buflen
                        THEN s ELSE b[c]]

(* A complete block is queued; it is lost when there is no frame for it    *)
(* (new_frame fails) or no cell in the queue.                              *)
QueueBlock(b) ==
    LET f == [d |-> i_r, no |-> blocks,
              data |-> [k \in 1..FrameLen |-> b[(i_r + k - 1) % buflen]]]
    IN  /\ \/ Len(queue) < QueueCells /\ queue' = Append(queue, f)
           \/ UNCHANGED queue
        /\ i_r' = IF i_r + FrameLen = buflen THEN 0 ELSE i_r + FrameLen
        /\ blocks' = blocks + 1

(* What is left in the ring behind a complete block *)
Left(a) == a - FrameLen

(* One round of the loop.  At most one block is complete after it. *)
InputSample ==
    LET s == nread + 1
        a == avail + Copies
    IN  /\ todo > 0
        /\ nread' = s /\ todo' = todo - 1
        /\ adjust_count' = IF adjust_rate = 0 THEN adjust_count
                           ELSE IF Copies # 1
                           THEN (IF adjust_rate < 0 THEN -adjust_rate ELSE adjust_rate)
                           ELSE adjust_count - 1
        /\ correction' = correction + Copies - 1
        /\ buf' = Fill(buf, i_w, s, Copies)
        /\ i_w' = (i_w + Copies) % buflen
        /\ put' = put \o [k \in 1..Copies |-> s]
        /\ IF a >= FrameLen
           THEN QueueBlock(buf') /\ avail' = Left(a)
           ELSE avail' = a /\ UNCHANGED <<i_r, queue, blocks>>
        /\ UNCHANGED <<adjust_rate, loopVars>>

AudioThread == InputBegins \/ InputSample

-----------------------------------------------------------------------------
(* sq_run, get_back_frame, deliver_frame_to_stream: the encoder gets the   *)
(* frame if it is waiting, else the frame is passed over.                  *)
TakeFrame ==
    /\ apc = "idle" /\ queue # <<>>
    /\ queue' = Tail(queue)
    /\ \/ pcm' = Head(queue) /\ apc' = "encode"
       \/ UNCHANGED <<pcm, apc>>
    /\ UNCHANGED <<ringVars, alaw, timestamp, rawaudio_len, off, max_data_size,
                   sent, played>>

(* Slip: the frame's data start a sample too far. *)
EncodeSample_late ==
    /\ apc = "encode" /\ Len(alaw) < FrameLen
    /\ alaw' = Append(alaw, buf[(pcm.d + Len(alaw) + 1) % buflen])
    /\ UNCHANGED <<ringVars, queue, apc, pcm, timestamp, rawaudio_len, off,
                   max_data_size, sent, played>>

(* g711a_encode, one sample.  It is told the length of the PCM data in     *)
(* bytes and goes on for as many samples again, behind the block; the      *)
(* frame's length leaves those out.                                        *)
EncodeSample ==
    /\ apc = "encode" /\ Len(alaw) < FrameLen
    /\ alaw' = Append(alaw, buf[pcm.d + Len(alaw)])
    /\ UNCHANGED <<ringVars, queue, apc, pcm, timestamp, rawaudio_len, off,
                   max_data_size, sent, played>>

(* Slip: the timestamp moves by the frame at hand. *)
Process_own ==
    /\ timestamp' = timestamp + Len(alaw)
    /\ rawaudio_len' = Len(alaw)

(* rawaudio_process_frame: the timestamp moves by the frame before. *)
Process ==
    /\ timestamp' = timestamp + rawaudio_len
    /\ rawaudio_len' = Len(alaw)

(* The encoded frame goes to the live track, or is passed over. *)
DeliverAlaw ==
    /\ apc = "encode" /\ Len(alaw) = FrameLen
    /\ \/ Process /\ apc' = "send" /\ off' = 0 /\ played' = played + Len(alaw)
          /\ UNCHANGED <<pcm, alaw>>
       \/ /\ apc' = "idle" /\ pcm' = NoFrame /\ alaw' = <<>>
          /\ UNCHANGED <<timestamp, rawaudio_len, off, played>>
    /\ UNCHANGED <<ringVars, queue, max_data_size, sent>>

(* One packet of rawaudio_send.  A send_rtp_packet that fails ends it and   *)
(* the endpoint; the track goes on with the next client.                   *)
SendPacket ==
    LET rest == rawaudio_len - off
        plen == IF rest > max_data_size THEN max_data_size ELSE rest
    IN  /\ apc = "send" /\ off < rawaudio_len
        /\ \/ /\ sent' = [ts |-> timestamp + off, from |-> off,
                          data |-> SubSeq(alaw, off + 1, off + plen)]
              /\ off' = off + plen
           \/ off' = rawaudio_len /\ UNCHANGED sent
        /\ UNCHANGED <<ringVars, queue, apc, pcm, alaw, timestamp, rawaudio_len,
                       max_data_size, played>>

FrameSent ==
    /\ apc = "send" /\ off >= rawaudio_len
    /\ apc' = "idle" /\ pcm' = NoFrame /\ alaw' = <<>> /\ sent' = NoFrame
    /\ UNCHANGED <<ringVars, queue, timestamp, rawaudio_len, off,
                   max_data_size, played>>

AudioLoop == TakeFrame \/ EncodeSample \/ DeliverAlaw \/ SendPacket \/ FrameSent

AudioNext == AudioThread \/ AudioLoop
AudioSpec == AudioInit /\ [][AudioNext]_audioVars

-----------------------------------------------------------------------------
(* audio_ring_input loses nothing between two blocks and two calls: the    *)
(* blocks it queues are the successive pieces of the corrected sample      *)
(* stream, whole and inside the ring, whatever the corrections and however *)
(* the input is cut; what the meter is told is what was added or left out. *)
BlocksInOrder ==
    /\ \A k \in DOMAIN queue :
         /\ queue[k].d + FrameLen <= buflen
         /\ queue[k].data = SubSeq(put, queue[k].no * FrameLen + 1,
                                           (queue[k].no + 1) * FrameLen)
    /\ avail = Len(put) - blocks * FrameLen
    /\ avail \in 0..(FrameLen - 1)
    /\ Len(put) = nread + correction

(* The frames of the queue are not copies: when the audio thread comes     *)
(* round before alaw_encode has read the samples, newer ones are sent in   *)
(* their place.  That takes an event loop so late that as many further     *)
(* blocks are complete as the ring holds less one: two, with the built-in  *)
(* 8000 Hz, although the queue would take 16 frames.                       *)
StaleOnlyBehindBacklog ==
    alaw # <<>> /\ alaw # SubSeq(pcm.data, 1, Len(alaw)) =>
        blocks - pcm.no >= buflen \div FrameLen

(* Across frames, packets and failed sends the timestamp of a packet is    *)
(* the number of samples delivered before its first: the client can place  *)
(* every packet.                                                           *)
TimestampsCountSamples ==
    sent # NoFrame =>
        /\ sent.ts = (played - FrameLen) + sent.from
        /\ Len(sent.data) \in 1..max_data_size
        /\ \E k \in 1..FrameLen : sent.data[1] = alaw[k] /\ k = sent.from + 1

=============================================================================
