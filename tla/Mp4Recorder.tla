---------------------------- MODULE Mp4Recorder ----------------------------
(***************************************************************************)
(* The MP4 recorder and player of Mp4v2/CMp4Encoder.c over the tracks of   *)
(* Mp4Track.  A caller opens a recording, hands over H.264 frames with     *)
(* their time in microseconds and AAC frames, closes it, opens the file    *)
(* again to read it and may seek in it.  Both tracks write their chunks    *)
(* into one file, and the tables that find them again are written when     *)
(* the recording is closed.                                                *)
(*                                                                         *)
(* A NAL unit is [type, code, size]: what it holds, the length of its      *)
(* start code, and its bytes with the start code.  The byte at place i of  *)
(* sample k of track x is <<x, k, i>>, so that a reader that is off by a   *)
(* byte or in the other track is noticed.                                  *)
(***************************************************************************)
EXTENDS Mp4Track

CONSTANTS
  \* @type: Set(Seq(nalu)); the frames the caller may hand to Mp4VEncode
  Frames,
  \* @type: Set(Int); the times, in microseconds, it may give them
  Times,
  \* @type: Set(Int); the sizes of AAC frames, with their 7 bytes of header
  AacSizes,
  \* @type: Int; frames a second, as given to InitMp4Encoder
  FrameRate,
  \* @type: Int; audio samples a second, as given to Mp4SetProp, and the bits
  \* of one, which OpenMp4Encoder passes as the duration of a frame
  SampleRate, BitsPerSample,
  \* @type: Set(Int); the times between two frames whose product of doubles
  \* falls short of a whole number of ticks: 300, 600, 700000, 1400000, ...
  ShortTimes,
  \* @type: Int; the turn at which Mp4VEncode gives up on a frame, 20
  MaxTurns,
  \* @type: Int; bound: the video frames and the audio frames of a recording
  MaxVideo, MaxAudio,
  \* @type: Set(<<Int, Int>>); the pairs <<seconds in all, second wanted>> of seeks
  Seeks

VIDEO_TIME_SCALE == 90000

\* Times are unsigned numbers of 64 bits, and seven seconds are far from
\* filling 32.
ASSUME RecorderAssumption ==
  /\ FrameRate \in Nat \ {0} /\ SampleRate \in Nat \ {0} /\ MaxTurns \in Nat \ {0}
  /\ BitsPerSample \in Nat
  /\ ShortTimes \subseteq {d \in Nat : d > 0} /\ \A d \in ShortTimes : (d * 9) % 100 = 0
  /\ 7 * VIDEO_TIME_SCALE < U32 /\ Times \subseteq 0..(U64 - 1)
  /\ AacSizes \subseteq {n \in Nat : n >= 7}
  /\ \A f \in Frames :
       f \in Seq([type : STRING, code : {3, 4}, size : Nat])
  /\ Seeks \subseteq (Nat \ {0}) \X Nat

MP4_INVALID_TRACK_ID == 0

VARIABLES
  phase,    \* "idle", "writing", "closed", "reading"
  rec,      \* Mp4v2WriteMp4: the tracks, the file, and the time last seen
  play,     \* Mp4v2ReadMp4: the next sample of each track
  out,      \* what the last read of a track answered
  log,      \* history: what was handed to MP4WriteSample for each track
  given     \* bound: how many video and audio frames have been handed over

vars == <<phase, rec, play, out, log, given>>

Names == {"video", "audio"}

NoRead == [name |-> "video", sample |-> 0, ok |-> FALSE, time |-> Throws]

\* InitMp4Encoder
Fresh ==
  [trak |-> [x \in Names |-> NewTrack(1, 0)], file |-> <<>>,
   vTrackId |-> MP4_INVALID_TRACK_ID, bFirstVideo |-> TRUE, u64VideoPTS |-> 0]

Init ==
  /\ phase = "idle"
  /\ rec = Fresh
  /\ play = [x \in Names |-> 0]
  /\ out = NoRead
  /\ log = [x \in Names |-> <<>>]
  /\ given = [x \in Names |-> 0]

---------------------------------------------------------------------------
(* Recording                                                               *)

\* The media data starts behind the file's first headers: one byte here.  The
\* samples of the audio track all say their duration, so that the one it is
\* created with goes unused.
OpenMp4Encoder ==
  /\ phase = "idle"
  /\ phase' = "writing"
  /\ rec' = [Fresh EXCEPT !.trak["audio"] = NewTrack(SampleRate, BitsPerSample),
                          !.file = <<"ftyp">>]
  /\ UNCHANGED <<play, out, log, given>>

\* Microseconds as ticks of the video track, rounded down
TicksIn(d) == (d * 9) \div 100

\* The difference is unsigned: a time that goes back gives a huge one.  The
\* code divides and multiplies doubles and cuts off the fraction, which may
\* take a tick from a product that is a whole number.
PTS2TIME_SCALE(cur, prev) ==
  LET d == (cur - prev) % U64
  IN  IF d \in ShortTimes THEN TicksIn(d) - 1 ELSE TicksIn(d)

DefaultDuration == VIDEO_TIME_SCALE \div FrameRate

checkInvalidData(cur, old) ==
  LET diff == PTS2TIME_SCALE(cur, old)
  IN  IF diff >= 7 * VIDEO_TIME_SCALE THEN DefaultDuration ELSE diff

Bytes(x, k, n) == [i \in 1..n |-> <<x, k, i>>]

\* MP4WriteSample on track x, and the history of what it was given
Sampled(s, x, size, duration, isSync, pts) ==
  LET t     == s.rec.trak[x]
      bytes == Bytes(x, t.writeSampleId, size)
      w     == WriteSample(t, s.rec.file, bytes, duration, isSync)
  IN  [rec |-> [s.rec EXCEPT !.trak[x] = w.trak, !.file = w.file],
       log |-> [s.log EXCEPT ![x] = Append(@,
                  [bytes |-> bytes, sync |-> isSync, pts |-> pts,
                   duration |-> EffectiveDuration(t, duration) % U32])]]

(***************************************************************************)
(* One NAL unit.  Only units with a start code of four bytes are looked    *)
(* at, and nothing before the first SPS, which creates the video track.    *)
(* A slice is a sample as long as the time since the frame before it.      *)
(***************************************************************************)
Mp4VNaluEncode(s, nalu, pts) ==
  LET index == IF nalu.code = 4 THEN nalu.type ELSE "none"
      r     == s.rec
  IN  CASE index = "SPS" /\ r.vTrackId = MP4_INVALID_TRACK_ID ->
             [s EXCEPT !.rec.vTrackId = 2,
                       !.rec.trak["video"] =
                          NewTrack(VIDEO_TIME_SCALE, DefaultDuration)]
        [] index \in {"I", "P"} /\ r.vTrackId # MP4_INVALID_TRACK_ID ->
             LET prev == IF r.bFirstVideo THEN pts ELSE r.u64VideoPTS
                 d    == IF pts = 0 THEN MP4_INVALID_DURATION
                                    ELSE checkInvalidData(pts, prev)
             IN  Sampled([s EXCEPT !.rec.bFirstVideo = FALSE,
                                   !.rec.u64VideoPTS = pts],
                         "video", nalu.size, d, index = "I", pts)
        [] OTHER -> s

(***************************************************************************)
(* A frame is cut at its start codes; the loop gives up at its MaxTurns-th *)
(* turn, whatever is left of the frame.                                    *)
(***************************************************************************)
Mp4VEncode(frame, pts) ==
  /\ phase = "writing" /\ given["video"] < MaxVideo
  /\ given' = [given EXCEPT !["video"] = @ + 1]
  /\ LET n == Min({Len(frame), MaxTurns - 1})
         after[i \in 0..n] == IF i = 0 THEN [rec |-> rec, log |-> log]
                              ELSE Mp4VNaluEncode(after[i - 1], frame[i], pts)
     IN  rec' = after[n].rec /\ log' = after[n].log
  /\ UNCHANGED <<phase, play, out>>

\* Audio is refused until the video track exists; the ADTS header is cut off.
Mp4AEncode(aacSize) ==
  /\ phase = "writing" /\ given["audio"] < MaxAudio
  /\ given' = [given EXCEPT !["audio"] = @ + 1]
  /\ IF rec.vTrackId = MP4_INVALID_TRACK_ID THEN UNCHANGED <<rec, log>>
     ELSE LET s == Sampled([rec |-> rec, log |-> log],
                           "audio", aacSize - 7, 1024, TRUE, 0)
          IN  rec' = s.rec /\ log' = s.log
  /\ UNCHANGED <<phase, play, out>>

\* MP4File::FinishWrite flushes the tracks in the order of their creation;
\* then the tables go behind the media data.
CloseMp4Encoder ==
  /\ phase = "writing"
  /\ phase' = "closed"
  /\ LET a == WriteChunkBuffer(rec.trak["audio"], rec.file)
         v == WriteChunkBuffer(rec.trak["video"], a.file)
     IN  rec' = [rec EXCEPT !.trak = [x \in Names |->
                                 IF x = "audio" THEN a.trak ELSE v.trak],
                            !.file = Append(v.file, "moov")]
  /\ UNCHANGED <<play, out, log, given>>

---------------------------------------------------------------------------
(* Playing                                                                 *)

\* A file without a video track is played as well: that track has no sample.
OpenMp4Reader ==
  /\ phase = "closed"
  /\ phase' = "reading"
  /\ rec' = [rec EXCEPT !.trak = [x \in Names |-> MP4StscAtom_Read(rec.trak[x])]]
  /\ play' = [x \in Names |-> 1]
  /\ UNCHANGED <<out, log, given>>

\* Slip: the time that is handed out is that of the sample itself.
ReadNext_own(x) ==
  LET t == rec.trak[x]
      r == ReadSample(t, rec.file, play[x], GetMaxSampleSize(t))
  IN  /\ phase = "reading" /\ play[x] < t.count
      /\ play' = [play EXCEPT ![x] = @ + 1]
      /\ rec' = [rec EXCEPT !.trak[x] = r.trak]
      /\ out' = [name |-> x, sample |-> play[x], ok |-> r.ok, time |-> r.start]
      /\ UNCHANGED <<phase, log, given>>

(***************************************************************************)
(* Mp4ReadVideo and Mp4ReadAudio: the next sample, as long as it is not    *)
(* the last one.  The time that is handed out is that of the sample after  *)
(* it.                                                                     *)
(***************************************************************************)
ReadNext(x) ==
  LET t == rec.trak[x]
      r == ReadSample(t, rec.file, play[x], GetMaxSampleSize(t))
      ok == r.ok /\ r.bytes # <<>>
      times == GetSampleTimes(r.trak, play[x] + 1)
  IN  /\ phase = "reading" /\ play[x] < t.count
      /\ play' = [play EXCEPT ![x] = @ + 1]
      /\ rec' = [rec EXCEPT !.trak[x] =
                   IF ok THEN [r.trak EXCEPT !.cache = times.cache] ELSE r.trak]
      /\ out' = [name |-> x, sample |-> play[x], ok |-> ok,
                 time |-> IF ok THEN times.start ELSE Throws]
      /\ UNCHANGED <<phase, log, given>>

Mp4ReadVideo == ReadNext("video")

Mp4ReadAudio == ReadNext("audio")

Mp4SeekMedia(total_second, ops_second) ==
  /\ phase = "reading"
  /\ play' = [x \in Names |-> (ops_second * rec.trak[x].count) \div total_second]
  /\ UNCHANGED <<phase, rec, out, log, given>>

\* The caller starts over with another recording.
CloseMp4Reader ==
  /\ phase = "reading"
  /\ phase' = "idle"
  /\ rec' = Fresh
  /\ log' = [x \in Names |-> <<>>]
  /\ given' = [x \in Names |-> 0]
  /\ play' = [x \in Names |-> 0]
  /\ out' = NoRead

Next ==
  \/ OpenMp4Encoder
  \/ \E frame \in Frames, pts \in Times : Mp4VEncode(frame, pts)
  \/ \E n \in AacSizes : Mp4AEncode(n)
  \/ CloseMp4Encoder
  \/ OpenMp4Reader
  \/ Mp4ReadVideo
  \/ Mp4ReadAudio
  \/ \E s \in Seeks : Mp4SeekMedia(s[1], s[2])
  \/ CloseMp4Reader

Spec == Init /\ [][Next]_vars

---------------------------------------------------------------------------
\* When sample k of track x starts: the sum of the durations before it
Start(x, k) == Total([i \in 1..(k - 1) |-> log[x][i].duration], 1, k)

\* What IsSyncSample has to say of sample k of track x.  The search for a
\* sample before the first sync sample leaves the table on its left.
SyncAnswer(x, k) ==
  IF log[x][k].sync THEN "sync"
  ELSE IF \E i \in 1..k : log[x][i].sync THEN "not sync" ELSE "throws"

\* No run of samples of one duration lasts longer than 32 bits can say, 13
\* hours of video.
RunsFit(t) ==
  \A i \in DOMAIN t.stts : t.stts[i].count * t.stts[i].delta < U32

(***************************************************************************)
(* Every sample of a closed recording is found again, whatever was read    *)
(* and sought before: its bytes, its start and its duration are those that *)
(* were written, whatever chunks the other track wrote in between and      *)
(* however sizes and durations changed, and the run that GetSampleTimes    *)
(* remembers never misleads it; IsSyncSample says yes for the samples      *)
(* written as sync samples, no for the others, and throws for those before *)
(* the first sync sample and nowhere else.  A sample of no bytes at the    *)
(* very end of a track has no chunk, and need not be found.  (WriteSample, *)
(* WriteChunkBuffer, GetSampleFileOffset, MP4StscAtom::Read, IsSyncSample) *)
(***************************************************************************)
SamplesReadBack ==
  phase = "reading" =>
    \A x \in Names : LET t == rec.trak[x] IN
      /\ t.count = Len(log[x])
      /\ \A k \in 1..t.count :
           LET r     == ReadSample(t, rec.file, k, GetMaxSampleSize(t))
               times == GetSampleTimes(t, k)
           IN  /\ log[x][k].bytes # <<>> => r.ok /\ r.bytes = log[x][k].bytes
               /\ RunsFit(t) => times.start = Start(x, k)
               /\ times.duration = log[x][k].duration
               /\ IsSyncSample(t, k) = SyncAnswer(x, k)

(***************************************************************************)
(* "MP4GetSampleTime returns the start time of the specified sample"       *)
(* (mp4v2/sample.h), without RunsFit.  It does not: GetSampleTimes counts  *)
(* the time before a run in products of 32 bits.                           *)
(***************************************************************************)
SampleTimeIsStart ==
  phase = "reading" =>
    \A x \in Names : \A k \in 1..rec.trak[x].count :
      GetSampleTimes(rec.trak[x], k).start = Start(x, k)

\* The times of the first k video samples never go back, leave a gap of 7
\* seconds or miss: the recorder keeps them.
Steady(k) ==
  /\ \A i \in 1..k : log["video"][i].pts # 0
  /\ \A i \in 1..(k - 1) :
       LET gap == log["video"][i + 1].pts - log["video"][i].pts
       IN  gap >= 0 /\ gap < 7000000

(***************************************************************************)
(* A video frame is played at the time it was recorded with, counted from  *)
(* the first, less a tick for each later frame at most.  The recorder      *)
(* rounds every time between two frames down on its own, and gives a       *)
(* sample the time since the frame before it, so that samples start one    *)
(* frame late; the player hands out the start of the sample after the one  *)
(* it returns, which makes up for it.  (Mp4VNaluEncode, Mp4ReadVideo)      *)
(***************************************************************************)
FramesKeepTheirTime ==
  LET k == out.sample IN
  out.name = "video" /\ out.ok /\ Steady(k) /\ RunsFit(rec.trak["video"]) =>
    LET due == TicksIn(log["video"][k].pts - log["video"][1].pts)
    IN  out.time <= due /\ due <= out.time + k - 1
=============================================================================
