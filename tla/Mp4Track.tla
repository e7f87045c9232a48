------------------------------ MODULE Mp4Track ------------------------------
(***************************************************************************)
(* One track of an MP4 file as the bundled mp4v2 library writes and reads  *)
(* it (Mp4v2/mp4v2-2.0.0/src/mp4track.cpp).  Samples are gathered in a     *)
(* chunk buffer; a full buffer goes to the file's media data, behind the   *)
(* chunks that the other tracks have written meanwhile.  What a reader     *)
(* needs to find a sample again is kept in run-length tables:              *)
(*                                                                         *)
(*   fixed, sizes   stsz: one size for all samples, or one per sample      *)
(*   stts           runs of samples of the same duration                   *)
(*   stss           the sync samples; absent while every sample is one     *)
(*   stsc, stco     runs of chunks of as many samples; offsets of chunks   *)
(*                                                                         *)
(* A track is a record and an operation a function of it.  Left out:       *)
(* rendering offsets (ctts: the recorder always passes 0, which writes     *)
(* nothing), AMR modes, 4-bit size tables, samples in other files and the  *)
(* dates and durations of the headers.                                     *)
(***************************************************************************)
EXTENDS Integers, Sequences, SequencesExt, FiniteSetsExt

CONSTANTS
  \* @type: Int; how many values an unsigned 32-bit integer has
  U32,
  \* @type: Int; how many values an unsigned 64-bit integer has
  U64

ASSUME WidthsAssumption == U32 \in Nat /\ U64 \in Nat /\ 1 < U32 /\ U32 < U64

MP4_INVALID_DURATION == U64 - 1

MP4_INVALID_SAMPLE_ID == 0

\* What a call that leaves by an exception answers in place of a number
Throws == -1

\* What a loop adds up: value[from] + ... + value[to - 1]
Total(value, from, to) ==
  LET sum[i \in from..to] == IF i = from THEN 0 ELSE sum[i - 1] + value[i - 1]
  IN  sum[to]

\* The stss atom that has not been created (no sample has the number 0)
NoStss == <<MP4_INVALID_SAMPLE_ID>>

(***************************************************************************)
(* A new track of timeScale ticks a second, whose chunks hold one second,  *)
(* with the duration of the samples that do not say theirs.                *)
(***************************************************************************)
NewTrack(timeScale, sampleDuration) ==
  [fixed |-> 0, sizes |-> <<>>, count |-> 0, stts |-> <<>>, stss |-> NoStss,
   stsc |-> <<>>, stco |-> <<>>,
   buffer |-> <<>>, chunkSamples |-> 0, chunkDuration |-> 0,
   writeSampleId |-> 1, fixedDuration |-> sampleDuration,
   perChunk |-> timeScale,
   cache |-> [index |-> 1, sid |-> MP4_INVALID_SAMPLE_ID, elapsed |-> 0]]

---------------------------------------------------------------------------
(* Writing                                                                 *)

\* A size that differs from the fixed one writes out the sizes so far.
UpdateSampleSizes(t, numBytes) ==
  LET counted == [t EXCEPT !.count = @ + 1] IN
  IF t.writeSampleId = 1 /\ t.count = 0
  THEN IF numBytes = 0
       THEN [counted EXCEPT !.fixed = 0, !.sizes = Append(@, 0)]
       ELSE [counted EXCEPT !.fixed = numBytes]
  ELSE IF t.fixed = 0 \/ numBytes # t.fixed
       THEN [counted EXCEPT
               !.fixed = 0,
               !.sizes = Append(IF t.fixed = 0 THEN @
                                ELSE [i \in 1..t.count |-> t.fixed], numBytes)]
       ELSE counted

UpdateSampleTimes(t, duration) ==
  LET n == Len(t.stts) IN
  IF n > 0 /\ duration = t.stts[n].delta
  THEN [t EXCEPT !.stts[n].count = @ + 1]
  ELSE [t EXCEPT !.stts = Append(@, [count |-> 1, delta |-> duration % U32])]

\* The number of samples already counts the one being written.
UpdateSyncSamples(t, isSyncSample) ==
  CASE isSyncSample /\ t.stss # NoStss ->
         [t EXCEPT !.stss = Append(@, t.writeSampleId)]
    [] ~isSyncSample /\ t.stss = NoStss ->
         [t EXCEPT !.stss = [i \in 1..(t.count - 1) |-> i]]
    [] OTHER -> t

IsChunkFull(t) == t.chunkDuration >= t.perChunk

\* firstSample is kept in memory only: MP4StscAtom_Read computes it anew.
UpdateSampleToChunk(t) ==
  LET n == Len(t.stsc) IN
  IF n > 0 /\ t.chunkSamples = t.stsc[n].samplesPerChunk
  THEN t
  ELSE [t EXCEPT !.stsc =
          Append(@, [firstChunk |-> Len(t.stco) + 1,
                     samplesPerChunk |-> t.chunkSamples,
                     firstSample |-> t.writeSampleId - t.chunkSamples + 1])]

(***************************************************************************)
(* The chunk buffer goes to the end of the file.  An empty one does not,   *)
(* and leaves its samples of no bytes to the next chunk.  The answer is    *)
(* the track and the file.                                                 *)
(***************************************************************************)
WriteChunkBuffer(t, file) ==
  IF t.buffer = <<>> THEN [trak |-> t, file |-> file]
  ELSE [trak |-> [UpdateSampleToChunk(t) EXCEPT
                    !.stco = Append(@, Len(file)),
                    !.buffer = <<>>, !.chunkSamples = 0, !.chunkDuration = 0],
        file |-> file \o t.buffer]

GetFixedSampleDuration(t) ==
  CASE t.stts = <<>> -> t.fixedDuration
    [] Len(t.stts) = 1 -> t.stts[1].delta
    [] OTHER -> MP4_INVALID_DURATION

\* The duration WriteSample works with when it is asked for this one
EffectiveDuration(t, duration) ==
  IF duration = MP4_INVALID_DURATION THEN GetFixedSampleDuration(t)
                                     ELSE duration

WriteSample(t, file, bytes, duration, isSyncSample) ==
  LET d == EffectiveDuration(t, duration)
      buffered == [t EXCEPT !.buffer = @ \o bytes,
                            !.chunkSamples = @ + 1,
                            !.chunkDuration = (@ + d) % U64]
      listed == UpdateSyncSamples(
                  UpdateSampleTimes(
                    UpdateSampleSizes(buffered, Len(bytes)), d), isSyncSample)
      w == IF IsChunkFull(listed) THEN WriteChunkBuffer(listed, file)
                                  ELSE [trak |-> listed, file |-> file]
  IN  [w EXCEPT !.trak.writeSampleId = @ + 1]

---------------------------------------------------------------------------
(* Reading                                                                 *)

(***************************************************************************)
(* The track as a reader of the closed file has it: firstSample of each    *)
(* run of chunks is the sum of the runs before it, and nothing is cached.  *)
(***************************************************************************)
MP4StscAtom_Read(t) ==
  LET n == Len(t.stsc)
      samples == [i \in 1..(n - 1) |->
                    (t.stsc[i + 1].firstChunk - t.stsc[i].firstChunk)
                      * t.stsc[i].samplesPerChunk]
  IN  [t EXCEPT !.stsc = [i \in 1..n |->
                            [t.stsc[i] EXCEPT !.firstSample = 1 + Total(samples, 1, i)]],
                !.buffer = <<>>, !.chunkSamples = 0, !.chunkDuration = 0,
                !.writeSampleId = 1]

GetSampleSize(t, sampleId) ==
  IF t.fixed # 0 THEN t.fixed ELSE t.sizes[sampleId]

GetMaxSampleSize(t) ==
  IF t.fixed # 0 THEN t.fixed ELSE Max(ToSet(t.sizes) \cup {0})

GetSampleStscIndex(t, sampleId) ==
  LET beyond == {i \in 1..Len(t.stsc) : sampleId < t.stsc[i].firstSample}
  IN  IF beyond = {} THEN Len(t.stsc) ELSE Min(beyond) - 1

GetSampleFileOffset(t, sampleId) ==
  IF t.stsc = <<>> THEN Throws          \* "No data chunks exist"
  ELSE LET run     == t.stsc[GetSampleStscIndex(t, sampleId)]
           back    == sampleId - run.firstSample
           chunkId == run.firstChunk + (back \div run.samplesPerChunk)
           first   == sampleId - (back % run.samplesPerChunk)
           sizes   == [i \in first..(sampleId - 1) |-> GetSampleSize(t, i)]
       IN  IF chunkId > Len(t.stco) THEN Throws     \* "illegal array index"
           ELSE t.stco[chunkId] + Total(sizes, first, sampleId)

\* Slip: the search starts over without going back to the first run.
SttsFrom_index(t, sampleId) ==
  IF t.cache.sid # MP4_INVALID_SAMPLE_ID /\ sampleId >= t.cache.sid
  THEN t.cache ELSE [t.cache EXCEPT !.sid = 1, !.elapsed = 0]

\* Where the search for a sample's time starts: at the run found last when
\* the sample is not before it, else at the first
SttsFrom(t, sampleId) ==
  IF t.cache.sid # MP4_INVALID_SAMPLE_ID /\ sampleId >= t.cache.sid
  THEN t.cache ELSE [index |-> 1, sid |-> 1, elapsed |-> 0]

\* The first sample of run i and the time before it, as the search counts
\* them.  The product of a run's count and duration is one of 32 bits.
FirstOf(t, from, i) ==
  from.sid + Total([r \in 1..Len(t.stts) |-> t.stts[r].count], from.index, i)

ElapsedTo(t, from, i) ==
  from.elapsed + Total([r \in 1..Len(t.stts) |->
                          (t.stts[r].count * t.stts[r].delta) % U32], from.index, i)

\* Start and duration of a sample, and the run it is in, to be cached
GetSampleTimes(t, sampleId) ==
  LET from == SttsFrom(t, sampleId)
      here == {i \in from.index..Len(t.stts) :
                 sampleId <= FirstOf(t, from, i) + t.stts[i].count - 1}
      k    == Min(here)
  IN  IF here = {}                              \* "sample id out of range"
      THEN [start |-> Throws, duration |-> Throws,
            cache |-> [t.cache EXCEPT !.index = from.index]]
      ELSE [start    |-> ElapsedTo(t, from, k)
                           + (sampleId - FirstOf(t, from, k)) * t.stts[k].delta,
            duration |-> t.stts[k].delta,
            cache    |-> [index |-> k, sid |-> FirstOf(t, from, k),
                          elapsed |-> ElapsedTo(t, from, k)]]

\* A search of the sync samples by halving, with w entries left from the l-th
\* on; left of the first entry it ends in an index below 0, which is a large
\* unsigned number and throws.
IsSyncSample(t, sampleId) ==
  IF t.stss = NoStss THEN "sync"
  ELSE LET n == Len(t.stss)
           search[w \in 0..n] == [l \in 1..(n + 1 - w) |->
             LET mid == l + ((w - 1) \div 2) IN
             IF w = 0 THEN IF l = 1 THEN "throws" ELSE "not sync"
             ELSE IF sampleId = t.stss[mid] THEN "sync"
             ELSE IF sampleId > t.stss[mid] THEN search[l + w - mid - 1][mid + 1]
             ELSE search[mid - l][l]]
       IN  search[n][1]

(***************************************************************************)
(* The bytes, the start and the duration of a sample of a closed file, and *)
(* the track with its cache.  maxSize is the size of the caller's buffer.  *)
(***************************************************************************)
ReadSample(t, file, sampleId, maxSize) ==
  LET refused == [ok |-> FALSE, bytes |-> <<>>, start |-> Throws, trak |-> t] IN
  IF \/ sampleId = MP4_INVALID_SAMPLE_ID
     \/ GetSampleFileOffset(t, sampleId) = Throws
     \/ maxSize < GetSampleSize(t, sampleId)
  THEN refused
  ELSE LET from  == GetSampleFileOffset(t, sampleId)
           times == GetSampleTimes(t, sampleId)
       IN  IF from + GetSampleSize(t, sampleId) > Len(file) THEN refused
           ELSE [ok    |-> TRUE,
                 bytes |-> SubSeq(file, from + 1, from + GetSampleSize(t, sampleId)),
                 start |-> times.start,
                 trak  |-> [t EXCEPT !.cache = times.cache]]
=============================================================================
