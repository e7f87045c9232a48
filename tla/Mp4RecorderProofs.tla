------------------------- MODULE Mp4RecorderProofs -------------------------
(***************************************************************************)
(* Proofs about the MP4 recorder and player: every sample is read back,    *)
(* and frames keep their time.  Two parts:                                 *)
(*                                                                         *)
(*   writing   the tables of a track against the samples L written to it:  *)
(*             sizes, runs of durations, sync samples, runs of chunks and  *)
(*             the places of the chunks in the file.  Each update of       *)
(*             Mp4Track keeps its table, WriteSample and WriteChunkBuffer  *)
(*             keep all of them, and a file that grows moves no sample.    *)
(*   reading   from the same tables: offset, size, time and sync flag of a *)
(*             sample are those of L, for a search that starts at the run  *)
(*             found last as well.                                         *)
(*                                                                         *)
(* The tables that are only in the proof are existentially quantified: b   *)
(* (the first sample of each run of durations), fs (the first sample of    *)
(* each chunk) and off (the offset of each sample in its chunk).  Sums are *)
(* Total, about which the lemmas of the first section say what is needed.  *)
(***************************************************************************)
EXTENDS Mp4Recorder, SequenceTheorems, WellFoundedInduction, TLAPS

\* Induction on a set of numbers, from the well-founded order of Nat.
LEMMA Induction ==
    ASSUME NEW P, 0 \in P, \A n \in Nat : n \in P => n + 1 \in P
    PROVE  \A n \in Nat : n \in P
<1> SUFFICES ASSUME Nat \ P # {} PROVE FALSE
  OBVIOUS
<1>1. PICK x \in Nat \ P : \A y \in Nat \ P : ~ (<<y, x>> \in OpToRel(<, Nat))
  BY NatLessThanWellFounded, WFMin
<1>2. \A y \in Nat \ P : ~ (y < x)
  BY <1>1 DEF OpToRel
<1>3. x # 0 /\ x - 1 \in Nat
  OBVIOUS
<1>4. x - 1 \in P
  BY <1>2, <1>3
<1> QED
  BY <1>3, <1>4

(***************************************************************************)
(* Sums.                                                                   *)
(***************************************************************************)
\* The loop that adds up, m times around.
LEMMA SumLoop ==
    ASSUME NEW value, NEW from \in Int, NEW m \in Nat
    PROVE  \E f : f = [i \in from..(from + m) |->
                         IF i = from THEN 0 ELSE f[i - 1] + value[i - 1]]
<1> DEFINE F(n, f) == [i \in from..(from + n) |->
                         IF i = from THEN 0 ELSE f[i - 1] + value[i - 1]]
           P == {n \in Nat : \E f : f = F(n, f)}
<1>1. 0 \in P
  <2> DEFINE f == [i \in from..(from + 0) |-> 0]
  <2>1. f = F(0, f)
    OBVIOUS
  <2> QED BY <2>1
<1>2. ASSUME NEW n \in Nat, n \in P PROVE n + 1 \in P
  <2>1. PICK f : f = F(n, f)
    BY <1>2
  <2> DEFINE last == from + (n + 1)
             h == [i \in from..last |-> IF i = last THEN f[from + n] + value[from + n] ELSE f[i]]
  <2>2. h[last] = f[from + n] + value[from + n] /\ \A i \in from..(from + n) : h[i] = f[i]
    OBVIOUS
  <2>3. \A i \in from..(from + n) : f[i] = IF i = from THEN 0 ELSE f[i - 1] + value[i - 1]
    BY <2>1, Zenon
  <2>4. ASSUME NEW i \in from..last
        PROVE  h[i] = IF i = from THEN 0 ELSE h[i - 1] + value[i - 1]
    <3> HIDE DEF h
    <3>1. CASE i = last
      <4>1. i # from /\ i - 1 = from + n /\ from + n \in from..(from + n)
        BY <3>1
      <4> QED BY <4>1, <3>1, <2>2, Zenon
    <3>2. CASE i = from
      <4>1. from \in from..(from + n)
        OBVIOUS
      <4> QED BY <3>2, <4>1, <2>2, <2>3, Zenon
    <3>3. CASE i # last /\ i # from
      <4>1. i \in from..(from + n) /\ i - 1 \in from..(from + n)
        BY <3>3
      <4> QED BY <4>1, <3>3, <2>2, <2>3, Zenon
    <3> QED BY <3>1, <3>2, <3>3
  <2>5. h = F(n + 1, h)
    BY <2>4, Zenon
  <2>6. n + 1 \in Nat
    OBVIOUS
  <2> HIDE DEF h, F
  <2> QED BY <2>5, <2>6, Zenon
<1> HIDE DEF P
<1>3. m \in P
  BY <1>1, <1>2, Induction
<1> QED
  BY <1>3 DEF P

\* What grows by each value has grown by their sum.
LEMMA TotalBy ==
    ASSUME NEW from \in Int, NEW to \in Int, from <= to, NEW value, NEW S,
           \A i \in from..to : S[i] \in Int,
           \A i \in from..(to - 1) : value[i] \in Int /\ S[i + 1] = S[i] + value[i]
    PROVE  Total(value, from, to) = S[to] - S[from]
<1> DEFINE F(f) == [i \in from..to |-> IF i = from THEN 0 ELSE f[i - 1] + value[i - 1]]
           f == CHOOSE h : h = F(h)
<1>1. f = F(f)
  <2>1. \E h : h = F(h)
    <3>1. PICK m \in Nat : from + m = to
      <4>1. to - from \in Nat /\ from + (to - from) = to
        OBVIOUS
      <4> QED BY <4>1
    <3>2. \E h : h = [i \in from..(from + m) |->
                        IF i = from THEN 0 ELSE h[i - 1] + value[i - 1]]
      BY SumLoop
    <3> QED BY <3>1, <3>2, Zenon
  <2> HIDE DEF F
  <2> QED BY <2>1
<1>2. Total(value, from, to) = f[to]
  BY DEF Total
<1> HIDE DEF f
<1>3. \A i \in from..to : f[i] = IF i = from THEN 0 ELSE f[i - 1] + value[i - 1]
  <2>1. ASSUME NEW i \in from..to
        PROVE  F(f)[i] = IF i = from THEN 0 ELSE f[i - 1] + value[i - 1]
    BY Zenon
  <2> HIDE DEF F
  <2> QED BY <2>1, <1>1, Zenon
<1> DEFINE P == {n \in Nat : from + n <= to => f[from + n] = S[from + n] - S[from]}
<1>4. 0 \in P
  <2>1. from \in from..to /\ from + 0 = from
    OBVIOUS
  <2> QED BY <1>3, <2>1
<1>5. ASSUME NEW n \in Nat, n \in P PROVE n + 1 \in P
  <2> SUFFICES ASSUME from + (n + 1) <= to
               PROVE  f[from + (n + 1)] = S[from + (n + 1)] - S[from]
    OBVIOUS
  <2> DEFINE i == from + n
  <2>1. i \in from..(to - 1) /\ i \in from..to /\ i + 1 \in from..to /\ i + 1 # from /\ (i + 1) - 1 = i
        /\ from + (n + 1) = i + 1 /\ from \in from..to
    OBVIOUS
  <2>2. f[i] = S[i] - S[from]
    BY <1>5, <2>1
  <2> HIDE DEF i
  <2>3. f[i + 1] = f[i] + value[i]
    BY <1>3, <2>1, Zenon
  <2>4. S[i + 1] = S[i] + value[i]
    BY <2>1
  <2>5. value[i] \in Int /\ S[i] \in Int /\ S[i + 1] \in Int /\ S[from] \in Int
    BY <2>1
  <2>6. f[i + 1] = S[i + 1] - S[from]
    <3>1. \A a, b, v \in Int : (a - b) + v = (a + v) - b
      OBVIOUS
    <3> QED BY <2>2, <2>3, <2>4, <2>5, <3>1
  <2> QED BY <2>1, <2>6
<1> HIDE DEF P
<1>6. to - from \in P
  <2>1. to - from \in Nat
    OBVIOUS
  <2> QED BY <1>4, <1>5, <2>1, Induction
<1> QED
  <2>1. from + (to - from) = to
    OBVIOUS
  <2> QED BY <1>2, <1>6, <2>1 DEF P

(***************************************************************************)
(* The tables of a track, and the samples L that were written to it.       *)
(***************************************************************************)
\* Numbers for samples, runs or chunks.
Table == [Nat -> Nat]

\* Bytes in a file, samples as the history keeps them, and the tables they
\* are listed in.
Cell == {"ftyp", "moov"} \cup (Names \X Nat \X Nat)
Entry == [bytes : Seq(Cell), sync : BOOLEAN, pts : Nat, duration : 0..(U32 - 1)]
Run == [count : Nat \ {0}, delta : 0..(U32 - 1)]
Chunks == [firstChunk : Nat \ {0}, samplesPerChunk : Nat \ {0}, firstSample : Int]
Trak ==
    [fixed : Nat, sizes : Seq(Nat), count : Nat, stts : Seq(Run), stss : Seq(Nat),
     stsc : Seq(Chunks), stco : Seq(Nat), buffer : Seq(Cell), chunkSamples : Nat,
     chunkDuration : Nat, writeSampleId : Nat, fixedDuration : Nat, perChunk : Nat,
     cache : [index : Nat, sid : Nat, elapsed : Int]]

\* One size for all, or one for each.
SizesOK(t, L) ==
    /\ t.count = Len(L) /\ (L = <<>> => t.fixed = 0)
    /\ t.fixed # 0 => \A k \in 1..Len(L) : Len(L[k].bytes) = t.fixed
    /\ t.fixed = 0 => /\ Len(t.sizes) = Len(L)
                      /\ \A k \in 1..Len(L) : t.sizes[k] = Len(L[k].bytes)

\* Runs of the l samples, each of one duration: run i begins with b[i].
Timed(stts, L, l, b) ==
    /\ b \in Table /\ b[1] = 1 /\ b[Len(stts) + 1] = l + 1
    /\ \A i \in 1..Len(stts) :
         /\ b[i + 1] = b[i] + stts[i].count
         /\ \A k \in b[i]..(b[i + 1] - 1) : L[k].duration = stts[i].delta

\* The sync samples in their order, or all.
SyncOK(stss, L) ==
    IF stss = NoStss THEN \A k \in 1..Len(L) : L[k].sync
    ELSE /\ \A i \in 1..Len(stss) : stss[i] \in 1..Len(L) /\ L[stss[i]].sync
         /\ \A i, j \in 1..Len(stss) : i < j => stss[i] < stss[j]
         /\ \A k \in 1..Len(L) : L[k].sync => \E i \in 1..Len(stss) : stss[i] = k

\* From its place `base' on s holds the samples from, from + 1 and so on,
\* without to; sample k begins off[k] bytes behind.
Piece(s, base, off, L, from, to) ==
    /\ off[from] = 0
    /\ \A k \in from..(to - 2) : off[k + 1] = off[k] + Len(L[k].bytes)
    /\ \A k \in from..(to - 1) : \A i \in 1..Len(L[k].bytes) :
         base + off[k] + i \in 1..Len(s) /\ s[base + off[k] + i] = L[k].bytes[i]

\* Chunk c of C begins with sample fs[c], and the chunks of a run have as
\* many samples each.
Upper(stsc, C, r) == IF r = Len(stsc) THEN C + 1 ELSE stsc[r + 1].firstChunk
Counted(stsc, C, fs) ==
    /\ fs \in Table /\ fs[1] = 1
    /\ \A c \in 1..C : \A d \in (c + 1)..(C + 1) : fs[c] < fs[d]
    /\ stsc = <<>> <=> C = 0
    /\ stsc # <<>> => stsc[1].firstChunk = 1
    /\ \A r \in 1..Len(stsc) :
         /\ stsc[r].firstChunk < Upper(stsc, C, r) /\ Upper(stsc, C, r) <= C + 1
         /\ \A c \in stsc[r].firstChunk..Upper(stsc, C, r) :
              fs[c] = fs[stsc[r].firstChunk]
                        + (c - stsc[r].firstChunk) * stsc[r].samplesPerChunk

\* The chunks in the file, and behind them n samples in the buffer.
Placed(stsc, stco, buffer, n, file, L, l, fs, off) ==
    /\ Counted(stsc, Len(stco), fs)
    /\ off \in Table /\ off[l + 1] = Len(buffer)
    /\ fs[Len(stco) + 1] + n = l + 1
    /\ Piece(buffer, 0, off, L, fs[Len(stco) + 1], l + 1)
    /\ \A k \in fs[Len(stco) + 1]..l : off[k + 1] = off[k] + Len(L[k].bytes)
    /\ \A c \in 1..Len(stco) : Piece(file, stco[c], off, L, fs[c], fs[c + 1])

\* The tables of a track with the samples L.
Listed(t, L) ==
    /\ t \in Trak /\ L \in Seq(Entry) /\ SizesOK(t, L) /\ SyncOK(t.stss, L)
    /\ \E b : Timed(t.stts, L, Len(L), b)

\* Where the samples of a track are: in chunks of the file or in the buffer.
Stored(t, file, L) ==
    \E fs, off : Placed(t.stsc, t.stco, t.buffer, t.chunkSamples, file, L, Len(L), fs, off)

\* A track being written.
Written(t, file, L) ==
    Listed(t, L) /\ Stored(t, file, L) /\ t.writeSampleId = Len(L) + 1 /\ t.cache.sid = 0

-----------------------------------------------------------------------------
\* One more element.
LEMMA OneMore ==
    ASSUME NEW S, NEW s \in Seq(S), NEW e \in S
    PROVE  /\ Append(s, e) \in Seq(S) /\ Len(Append(s, e)) = Len(s) + 1 /\ Len(s) \in Nat
           /\ Append(s, e)[Len(s) + 1] = e
           /\ \A i \in 1..Len(s) : Append(s, e)[i] = s[i]
           /\ \A i \in 1..(Len(s) + 1) : i = Len(s) + 1 \/ i \in 1..Len(s)
OBVIOUS

\* What each of the updates changes.
SizesAfter(t, n) ==
    LET first == t.writeSampleId = 1 /\ t.count = 0
        own == t.fixed = 0 \/ n # t.fixed
    IN  [fixed |-> IF first THEN n ELSE IF own THEN 0 ELSE t.fixed,
         sizes |-> IF first THEN IF n = 0 THEN Append(t.sizes, 0) ELSE t.sizes
                   ELSE IF own
                   THEN Append(IF t.fixed = 0 THEN t.sizes ELSE [i \in 1..t.count |-> t.fixed], n)
                   ELSE t.sizes]

\* UpdateSampleSizes touches the size table only, and leaves this in it.
LEMMA SizesFields ==
    ASSUME NEW t \in Trak, NEW n \in Nat
    PROVE  LET u == UpdateSampleSizes(t, n) IN
           /\ u \in Trak /\ u.count = t.count + 1
           /\ u = [t EXCEPT !.count = u.count, !.fixed = u.fixed, !.sizes = u.sizes]
           /\ u.fixed = SizesAfter(t, n).fixed /\ u.sizes = SizesAfter(t, n).sizes
<1> DEFINE u == UpdateSampleSizes(t, n)
<1>1. CASE t.writeSampleId = 1 /\ t.count = 0 /\ n = 0
  <2>1. u = [t EXCEPT !.count = t.count + 1, !.fixed = 0, !.sizes = Append(t.sizes, 0)]
    BY <1>1 DEF UpdateSampleSizes, Trak
  <2> HIDE DEF u
  <2>2. u.count = t.count + 1 /\ u.fixed = 0 /\ u.sizes = Append(t.sizes, 0)
    BY <2>1 DEF Trak
  <2>3. u \in Trak
    <3>1. t.count + 1 \in Nat /\ 0 \in Nat /\ Append(t.sizes, 0) \in Seq(Nat)
      BY DEF Trak
    <3> QED BY <2>1, <3>1, Zenon DEF Trak
  <2> QED BY <1>1, <2>1, <2>2, <2>3 DEF u, SizesAfter
<1>2. CASE t.writeSampleId = 1 /\ t.count = 0 /\ n # 0
  <2>1. u = [t EXCEPT !.count = t.count + 1, !.fixed = n]
    BY <1>2 DEF UpdateSampleSizes, Trak
  <2> HIDE DEF u
  <2>2. u = [t EXCEPT !.count = t.count + 1, !.fixed = n, !.sizes = t.sizes]
    BY <2>1 DEF Trak
  <2>3. u.count = t.count + 1 /\ u.fixed = n /\ u.sizes = t.sizes
    BY <2>1 DEF Trak
  <2>4. u \in Trak
    <3>1. t.count + 1 \in Nat
      BY DEF Trak
    <3> QED BY <2>1, <3>1, Zenon DEF Trak
  <2> QED BY <1>2, <2>2, <2>3, <2>4 DEF u, SizesAfter
<1>3. CASE ~ (t.writeSampleId = 1 /\ t.count = 0) /\ (t.fixed = 0 \/ n # t.fixed)
  <2> DEFINE z == Append(IF t.fixed = 0 THEN t.sizes ELSE [i \in 1..t.count |-> t.fixed], n)
  <2>1. u = [t EXCEPT !.count = t.count + 1, !.fixed = 0, !.sizes = z]
    BY <1>3 DEF UpdateSampleSizes, Trak
  <2>2. z \in Seq(Nat)
    <3>1. t.sizes \in Seq(Nat) /\ t.count \in Nat /\ t.fixed \in Nat
      BY DEF Trak
    <3>2. [i \in 1..t.count |-> t.fixed] \in Seq(Nat)
      BY <3>1
    <3> QED BY <3>1, <3>2
  <2> HIDE DEF u, z
  <2>3. u.count = t.count + 1 /\ u.fixed = 0 /\ u.sizes = z
    BY <2>1 DEF Trak
  <2>4. u \in Trak
    <3>1. t.count + 1 \in Nat /\ 0 \in Nat
      BY DEF Trak
    <3> QED BY <2>1, <2>2, <3>1, Zenon DEF Trak
  <2> QED BY <1>3, <2>1, <2>3, <2>4 DEF u, z, SizesAfter
<1>4. CASE ~ (t.writeSampleId = 1 /\ t.count = 0) /\ ~ (t.fixed = 0 \/ n # t.fixed)
  <2>1. u = [t EXCEPT !.count = t.count + 1]
    BY <1>4 DEF UpdateSampleSizes, Trak
  <2> HIDE DEF u
  <2>2. u = [t EXCEPT !.count = t.count + 1, !.fixed = t.fixed, !.sizes = t.sizes]
    BY <2>1 DEF Trak
  <2>3. u.count = t.count + 1 /\ u.fixed = t.fixed /\ u.sizes = t.sizes
    BY <2>1 DEF Trak
  <2>4. u \in Trak
    <3>1. t.count + 1 \in Nat
      BY DEF Trak
    <3> QED BY <2>1, <3>1, Zenon DEF Trak
  <2> QED BY <1>4, <2>2, <2>3, <2>4 DEF u, SizesAfter
<1> QED
  BY <1>1, <1>2, <1>3, <1>4

\* UpdateSampleTimes touches the runs of durations only.
LEMMA TimesFields ==
    ASSUME NEW t \in Trak, NEW d \in Nat
    PROVE  LET u == UpdateSampleTimes(t, d) IN
           /\ u \in Trak /\ u = [t EXCEPT !.stts = u.stts]
           /\ u.stts = LET n == Len(t.stts) IN
                       IF n > 0 /\ d = t.stts[n].delta
                       THEN [t.stts EXCEPT ![n].count = @ + 1]
                       ELSE Append(t.stts, [count |-> 1, delta |-> d % U32])
<1> DEFINE u == UpdateSampleTimes(t, d)
           n == Len(t.stts)
<1>1. t.stts \in Seq(Run) /\ n \in Nat /\ U32 \in Nat /\ U32 > 1
  BY WidthsAssumption DEF Trak
<1>2. CASE n > 0 /\ d = t.stts[n].delta
  <2> DEFINE s == [t.stts EXCEPT ![n].count = t.stts[n].count + 1]
  <2>1. s \in Seq(Run)
    <3> DEFINE r == t.stts[n]
    <3>1. r \in Run /\ n \in 1..Len(t.stts)
      BY <1>1, <1>2, ElementOfSeq
    <3>2. [r EXCEPT !.count = r.count + 1] \in Run
      BY <3>1 DEF Run
    <3> HIDE DEF r
    <3>3. s = [t.stts EXCEPT ![n] = [r EXCEPT !.count = r.count + 1]]
      BY DEF r
    <3> HIDE DEF s
    <3> QED BY <1>1, <3>1, <3>2, <3>3
  <2>2. u = [t EXCEPT !.stts = s]
    BY <1>2 DEF UpdateSampleTimes, Trak
  <2> HIDE DEF u, s
  <2>3. u.stts = s
    BY <2>2 DEF Trak
  <2>4. u \in Trak
    BY <2>1, <2>2, Zenon DEF Trak
  <2> QED BY <1>2, <2>2, <2>3, <2>4 DEF u, s
<1>3. CASE ~ (n > 0 /\ d = t.stts[n].delta)
  <2> DEFINE s == Append(t.stts, [count |-> 1, delta |-> d % U32])
  <2>1. s \in Seq(Run)
    <3>1. d % U32 \in 0..(U32 - 1)
      BY <1>1
    <3>2. [count |-> 1, delta |-> d % U32] \in Run
      BY <3>1 DEF Run
    <3> QED BY <1>1, <3>2
  <2>2. u = [t EXCEPT !.stts = s]
    BY <1>3 DEF UpdateSampleTimes, Trak
  <2> HIDE DEF u, s
  <2>3. u.stts = s
    BY <2>2 DEF Trak
  <2>4. u \in Trak
    BY <2>1, <2>2, Zenon DEF Trak
  <2> QED BY <1>3, <2>2, <2>3, <2>4 DEF u, s
<1> QED
  BY <1>2, <1>3

\* UpdateSyncSamples touches the sync samples only.
LEMMA SyncFields ==
    ASSUME NEW t \in Trak, NEW y \in BOOLEAN
    PROVE  LET u == UpdateSyncSamples(t, y) IN
           /\ u \in Trak /\ u = [t EXCEPT !.stss = u.stss]
           /\ u.stss = IF y /\ t.stss # NoStss THEN Append(t.stss, t.writeSampleId)
                       ELSE IF ~ y /\ t.stss = NoStss THEN [i \in 1..(t.count - 1) |-> i]
                       ELSE t.stss
<1> DEFINE u == UpdateSyncSamples(t, y)
<1>1. t.stss \in Seq(Nat) /\ t.writeSampleId \in Nat /\ t.count \in Nat
  BY DEF Trak
<1>2. ASSUME NEW s \in Seq(Nat), u = [t EXCEPT !.stss = s]
      PROVE  u \in Trak /\ u = [t EXCEPT !.stss = u.stss] /\ u.stss = s
  <2> HIDE DEF u
  <2>1. u.stss = s
    BY <1>2 DEF Trak
  <2>2. u \in Trak
    BY <1>2, Zenon DEF Trak
  <2> QED BY <1>2, <2>1, <2>2
<1>3. CASE y /\ t.stss # NoStss
  <2>1. u = [t EXCEPT !.stss = Append(t.stss, t.writeSampleId)]
    BY <1>3 DEF UpdateSyncSamples, Trak
  <2>2. Append(t.stss, t.writeSampleId) \in Seq(Nat)
    BY <1>1
  <2> HIDE DEF u
  <2> QED BY <1>2, <1>3, <2>1, <2>2 DEF u
<1>4. CASE ~ y /\ t.stss = NoStss
  <2>1. u = [t EXCEPT !.stss = [i \in 1..(t.count - 1) |-> i]]
    BY <1>4 DEF UpdateSyncSamples, Trak
  <2>2. [i \in 1..(t.count - 1) |-> i] \in Seq(Nat)
    <3>1. CASE t.count > 0
      <4>1. t.count - 1 \in Nat
        BY <3>1, <1>1
      <4> QED BY <4>1
    <3>2. CASE t.count = 0
      <4>1. 1..(t.count - 1) = 1..0
        BY <3>2
      <4>2. [i \in 1..0 |-> i] \in Seq(Nat)
        OBVIOUS
      <4> QED BY <4>1, <4>2
    <3> QED BY <3>1, <3>2, <1>1
  <2> HIDE DEF u
  <2> QED BY <1>2, <1>4, <2>1, <2>2 DEF u
<1>5. CASE ~ (y /\ t.stss # NoStss) /\ ~ (~ y /\ t.stss = NoStss)
  <2>1. u = t
    BY <1>5 DEF UpdateSyncSamples
  <2>2. t = [t EXCEPT !.stss = t.stss]
    BY DEF Trak
  <2> HIDE DEF u
  <2> QED BY <1>1, <1>2, <1>5, <2>1, <2>2 DEF u
<1> QED
  BY <1>3, <1>4, <1>5

\* The sizes with one more.
LEMMA SizesKept ==
    ASSUME NEW t \in Trak, NEW L \in Seq(Entry), NEW e \in Entry,
           SizesOK(t, L), t.writeSampleId = Len(L) + 1
    PROVE  SizesOK(UpdateSampleSizes(t, Len(e.bytes)), Append(L, e))
<1> DEFINE n == Len(L)
           num == Len(e.bytes)
           L2 == Append(L, e)
           u == UpdateSampleSizes(t, num)
<1>1. /\ L2 \in Seq(Entry) /\ Len(L2) = n + 1 /\ n \in Nat /\ L2[n + 1] = e
      /\ \A i \in 1..n : L2[i] = L[i]
      /\ \A i \in 1..(n + 1) : i = n + 1 \/ i \in 1..n
  BY OneMore
<1>2. num \in Nat /\ t.count = n /\ t.fixed \in Nat /\ t.sizes \in Seq(Nat) /\ t.count \in Nat
  <2>1. e.bytes \in Seq(Cell)
    BY DEF Entry
  <2> QED BY <2>1, LenProperties DEF SizesOK, Trak
<1> HIDE DEF L2
<1> HIDE DEF num
<1>3. u.count = n + 1 /\ u.fixed = SizesAfter(t, num).fixed /\ u.sizes = SizesAfter(t, num).sizes
  BY <1>2, SizesFields
<1> HIDE DEF u
<1>4. Len(L2[n + 1].bytes) = num
  BY <1>1 DEF num
<1>5. SUFFICES /\ u.fixed # 0 => \A k \in 1..(n + 1) : Len(L2[k].bytes) = u.fixed
               /\ u.fixed = 0 => /\ Len(u.sizes) = n + 1
                                 /\ \A k \in 1..(n + 1) : u.sizes[k] = Len(L2[k].bytes)
  <2>1. L2 # <<>>
    BY <1>1
  <2> QED BY <1>1, <1>2, <1>3, <2>1 DEF SizesOK, u, num, L2
<1>6. CASE n = 0
  <2>1. t.fixed = 0 /\ Len(t.sizes) = 0 /\ t.writeSampleId = 1 /\ t.count = 0
    BY <1>1, <1>2, <1>6, EmptySeq DEF SizesOK
  <2>2. u.fixed = num /\ (num = 0 => u.sizes = Append(t.sizes, 0))
    BY <1>3, <2>1 DEF SizesAfter
  <2>3. \A k \in 1..(n + 1) : k = n + 1 /\ k = 1
    BY <1>6
  <2>4. num = 0 => Len(u.sizes) = 1 /\ u.sizes[1] = 0
    <3>1. t.sizes = <<>>
      BY <1>2, <2>1, EmptySeq
    <3>2. Len(Append(<<>>, 0)) = 1 /\ Append(<<>>, 0)[1] = 0
      OBVIOUS
    <3> QED BY <2>2, <3>1, <3>2
  <2> QED BY <1>4, <1>6, <2>2, <2>3, <2>4
<1>7. CASE n # 0
  <2>1. ~ (t.writeSampleId = 1 /\ t.count = 0)
    BY <1>1, <1>2, <1>7
  <2>2. CASE t.fixed = 0
    <3>1. u.fixed = 0 /\ u.sizes = Append(t.sizes, num)
      BY <1>3, <2>1, <2>2 DEF SizesAfter
    <3>2. Len(t.sizes) = n /\ \A k \in 1..n : t.sizes[k] = Len(L[k].bytes)
      BY <2>2 DEF SizesOK
    <3>3. Len(u.sizes) = n + 1 /\ u.sizes[n + 1] = num /\ \A k \in 1..n : u.sizes[k] = t.sizes[k]
      BY <1>1, <1>2, <3>1, <3>2
    <3> QED BY <1>1, <1>4, <3>1, <3>2, <3>3
  <2>3. CASE t.fixed # 0 /\ num # t.fixed
    <3> DEFINE z == [i \in 1..t.count |-> t.fixed]
    <3>1. u.fixed = 0 /\ u.sizes = Append(z, num)
      BY <1>3, <2>1, <2>3 DEF SizesAfter
    <3>2. \A k \in 1..n : Len(L[k].bytes) = t.fixed
      BY <2>3 DEF SizesOK
    <3>3. z \in Seq(Nat) /\ Len(z) = n /\ \A k \in 1..n : z[k] = t.fixed
      BY <1>1, <1>2
    <3> HIDE DEF z
    <3>4. Len(u.sizes) = n + 1 /\ u.sizes[n + 1] = num /\ \A k \in 1..n : u.sizes[k] = z[k]
      BY <1>1, <1>2, <3>1, <3>3
    <3> QED BY <1>1, <1>4, <3>1, <3>2, <3>3, <3>4
  <2>4. CASE t.fixed # 0 /\ num = t.fixed
    <3>1. u.fixed = t.fixed
      BY <1>3, <2>1, <2>4 DEF SizesAfter
    <3>2. \A k \in 1..n : Len(L[k].bytes) = t.fixed
      BY <2>4 DEF SizesOK
    <3> QED BY <1>1, <1>4, <2>4, <3>1, <3>2
  <2> QED BY <2>2, <2>3, <2>4
<1> QED
  BY <1>6, <1>7

\* A table of numbers with one changed.
IsChanged(c, b, n, v) == c \in Table /\ c[n] = v /\ \A i \in Nat : i # n => c[i] = b[i]

\* Any number can be changed in a table.
LEMMA Changed ==
    ASSUME NEW b \in Table, NEW n \in Nat, NEW v \in Nat
    PROVE  \E c : IsChanged(c, b, n, v)
<1> DEFINE c == [b EXCEPT ![n] = v]
<1>1. c \in Table /\ c[n] = v /\ \A i \in Nat : i # n => c[i] = b[i]
  BY DEF Table
<1> QED
  BY <1>1 DEF IsChanged

\* What is in a table is a number.
LEMMA NumberIn ==
    ASSUME NEW b \in Table, NEW n \in Nat
    PROVE  b[n] \in Nat
BY DEF Table

\* Runs begin one after the other.
InOrder(s, L, l, b) ==
    /\ \A i \in Nat : b[i] \in Nat
    /\ b \in Table /\ b[1] = 1 /\ b[Len(s) + 1] = l + 1 /\ Len(s) \in Nat
    /\ \A i \in 1..Len(s) :
         /\ b[i + 1] = b[i] + s[i].count /\ s[i].count \in Nat /\ s[i].count > 0
         /\ s[i].delta \in 0..(U32 - 1) /\ b[i] >= 1
         /\ \A k \in b[i]..(b[i + 1] - 1) : k \in 1..l /\ L[k].duration = s[i].delta
    /\ \A i \in 1..Len(s) : \A j \in (i + 1)..(Len(s) + 1) : b[i + 1] <= b[j]

\* Runs are of at least one sample, so that their beginnings grow.
LEMMA RunsInOrder ==
    ASSUME NEW s \in Seq(Run), NEW L, NEW l \in Nat, NEW b, Timed(s, L, l, b)
    PROVE  InOrder(s, L, l, b)
<1> DEFINE n == Len(s)
<1>1. \A i \in 1..n : s[i].count \in Nat /\ s[i].count > 0 /\ s[i].delta \in 0..(U32 - 1)
  <2> SUFFICES ASSUME NEW i \in 1..n
               PROVE  s[i].count \in Nat /\ s[i].count > 0 /\ s[i].delta \in 0..(U32 - 1)
    OBVIOUS
  <2>1. s[i] \in Run
    BY ElementOfSeq
  <2> QED BY <2>1 DEF Run
<1>2. /\ n \in Nat /\ b \in Table /\ b[1] = 1 /\ b[n + 1] = l + 1
      /\ \A i \in 1..n : b[i + 1] = b[i] + s[i].count
      /\ \A i \in 1..n : \A k \in b[i]..(b[i + 1] - 1) : L[k].duration = s[i].delta
  BY LenProperties DEF Timed
<1> HIDE DEF n
<1>3. \A i \in Nat : b[i] \in Nat
  BY <1>2, NumberIn
<1>4. \A i \in 1..n : b[i] < b[i + 1] /\ b[i] \in Nat /\ b[i + 1] \in Nat
  <2> SUFFICES ASSUME NEW i \in 1..n PROVE b[i] < b[i + 1] /\ b[i] \in Nat /\ b[i + 1] \in Nat
    OBVIOUS
  <2>1. i \in Nat /\ i + 1 \in Nat
    BY <1>2
  <2>2. b[i] \in Nat /\ b[i + 1] \in Nat
    BY <2>1, <1>3
  <2>3. s[i].count \in Nat /\ s[i].count > 0 /\ b[i + 1] = b[i] + s[i].count
    BY <1>1, <1>2
  <2> QED BY <2>2, <2>3
<1>5. ASSUME NEW i \in 1..n, NEW j \in (i + 1)..(n + 1) PROVE b[i + 1] <= b[j]
  <2> DEFINE Q == {m \in Nat : i + 1 + m <= n + 1 => b[i + 1] <= b[i + 1 + m]}
  <2>1. 0 \in Q
    <3>1. b[i + 1] \in Nat
      BY <1>4
    <3>2. i + 1 + 0 = i + 1
      OBVIOUS
    <3> QED BY <3>1, <3>2
  <2>2. ASSUME NEW m \in Nat, m \in Q PROVE m + 1 \in Q
    <3> SUFFICES ASSUME i + 1 + (m + 1) <= n + 1 PROVE b[i + 1] <= b[i + 1 + (m + 1)]
      OBVIOUS
    <3>1. i + 1 + m \in 1..n /\ i + 1 + (m + 1) = (i + 1 + m) + 1 /\ i + 1 + m <= n + 1
      <4>1. n \in Nat /\ i \in Nat /\ i >= 1
        BY <1>2
      <4> QED BY <4>1
    <3>2. b[i + 1] <= b[i + 1 + m]
      BY <2>2, <3>1
    <3>3. b[i + 1 + m] < b[(i + 1 + m) + 1] /\ b[i + 1 + m] \in Nat /\ b[(i + 1 + m) + 1] \in Nat
      BY <1>4, <3>1
    <3>4. b[i + 1] \in Nat
      BY <1>4
    <3> QED BY <3>1, <3>2, <3>3, <3>4
  <2> HIDE DEF Q
  <2>3. \A m \in Nat : m \in Q
    BY <2>1, <2>2, Induction
  <2>4. j - (i + 1) \in Nat /\ i + 1 + (j - (i + 1)) = j /\ j <= n + 1
    BY <1>2
  <2> QED BY <2>3, <2>4 DEF Q
<1>6. ASSUME NEW i \in 1..n PROVE b[i] >= 1
  <2>1. CASE i = 1
    BY <1>2, <2>1
  <2>2. CASE i # 1
    <3>1. 1 \in 1..n /\ i \in (1 + 1)..(n + 1)
      BY <1>2, <2>2
    <3>2. b[1 + 1] <= b[i] /\ b[1] < b[1 + 1] /\ b[1 + 1] \in Nat /\ b[i] \in Nat
      BY <1>4, <1>5, <3>1
    <3> QED BY <1>2, <3>2
  <2> QED BY <2>1, <2>2
<1>7. ASSUME NEW i \in 1..n, NEW k \in b[i]..(b[i + 1] - 1) PROVE k \in 1..l
  <2>1. n + 1 \in (i + 1)..(n + 1)
    BY <1>2
  <2>2. b[i + 1] <= l + 1
    BY <1>2, <1>5, <2>1
  <2>3. b[i] >= 1 /\ b[i] \in Nat /\ b[i + 1] \in Nat /\ l \in Nat
    BY <1>4, <1>6
  <2> QED BY <2>2, <2>3
<1> QED
  BY <1>1, <1>2, <1>3, <1>5, <1>6, <1>7 DEF n, InOrder

\* The runs with one more sample: the last is longer, or there is a new one.
OneLonger(s, d, r, L, L2, l) ==
    /\ r.count = 1 /\ \A i \in 1..Len(s) : d = s[i].delta => r.delta = d
    /\ \A k \in 1..l : L2[k] = L[k]
    /\ L2[l + 1].duration = r.delta

\* UpdateSampleTimes lists the new sample behind the others.
LEMMA TimesKept ==
    ASSUME NEW s \in Seq(Run), NEW L, NEW l \in Nat, NEW b, Timed(s, L, l, b),
           NEW d, NEW r \in Run, NEW L2, OneLonger(s, d, r, L, L2, l)
    PROVE  LET n == Len(s)
               s2 == IF n > 0 /\ d = s[n].delta THEN [s EXCEPT ![n].count = @ + 1]
                     ELSE Append(s, r)
           IN  \E c : Timed(s2, L2, l + 1, c)
<1> DEFINE n == Len(s)
<1>1. /\ L2[l + 1].duration = r.delta /\ r.count = 1
      /\ \A i \in 1..l : L2[i] = L[i]
  BY DEF OneLonger
<1>2. InOrder(s, L, l, b)
  BY RunsInOrder
<1>3. n \in Nat /\ b \in Table /\ b[1] = 1 /\ b[n + 1] = l + 1
  BY <1>2 DEF InOrder
<1>4. \A i \in 1..n :
        /\ b[i + 1] = b[i] + s[i].count /\ s[i].count \in Nat /\ s[i].count > 0
        /\ b[i] >= 1 /\ \A k \in b[i]..(b[i + 1] - 1) : k \in 1..l /\ L[k].duration = s[i].delta
  BY <1>2 DEF InOrder
<1>5. \A i \in Nat : b[i] \in Nat
  BY <1>2 DEF InOrder
<1>6. \A i \in 1..n : \A k \in b[i]..(b[i + 1] - 1) : L2[k].duration = s[i].delta
  BY <1>1, <1>4
<1> HIDE DEF n
<1>7. CASE n > 0 /\ d = s[n].delta
  <2> DEFINE s2 == [s EXCEPT ![n].count = s[n].count + 1]
  <2>1. n \in 1..n /\ r.delta = s[n].delta
    <3>1. n \in 1..n
      BY <1>3, <1>7
    <3> QED BY <1>7, <3>1 DEF n, OneLonger
  <2>2. /\ Len(s2) = n /\ s2[n].count = s[n].count + 1 /\ s2[n].delta = s[n].delta
        /\ \A i \in 1..n : i # n => s2[i] = s[i]
    <3>1. s \in [1..n -> Run] /\ s[n] \in Run
      BY <2>1, LenProperties, ElementOfSeq DEF n
    <3>2. s2 = [s EXCEPT ![n] = [s[n] EXCEPT !.count = s[n].count + 1]]
      OBVIOUS
    <3>3. [s[n] EXCEPT !.count = s[n].count + 1] \in Run
      <4>1. s[n].count + 1 \in Nat \ {0}
        BY <1>4, <2>1
      <4> QED BY <3>1, <4>1, Zenon DEF Run
    <3> DEFINE q == [s[n] EXCEPT !.count = s[n].count + 1]
    <3>4. q.count = s[n].count + 1 /\ q.delta = s[n].delta
      BY <3>1 DEF Run
    <3> HIDE DEF q
    <3>5. /\ Len([s EXCEPT ![n] = q]) = n
          /\ \A i \in 1..n : [s EXCEPT ![n] = q][i] = IF i = n THEN q ELSE s[i]
      BY <2>1, <3>3, ExceptSeq DEF q, n
    <3> QED BY <2>1, <3>2, <3>4, <3>5 DEF q
  <2>3. PICK c \in Table : c[n + 1] = l + 2 /\ \A i \in 1..n : c[i] = b[i]
    <3> DEFINE m == n + 1
               v == l + 2
    <3>1. m \in Nat /\ v \in Nat /\ \A i \in 1..n : i \in Nat /\ i # m
      BY <1>3
    <3>2. b \in Table
      BY <1>3
    <3> HIDE DEF m, v
    <3>3. PICK c : IsChanged(c, b, m, v)
      BY <3>2, <3>1, Changed
    <3> QED BY <3>1, <3>3 DEF IsChanged, m, v
  <2> HIDE DEF s2
  <2>4. c[1] = 1
    BY <1>3, <2>1, <2>3
  <2>5. ASSUME NEW i \in 1..n
        PROVE  /\ c[i + 1] = c[i] + s2[i].count
               /\ \A k \in c[i]..(c[i + 1] - 1) : L2[k].duration = s2[i].delta
    <3>1. CASE i = n
      <4>1. c[i + 1] = l + 2 /\ c[i] = b[i] /\ b[i + 1] = l + 1 /\ b[i] \in Nat
        <5>1. c[n + 1] = l + 2 /\ c[n] = b[n] /\ b[n + 1] = l + 1
          BY <1>3, <2>1, <2>3
        <5>2. b[i] \in Nat
          BY <1>3, <1>5
        <5> QED BY <3>1, <5>1, <5>2
      <4>2. s2[i].count = s[i].count + 1 /\ s2[i].delta = s[i].delta
        BY <2>2, <3>1
      <4>3. ASSUME NEW k \in c[i]..(c[i + 1] - 1) PROVE L2[k].duration = s2[i].delta
        <5>1. CASE k = l + 1
          BY <1>1, <2>1, <3>1, <4>2, <5>1
        <5>2. CASE k # l + 1
          <6>1. k \in b[i]..(b[i + 1] - 1)
            BY <1>1, <4>1, <5>2
          <6> QED BY <1>6, <4>2, <6>1
        <5> QED BY <5>1, <5>2
      <4>4. b[i + 1] = b[i] + s[i].count /\ s[i].count \in Nat
        BY <1>4
      <4>5. c[i + 1] = c[i] + s2[i].count
        <5>1. b[i] \in Nat /\ c[i + 1] = l + 2 /\ c[i] = b[i] /\ l + 1 = b[i] + s[i].count
          BY <4>1, <4>4
        <5> QED BY <5>1, <4>2, <4>4
      <4> QED BY <4>3, <4>5
    <3>2. CASE i # n
      <4>1. i + 1 \in 1..n
        BY <1>3, <3>2
      <4>2. c[i] = b[i] /\ c[i + 1] = b[i + 1] /\ s2[i] = s[i]
        BY <2>2, <2>3, <3>2, <4>1
      <4> QED BY <1>4, <1>6, <4>2
    <3> QED BY <3>1, <3>2
  <2>6. Timed(s2, L2, l + 1, c)
    <3>1. c[Len(s2) + 1] = (l + 1) + 1
      <4>1. (l + 1) + 1 = l + 2 /\ Len(s2) = n
        BY <1>1, <2>2
      <4> QED BY <2>3, <4>1, Zenon
    <3> QED BY <2>2, <2>3, <2>4, <2>5, <3>1 DEF Timed
  <2> QED BY <1>7, <2>6 DEF s2, n
<1>8. CASE ~ (n > 0 /\ d = s[n].delta)
  <2> DEFINE s2 == Append(s, r)
  <2>1. Len(s2) = n + 1 /\ s2[n + 1] = r /\ (\A i \in 1..n : s2[i] = s[i])
        /\ \A i \in 1..(n + 1) : i = n + 1 \/ i \in 1..n
    BY OneMore DEF n
  <2>2. PICK c \in Table : c[n + 2] = l + 2 /\ \A i \in 1..(n + 1) : c[i] = b[i]
    <3> DEFINE m == n + 2
               v == l + 2
    <3>1. m \in Nat /\ v \in Nat /\ \A i \in 1..(n + 1) : i \in Nat /\ i # m
      BY <1>3
    <3>2. b \in Table
      BY <1>3
    <3> HIDE DEF m, v
    <3>3. PICK c : IsChanged(c, b, m, v)
      BY <3>2, <3>1, Changed
    <3> QED BY <3>1, <3>3 DEF IsChanged, m, v
  <2> HIDE DEF s2
  <2>3. ASSUME NEW i \in 1..(n + 1)
        PROVE  /\ c[i + 1] = c[i] + s2[i].count
               /\ \A k \in c[i]..(c[i + 1] - 1) : L2[k].duration = s2[i].delta
    <3>1. CASE i = n + 1
      <4>1. c[i + 1] = l + 2 /\ c[i] = l + 1
        <5>1. i + 1 = n + 2
          BY <1>3, <3>1
        <5> QED BY <5>1, <1>3, <2>2, <3>1
      <4>2. \A k \in c[i]..(c[i + 1] - 1) : k = l + 1
        BY <1>1, <4>1
      <4> QED BY <1>1, <2>1, <3>1, <4>1, <4>2
    <3>2. CASE i # n + 1
      <4>1. i \in 1..n /\ i + 1 \in 1..(n + 1)
        BY <1>3, <3>2
      <4> QED BY <1>4, <1>6, <2>1, <2>2, <4>1
    <3> QED BY <3>1, <3>2
  <2>4. Timed(s2, L2, l + 1, c)
    <3>1. c[1] = 1 /\ c[(n + 1) + 1] = (l + 1) + 1
      <4>1. 1 \in 1..(n + 1) /\ (n + 1) + 1 = n + 2 /\ (l + 1) + 1 = l + 2
        BY <1>1, <1>3
      <4> QED BY <4>1, <1>3, <2>2
    <3> QED BY <1>1, <2>1, <2>2, <2>3, <3>1 DEF Timed, n
  <2> QED BY <1>8, <2>4 DEF s2, n
<1> QED
  BY <1>7, <1>8

\* The sync samples with one more.
LEMMA SyncKept ==
    ASSUME NEW s \in Seq(Nat), NEW L \in Seq(Entry), SyncOK(s, L), NEW e \in Entry
    PROVE  LET l == Len(L)
               s2 == IF e.sync /\ s # NoStss THEN Append(s, l + 1)
                     ELSE IF ~ e.sync /\ s = NoStss THEN [i \in 1..((l + 1) - 1) |-> i]
                     ELSE s
           IN  SyncOK(s2, Append(L, e))
<1> DEFINE l == Len(L)
           n == Len(s)
           L2 == Append(L, e)
<1>1. /\ L2 \in Seq(Entry) /\ Len(L2) = l + 1 /\ l \in Nat /\ L2[l + 1] = e
      /\ \A i \in 1..l : L2[i] = L[i]
      /\ \A i \in 1..(l + 1) : i = l + 1 \/ i \in 1..l
  BY OneMore
<1>2. n \in Nat /\ e.sync \in BOOLEAN /\ \A z : z = NoStss => Len(z) = 1 /\ z[1] = 0
  BY LenProperties DEF Entry, NoStss, MP4_INVALID_SAMPLE_ID
<1>3. CASE e.sync /\ s # NoStss
  <2> DEFINE s2 == Append(s, l + 1)
  <2>1. /\ s2 \in Seq(Nat) /\ Len(s2) = n + 1 /\ s2[n + 1] = l + 1 /\ (\A i \in 1..n : s2[i] = s[i])
        /\ \A i \in 1..(n + 1) : i = n + 1 \/ i \in 1..n
    <3>1. l + 1 \in Nat
      BY <1>1
    <3> QED BY <3>1, OneMore
  <2> HIDE DEF s2
  <2>2. /\ \A i \in 1..n : s[i] \in 1..l /\ L[s[i]].sync
        /\ \A i, j \in 1..n : i < j => s[i] < s[j]
        /\ \A k \in 1..l : L[k].sync => \E i \in 1..n : s[i] = k
    BY <1>3 DEF SyncOK
  <2>3. s2 # NoStss
    <3>1. s2[1] # 0
      <4>1. 1 \in 1..(n + 1)
        BY <1>2
      <4>2. 1 = n + 1 \/ 1 \in 1..n
        BY <2>1, <4>1
      <4> QED BY <1>1, <2>1, <2>2, <4>2
    <3> QED BY <1>2, <3>1
  <2>4. ASSUME NEW i \in 1..(n + 1) PROVE s2[i] \in 1..(l + 1) /\ L2[s2[i]].sync
    <3>1. CASE i = n + 1
      BY <1>1, <1>3, <2>1, <3>1
    <3>2. CASE i \in 1..n
      <4>1. s2[i] = s[i] /\ s[i] \in 1..l /\ L[s[i]].sync
        BY <2>1, <2>2, <3>2
      <4>2. L2[s[i]] = L[s[i]] /\ s[i] \in 1..(l + 1)
        BY <1>1, <4>1
      <4> QED BY <4>1, <4>2, Zenon
    <3> QED BY <2>1, <3>1, <3>2
  <2>5. ASSUME NEW i \in 1..(n + 1), NEW j \in 1..(n + 1), i < j PROVE s2[i] < s2[j]
    <3>1. i \in 1..n
      BY <1>2, <2>5
    <3>2. CASE j = n + 1
      BY <1>1, <2>1, <2>2, <3>1, <3>2
    <3>3. CASE j \in 1..n
      BY <2>1, <2>2, <2>5, <3>1, <3>3
    <3> QED BY <2>1, <3>2, <3>3
  <2>6. ASSUME NEW k \in 1..(l + 1), L2[k].sync PROVE \E i \in 1..(n + 1) : s2[i] = k
    <3>1. CASE k = l + 1
      <4>1. n + 1 \in 1..(n + 1)
        BY <1>2
      <4> QED BY <2>1, <3>1, <4>1
    <3>2. CASE k \in 1..l
      <4>1. PICK i \in 1..n : s[i] = k
        BY <1>1, <2>2, <2>6, <3>2
      <4>2. i \in 1..(n + 1) /\ s2[i] = k
        BY <1>2, <2>1, <4>1
      <4> QED BY <4>2
    <3> QED BY <1>1, <3>1, <3>2
  <2>7. SyncOK(s2, L2)
    BY <1>1, <2>1, <2>3, <2>4, <2>5, <2>6 DEF SyncOK
  <2> QED BY <1>3, <2>7 DEF s2
<1>4. CASE ~ e.sync /\ s = NoStss
  <2> DEFINE s2 == [i \in 1..((l + 1) - 1) |-> i]
  <2>1. s2 \in Seq(Nat) /\ Len(s2) = l /\ \A i \in 1..l : s2[i] = i
    <3>1. (l + 1) - 1 = l
      BY <1>1
    <3>2. s2 = [i \in 1..l |-> i]
      BY <3>1
    <3> QED BY <1>1, <3>2
  <2> HIDE DEF s2
  <2>2. \A k \in 1..l : L[k].sync
    BY <1>4 DEF SyncOK
  <2>3. s2 # NoStss
    <3>1. CASE l = 0
      BY <1>2, <2>1, <3>1
    <3>2. CASE l > 0
      <4>1. 1 \in 1..l
        BY <1>1, <3>2
      <4> QED BY <1>2, <2>1, <4>1
    <3> QED BY <1>1, <3>1, <3>2
  <2>4. ASSUME NEW k \in 1..(l + 1), L2[k].sync PROVE \E i \in 1..l : s2[i] = k
    <3>1. k # l + 1
      BY <1>1, <1>4, <2>4
    <3> QED BY <1>1, <2>1, <3>1
  <2>5. ASSUME NEW i \in 1..l PROVE s2[i] \in 1..(l + 1) /\ L2[s2[i]].sync
    <3>1. s2[i] = i /\ L2[i] = L[i]
      BY <1>1, <2>1
    <3>2. L2[i].sync
      BY <2>2, <3>1
    <3>3. i \in 1..(l + 1)
      BY <1>1
    <3> QED BY <3>1, <3>2, <3>3, Zenon
  <2>6. \A i, j \in 1..l : i < j => s2[i] < s2[j]
    BY <1>1, <2>1
  <2>7. SyncOK(s2, L2)
    BY <1>1, <2>1, <2>3, <2>4, <2>5, <2>6 DEF SyncOK
  <2> QED BY <1>4, <2>7 DEF s2
<1>5. CASE e.sync /\ s = NoStss
  <2>1. \A k \in 1..(l + 1) : L2[k].sync
    BY <1>1, <1>5 DEF SyncOK
  <2>2. SyncOK(s, L2)
    BY <1>1, <1>5, <2>1 DEF SyncOK
  <2> QED BY <1>5, <2>2
<1>6. CASE ~ e.sync /\ s # NoStss
  <2>1. /\ \A i \in 1..n : s[i] \in 1..l /\ L[s[i]].sync
        /\ \A i, j \in 1..n : i < j => s[i] < s[j]
        /\ \A k \in 1..l : L[k].sync => \E i \in 1..n : s[i] = k
    BY <1>6 DEF SyncOK
  <2>2. \A i \in 1..n : s[i] \in 1..(l + 1) /\ L2[s[i]].sync
    BY <1>1, <2>1
  <2>3. \A k \in 1..(l + 1) : L2[k].sync => \E i \in 1..n : s[i] = k
    BY <1>1, <1>6, <2>1
  <2>4. SyncOK(s, L2)
    BY <1>1, <1>6, <2>1, <2>2, <2>3 DEF SyncOK
  <2> QED BY <1>6, <2>4
<1> QED
  BY <1>2, <1>3, <1>4, <1>5, <1>6

(***************************************************************************)
(* Where the samples are.                                                  *)
(***************************************************************************)
Same(f, g, a, b) == \A k \in a..b : f[k] = g[k]

\* Samples from..l lie one behind the other.
Growing(off, L, from, l) == \A k \in from..l : off[k + 1] = off[k] + Len(L[k].bytes)

\* A piece stays what it is when more bytes and more samples follow.
LEMMA PieceKept ==
    ASSUME NEW s, NEW base, NEW off, NEW L, NEW from \in Nat, NEW to \in Nat,
           Piece(s, base, off, L, from, to), Len(s) \in Nat,
           NEW s2, Len(s2) \in Nat, Len(s) <= Len(s2), Same(s2, s, 1, Len(s)),
           NEW off2, off2[from] = off[from], Same(off2, off, from, to - 1),
           NEW L2, Same(L2, L, from, to - 1)
    PROVE  Piece(s2, base, off2, L2, from, to)
<1>1. off2[from] = 0
  BY DEF Piece
<1>2. ASSUME NEW k \in from..(to - 2) PROVE off2[k + 1] = off2[k] + Len(L2[k].bytes)
  <2>1. k \in from..(to - 1) /\ k + 1 \in from..(to - 1)
    OBVIOUS
  <2>2. off2[k + 1] = off[k + 1] /\ off2[k] = off[k] /\ L2[k] = L[k]
    BY <2>1 DEF Same
  <2>3. off[k + 1] = off[k] + Len(L[k].bytes)
    BY DEF Piece
  <2> QED BY <2>2, <2>3, Zenon
<1>3. ASSUME NEW k \in from..(to - 1), NEW i \in 1..Len(L2[k].bytes)
      PROVE  base + off2[k] + i \in 1..Len(s2) /\ s2[base + off2[k] + i] = L2[k].bytes[i]
  <2>1. off2[k] = off[k] /\ L2[k] = L[k]
    BY DEF Same
  <2>2. base + off[k] + i \in 1..Len(s) /\ s[base + off[k] + i] = L[k].bytes[i]
    BY <2>1 DEF Piece
  <2> DEFINE at == base + off[k] + i
  <2>3. at \in 1..Len(s) /\ s[at] = L[k].bytes[i] /\ at = base + off2[k] + i
    BY <2>1, <2>2
  <2> HIDE DEF at
  <2>4. at \in 1..Len(s2) /\ s2[at] = s[at]
    BY <2>3 DEF Same
  <2> QED BY <2>1, <2>3, <2>4, Zenon
<1> QED
  BY <1>1, <1>2, <1>3 DEF Piece

\* The buffer goes to the end of the file.
LEMMA PieceMoved ==
    ASSUME NEW S, NEW file \in Seq(S), NEW buffer \in Seq(S), NEW off, NEW L,
           NEW from \in Nat, NEW to \in Nat, Piece(buffer, 0, off, L, from, to),
           \A k \in from..(to - 1) : off[k] \in Nat
    PROVE  Piece(file \o buffer, Len(file), off, L, from, to)
<1> DEFINE s2 == file \o buffer
<1>1. Len(s2) = Len(file) + Len(buffer) /\ Len(file) \in Nat /\ Len(buffer) \in Nat
      /\ \A i \in 1..Len(buffer) : s2[Len(file) + i] = buffer[i]
  OBVIOUS
<1> HIDE DEF s2
<1>2. ASSUME NEW k \in from..(to - 1), NEW i \in 1..Len(L[k].bytes)
      PROVE  Len(file) + off[k] + i \in 1..Len(s2) /\ s2[Len(file) + off[k] + i] = L[k].bytes[i]
  <2>1. 0 + off[k] + i \in 1..Len(buffer) /\ buffer[0 + off[k] + i] = L[k].bytes[i]
    BY DEF Piece
  <2>2. off[k] \in Nat
    OBVIOUS
  <2> DEFINE at == 0 + off[k] + i
  <2>3. i \in Int
    OBVIOUS
  <2>4. Len(file) + off[k] + i = Len(file) + at
    BY <1>1, <2>2, <2>3
  <2>5. at \in 1..Len(buffer) /\ buffer[at] = L[k].bytes[i]
    BY <2>1
  <2> HIDE DEF at
  <2>6. Len(file) + at \in 1..Len(s2) /\ s2[Len(file) + at] = buffer[at]
    BY <1>1, <2>5
  <2> QED BY <2>4, <2>5, <2>6
<1> QED
  BY <1>2 DEF Piece, s2

\* One more sample behind the others.
LEMMA PieceLonger ==
    ASSUME NEW S, NEW buffer \in Seq(S), NEW bytes \in Seq(S), NEW off, NEW L,
           NEW from \in Nat, NEW l \in Nat, from <= l + 1,
           Piece(buffer, 0, off, L, from, l + 1), off[l + 1] = Len(buffer),
           Growing(off, L, from, l),
           NEW off2, Same(off2, off, from, l + 1),
           NEW L2, Same(L2, L, from, l), L2[l + 1].bytes = bytes
    PROVE  Piece(buffer \o bytes, 0, off2, L2, from, l + 2)
<1> DEFINE s2 == buffer \o bytes
<1>1. Len(s2) = Len(buffer) + Len(bytes) /\ Len(buffer) \in Nat /\ Len(bytes) \in Nat
  OBVIOUS
<1>2. Same(s2, buffer, 1, Len(buffer))
  BY DEF Same
<1>3. \A i \in 1..Len(bytes) : s2[Len(buffer) + i] = bytes[i]
  OBVIOUS
<1> HIDE DEF s2
<1>4. off2[from] = 0 /\ off2[l + 1] = Len(buffer)
  <2>1. from \in from..(l + 1) /\ l + 1 \in from..(l + 1)
    OBVIOUS
  <2> QED BY <2>1 DEF Piece, Same
<1>5. Piece(s2, 0, off2, L2, from, l + 1)
  <2>1. Same(off2, off, from, (l + 1) - 1) /\ Same(L2, L, from, (l + 1) - 1)
    BY DEF Same
  <2>2. off2[from] = off[from] /\ Len(buffer) <= Len(s2) /\ Len(s2) \in Nat /\ l + 1 \in Nat
    BY <1>1, <1>4 DEF Piece
  <2> QED BY <1>1, <1>2, <2>1, <2>2, PieceKept
<1>6. ASSUME NEW k \in from..((l + 2) - 2) PROVE off2[k + 1] = off2[k] + Len(L2[k].bytes)
  <2>1. k \in from..l /\ k \in from..(l + 1) /\ k + 1 \in from..(l + 1)
    OBVIOUS
  <2>2. off2[k + 1] = off[k + 1] /\ off2[k] = off[k] /\ L2[k] = L[k]
    BY <2>1 DEF Same
  <2>3. off[k + 1] = off[k] + Len(L[k].bytes)
    BY <2>1 DEF Growing
  <2> QED BY <2>2, <2>3, Zenon
<1>7. ASSUME NEW k \in from..((l + 2) - 1), NEW i \in 1..Len(L2[k].bytes)
      PROVE  0 + off2[k] + i \in 1..Len(s2) /\ s2[0 + off2[k] + i] = L2[k].bytes[i]
  <2>1. CASE k = l + 1
    <3>1. L2[k].bytes = bytes /\ off2[k] = Len(buffer) /\ i \in 1..Len(bytes)
      BY <1>4, <2>1
    <3>2. Len(buffer) + i \in 1..Len(s2) /\ s2[Len(buffer) + i] = bytes[i] /\ 0 + Len(buffer) = Len(buffer)
      BY <1>1, <1>3, <3>1
    <3> QED BY <3>1, <3>2, Zenon
  <2>2. CASE k # l + 1
    <3>1. k \in from..((l + 1) - 1)
      BY <2>2
    <3> QED BY <1>5, <3>1 DEF Piece
  <2> QED BY <2>1, <2>2
<1> QED
  BY <1>4, <1>6, <1>7 DEF Piece, s2

\* Chunks begin one after the other.
FirstOK(fs, C, l) ==
    /\ \A c \in 1..(C + 1) : fs[c] \in Nat /\ 1 <= fs[c] /\ fs[c] <= fs[C + 1]
    /\ fs[C + 1] <= l + 1

\* No chunk begins before the first sample or behind the last.
LEMMA ChunksInOrder ==
    ASSUME NEW stsc, NEW stco, Len(stco) \in Nat, NEW buffer, NEW n \in Nat, NEW file, NEW L,
           NEW l \in Nat, NEW fs, NEW off, Placed(stsc, stco, buffer, n, file, L, l, fs, off)
    PROVE  FirstOK(fs, Len(stco), l) /\ (\A k \in Nat : off[k] \in Nat) /\ \A k \in Nat : fs[k] \in Nat
<1> DEFINE C == Len(stco)
<1>1. /\ fs \in Table /\ off \in Table /\ fs[1] = 1 /\ C \in Nat /\ fs[C + 1] + n = l + 1
      /\ \A c \in 1..C : \A d \in (c + 1)..(C + 1) : fs[c] < fs[d]
  BY DEF Placed, Counted
<1> HIDE DEF C
<1>2. (\A k \in Nat : off[k] \in Nat) /\ \A k \in Nat : fs[k] \in Nat
  BY <1>1, NumberIn
<1>3. ASSUME NEW c \in 1..(C + 1) PROVE fs[c] \in Nat /\ 1 <= fs[c] /\ fs[c] <= fs[C + 1]
  <2>1. fs[c] \in Nat /\ fs[C + 1] \in Nat
    BY <1>1, <1>2
  <2>2. 1 <= fs[c]
    <3>1. CASE c = 1
      BY <1>1, <3>1
    <3>2. CASE c # 1
      <4>1. 1 \in 1..C /\ c \in (1 + 1)..(C + 1)
        BY <1>1, <3>2
      <4> QED BY <1>1, <2>1, <4>1
    <3> QED BY <3>1, <3>2
  <2>3. fs[c] <= fs[C + 1]
    <3>1. CASE c = C + 1
      BY <2>1, <3>1
    <3>2. CASE c # C + 1
      <4>1. c \in 1..C /\ C + 1 \in (c + 1)..(C + 1)
        BY <1>1, <3>2
      <4> QED BY <1>1, <2>1, <4>1
    <3> QED BY <3>1, <3>2
  <2> QED BY <2>1, <2>2, <2>3
<1>4. fs[C + 1] <= l + 1
  <2>1. fs[C + 1] \in Nat
    BY <1>1, <1>2
  <2> QED BY <1>1, <2>1
<1> QED
  BY <1>2, <1>3, <1>4 DEF FirstOK, C

\* One more sample in the buffer.
LEMMA PlacedLonger ==
    ASSUME NEW stsc, NEW stco, Len(stco) \in Nat, NEW buffer \in Seq(Cell), NEW n \in Nat,
           NEW file, Len(file) \in Nat, NEW L, NEW l \in Nat, NEW fs, NEW off,
           Placed(stsc, stco, buffer, n, file, L, l, fs, off),
           NEW bytes \in Seq(Cell), NEW L2, Same(L2, L, 1, l), L2[l + 1].bytes = bytes
    PROVE  \E off2 : Placed(stsc, stco, buffer \o bytes, n + 1, file, L2, l + 1, fs, off2)
<1> DEFINE C == Len(stco)
<1>1. FirstOK(fs, C, l) /\ (\A k \in Nat : off[k] \in Nat) /\ \A k \in Nat : fs[k] \in Nat
  BY ChunksInOrder
<1>2. /\ Counted(stsc, C, fs) /\ off \in Table /\ off[l + 1] = Len(buffer) /\ fs[C + 1] + n = l + 1
      /\ Piece(buffer, 0, off, L, fs[C + 1], l + 1)
      /\ Growing(off, L, fs[C + 1], l)
      /\ \A c \in 1..C : Piece(file, stco[c], off, L, fs[c], fs[c + 1])
      /\ C \in Nat
  BY DEF Placed, Growing
<1>3. Len(buffer) \in Nat /\ Len(bytes) \in Nat /\ Len(buffer \o bytes) = Len(buffer) + Len(bytes)
  OBVIOUS
<1>4. PICK off2 \in Table : /\ off2[l + 2] = Len(buffer) + Len(bytes)
                            /\ Same(off2, off, 1, l + 1)
  <2> DEFINE m == l + 2
             v == Len(buffer) + Len(bytes)
  <2>1. m \in Nat /\ v \in Nat /\ \A k \in 1..(l + 1) : k \in Nat /\ k # m
    BY <1>3
  <2>2. off \in Table
    BY <1>2
  <2> HIDE DEF m, v
  <2>3. PICK c : IsChanged(c, off, m, v)
    BY <2>1, <2>2, Changed
  <2> QED BY <2>1, <2>3 DEF Same, IsChanged, m, v
<1> HIDE DEF C
<1> DEFINE f == fs[C + 1]
<1>5. f \in Nat /\ 1 <= f /\ f <= l + 1
  <2>1. C + 1 \in 1..(C + 1)
    BY <1>2
  <2> QED BY <1>1, <2>1 DEF FirstOK
<1>6. Piece(buffer \o bytes, 0, off2, L2, f, l + 2)
  <2>1. Same(off2, off, f, l + 1) /\ Same(L2, L, f, l)
    BY <1>4, <1>5 DEF Same
  <2>2. Piece(buffer, 0, off, L, f, l + 1) /\ off[l + 1] = Len(buffer) /\ Growing(off, L, f, l)
    BY <1>2
  <2> HIDE DEF f
  <2> QED BY <1>5, <2>1, <2>2, PieceLonger
<1>7. ASSUME NEW k \in f..(l + 1) PROVE off2[k + 1] = off2[k] + Len(L2[k].bytes)
  <2>1. CASE k = l + 1
    <3>1. off2[l + 1] = Len(buffer) /\ off2[(l + 1) + 1] = Len(buffer) + Len(bytes)
      <4>1. l + 1 \in 1..(l + 1) /\ (l + 1) + 1 = l + 2
        OBVIOUS
      <4> QED BY <1>2, <1>4, <4>1 DEF Same
    <3> QED BY <2>1, <3>1
  <2>2. CASE k # l + 1
    <3>1. k \in f..l /\ k \in 1..l /\ k \in 1..(l + 1) /\ k + 1 \in 1..(l + 1)
      BY <1>5, <2>2
    <3>2. off2[k + 1] = off[k + 1] /\ off2[k] = off[k] /\ L2[k] = L[k]
      BY <1>4, <3>1 DEF Same
    <3>3. off[k + 1] = off[k] + Len(L[k].bytes)
      BY <1>2, <3>1 DEF Growing
    <3> QED BY <3>2, <3>3, Zenon
  <2> QED BY <2>1, <2>2
<1>8. ASSUME NEW c \in 1..C PROVE Piece(file, stco[c], off2, L2, fs[c], fs[c + 1])
  <2>1. fs[c] \in Nat /\ fs[c + 1] \in Nat /\ 1 <= fs[c] /\ fs[c] < fs[c + 1] /\ fs[c + 1] <= l + 1
    <3>1. c \in 1..(C + 1) /\ c + 1 \in 1..(C + 1) /\ c + 1 \in (c + 1)..(C + 1)
      BY <1>2
    <3>2. fs[c] < fs[c + 1]
      BY <1>2, <3>1 DEF Counted
    <3> QED BY <1>1, <1>5, <3>1, <3>2 DEF FirstOK
  <2>2. /\ Same(off2, off, fs[c], fs[c + 1] - 1) /\ Same(L2, L, fs[c], fs[c + 1] - 1)
        /\ off2[fs[c]] = off[fs[c]]
    <3>1. \A k \in fs[c]..(fs[c + 1] - 1) : k \in 1..l /\ k \in 1..(l + 1)
      BY <2>1
    <3>2. fs[c] \in fs[c]..(fs[c + 1] - 1)
      BY <2>1
    <3> QED BY <1>4, <3>1, <3>2 DEF Same
  <2>3. Piece(file, stco[c], off, L, fs[c], fs[c + 1])
    BY <1>2
  <2>4. Len(file) <= Len(file) /\ Same(file, file, 1, Len(file))
    BY DEF Same
  <2> QED BY <2>1, <2>2, <2>3, <2>4, PieceKept
<1>9. f + (n + 1) = (l + 1) + 1 /\ off2[(l + 1) + 1] = Len(buffer \o bytes) /\ (l + 1) + 1 = l + 2
  <2>1. (l + 1) + 1 = l + 2 /\ f + n = l + 1
    BY <1>2
  <2>2. f + (n + 1) = (l + 1) + 1
    <3>1. \A x, y, z \in Nat : x + y = z + 1 => x + (y + 1) = (z + 1) + 1
      OBVIOUS
    <3> HIDE DEF f
    <3> QED BY <1>5, <2>1, <3>1
  <2> QED BY <1>3, <1>4, <2>1, <2>2
<1>10. Placed(stsc, stco, buffer \o bytes, n + 1, file, L2, l + 1, fs, off2)
  <2>1. Piece(buffer \o bytes, 0, off2, L2, f, (l + 1) + 1)
    BY <1>6, <1>9
  <2> QED BY <1>2, <1>4, <1>7, <1>8, <1>9, <2>1 DEF Placed, C
<1> QED
  BY <1>10

\* More bytes in the file.
LEMMA FileLonger ==
    ASSUME NEW stsc, NEW stco, Len(stco) \in Nat, NEW buffer, NEW n \in Nat,
           NEW file, Len(file) \in Nat, NEW L, NEW l \in Nat, NEW fs, NEW off,
           Placed(stsc, stco, buffer, n, file, L, l, fs, off),
           NEW file2, Len(file2) \in Nat, Len(file) <= Len(file2),
           Same(file2, file, 1, Len(file))
    PROVE  Placed(stsc, stco, buffer, n, file2, L, l, fs, off)
<1>1. (\A k \in Nat : off[k] \in Nat) /\ \A k \in Nat : fs[k] \in Nat
  BY ChunksInOrder
<1>2. ASSUME NEW c \in 1..Len(stco) PROVE Piece(file2, stco[c], off, L, fs[c], fs[c + 1])
  <2>1. Piece(file, stco[c], off, L, fs[c], fs[c + 1])
    BY DEF Placed
  <2>2. fs[c] \in Nat /\ fs[c + 1] \in Nat
    BY <1>1
  <2>3. Same(off, off, fs[c], fs[c + 1] - 1) /\ Same(L, L, fs[c], fs[c + 1] - 1)
    BY DEF Same
  <2> QED BY <2>1, <2>2, <2>3, PieceKept
<1> QED
  BY <1>2 DEF Placed

\* One more chunk, of n samples.
NextRuns(stsc, C, n, q) ==
    IF Len(stsc) > 0 /\ n = stsc[Len(stsc)].samplesPerChunk THEN stsc
    ELSE Append(stsc, [firstChunk |-> C + 1, samplesPerChunk |-> n, firstSample |-> q])

\* What Counted says of run r.
RunOK(stsc, C, fs, r) ==
    /\ stsc[r].firstChunk < Upper(stsc, C, r) /\ Upper(stsc, C, r) <= C + 1
    /\ \A c \in stsc[r].firstChunk..Upper(stsc, C, r) :
         fs[c] = fs[stsc[r].firstChunk]
                   + (c - stsc[r].firstChunk) * stsc[r].samplesPerChunk

\* UpdateSampleToChunk counts the new chunk: in the last run when it has as
\* many samples, else in a run of its own.
LEMMA CountedLonger ==
    ASSUME NEW stsc \in Seq(Chunks), NEW C \in Nat, NEW fs, Counted(stsc, C, fs),
           NEW n \in Nat \ {0}, NEW q \in Int, NEW fs2, IsChanged(fs2, fs, C + 2, fs[C + 1] + n)
    PROVE  Counted(NextRuns(stsc, C, n, q), C + 1, fs2)
<1> DEFINE m == Len(stsc)
           s2 == NextRuns(stsc, C, n, q)
           new == [firstChunk |-> C + 1, samplesPerChunk |-> n, firstSample |-> q]
<1>1. /\ fs \in Table /\ fs[1] = 1
      /\ \A c \in 1..C : \A d \in (c + 1)..(C + 1) : fs[c] < fs[d]
      /\ (m = 0 <=> C = 0) /\ (m > 0 => stsc[1].firstChunk = 1)
      /\ \A r \in 1..m : RunOK(stsc, C, fs, r)
      /\ m \in Nat
  <2>1. m \in Nat /\ (m = 0 <=> stsc = <<>>)
    BY EmptySeq, LenProperties
  <2> QED BY <2>1 DEF Counted, RunOK
<1>2. \A r \in 1..m : stsc[r].firstChunk \in Nat /\ stsc[r].firstChunk > 0
                      /\ stsc[r].samplesPerChunk \in Nat /\ stsc[r] \in Chunks
  <2> SUFFICES ASSUME NEW r \in 1..m
               PROVE  stsc[r].firstChunk \in Nat /\ stsc[r].firstChunk > 0
                      /\ stsc[r].samplesPerChunk \in Nat /\ stsc[r] \in Chunks
    OBVIOUS
  <2>1. stsc[r] \in Chunks
    BY ElementOfSeq
  <2> QED BY <2>1 DEF Chunks
<1>3. /\ fs2 \in Table /\ fs2[C + 2] = fs[C + 1] + n
      /\ \A c \in 1..(C + 1) : fs2[c] = fs[c] /\ fs[c] \in Nat
  <2>1. \A c \in 1..(C + 1) : c \in Nat /\ c # C + 2
    OBVIOUS
  <2> QED BY <1>1, <2>1, NumberIn DEF IsChanged
<1>4. new \in Chunks /\ new.firstChunk = C + 1 /\ new.samplesPerChunk = n
  <2>1. C + 1 \in Nat \ {0}
    OBVIOUS
  <2> QED BY <2>1, Zenon DEF Chunks
<1>5. IF m > 0 /\ n = stsc[m].samplesPerChunk THEN s2 = stsc
      ELSE /\ Len(s2) = m + 1 /\ s2[m + 1] = new /\ \A r \in 1..m : s2[r] = stsc[r]
  <2>1. CASE m > 0 /\ n = stsc[m].samplesPerChunk
    BY <2>1 DEF NextRuns
  <2>2. CASE ~ (m > 0 /\ n = stsc[m].samplesPerChunk)
    <3>1. s2 = Append(stsc, new)
      BY <2>2 DEF NextRuns
    <3> HIDE DEF s2, new
    <3>2. Len(s2) = m + 1 /\ s2[m + 1] = new /\ \A r \in 1..m : s2[r] = stsc[r]
      BY <1>4, <3>1, OneMore
    <3> QED BY <2>2, <3>2
  <2> QED BY <2>1, <2>2
<1> HIDE DEF m, s2, new
<1>6. fs2[1] = 1 /\ C + 1 \in Nat
  <2>1. 1 \in 1..(C + 1)
    OBVIOUS
  <2> QED BY <1>1, <1>3, <2>1
<1>7. ASSUME NEW c \in 1..(C + 1), NEW d \in (c + 1)..((C + 1) + 1) PROVE fs2[c] < fs2[d]
  <2>1. fs2[c] = fs[c] /\ fs[c] \in Nat /\ fs2[C + 2] = fs[C + 1] + n
    BY <1>3
  <2>2. CASE d = C + 2
    <3>1. fs[C + 1] \in Nat
      <4>1. C + 1 \in 1..(C + 1)
        OBVIOUS
      <4> QED BY <1>3, <4>1
    <3>2. fs[c] <= fs[C + 1]
      <4>1. CASE c = C + 1
        BY <3>1, <4>1
      <4>2. CASE c # C + 1
        <5>1. c \in 1..C /\ C + 1 \in (c + 1)..(C + 1)
          BY <4>2
        <5> QED BY <1>1, <2>1, <3>1, <5>1
      <4> QED BY <4>1, <4>2
    <3> QED BY <2>1, <2>2, <3>1, <3>2
  <2>3. CASE d # C + 2
    <3>1. c \in 1..C /\ d \in (c + 1)..(C + 1) /\ d \in 1..(C + 1)
      BY <2>3
    <3> QED BY <1>1, <1>3, <2>1, <3>1
  <2> QED BY <2>2, <2>3
\* A run that gets no chunk.
<1>8. ASSUME NEW r \in 1..m, s2[r] = stsc[r], Upper(s2, C + 1, r) = Upper(stsc, C, r)
      PROVE  RunOK(s2, C + 1, fs2, r)
  <2> DEFINE fc == stsc[r].firstChunk
             up == Upper(stsc, C, r)
             spc == stsc[r].samplesPerChunk
  <2>1. fc \in Nat /\ fc > 0 /\ fc < up /\ up <= C + 1
        /\ \A c \in fc..up : fs[c] = fs[fc] + (c - fc) * spc
    BY <1>1, <1>2 DEF RunOK
  <2>2. up \in Int
    <3>1. CASE r = m
      BY <3>1 DEF m, Upper
    <3>2. CASE r # m
      <4>1. r + 1 \in 1..m
        BY <1>1, <3>2
      <4> QED BY <1>2, <3>2, <4>1 DEF m, Upper
    <3> QED BY <3>1, <3>2
  <2> HIDE DEF fc, up, spc
  <2>3. \A c \in fc..up : c \in 1..(C + 1)
    BY <2>1, <2>2
  <2>4. \A c \in fc..up : fs2[c] = fs[c]
    BY <1>3, <2>3
  <2>5. fc \in fc..up
    BY <2>1, <2>2
  <2>6. \A c \in fc..up : fs2[c] = fs2[fc] + (c - fc) * spc
    BY <2>1, <2>4, <2>5
  <2>7. fc < up /\ up <= (C + 1) + 1
    BY <2>1, <2>2
  <2> QED BY <1>8, <2>6, <2>7 DEF RunOK, fc, up, spc
<1>9. CASE m > 0 /\ n = stsc[m].samplesPerChunk
  <2>1. s2 = stsc /\ Len(s2) = m /\ m \in 1..m
    BY <1>1, <1>5, <1>9 DEF m
  <2>2. ASSUME NEW r \in 1..m PROVE RunOK(s2, C + 1, fs2, r)
    <3>1. CASE r # m
      <4>1. Upper(s2, C + 1, r) = Upper(stsc, C, r)
        BY <2>1, <3>1 DEF Upper
      <4> QED BY <1>8, <2>1, <4>1
    <3>2. CASE r = m
      <4> DEFINE fc == stsc[m].firstChunk
      <4>1. Upper(stsc, C, m) = C + 1 /\ Upper(s2, C + 1, m) = (C + 1) + 1
        BY <2>1 DEF Upper, m
      <4>2. fc \in Nat /\ fc > 0 /\ fc < C + 1
            /\ \A c \in fc..(C + 1) : fs[c] = fs[fc] + (c - fc) * n
        BY <1>1, <1>2, <1>9, <2>1, <4>1 DEF RunOK
      <4> HIDE DEF fc
      <4>3. fc \in 1..(C + 1) /\ fc \in fc..(C + 1) /\ C + 1 \in fc..(C + 1)
        BY <4>2
      <4>4. fs2[fc] = fs[fc] /\ fs[fc] \in Nat /\ fs[C + 1] = fs[fc] + ((C + 1) - fc) * n
        BY <1>3, <4>2, <4>3
      <4>5. fs2[C + 2] = fs2[fc] + ((C + 2) - fc) * n
        <5>1. \A a \in Int : (a + 1) * n = a * n + n /\ a * n \in Int
          OBVIOUS
        <5>2. (C + 1) - fc \in Int /\ ((C + 1) - fc) + 1 = (C + 2) - fc
          BY <4>2
        <5>3. ((C + 2) - fc) * n = ((C + 1) - fc) * n + n /\ ((C + 1) - fc) * n \in Int
          BY <5>1, <5>2
        <5> DEFINE p == ((C + 1) - fc) * n
        <5>4. fs2[C + 2] = fs[C + 1] + n /\ fs[C + 1] = fs[fc] + p /\ p \in Int /\ fs[fc] \in Nat
          BY <1>3, <4>4, <5>3
        <5>5. ((C + 2) - fc) * n = p + n
          BY <5>3
        <5> HIDE DEF p
        <5>6. fs2[C + 2] = fs[fc] + (p + n)
          BY <5>4
        <5> QED BY <4>4, <5>5, <5>6
      <4>6. \A c \in fc..((C + 1) + 1) : fs2[c] = fs2[fc] + (c - fc) * n
        <5> SUFFICES ASSUME NEW c \in fc..((C + 1) + 1) PROVE fs2[c] = fs2[fc] + (c - fc) * n
          OBVIOUS
        <5>1. CASE c = C + 2
          BY <4>5, <5>1
        <5>2. CASE c # C + 2
          <6>1. c \in fc..(C + 1) /\ c \in 1..(C + 1)
            BY <4>2, <5>2
          <6> QED BY <1>3, <4>2, <4>4, <6>1
        <5> QED BY <5>1, <5>2
      <4>7. fc < (C + 1) + 1 /\ (C + 1) + 1 <= (C + 1) + 1
        BY <4>2
      <4> QED BY <1>9, <2>1, <3>2, <4>1, <4>6, <4>7 DEF RunOK, fc
    <3> QED BY <3>1, <3>2
  <2>3. (s2 = <<>> <=> C + 1 = 0) /\ (s2 # <<>> => s2[1].firstChunk = 1)
    <3>1. s2 # <<>>
      BY <1>9, <2>1
    <3> QED BY <1>1, <1>9, <2>1, <3>1
  <2> QED BY <1>3, <1>6, <1>7, <2>1, <2>2, <2>3 DEF Counted, RunOK, s2
<1>10. CASE ~ (m > 0 /\ n = stsc[m].samplesPerChunk)
  <2>1. /\ Len(s2) = m + 1 /\ s2[m + 1] = new /\ \A r \in 1..m : s2[r] = stsc[r]
    BY <1>5, <1>10
  <2>2. ASSUME NEW r \in 1..(m + 1) PROVE RunOK(s2, C + 1, fs2, r)
    <3>1. CASE r = m + 1
      <4>1. /\ s2[r].firstChunk = C + 1 /\ s2[r].samplesPerChunk = n
            /\ Upper(s2, C + 1, r) = (C + 1) + 1
        BY <1>4, <2>1, <3>1 DEF Upper
      <4>2. \A c \in (C + 1)..((C + 1) + 1) : fs2[c] = fs2[C + 1] + (c - (C + 1)) * n
        <5>1. C + 1 \in 1..(C + 1)
          OBVIOUS
        <5>2. fs2[C + 1] = fs[C + 1] /\ fs[C + 1] \in Nat /\ fs2[C + 2] = fs[C + 1] + n
          BY <1>3, <5>1
        <5>3. \A c \in (C + 1)..((C + 1) + 1) : c = C + 1 \/ c = C + 2
          OBVIOUS
        <5>4. ((C + 1) - (C + 1)) * n = 0 /\ ((C + 2) - (C + 1)) * n = n
          OBVIOUS
        <5> QED BY <5>2, <5>3, <5>4
      <4> QED BY <4>1, <4>2 DEF RunOK
    <3>2. CASE r # m + 1
      <4>1. r \in 1..m
        BY <1>1, <3>2
      <4>2. Upper(s2, C + 1, r) = Upper(stsc, C, r)
        <5>1. r # Len(s2) /\ Upper(s2, C + 1, r) = s2[r + 1].firstChunk
          BY <2>1, <3>2 DEF Upper
        <5>2. CASE r = m
          BY <1>4, <2>1, <5>1, <5>2 DEF Upper, m
        <5>3. CASE r # m
          <6>1. r + 1 \in 1..m
            BY <1>1, <4>1, <5>3
          <6> QED BY <2>1, <5>1, <5>3, <6>1 DEF Upper, m
        <5> QED BY <5>2, <5>3
      <4> QED BY <1>8, <2>1, <4>1, <4>2
    <3> QED BY <3>1, <3>2
  <2>3. (s2 = <<>> <=> C + 1 = 0) /\ (s2 # <<>> => s2[1].firstChunk = 1)
    <3>1. s2 # <<>>
      BY <1>1, <2>1
    <3>2. CASE m = 0
      BY <1>1, <1>4, <2>1, <3>1, <3>2
    <3>3. CASE m > 0
      <4>1. 1 \in 1..m
        BY <1>1, <3>3
      <4> QED BY <1>1, <2>1, <3>1, <3>3, <4>1
    <3> QED BY <1>1, <3>2, <3>3
  <2> QED BY <1>3, <1>6, <1>7, <2>1, <2>2, <2>3 DEF Counted, RunOK, s2
<1> QED
  BY <1>9, <1>10

\* The buffer becomes a chunk of the file.
LEMMA ChunkWritten ==
    ASSUME NEW stsc \in Seq(Chunks), NEW stco \in Seq(Nat), NEW buffer \in Seq(Cell), buffer # <<>>,
           NEW n \in Nat, NEW file \in Seq(Cell), NEW L, NEW l \in Nat, NEW fs, NEW off,
           Placed(stsc, stco, buffer, n, file, L, l, fs, off), NEW q \in Int
    PROVE  \E fs2, off2 : Placed(NextRuns(stsc, Len(stco), n, q), Append(stco, Len(file)),
                                 <<>>, 0, file \o buffer, L, l, fs2, off2)
<1> DEFINE C == Len(stco)
           stsc2 == NextRuns(stsc, C, n, q)
           stco2 == Append(stco, Len(file))
           file2 == file \o buffer
<1>1. C \in Nat /\ Len(file) \in Nat /\ Len(buffer) \in Nat /\ Len(buffer) > 0
  BY LenProperties, EmptySeq
<1>2. FirstOK(fs, C, l) /\ (\A k \in Nat : off[k] \in Nat) /\ \A k \in Nat : fs[k] \in Nat
  BY <1>1, ChunksInOrder
<1>3. /\ Counted(stsc, C, fs) /\ off \in Table /\ off[l + 1] = Len(buffer) /\ fs[C + 1] + n = l + 1
      /\ Piece(buffer, 0, off, L, fs[C + 1], l + 1)
      /\ \A c \in 1..C : Piece(file, stco[c], off, L, fs[c], fs[c + 1])
      /\ \A c \in 1..C : \A d \in (c + 1)..(C + 1) : fs[c] < fs[d]
      /\ fs \in Table
  BY DEF Placed, Counted
<1>4. /\ Len(stco2) = C + 1 /\ stco2[C + 1] = Len(file)
      /\ \A c \in 1..C : stco2[c] = stco[c]
      /\ \A c \in 1..(C + 1) : c = C + 1 \/ c \in 1..C
  BY <1>1, OneMore
<1>5. Len(file2) = Len(file) + Len(buffer) /\ Same(file2, file, 1, Len(file))
  <2>1. Len(file2) = Len(file) + Len(buffer) /\ \A i \in 1..Len(file) : file2[i] = file[i]
    OBVIOUS
  <2> QED BY <2>1 DEF Same
<1> DEFINE f == fs[C + 1]
<1> HIDE DEF C, stsc2, stco2, file2
<1>6. f \in Nat /\ 1 <= f /\ f < l + 1 /\ n > 0 /\ f + n = l + 1
  <2>1. C + 1 \in 1..(C + 1)
    BY <1>1
  <2>2. f \in Nat /\ 1 <= f /\ f <= l + 1
    BY <1>2, <2>1 DEF FirstOK
  <2>3. f # l + 1
    <3>1. off[f] = 0
      BY <1>3 DEF Piece
    <3> QED BY <1>1, <1>3, <3>1
  <2>4. f + n = l + 1
    BY <1>3
  <2> HIDE DEF f
  <2> QED BY <2>2, <2>3, <2>4
<1>7. PICK fs2 : IsChanged(fs2, fs, C + 2, f + n)
  <2> DEFINE m == C + 2
             v == f + n
  <2>1. m \in Nat /\ v \in Nat /\ fs \in Table
    BY <1>1, <1>3, <1>6
  <2> HIDE DEF m, v
  <2>2. \E c : IsChanged(c, fs, m, v)
    BY <2>1, Changed
  <2> QED BY <2>2 DEF m, v
<1>8. PICK off2 : IsChanged(off2, off, l + 1, 0)
  <2> DEFINE m == l + 1
  <2>1. m \in Nat /\ 0 \in Nat /\ off \in Table
    BY <1>3
  <2> HIDE DEF m
  <2>2. \E c : IsChanged(c, off, m, 0)
    BY <2>1, Changed
  <2> QED BY <2>2 DEF m
<1>9. Counted(stsc2, C + 1, fs2)
  <2>1. n \in Nat \ {0}
    BY <1>6
  <2> QED BY <1>1, <1>3, <1>7, <2>1, CountedLonger DEF stsc2, f
<1>10. off2 \in Table /\ off2[l + 1] = 0 /\ \A k \in 1..l : off2[k] = off[k]
  <2>1. \A k \in 1..l : k \in Nat /\ k # l + 1
    OBVIOUS
  <2> QED BY <1>8, <2>1 DEF IsChanged
<1>11. fs2[C + 2] = l + 1 /\ \A c \in 1..(C + 1) : fs2[c] = fs[c]
  <2>1. \A c \in 1..(C + 1) : c \in Nat /\ c # C + 2
    BY <1>1
  <2> QED BY <1>6, <1>7, <2>1 DEF IsChanged
<1>12. ASSUME NEW c \in 1..C PROVE Piece(file2, stco2[c], off2, L, fs2[c], fs2[c + 1])
  <2>1. fs[c] \in Nat /\ fs[c + 1] \in Nat /\ 1 <= fs[c] /\ fs[c] < fs[c + 1] /\ fs[c + 1] <= l + 1
    <3>1. c \in 1..(C + 1) /\ c + 1 \in 1..(C + 1) /\ c + 1 \in (c + 1)..(C + 1)
      BY <1>1
    <3>2. fs[c] < fs[c + 1]
      BY <1>3, <3>1
    <3>3. fs[c] \in Nat /\ 1 <= fs[c] /\ fs[c + 1] \in Nat /\ fs[c + 1] <= f
      BY <1>2, <3>1 DEF FirstOK
    <3> QED BY <1>6, <3>2, <3>3
  <2>2. Same(off2, off, fs[c], fs[c + 1] - 1) /\ off2[fs[c]] = off[fs[c]]
    <3>1. (\A k \in fs[c]..(fs[c + 1] - 1) : k \in 1..l) /\ fs[c] \in 1..l
      BY <2>1
    <3> QED BY <1>10, <3>1 DEF Same
  <2>3. Same(L, L, fs[c], fs[c + 1] - 1)
    BY DEF Same
  <2>4. Piece(file, stco[c], off, L, fs[c], fs[c + 1])
    BY <1>3
  <2>5. Len(file2) \in Nat /\ Len(file) <= Len(file2)
    BY <1>1, <1>5
  <2>6. Piece(file2, stco[c], off2, L, fs[c], fs[c + 1])
    BY <1>1, <1>5, <2>1, <2>2, <2>3, <2>4, <2>5, PieceKept
  <2>7. fs2[c] = fs[c] /\ fs2[c + 1] = fs[c + 1] /\ stco2[c] = stco[c]
    <3>1. c \in 1..(C + 1) /\ c + 1 \in 1..(C + 1)
      BY <1>1
    <3> QED BY <1>4, <1>11, <3>1
  <2> QED BY <2>6, <2>7
<1>13. Piece(file2, Len(file), off2, L, f, l + 1)
  <2>1. Piece(buffer, 0, off, L, f, l + 1) /\ l + 1 \in Nat
    BY <1>3
  <2> HIDE DEF f
  <2>2. \A k \in f..((l + 1) - 1) : off[k] \in Nat
    <3>1. \A k \in f..((l + 1) - 1) : k \in Nat
      BY <1>6
    <3> QED BY <1>2, <3>1
  <2>3. Piece(file2, Len(file), off, L, f, l + 1)
    BY <1>6, <2>1, <2>2, PieceMoved DEF file2
  <2>4. Same(off2, off, f, (l + 1) - 1) /\ off2[f] = off[f]
    <3>1. (\A k \in f..((l + 1) - 1) : k \in 1..l) /\ f \in 1..l
      BY <1>6
    <3> QED BY <1>10, <3>1 DEF Same
  <2>5. Same(L, L, f, (l + 1) - 1) /\ Same(file2, file2, 1, Len(file2))
    BY DEF Same
  <2>6. Len(file2) \in Nat /\ Len(file2) <= Len(file2)
    BY <1>1, <1>5
  <2> QED BY <1>6, <2>1, <2>3, <2>4, <2>5, <2>6, PieceKept
<1>14. ASSUME NEW c \in 1..(C + 1) PROVE Piece(file2, stco2[c], off2, L, fs2[c], fs2[c + 1])
  <2>1. CASE c = C + 1
    <3>1. fs2[c] = f /\ fs2[c + 1] = l + 1 /\ stco2[c] = Len(file)
      <4>1. c \in 1..(C + 1) /\ c + 1 = C + 2
        BY <1>1, <2>1
      <4> QED BY <1>4, <1>11, <2>1, <4>1
    <3> QED BY <1>13, <3>1
  <2>2. CASE c \in 1..C
    BY <1>12, <2>2
  <2> QED BY <1>4, <2>1, <2>2
<1>15. Piece(<<>>, 0, off2, L, l + 1, l + 1)
  <2>1. \A k \in (l + 1)..((l + 1) - 1) : FALSE
    OBVIOUS
  <2>2. \A k \in (l + 1)..((l + 1) - 2) : FALSE
    OBVIOUS
  <2> QED BY <1>10, <2>1, <2>2 DEF Piece
<1>16. fs2[(C + 1) + 1] = l + 1 /\ Len(<<>>) = 0 /\ (l + 1) + 0 = l + 1
       /\ \A k \in (l + 1)..l : FALSE
  <2>1. (C + 1) + 1 = C + 2
    BY <1>1
  <2> QED BY <1>11, <2>1
<1>17. Placed(stsc2, stco2, <<>>, 0, file2, L, l, fs2, off2)
  BY <1>4, <1>9, <1>10, <1>14, <1>15, <1>16 DEF Placed
<1> QED
  BY <1>17 DEF stsc2, stco2, file2, C

(***************************************************************************)
(* Writing.                                                                *)
(***************************************************************************)

\* The buffer and the chunks do not matter to the other tables.
LEMMA ListedAlike ==
    ASSUME NEW t, NEW L, Listed(t, L), NEW u \in Trak,
           u.fixed = t.fixed, u.sizes = t.sizes, u.count = t.count, u.stts = t.stts, u.stss = t.stss
    PROVE  Listed(u, L)
BY DEF Listed, SizesOK

\* A buffer with bytes in it has a sample in it, and makes a chunk of at
\* least one.
LEMMA SamplesBuffered ==
    ASSUME NEW stsc, NEW stco, NEW buffer \in Seq(Cell), buffer # <<>>, NEW n \in Nat, NEW file,
           NEW L, NEW l \in Nat, NEW fs, NEW off, Len(stco) \in Nat,
           Placed(stsc, stco, buffer, n, file, L, l, fs, off)
    PROVE  n \in Nat \ {0}
<1>1. /\ off[l + 1] = Len(buffer) /\ fs[Len(stco) + 1] + n = l + 1 /\ off[fs[Len(stco) + 1]] = 0
      /\ \A k \in Nat : fs[k] \in Nat
  <2>1. \A k \in Nat : fs[k] \in Nat
    BY ChunksInOrder
  <2>2. off[l + 1] = Len(buffer) /\ fs[Len(stco) + 1] + n = l + 1 /\ off[fs[Len(stco) + 1]] = 0
    BY DEF Placed, Piece
  <2> QED BY <2>1, <2>2
<1>2. fs[Len(stco) + 1] \in Nat /\ Len(buffer) \in Nat /\ Len(buffer) > 0
  BY <1>1, EmptySeq, LenProperties
<1>3. fs[Len(stco) + 1] # l + 1
  BY <1>1, <1>2
<1> QED
  BY <1>1, <1>2, <1>3

\* A file that begins with another.
Extends(file2, file) ==
    file2 \in Seq(Cell) /\ Len(file) <= Len(file2) /\ Same(file2, file, 1, Len(file))

\* Appending extends a file.
LEMMA ExtendedBy ==
    ASSUME NEW file \in Seq(Cell), NEW more \in Seq(Cell)
    PROVE  Extends(file, file) /\ Extends(file \o more, file)
<1>1. file \o more \in Seq(Cell) /\ Len(file \o more) = Len(file) + Len(more)
      /\ Len(file) \in Nat /\ Len(more) \in Nat /\ \A i \in 1..Len(file) : (file \o more)[i] = file[i]
  OBVIOUS
<1>2. Len(file) <= Len(file) /\ Len(file) <= Len(file \o more)
  BY <1>1
<1> QED
  BY <1>1, <1>2 DEF Extends, Same

\* Extending twice is extending.
LEMMA ExtendsBoth ==
    ASSUME NEW f \in Seq(Cell), NEW g, NEW h, Extends(g, f), Extends(h, g)
    PROVE  Extends(h, f)
<1>1. Len(f) \in Nat /\ Len(g) \in Nat /\ Len(h) \in Nat
  BY LenProperties DEF Extends
<1>2. Len(f) <= Len(g) /\ Len(g) <= Len(h)
  BY DEF Extends
<1>3. ASSUME NEW i \in 1..Len(f) PROVE h[i] = f[i]
  <2>1. i \in 1..Len(g)
    BY <1>1, <1>2
  <2> QED BY <2>1 DEF Extends, Same
<1> QED
  BY <1>1, <1>2, <1>3 DEF Extends, Same

\* The samples of a track stay where they are when the file grows.
LEMMA StoredStays ==
    ASSUME NEW t \in Trak, NEW file \in Seq(Cell), NEW L \in Seq(Entry), Stored(t, file, L),
           NEW file2, Extends(file2, file)
    PROVE  Stored(t, file2, L)
<1>1. PICK fs, off : Placed(t.stsc, t.stco, t.buffer, t.chunkSamples, file, L, Len(L), fs, off)
  BY DEF Stored
<1>2. Len(t.stco) \in Nat /\ t.chunkSamples \in Nat /\ Len(L) \in Nat /\ Len(file) \in Nat
  BY LenProperties DEF Trak
<1>3. Len(file2) \in Nat /\ Len(file) <= Len(file2) /\ Same(file2, file, 1, Len(file))
  BY LenProperties DEF Extends
<1>4. Placed(t.stsc, t.stco, t.buffer, t.chunkSamples, file2, L, Len(L), fs, off)
  BY <1>1, <1>2, <1>3, FileLonger
<1> QED
  BY <1>4 DEF Stored

\* WriteChunkBuffer keeps all of it.
LEMMA BufferWritten ==
    ASSUME NEW t \in Trak, NEW file \in Seq(Cell), NEW L \in Seq(Entry),
           Listed(t, L), Stored(t, file, L)
    PROVE  LET w == WriteChunkBuffer(t, file) IN
           /\ Listed(w.trak, L) /\ Stored(w.trak, w.file, L) /\ Extends(w.file, file)
           /\ w.trak.buffer = <<>> /\ w.trak.cache = t.cache
           /\ w.trak.writeSampleId = t.writeSampleId
<1> DEFINE w == WriteChunkBuffer(t, file)
<1>1. CASE t.buffer = <<>>
  <2>1. w.trak = t /\ w.file = file
    BY <1>1 DEF WriteChunkBuffer
  <2> HIDE DEF w
  <2>2. Extends(file, file)
    BY ExtendedBy
  <2> QED BY <1>1, <2>1, <2>2 DEF w
<1>2. CASE t.buffer # <<>>
  <2> DEFINE n == t.chunkSamples
             q == t.writeSampleId - n + 1
             A == NextRuns(t.stsc, Len(t.stco), n, q)
             B == Append(t.stco, Len(file))
             u == [t EXCEPT !.stsc = A, !.stco = B, !.buffer = <<>>,
                            !.chunkSamples = 0, !.chunkDuration = 0]
  <2>1. PICK fs, off : Placed(t.stsc, t.stco, t.buffer, n, file, L, Len(L), fs, off)
    BY DEF Stored
  <2>2. /\ t.stsc \in Seq(Chunks) /\ t.stco \in Seq(Nat) /\ t.buffer \in Seq(Cell) /\ n \in Nat
        /\ t.writeSampleId \in Nat /\ Len(L) \in Nat /\ Len(t.stco) \in Nat /\ Len(file) \in Nat
    BY LenProperties DEF Trak
  <2>3. n \in Nat \ {0} /\ q \in Int
    <3>1. q \in Int
      BY <2>2
    <3> HIDE DEF n, q
    <3> QED BY <1>2, <2>1, <2>2, <3>1, SamplesBuffered
  <2>4. A \in Seq(Chunks) /\ B \in Seq(Nat)
    <3>1. Len(t.stco) + 1 \in Nat \ {0}
      BY <2>2
    <3> HIDE DEF n, q
    <3>2. [firstChunk |-> Len(t.stco) + 1, samplesPerChunk |-> n, firstSample |-> q] \in Chunks
      BY <2>3, <3>1, Zenon DEF Chunks
    <3> QED BY <2>2, <3>2 DEF NextRuns
  <2>5. UpdateSampleToChunk(t) = [t EXCEPT !.stsc = A]
    <3>1. CASE Len(t.stsc) > 0 /\ n = t.stsc[Len(t.stsc)].samplesPerChunk
      BY <3>1 DEF UpdateSampleToChunk, NextRuns, Trak
    <3>2. CASE ~ (Len(t.stsc) > 0 /\ n = t.stsc[Len(t.stsc)].samplesPerChunk)
      BY <3>2 DEF UpdateSampleToChunk, NextRuns, Trak
    <3> QED BY <3>1, <3>2
  <2> HIDE DEF A, B
  <2>6. w.trak = u /\ w.file = file \o t.buffer
    BY <1>2, <2>5 DEF WriteChunkBuffer, Trak, B
  <2>7. u \in Trak
    <3>1. <<>> \in Seq(Cell) /\ 0 \in Nat
      OBVIOUS
    <3> QED BY <2>4, <3>1, Zenon DEF Trak
  <2>8. /\ u.fixed = t.fixed /\ u.sizes = t.sizes /\ u.count = t.count /\ u.stts = t.stts
        /\ u.stss = t.stss /\ u.stsc = A /\ u.stco = B /\ u.buffer = <<>> /\ u.chunkSamples = 0
        /\ u.cache = t.cache /\ u.writeSampleId = t.writeSampleId
    BY DEF Trak
  <2> HIDE DEF u, w
  <2>9. Stored(u, w.file, L)
    <3>1. \E fs2, off2 : Placed(A, B, <<>>, 0, file \o t.buffer, L, Len(L), fs2, off2)
      <4> HIDE DEF n, q
      <4> QED BY <1>2, <2>1, <2>2, <2>3, ChunkWritten DEF A, B
    <3> QED BY <2>6, <2>8, <3>1 DEF Stored
  <2>10. Listed(u, L)
    BY <2>7, <2>8, ListedAlike
  <2>11. Extends(w.file, file)
    BY <2>2, <2>6, ExtendedBy
  <2> QED BY <2>6, <2>8, <2>9, <2>10, <2>11 DEF w
<1> QED
  BY <1>1, <1>2

\* A sample that does not say its duration gets one.
LEMMA DurationOK ==
    ASSUME NEW t \in Trak, NEW d0 \in Nat
    PROVE  EffectiveDuration(t, d0) \in Nat
<1>1. U64 \in Nat /\ U64 > 1 /\ t.stts \in Seq(Run) /\ t.fixedDuration \in Nat
  BY WidthsAssumption DEF Trak
<1>2. Len(t.stts) = 1 => t.stts[1].delta \in Nat
  <2> SUFFICES ASSUME Len(t.stts) = 1 PROVE t.stts[1].delta \in Nat
    OBVIOUS
  <2>1. t.stts[1] \in Run
    BY <1>1, ElementOfSeq
  <2> QED BY <2>1, WidthsAssumption DEF Run
<1>3. MP4_INVALID_DURATION \in Nat
  BY <1>1 DEF MP4_INVALID_DURATION
<1>4. GetFixedSampleDuration(t) \in Nat
  BY <1>1, <1>2, <1>3 DEF GetFixedSampleDuration
<1> QED
  BY <1>4 DEF EffectiveDuration

\* WriteSample adds the sample to all the tables, and moves none of those in
\* the file, of whatever track.
LEMMA SampleWritten ==
    ASSUME NEW t, NEW file \in Seq(Cell), NEW L, Written(t, file, L),
           NEW e \in Entry, NEW d0 \in Nat, e.duration = EffectiveDuration(t, d0) % U32
    PROVE  LET w == WriteSample(t, file, e.bytes, d0, e.sync) IN
           Written(w.trak, w.file, Append(L, e)) /\ Extends(w.file, file)
<1> DEFINE d == EffectiveDuration(t, d0)
           bytes == e.bytes
           l == Len(L)
           L2 == Append(L, e)
           B == t.buffer \o bytes
           dur == (t.chunkDuration + d) % U64
           t1 == [t EXCEPT !.buffer = B, !.chunkSamples = t.chunkSamples + 1, !.chunkDuration = dur]
           t2 == UpdateSampleSizes(t1, Len(bytes))
           t3 == UpdateSampleTimes(t2, d)
           t4 == UpdateSyncSamples(t3, e.sync)
           w4 == IF IsChunkFull(t4) THEN WriteChunkBuffer(t4, file) ELSE [trak |-> t4, file |-> file]
           w == WriteSample(t, file, e.bytes, d0, e.sync)
<1>1. /\ t \in Trak /\ L \in Seq(Entry) /\ SizesOK(t, L) /\ SyncOK(t.stss, L) /\ Stored(t, file, L)
      /\ t.writeSampleId = l + 1 /\ t.cache.sid = 0
  BY DEF Written, Listed
<1>2. PICK b : Timed(t.stts, L, l, b)
  BY DEF Written, Listed
<1>3. /\ L2 \in Seq(Entry) /\ Len(L2) = l + 1 /\ l \in Nat /\ L2[l + 1] = e
      /\ \A i \in 1..l : L2[i] = L[i]
  BY <1>1, OneMore
<1>4. /\ d \in Nat /\ bytes \in Seq(Cell) /\ e.sync \in BOOLEAN /\ e.duration \in 0..(U32 - 1)
      /\ Len(bytes) \in Nat
  <2>1. bytes \in Seq(Cell) /\ e.sync \in BOOLEAN /\ e.duration \in 0..(U32 - 1)
    BY DEF Entry
  <2> QED BY <1>1, <2>1, DurationOK, LenProperties
<1>5. t1 \in Trak
  <2>1. B \in Seq(Cell)
    BY <1>1, <1>4 DEF Trak
  <2>2. t.chunkSamples + 1 \in Nat
    BY <1>1 DEF Trak
  <2>3. dur \in Nat
    <3>1. t.chunkDuration \in Nat /\ U64 \in Nat /\ U64 > 0
      BY <1>1, WidthsAssumption DEF Trak
    <3>2. \A x, y \in Nat : y > 0 => x % y \in Nat
      OBVIOUS
    <3>3. t.chunkDuration + d \in Nat
      BY <1>4, <3>1
    <3> HIDE DEF d
    <3> QED BY <3>1, <3>2, <3>3
  <2> HIDE DEF B, dur
  <2> QED BY <1>1, <2>1, <2>2, <2>3, Zenon DEF Trak
<1>6. /\ t1.buffer = B /\ t1.chunkSamples = t.chunkSamples + 1 /\ t1.fixed = t.fixed
      /\ t1.sizes = t.sizes /\ t1.count = t.count /\ t1.stts = t.stts /\ t1.stss = t.stss
      /\ t1.stsc = t.stsc /\ t1.stco = t.stco /\ t1.writeSampleId = t.writeSampleId
      /\ t1.cache = t.cache
  BY <1>1 DEF Trak
<1> HIDE DEF d, bytes, l, L2, B, dur, t1
<1>7. /\ t2 \in Trak /\ t2.count = t1.count + 1
      /\ t2 = [t1 EXCEPT !.count = t2.count, !.fixed = t2.fixed, !.sizes = t2.sizes]
  BY <1>4, <1>5, SizesFields
<1>8. SizesOK(t2, L2)
  <2>1. SizesOK(t1, L)
    BY <1>1, <1>6 DEF SizesOK
  <2>2. t1.writeSampleId = Len(L) + 1
    BY <1>1, <1>6 DEF l
  <2> QED BY <1>1, <1>5, <2>1, <2>2, SizesKept DEF bytes, L2
<1> HIDE DEF t2
<1>9. /\ t2.buffer = B /\ t2.chunkSamples = t.chunkSamples + 1 /\ t2.stts = t.stts /\ t2.stss = t.stss
      /\ t2.stsc = t.stsc /\ t2.stco = t.stco /\ t2.writeSampleId = l + 1 /\ t2.cache = t.cache
  BY <1>1, <1>5, <1>6, <1>7 DEF Trak
<1>10. t2.count = l + 1
  BY <1>3, <1>8 DEF SizesOK
<1> DEFINE r == [count |-> 1, delta |-> d % U32]
           stts2 == IF Len(t.stts) > 0 /\ d = t.stts[Len(t.stts)].delta
                    THEN [t.stts EXCEPT ![Len(t.stts)].count = @ + 1] ELSE Append(t.stts, r)
<1>11. t3 \in Trak /\ t3 = [t2 EXCEPT !.stts = t3.stts] /\ t3.stts = stts2
  <2>1. t2 \in Trak /\ d \in Nat
    BY <1>4, <1>7
  <2>2. /\ t3 \in Trak /\ t3 = [t2 EXCEPT !.stts = t3.stts]
        /\ t3.stts = IF Len(t2.stts) > 0 /\ d = t2.stts[Len(t2.stts)].delta
                     THEN [t2.stts EXCEPT ![Len(t2.stts)].count = @ + 1] ELSE Append(t2.stts, r)
    BY <2>1, TimesFields
  <2>3. t2.stts = t.stts
    BY <1>9
  <2> HIDE DEF t3, r
  <2> QED BY <2>2, <2>3
<1>12. \E c : Timed(stts2, L2, l + 1, c)
  <2>1. r \in Run /\ r.count = 1 /\ r.delta = e.duration
    <3>1. r.count = 1 /\ r.delta = e.duration
      BY DEF d
    <3>2. 1 \in Nat \ {0} /\ d % U32 \in 0..(U32 - 1)
      BY <1>4 DEF d
    <3> QED BY <3>1, <3>2, Zenon DEF Run
  <2>2. \A i \in 1..Len(t.stts) : d = t.stts[i].delta => r.delta = d
    <3> SUFFICES ASSUME NEW i \in 1..Len(t.stts), d = t.stts[i].delta PROVE d % U32 = d
      OBVIOUS
    <3>1. t.stts[i] \in Run
      <4>1. t.stts \in Seq(Run)
        BY <1>1 DEF Trak
      <4> QED BY <4>1, ElementOfSeq
    <3>2. d \in 0..(U32 - 1)
      BY <3>1 DEF Run
    <3>3. \A x, y \in Nat : x < y => x % y = x
      OBVIOUS
    <3>4. d \in Nat /\ U32 \in Nat /\ d < U32
      BY <3>2, WidthsAssumption
    <3> QED BY <3>3, <3>4
  <2>3. OneLonger(t.stts, d, r, L, L2, l)
    BY <1>3, <2>1, <2>2 DEF OneLonger
  <2>4. t.stts \in Seq(Run)
    BY <1>1 DEF Trak
  <2> HIDE DEF r
  <2> QED BY <1>2, <1>3, <2>1, <2>3, <2>4, TimesKept
<1> HIDE DEF t3, stts2
<1>13. /\ t3.buffer = B /\ t3.chunkSamples = t.chunkSamples + 1 /\ t3.stss = t.stss
       /\ t3.stsc = t.stsc /\ t3.stco = t.stco /\ t3.writeSampleId = l + 1 /\ t3.cache = t.cache
       /\ t3.count = l + 1 /\ t3.fixed = t2.fixed /\ t3.sizes = t2.sizes
  BY <1>7, <1>9, <1>10, <1>11 DEF Trak
<1>14. /\ t4 \in Trak /\ t4 = [t3 EXCEPT !.stss = t4.stss]
       /\ t4.stss = IF e.sync /\ t.stss # NoStss THEN Append(t.stss, l + 1)
                    ELSE IF ~ e.sync /\ t.stss = NoStss THEN [i \in 1..((l + 1) - 1) |-> i]
                    ELSE t.stss
  BY <1>4, <1>11, <1>13, SyncFields
<1> HIDE DEF t4
<1>15. SyncOK(t4.stss, L2)
  <2>1. t.stss \in Seq(Nat)
    BY <1>1 DEF Trak
  <2> QED BY <1>1, <1>14, <2>1, SyncKept DEF l, L2
<1>16. /\ t4.buffer = B /\ t4.chunkSamples = t.chunkSamples + 1 /\ t4.stts = stts2
       /\ t4.stsc = t.stsc /\ t4.stco = t.stco /\ t4.writeSampleId = l + 1 /\ t4.cache = t.cache
       /\ t4.count = t2.count /\ t4.fixed = t2.fixed /\ t4.sizes = t2.sizes
  BY <1>10, <1>11, <1>13, <1>14 DEF Trak
<1>17. Listed(t4, L2)
  <2>1. SizesOK(t4, L2)
    BY <1>8, <1>16 DEF SizesOK
  <2>2. \E c : Timed(t4.stts, L2, Len(L2), c)
    BY <1>3, <1>12, <1>16
  <2> QED BY <1>3, <1>14, <1>15, <2>1, <2>2 DEF Listed
<1>18. Stored(t4, file, L2)
  <2>1. PICK fs, off : Placed(t.stsc, t.stco, t.buffer, t.chunkSamples, file, L, l, fs, off)
    BY <1>1 DEF Stored, l
  <2>2. Same(L2, L, 1, l) /\ L2[l + 1].bytes = bytes
    BY <1>3 DEF Same, bytes
  <2>3. Len(t.stco) \in Nat /\ t.chunkSamples \in Nat /\ Len(file) \in Nat /\ t.buffer \in Seq(Cell)
    BY <1>1, LenProperties DEF Trak
  <2>4. \E off2 : Placed(t.stsc, t.stco, t.buffer \o bytes, t.chunkSamples + 1, file, L2, l + 1, fs, off2)
    BY <1>3, <1>4, <2>1, <2>2, <2>3, PlacedLonger
  <2> QED BY <1>3, <1>16, <2>4 DEF Stored, B
<1>19. /\ Listed(w4.trak, L2) /\ Stored(w4.trak, w4.file, L2) /\ Extends(w4.file, file)
       /\ w4.trak.cache = t.cache /\ w4.trak.writeSampleId = l + 1
  <2>1. CASE IsChunkFull(t4)
    <3>1. w4 = WriteChunkBuffer(t4, file)
      BY <2>1
    <3> HIDE DEF w4
    <3> QED BY <1>3, <1>14, <1>16, <1>17, <1>18, <3>1, BufferWritten
  <2>2. CASE ~ IsChunkFull(t4)
    <3>1. w4.trak = t4 /\ w4.file = file
      BY <2>2
    <3> HIDE DEF w4
    <3> QED BY <1>16, <1>17, <1>18, <3>1, ExtendedBy
  <2> QED BY <2>1, <2>2
<1>20. w = [w4 EXCEPT !.trak.writeSampleId = @ + 1]
  BY DEF WriteSample, w4, t4, t3, t2, t1, B, dur, d, bytes
<1>21. w.trak = [w4.trak EXCEPT !.writeSampleId = (l + 1) + 1] /\ w.file = w4.file
  <2>1. CASE IsChunkFull(t4)
    <3>1. CASE t4.buffer = <<>>
      <4>1. w4 = [trak |-> t4, file |-> file]
        BY <2>1, <3>1 DEF WriteChunkBuffer
      <4> HIDE DEF w, w4
      <4> QED BY <1>19, <1>20, <4>1
    <3>2. CASE t4.buffer # <<>>
      <4> DEFINE x == [UpdateSampleToChunk(t4) EXCEPT
                         !.stco = Append(@, Len(file)),
                         !.buffer = <<>>, !.chunkSamples = 0, !.chunkDuration = 0]
      <4>1. w4 = [trak |-> x, file |-> file \o t4.buffer]
        BY <2>1, <3>2 DEF WriteChunkBuffer
      <4> HIDE DEF w, w4, x
      <4> QED BY <1>19, <1>20, <4>1
    <3> QED BY <3>1, <3>2
  <2>2. CASE ~ IsChunkFull(t4)
    <3>1. w4 = [trak |-> t4, file |-> file]
      BY <2>2
    <3> HIDE DEF w, w4
    <3> QED BY <1>19, <1>20, <3>1
  <2> QED BY <2>1, <2>2
<1> HIDE DEF w, w4
<1> DEFINE u == w4.trak
           v == [u EXCEPT !.writeSampleId = (l + 1) + 1]
<1>22. u \in Trak
  BY <1>19 DEF Listed
<1>23. /\ v.fixed = u.fixed /\ v.sizes = u.sizes /\ v.count = u.count /\ v.stts = u.stts
       /\ v.stss = u.stss /\ v.stsc = u.stsc /\ v.stco = u.stco /\ v.buffer = u.buffer
       /\ v.chunkSamples = u.chunkSamples /\ v.cache = u.cache /\ v.writeSampleId = (l + 1) + 1
  <2> HIDE DEF u
  <2> QED BY <1>22 DEF Trak
<1>24. v \in Trak
  <2>1. (l + 1) + 1 \in Nat
    BY <1>3
  <2> HIDE DEF u
  <2> QED BY <1>22, <2>1, Zenon DEF Trak
<1>25. w.trak = v
  BY <1>21
<1> HIDE DEF v
<1>26. Listed(v, L2)
  <2>1. Listed(u, L2)
    BY <1>19
  <2> HIDE DEF u
  <2> QED BY <1>23, <1>24, <2>1, ListedAlike
<1>27. Stored(v, w.file, L2)
  BY <1>19, <1>21, <1>23 DEF Stored
<1>28. Written(w.trak, w.file, L2)
  BY <1>1, <1>3, <1>19, <1>23, <1>25, <1>26, <1>27 DEF Written
<1> QED
  BY <1>19, <1>21, <1>28 DEF w, L2

(***************************************************************************)
(* The times that are read.                                                *)
(***************************************************************************)

\* A sum grows by the next value.
LEMMA TotalStep ==
    ASSUME NEW value, NEW from \in Int, NEW to \in Int, from <= to,
           \A i \in from..to : value[i] \in Int
    PROVE  /\ Total(value, from, to) \in Int
           /\ Total(value, from, to + 1) = Total(value, from, to) + value[to]
           /\ Total(value, from, from) = 0
<1>1. PICK f : f = [i \in from..(from + ((to + 1) - from)) |->
                      IF i = from THEN 0 ELSE f[i - 1] + value[i - 1]]
  <2>1. (to + 1) - from \in Nat
    OBVIOUS
  <2> QED BY <2>1, SumLoop
<1>2. from + ((to + 1) - from) = to + 1
  OBVIOUS
<1>3. \A i \in from..(to + 1) : f[i] = IF i = from THEN 0 ELSE f[i - 1] + value[i - 1]
  BY <1>1, <1>2, Zenon
<1>4. f[from] = 0 /\ \A i \in from..to : f[i + 1] = f[i] + value[i]
  <2>1. from \in from..(to + 1)
    OBVIOUS
  <2>2. ASSUME NEW i \in from..to PROVE f[i + 1] = f[i] + value[i]
    <3>1. i + 1 \in from..(to + 1) /\ i + 1 # from /\ (i + 1) - 1 = i
      OBVIOUS
    <3> QED BY <1>3, <3>1
  <2>3. f[from] = 0
    BY <1>3, <2>1, Zenon
  <2> QED BY <2>2, <2>3
<1>5. \A n \in Nat : from + n <= to + 1 => f[from + n] \in Int
  <2> DEFINE Q == {n \in Nat : from + n <= to + 1 => f[from + n] \in Int}
  <2>1. 0 \in Q
    <3>1. from + 0 = from
      OBVIOUS
    <3> QED BY <1>4, <3>1
  <2>2. ASSUME NEW n \in Nat, n \in Q PROVE n + 1 \in Q
    <3> SUFFICES ASSUME from + (n + 1) <= to + 1 PROVE f[from + (n + 1)] \in Int
      OBVIOUS
    <3>1. from + n \in from..to /\ from + n <= to + 1 /\ from + (n + 1) = (from + n) + 1
      OBVIOUS
    <3>2. f[from + n] \in Int /\ value[from + n] \in Int
      BY <2>2, <3>1
    <3>3. f[(from + n) + 1] = f[from + n] + value[from + n]
      BY <1>4, <3>1
    <3> QED BY <3>1, <3>2, <3>3
  <2> HIDE DEF Q
  <2>3. \A n \in Nat : n \in Q
    BY <2>1, <2>2, Induction
  <2> QED BY <2>3 DEF Q
<1>6. \A i \in from..(to + 1) : f[i] \in Int
  <2> SUFFICES ASSUME NEW i \in from..(to + 1) PROVE f[i] \in Int
    OBVIOUS
  <2>1. i - from \in Nat /\ from + (i - from) = i /\ i <= to + 1
    OBVIOUS
  <2> QED BY <1>5, <2>1
<1>7. Total(value, from, to) = f[to] - f[from]
  <2>1. /\ \A i \in from..to : f[i] \in Int
        /\ \A i \in from..(to - 1) : value[i] \in Int /\ f[i + 1] = f[i] + value[i]
    BY <1>4, <1>6
  <2> QED BY <2>1, TotalBy
<1>8. Total(value, from, to + 1) = f[to + 1] - f[from]
  <2>1. /\ \A i \in from..(to + 1) : f[i] \in Int
        /\ \A i \in from..((to + 1) - 1) : value[i] \in Int /\ f[i + 1] = f[i] + value[i]
    BY <1>4, <1>6
  <2>2. to + 1 \in Int /\ from <= to + 1
    OBVIOUS
  <2> QED BY <2>1, <2>2, TotalBy
<1>9. Total(value, from, from) = f[from] - f[from]
  <2>1. /\ \A i \in from..from : f[i] \in Int
        /\ \A i \in from..(from - 1) : value[i] \in Int /\ f[i + 1] = f[i] + value[i]
    BY <1>4, <1>6
  <2> QED BY <2>1, TotalBy
<1>10. f[to] \in Int /\ f[to + 1] = f[to] + value[to] /\ value[to] \in Int
  <2>1. to \in from..to /\ to \in from..(to + 1)
    OBVIOUS
  <2> QED BY <1>4, <1>6, <2>1
<1> QED
  BY <1>4, <1>7, <1>8, <1>9, <1>10

\* A sum in two parts.
LEMMA TotalSplit ==
    ASSUME NEW value, NEW from \in Int, NEW mid \in Int, NEW to \in Int, from <= mid, mid <= to,
           \A i \in from..(to - 1) : value[i] \in Int
    PROVE  /\ Total(value, from, to) = Total(value, from, mid) + Total(value, mid, to)
           /\ Total(value, from, to) \in Int /\ Total(value, from, mid) \in Int
           /\ Total(value, mid, to) \in Int
<1>1. \A i \in from..to : Total(value, from, i) \in Int
  <2> SUFFICES ASSUME NEW i \in from..to PROVE Total(value, from, i) \in Int
    OBVIOUS
  <2>1. CASE i = from
    <3>1. CASE from <= to - 1
      <4>1. \A j \in from..from : value[j] \in Int
        BY <3>1
      <4> QED BY <2>1, <4>1, TotalStep
    <3>2. CASE ~ (from <= to - 1)
      <4> DEFINE S == [j \in from..from |-> 0]
      <4>1. (\A j \in from..from : S[j] \in Int) /\ \A j \in from..(from - 1) : FALSE
        OBVIOUS
      <4>2. S[from] = 0
        OBVIOUS
      <4> HIDE DEF S
      <4>3. Total(value, from, from) = S[from] - S[from]
        BY <4>1, TotalBy
      <4> QED BY <2>1, <4>2, <4>3
    <3> QED BY <3>1, <3>2
  <2>2. CASE i # from
    <3>1. i - 1 \in Int /\ from <= i - 1 /\ (i - 1) + 1 = i /\ i - 1 \in from..(i - 1)
          /\ \A j \in from..(i - 1) : value[j] \in Int
      BY <2>2
    <3>2. Total(value, from, i - 1) \in Int
          /\ Total(value, from, (i - 1) + 1) = Total(value, from, i - 1) + value[i - 1]
      BY <3>1, TotalStep
    <3>3. value[i - 1] \in Int
      BY <3>1
    <3> QED BY <3>1, <3>2, <3>3
  <2> QED BY <2>1, <2>2
<1> DEFINE S == [i \in from..to |-> Total(value, from, i)]
<1>2. \A i \in from..to : S[i] = Total(value, from, i)
  OBVIOUS
<1> HIDE DEF S
<1>3. ASSUME NEW i \in mid..(to - 1) PROVE value[i] \in Int /\ S[i + 1] = S[i] + value[i]
  <2>1. i \in from..to /\ i + 1 \in from..to /\ i \in from..(to - 1) /\ i \in Int /\ from <= i
        /\ \A j \in from..i : value[j] \in Int
    OBVIOUS
  <2>2. Total(value, from, i + 1) = Total(value, from, i) + value[i]
    BY <2>1, TotalStep
  <2> QED BY <1>2, <2>1, <2>2
<1>4. \A i \in mid..to : S[i] \in Int
  <2>1. \A i \in mid..to : i \in from..to
    OBVIOUS
  <2> QED BY <1>1, <1>2, <2>1
<1>5. Total(value, mid, to) = S[to] - S[mid]
  BY <1>3, <1>4, TotalBy
<1>6. S[to] = Total(value, from, to) /\ S[mid] = Total(value, from, mid)
      /\ Total(value, from, to) \in Int /\ Total(value, from, mid) \in Int
  <2>1. to \in from..to /\ mid \in from..to
    OBVIOUS
  <2> QED BY <1>1, <1>2, <2>1
<1> QED
  BY <1>5, <1>6

\* The least element of a set of numbers.
LEMMA MinOf ==
    ASSUME NEW S, S \subseteq Nat, S # {}
    PROVE  Min(S) \in S /\ \A x \in S : Min(S) <= x
<1>1. \E x \in S : \A y \in S : x <= y
  <2> DEFINE Q == {n \in Nat : (\E x \in S : x <= n) => \E x \in S : \A y \in S : x <= y}
  <2>1. 0 \in Q
    <3> SUFFICES ASSUME NEW x \in S, x <= 0 PROVE \A y \in S : x <= y
      OBVIOUS
    <3> QED OBVIOUS
  <2>2. ASSUME NEW n \in Nat, n \in Q PROVE n + 1 \in Q
    <3> SUFFICES ASSUME NEW x \in S, x <= n + 1 PROVE \E z \in S : \A y \in S : z <= y
      OBVIOUS
    <3>1. CASE \E z \in S : z <= n
      BY <2>2, <3>1
    <3>2. CASE ~ \E z \in S : z <= n
      <4>1. x = n + 1 /\ \A y \in S : y >= n + 1
        BY <3>2
      <4> QED BY <4>1
    <3> QED BY <3>1, <3>2
  <2> HIDE DEF Q
  <2>3. \A n \in Nat : n \in Q
    BY <2>1, <2>2, Induction
  <2>4. PICK x \in S : TRUE
    OBVIOUS
  <2>5. x \in Nat /\ x <= x
    BY <2>4
  <2> QED BY <2>3, <2>4, <2>5 DEF Q
<1>2. Min(S) = CHOOSE x \in S : \A y \in S : x <= y
  BY DEF Min
<1> QED
  BY <1>1, <1>2

\* The time before run i, and what the search remembers.
Products(t) == [r \in 1..Len(t.stts) |-> (t.stts[r].count * t.stts[r].delta) % U32]
Elapsed(t, i) == Total(Products(t), 1, i)
CacheOK(t, b) ==
    t.cache.sid # 0 => /\ t.cache.index \in 1..Len(t.stts)
                       /\ t.cache.sid = b[t.cache.index]
                       /\ t.cache.elapsed = Elapsed(t, t.cache.index)

\* The 32-bit products are numbers.
LEMMA ProductsOK ==
    ASSUME NEW t, NEW L, NEW l, NEW b, InOrder(t.stts, L, l, b)
    PROVE  \A i \in 1..Len(t.stts) : Products(t)[i] \in Nat
<1> SUFFICES ASSUME NEW i \in 1..Len(t.stts) PROVE (t.stts[i].count * t.stts[i].delta) % U32 \in Nat
  BY DEF Products
<1>1. t.stts[i].count \in Nat /\ t.stts[i].delta \in 0..(U32 - 1)
  BY DEF InOrder
<1>2. t.stts[i].delta \in Nat /\ U32 \in Nat /\ U32 > 0
  BY <1>1, WidthsAssumption
<1>3. \A x, y, z \in Nat : x * y \in Nat /\ (z > 0 => x % z \in Nat)
  OBVIOUS
<1> QED
  BY <1>1, <1>2, <1>3

\* What GetSampleTimes finds for sample k in run r.
TimesFound(g, t, b, k, r) ==
    /\ r \in 1..Len(t.stts) /\ b[r] <= k /\ k < b[r + 1]
    /\ g.start = Elapsed(t, r) + (k - b[r]) * t.stts[r].delta
    /\ g.duration = t.stts[r].delta
    /\ g.cache = [index |-> r, sid |-> b[r], elapsed |-> Elapsed(t, r)]

\* GetSampleTimes finds the run of the sample, from the first run as well as
\* from the one it remembers.
LEMMA TimesRead ==
    ASSUME NEW t, NEW L, NEW l \in Nat, NEW b, InOrder(t.stts, L, l, b), CacheOK(t, b),
           NEW k \in 1..l
    PROVE  \E r : TimesFound(GetSampleTimes(t, k), t, b, k, r)
<1> DEFINE n == Len(t.stts)
           from == SttsFrom(t, k)
           here == {i \in from.index..n : k <= FirstOf(t, from, i) + t.stts[i].count - 1}
<1>1. /\ n \in Nat /\ b[1] = 1 /\ b[n + 1] = l + 1 /\ \A i \in Nat : b[i] \in Nat
      /\ \A i \in 1..n : b[i + 1] = b[i] + t.stts[i].count /\ t.stts[i].count \in Nat
  BY DEF InOrder
<1>2. n > 0
  <2>1. CASE n = 0
    <3>1. b[n + 1] = 1
      BY <1>1, <2>1
    <3> QED BY <1>1, <3>1
  <2> QED BY <1>1, <2>1
<1>3. \A i \in 1..n : Products(t)[i] \in Int
  <2>1. \A i \in 1..Len(t.stts) : Products(t)[i] \in Nat
    BY ProductsOK
  <2> QED BY <2>1
<1>4. Elapsed(t, 1) = 0
  <2>1. \A i \in 1..1 : Products(t)[i] \in Int
    <3>1. \A i \in 1..1 : i \in 1..n
      BY <1>1, <1>2
    <3> QED BY <1>3, <3>1
  <2> QED BY <2>1, TotalStep DEF Elapsed
<1>5. from.index \in 1..n /\ from.sid = b[from.index] /\ from.sid <= k
      /\ from.elapsed = Elapsed(t, from.index)
  <2>1. CASE t.cache.sid # MP4_INVALID_SAMPLE_ID /\ k >= t.cache.sid
    <3>1. from = t.cache
      BY <2>1 DEF SttsFrom
    <3>2. t.cache.index \in 1..n /\ t.cache.sid = b[t.cache.index]
          /\ t.cache.elapsed = Elapsed(t, t.cache.index)
      BY <2>1 DEF CacheOK, MP4_INVALID_SAMPLE_ID
    <3>3. t.cache.sid \in Nat
      <4>1. t.cache.index \in Nat
        BY <1>1, <3>2
      <4> QED BY <1>1, <3>2, <4>1
    <3> HIDE DEF n, from
    <3> QED BY <2>1, <3>1, <3>2, <3>3
  <2>2. CASE ~ (t.cache.sid # MP4_INVALID_SAMPLE_ID /\ k >= t.cache.sid)
    <3>1. from = [index |-> 1, sid |-> 1, elapsed |-> 0]
      BY <2>2 DEF SttsFrom
    <3>2. from.index = 1 /\ from.sid = 1 /\ from.elapsed = 0
      BY <3>1
    <3>3. 1 \in 1..n
      BY <1>1, <1>2
    <3> HIDE DEF n, from
    <3> QED BY <1>1, <1>4, <3>2, <3>3
  <2> QED BY <2>1, <2>2
<1> DEFINE x == from.index
<1> HIDE DEF n
<1>6. ASSUME NEW i \in x..n
      PROVE  FirstOf(t, from, i) = b[i] /\ ElapsedTo(t, from, i) = Elapsed(t, i) /\ i \in 1..n
  <2> HIDE DEF from
  <2>1. i \in 1..n /\ x \in 1..n /\ x <= i
    BY <1>1, <1>5
  <2> DEFINE counts == [r \in 1..n |-> t.stts[r].count]
  <2>2. Total(counts, x, i) = b[i] - b[x]
    <3>1. \A j \in x..i : b[j] \in Int
      <4>1. \A j \in x..i : j \in Nat
        BY <1>1, <2>1
      <4> QED BY <1>1, <4>1
    <3>2. ASSUME NEW j \in x..(i - 1) PROVE counts[j] \in Int /\ b[j + 1] = b[j] + counts[j]
      <4>1. j \in 1..n
        BY <1>1, <2>1
      <4> QED BY <1>1, <4>1
    <3>3. x \in Int /\ i \in Int
      BY <1>1, <2>1
    <3> HIDE DEF counts, x
    <3> QED BY <2>1, <3>1, <3>2, <3>3, TotalBy
  <2>3. FirstOf(t, from, i) = b[x] + Total(counts, x, i)
    BY <1>5 DEF FirstOf, n
  <2>4. b[x] \in Nat /\ b[i] \in Nat
    <3>1. x \in Nat /\ i \in Nat
      BY <1>1, <2>1
    <3> QED BY <1>1, <3>1
  <2>5. Elapsed(t, i) = Elapsed(t, x) + Total(Products(t), x, i)
    <3>1. \A j \in 1..(i - 1) : Products(t)[j] \in Int
      <4>1. \A j \in 1..(i - 1) : j \in 1..n
        BY <1>1, <2>1
      <4> QED BY <1>3, <4>1
    <3>2. 1 \in Int /\ x \in Int /\ i \in Int /\ 1 <= x
      BY <1>1, <2>1
    <3> HIDE DEF x
    <3> QED BY <2>1, <3>1, <3>2, TotalSplit DEF Elapsed
  <2>6. ElapsedTo(t, from, i) = Elapsed(t, x) + Total(Products(t), x, i)
    BY <1>5 DEF ElapsedTo, Products
  <2> HIDE DEF counts, x
  <2> QED BY <2>1, <2>2, <2>3, <2>4, <2>5, <2>6
<1>7. here \subseteq Nat /\ n \in here
  <2> HIDE DEF from
  <2>1. x \in Nat /\ x <= n
    BY <1>1, <1>5
  <2>2. here \subseteq Nat
    BY <1>1, <2>1
  <2>3. n \in x..n /\ n \in 1..n /\ n \in Nat
    BY <1>1, <1>2, <2>1
  <2>4. FirstOf(t, from, n) = b[n] /\ b[n + 1] = b[n] + t.stts[n].count /\ b[n] \in Nat
        /\ t.stts[n].count \in Nat
    BY <1>1, <1>6, <2>3
  <2>5. k <= FirstOf(t, from, n) + t.stts[n].count - 1
    <3>1. b[n] + t.stts[n].count = l + 1
      BY <1>1, <2>4
    <3> QED BY <2>4, <3>1
  <2> QED BY <2>2, <2>3, <2>5
<1> DEFINE r == Min(here)
<1>8. r \in here /\ \A i \in here : r <= i
  <2> HIDE DEF here
  <2> QED BY <1>7, MinOf
<1>9. r \in x..n /\ k <= FirstOf(t, from, r) + t.stts[r].count - 1
  <2> HIDE DEF from
  <2> QED BY <1>8
<1>10. GetSampleTimes(t, k) =
        [start    |-> ElapsedTo(t, from, r) + (k - FirstOf(t, from, r)) * t.stts[r].delta,
         duration |-> t.stts[r].delta,
         cache    |-> [index |-> r, sid |-> FirstOf(t, from, r), elapsed |-> ElapsedTo(t, from, r)]]
  <2>1. here # {}
    BY <1>7
  <2> QED BY <2>1 DEF GetSampleTimes, n
<1>11. FirstOf(t, from, r) = b[r] /\ ElapsedTo(t, from, r) = Elapsed(t, r) /\ r \in 1..n
  BY <1>6, <1>9
<1>12. b[r] <= k
  <2>1. CASE r = x
    <3> HIDE DEF r, from
    <3> QED BY <1>5, <2>1
  <2>2. CASE r # x
    <3>1. r - 1 \in x..n /\ (r - 1) + 1 = r /\ ~ (r <= r - 1)
      <4> HIDE DEF r, from
      <4>1. x \in Nat /\ r \in Nat /\ x <= r /\ r <= n
        <5>1. x \in 1..n /\ r \in 1..n
          BY <1>5, <1>11
        <5> HIDE DEF x
        <5> QED BY <1>1, <1>9, <5>1
      <4> HIDE DEF x
      <4> QED BY <1>1, <2>2, <4>1
    <3>2. ~ (r - 1 \in here)
      <4> HIDE DEF r, here
      <4> QED BY <1>8, <3>1
    <3>3. ~ (k <= FirstOf(t, from, r - 1) + t.stts[r - 1].count - 1)
      <4> HIDE DEF r, from
      <4> QED BY <3>1, <3>2
    <3>4. FirstOf(t, from, r - 1) = b[r - 1] /\ r - 1 \in 1..n
      BY <1>6, <3>1
    <3> HIDE DEF r, from
    <3>5. b[r] = b[r - 1] + t.stts[r - 1].count /\ t.stts[r - 1].count \in Nat /\ b[r - 1] \in Nat
      <4>1. r - 1 \in Nat
        BY <1>1, <3>4
      <4> QED BY <1>1, <3>1, <3>4, <4>1
    <3> QED BY <3>3, <3>4, <3>5
  <2> QED BY <2>1, <2>2
<1>13. k < b[r + 1]
  <2> HIDE DEF r, from
  <2>1. b[r + 1] = b[r] + t.stts[r].count /\ t.stts[r].count \in Nat /\ b[r] \in Nat
    <3>1. r \in Nat
      BY <1>1, <1>11
    <3> QED BY <1>1, <1>11, <3>1
  <2> QED BY <1>9, <1>11, <2>1
<1> DEFINE g == GetSampleTimes(t, k)
<1>14. /\ g.start = ElapsedTo(t, from, r) + (k - FirstOf(t, from, r)) * t.stts[r].delta
       /\ g.duration = t.stts[r].delta
       /\ g.cache = [index |-> r, sid |-> FirstOf(t, from, r), elapsed |-> ElapsedTo(t, from, r)]
  <2> HIDE DEF r, from, g
  <2> QED BY <1>10 DEF g
<1> HIDE DEF r, from, g
<1>15. TimesFound(g, t, b, k, r)
  BY <1>11, <1>12, <1>13, <1>14 DEF TimesFound, n
<1> QED
  BY <1>15 DEF g

\* The sum of nothing, whatever the values.
LEMMA TotalNone ==
    ASSUME NEW value, NEW from \in Int
    PROVE  Total(value, from, from) = 0
<1> DEFINE S == [i \in from..from |-> 0]
<1>1. \A i \in from..from : S[i] \in Int
  OBVIOUS
<1>2. \A i \in from..(from - 1) : value[i] \in Int /\ S[i + 1] = S[i] + value[i]
  OBVIOUS
<1>3. S[from] = 0 /\ from <= from
  OBVIOUS
<1> HIDE DEF S
<1>4. Total(value, from, from) = S[from] - S[from]
  BY <1>1, <1>2, <1>3, TotalBy
<1> QED
  BY <1>3, <1>4

\* Sums of the same numbers.
LEMMA TotalAlike ==
    ASSUME NEW f, NEW g, NEW from \in Int, NEW to \in Int, from <= to,
           \A i \in from..(to - 1) : g[i] \in Int, Same(f, g, from, to - 1)
    PROVE  Total(f, from, to) = Total(g, from, to)
<1> DEFINE S == [i \in from..to |-> Total(g, from, i)]
<1>1. ASSUME NEW i \in from..to
      PROVE  S[i] \in Int
  <2>1. \A j \in from..(i - 1) : g[j] \in Int
    OBVIOUS
  <2>2. i \in Int /\ from <= i /\ from <= from
    OBVIOUS
  <2>3. Total(g, from, i) \in Int
    BY <2>1, <2>2, TotalSplit
  <2> QED BY <2>3
<1>2. ASSUME NEW i \in from..(to - 1)
      PROVE  f[i] \in Int /\ S[i + 1] = S[i] + f[i]
  <2>1. \A j \in from..i : g[j] \in Int
    OBVIOUS
  <2>2. i \in Int /\ from <= i /\ i \in from..to /\ i + 1 \in from..to
    OBVIOUS
  <2>3. Total(g, from, i + 1) = Total(g, from, i) + g[i]
    BY <2>1, <2>2, TotalStep
  <2>4. f[i] = g[i]
    BY DEF Same
  <2> QED BY <2>2, <2>3, <2>4
<1>3. S[to] = Total(g, from, to) /\ S[from] = 0
  <2>1. to \in from..to /\ from \in from..to
    OBVIOUS
  <2>2. Total(g, from, from) = 0
    BY TotalNone
  <2> QED BY <2>1, <2>2
<1>4. S[to] \in Int
  BY <1>1
<1> HIDE DEF S
<1>5. Total(f, from, to) = S[to] - S[from]
  BY <1>1, <1>2, TotalBy
<1> QED
  BY <1>3, <1>4, <1>5

\* A run of samples of the same duration.
LEMMA TotalOfRun ==
    ASSUME NEW D, NEW from \in Nat, NEW to \in Nat, from <= to, NEW d \in Nat,
           \A i \in from..(to - 1) : D[i] = d
    PROVE  Total(D, from, to) = (to - from) * d
<1> DEFINE S == [i \in from..to |-> (i - from) * d]
<1>1. \A i \in from..to : S[i] = (i - from) * d
  OBVIOUS
<1> HIDE DEF S
<1>2. \A x, y, z \in Nat : (x - y) * z \in Int /\ ((x + 1) - y) * z = (x - y) * z + z
                           /\ (x - x) * z = 0
  OBVIOUS
<1>3. \A i \in from..to : i \in Nat
  OBVIOUS
<1>4. \A i \in from..to : S[i] \in Int
  BY <1>1, <1>2, <1>3
<1>5. ASSUME NEW i \in from..(to - 1)
      PROVE  D[i] \in Int /\ S[i + 1] = S[i] + D[i]
  <2>1. i \in from..to /\ i + 1 \in from..to /\ i \in Nat
    OBVIOUS
  <2>2. S[i + 1] = S[i] + d
    BY <1>1, <1>2, <2>1
  <2> QED BY <2>2
<1>6. Total(D, from, to) = S[to] - S[from]
  <2>1. from \in Int /\ to \in Int
    OBVIOUS
  <2> QED BY <1>4, <1>5, <2>1, TotalBy
<1>7. S[to] = (to - from) * d /\ S[from] = 0 /\ S[to] \in Int
  <2>1. to \in from..to /\ from \in from..to
    OBVIOUS
  <2>2. S[from] = (from - from) * d
    BY <1>1, <2>1
  <2> QED BY <1>1, <1>2, <1>4, <2>1, <2>2
<1> QED
  BY <1>6, <1>7

\* RunsFit, without DOMAIN.
Fit(t) == \A i \in 1..Len(t.stts) : t.stts[i].count * t.stts[i].delta < U32

\* GetSampleTimes finds the sum of the durations before the sample.
LEMMA StartFound ==
    ASSUME NEW t, NEW L, NEW l \in Nat, NEW b, InOrder(t.stts, L, l, b), Fit(t),
           NEW k \in 1..l, NEW g, NEW r, TimesFound(g, t, b, k, r)
    PROVE  g.start = Total([i \in 1..(k - 1) |-> L[i].duration], 1, k)
<1> DEFINE n == Len(t.stts)
           D == [i \in 1..l |-> L[i].duration]
<1>1. /\ n \in Nat /\ b[1] = 1 /\ b[n + 1] = l + 1 /\ \A i \in Nat : b[i] \in Nat
      /\ \A i \in 1..n : \A j \in (i + 1)..(n + 1) : b[i + 1] <= b[j]
  BY DEF InOrder
<1>2. ASSUME NEW i \in 1..n
      PROVE  /\ b[i + 1] = b[i] + t.stts[i].count /\ t.stts[i].count \in Nat
             /\ t.stts[i].delta \in Nat
             /\ \A j \in b[i]..(b[i + 1] - 1) : j \in 1..l /\ D[j] = t.stts[i].delta
  <2>1. /\ b[i + 1] = b[i] + t.stts[i].count /\ t.stts[i].count \in Nat
        /\ t.stts[i].delta \in 0..(U32 - 1)
        /\ \A j \in b[i]..(b[i + 1] - 1) : j \in 1..l /\ L[j].duration = t.stts[i].delta
    BY DEF InOrder
  <2>2. t.stts[i].delta \in Nat
    BY <2>1, WidthsAssumption
  <2> QED BY <2>1, <2>2
<1> HIDE DEF n, D
<1>3. ASSUME NEW i \in 1..n
      PROVE  Products(t)[i] = t.stts[i].count * t.stts[i].delta /\ Products(t)[i] \in Int
  <2>1. t.stts[i].count * t.stts[i].delta < U32
    BY DEF Fit, n
  <2>2. Products(t)[i] = (t.stts[i].count * t.stts[i].delta) % U32
    BY DEF Products, n
  <2>3. \A x, y, z \in Nat : x * y < z => (x * y) % z = x * y /\ x * y \in Int
    OBVIOUS
  <2> QED BY <1>2, <2>1, <2>2, <2>3, WidthsAssumption
<1>4. \A i \in 1..l : D[i] \in Int
  <2> DEFINE P == {j \in Nat : \A i \in 1..l : j \in 1..n /\ i < b[j + 1] => D[i] \in Int}
  <2>1. 0 \in P
    OBVIOUS
  <2>2. ASSUME NEW j \in Nat, j \in P
        PROVE  j + 1 \in P
    <3> SUFFICES ASSUME NEW i \in 1..l, j + 1 \in 1..n, i < b[(j + 1) + 1] PROVE D[i] \in Int
      OBVIOUS
    <3>1. CASE i < b[j + 1]
      <4>1. CASE j = 0
        BY <1>1, <3>1, <4>1
      <4>2. CASE j # 0
        <5>1. j \in 1..n
          BY <1>1, <4>2
        <5> QED BY <2>2, <3>1, <5>1
      <4> QED BY <4>1, <4>2
    <3>2. CASE ~ (i < b[j + 1])
      <4>1. b[j + 1] \in Nat /\ b[(j + 1) + 1] \in Nat
        <5>1. j + 1 \in Nat /\ (j + 1) + 1 \in Nat
          OBVIOUS
        <5> QED BY <1>1, <5>1
      <4>2. i \in b[j + 1]..(b[(j + 1) + 1] - 1)
        BY <3>2, <4>1
      <4> QED BY <1>2, <4>2
    <3> QED BY <3>1, <3>2
  <2> HIDE DEF P
  <2>3. \A j \in Nat : j \in P
    BY <2>1, <2>2, Induction
  <2>4. ASSUME NEW i \in 1..l PROVE D[i] \in Int
    <3>1. n \in 1..n /\ i < b[n + 1]
      <4>1. n # 0
        BY <1>1
      <4> QED BY <1>1, <4>1
    <3> QED BY <1>1, <2>3, <3>1 DEF P
  <2> QED BY <2>4
<1>5. \A i \in 1..n : 1 <= b[i] /\ b[i] <= l
  <2> SUFFICES ASSUME NEW i \in 1..n PROVE 1 <= b[i] /\ b[i] <= l
    OBVIOUS
  <2>1. b[i] \in 1..l
    <3>1. b[i] >= 1 /\ b[i + 1] = b[i] + t.stts[i].count /\ t.stts[i].count > 0 /\ t.stts[i].count \in Nat
      BY DEF InOrder, n
    <3>2. b[i] \in Nat /\ b[i + 1] \in Nat /\ i \in Nat
      BY <1>1
    <3>3. b[i] \in b[i]..(b[i + 1] - 1)
      BY <3>1, <3>2
    <3> QED BY <1>2, <3>3
  <2> QED BY <2>1
<1>6. ASSUME NEW i \in 1..n, NEW j \in Nat, b[i] <= j, j <= b[i + 1]
      PROVE  Total(D, 1, j) = Total(D, 1, b[i]) + (j - b[i]) * t.stts[i].delta
             /\ Total(D, 1, b[i]) \in Int
  <2>1. b[i] \in Nat /\ b[i + 1] \in Nat /\ b[i + 1] <= l + 1
    <3>1. i \in Nat /\ i + 1 \in Nat /\ n + 1 \in (i + 1)..(n + 1)
      BY <1>1
    <3> QED BY <1>1, <3>1
  <2>2. \A m \in b[i]..(j - 1) : D[m] = t.stts[i].delta
    <3>1. \A m \in b[i]..(j - 1) : m \in b[i]..(b[i + 1] - 1)
      BY <1>6, <2>1
    <3> QED BY <1>2, <3>1
  <2>3. Total(D, b[i], j) = (j - b[i]) * t.stts[i].delta
    <3> DEFINE d == t.stts[i].delta
               from == b[i]
    <3>1. d \in Nat /\ from <= j /\ from \in Nat
      BY <1>2, <1>6, <2>1
    <3>2. \A m \in from..(j - 1) : D[m] = d
      BY <2>2
    <3> HIDE DEF d, from
    <3>3. Total(D, from, j) = (j - from) * d
      BY <3>1, <3>2, TotalOfRun
    <3> QED BY <3>3 DEF d, from
  <2>4. \A m \in 1..(j - 1) : D[m] \in Int
    <3>1. \A m \in 1..(j - 1) : m \in 1..l
      BY <1>6, <2>1
    <3> QED BY <1>4, <3>1
  <2>5. Total(D, 1, j) = Total(D, 1, b[i]) + Total(D, b[i], j) /\ Total(D, 1, b[i]) \in Int
    <3>1. 1 \in Int /\ b[i] \in Int /\ j \in Int /\ 1 <= b[i]
      BY <1>5, <2>1
    <3> QED BY <1>6, <2>4, <3>1, TotalSplit
  <2> QED BY <2>3, <2>5
<1> DEFINE Q == {i \in Nat : i + 1 \in 1..n => Total(D, 1, b[i + 1]) = Elapsed(t, i + 1)}
<1>7. 0 \in Q
  <2>1. Total(D, 1, 1) = 0
    <3>1. 1 \in Int
      OBVIOUS
    <3> QED BY <3>1, TotalNone
  <2>2. Elapsed(t, 1) = 0
    <3>1. 1 \in Int
      OBVIOUS
    <3> QED BY <3>1, TotalNone DEF Elapsed
  <2> QED BY <1>1, <2>1, <2>2
<1>8. ASSUME NEW i \in Nat, i \in Q
      PROVE  i + 1 \in Q
  <2> SUFFICES ASSUME (i + 1) + 1 \in 1..n
               PROVE  Total(D, 1, b[(i + 1) + 1]) = Elapsed(t, (i + 1) + 1)
    OBVIOUS
  <2> DEFINE j == i + 1
  <2>1. j \in 1..n /\ j \in Nat /\ j + 1 \in 1..n /\ 1 <= j /\ j \in Int
    BY <1>1
  <2>2. Total(D, 1, b[j]) = Elapsed(t, j)
    BY <1>8, <2>1
  <2> HIDE DEF j, Q
  <2>3. Total(D, 1, b[j + 1]) = Total(D, 1, b[j]) + (b[j + 1] - b[j]) * t.stts[j].delta
        /\ Total(D, 1, b[j]) \in Int
    <3>1. b[j + 1] \in Nat /\ b[j] \in Nat /\ b[j] <= b[j + 1] /\ b[j + 1] <= b[j + 1]
      <4>1. b[j] \in Nat /\ b[j + 1] \in Nat
        BY <1>1, <2>1
      <4> QED BY <1>2, <2>1, <4>1
    <3> QED BY <1>6, <2>1, <3>1
  <2>4. Elapsed(t, j + 1) = Elapsed(t, j) + Products(t)[j]
    <3>1. \A m \in 1..j : Products(t)[m] \in Int
      <4>1. \A m \in 1..j : m \in 1..n
        BY <1>1, <2>1
      <4> QED BY <1>3, <4>1
    <3>2. 1 \in Int
      OBVIOUS
    <3> QED BY <2>1, <3>1, <3>2, TotalStep DEF Elapsed
  <2>5. b[j + 1] - b[j] = t.stts[j].count
    <3>1. b[j] \in Nat
      BY <1>1, <2>1
    <3> QED BY <1>2, <2>1, <3>1
  <2>6. Total(D, 1, b[j + 1]) = Elapsed(t, j + 1)
    BY <1>3, <2>1, <2>2, <2>3, <2>4, <2>5
  <2> QED BY <2>6 DEF j
<1>9. r \in 1..n /\ b[r] <= k /\ k < b[r + 1]
      /\ g.start = Elapsed(t, r) + (k - b[r]) * t.stts[r].delta
  BY DEF TimesFound, n
<1> HIDE DEF Q
<1>10. Total(D, 1, b[r]) = Elapsed(t, r)
  <2>1. \A i \in Nat : i \in Q
    BY <1>7, <1>8, Induction
  <2>2. r - 1 \in Nat /\ (r - 1) + 1 = r
    BY <1>1, <1>9
  <2>3. r - 1 \in Q
    BY <2>1, <2>2
  <2> QED BY <1>9, <2>2, <2>3 DEF Q
<1>11. Total(D, 1, k) = Total(D, 1, b[r]) + (k - b[r]) * t.stts[r].delta
  <2>1. k \in Nat /\ k <= b[r + 1]
    <3>1. r + 1 \in Nat
      BY <1>1, <1>9
    <3>2. b[r + 1] \in Nat
      BY <1>1, <3>1
    <3> QED BY <1>9, <3>2
  <2> QED BY <1>6, <1>9, <2>1
<1>12. Total([i \in 1..(k - 1) |-> L[i].duration], 1, k) = Total(D, 1, k)
  <2> DEFINE E == [i \in 1..(k - 1) |-> L[i].duration]
  <2>1. \A i \in 1..(k - 1) : i \in 1..l
    OBVIOUS
  <2>2. Same(E, D, 1, k - 1)
    BY <2>1 DEF Same, D
  <2>3. \A i \in 1..(k - 1) : D[i] \in Int
    BY <1>4, <2>1
  <2> HIDE DEF E
  <2>4. Total(E, 1, k) = Total(D, 1, k)
    <3>1. 1 \in Int /\ k \in Int /\ 1 <= k
      OBVIOUS
    <3> QED BY <2>2, <2>3, <3>1, TotalAlike
  <2> QED BY <2>4 DEF E
<1> QED
  BY <1>9, <1>10, <1>11, <1>12

(***************************************************************************)
(* The search of the sync samples.                                         *)
(***************************************************************************)

\* One halving of IsSyncSample, with w entries left, and the whole search.
SyncStep(s, k, f, w) ==
    [l \in 1..(Len(s) + 1 - w) |->
       LET mid == l + ((w - 1) \div 2) IN
       IF w = 0 THEN IF l = 1 THEN "throws" ELSE "not sync"
       ELSE IF k = s[mid] THEN "sync"
       ELSE IF k > s[mid] THEN f[l + w - mid - 1][mid + 1]
       ELSE f[mid - l][l]]
SyncSearch(s, k, m, f) == f = [w \in 0..m |-> SyncStep(s, k, f, w)]

\* The middle is between the ends, and both halves are shorter.
LEMMA Halves ==
    ASSUME NEW w \in Nat, w # 0, NEW l \in Nat, NEW mid, mid = l + ((w - 1) \div 2)
    PROVE  /\ mid \in Nat /\ l <= mid /\ mid <= l + w - 1
           /\ l + w - mid - 1 \in 0..(w - 1) /\ mid - l \in 0..(w - 1)
<1> DEFINE h == (w - 1) \div 2
<1>1. h \in Nat /\ h <= w - 1
  <2>1. \A v \in Nat : v \div 2 \in Nat /\ v \div 2 <= v
    OBVIOUS
  <2>2. w - 1 \in Nat
    OBVIOUS
  <2> QED BY <2>1, <2>2
<1> HIDE DEF h
<1>2. mid = l + h
  BY DEF h
<1> QED
  BY <1>1, <1>2

\* A halving looks at shorter searches only.
LEMMA SyncStepAlike ==
    ASSUME NEW s, NEW k, NEW f, NEW g, NEW w \in Nat, Same(f, g, 0, w - 1)
    PROVE  SyncStep(s, k, f, w) = SyncStep(s, k, g, w)
<1>1. CASE w = 0
  BY <1>1 DEF SyncStep
<1>2. CASE w # 0
  <2>1. ASSUME NEW l \in 1..(Len(s) + 1 - w)
        PROVE  SyncStep(s, k, f, w)[l] = SyncStep(s, k, g, w)[l]
    <3> DEFINE mid == l + ((w - 1) \div 2)
    <3>1. l + w - mid - 1 \in 0..(w - 1) /\ mid - l \in 0..(w - 1)
      <4>1. l \in Nat
        OBVIOUS
      <4> QED BY <1>2, <4>1, Halves
    <3>2. SyncStep(s, k, f, w)[l] = IF k = s[mid] THEN "sync"
                                    ELSE IF k > s[mid] THEN f[l + w - mid - 1][mid + 1]
                                    ELSE f[mid - l][l]
      BY <1>2 DEF SyncStep
    <3>3. SyncStep(s, k, g, w)[l] = IF k = s[mid] THEN "sync"
                                    ELSE IF k > s[mid] THEN g[l + w - mid - 1][mid + 1]
                                    ELSE g[mid - l][l]
      BY <1>2 DEF SyncStep
    <3> HIDE DEF mid
    <3>4. f[l + w - mid - 1] = g[l + w - mid - 1] /\ f[mid - l] = g[mid - l]
      BY <3>1 DEF Same
    <3> QED BY <3>2, <3>3, <3>4
  <2> DEFINE F(h) == [l \in 1..(Len(s) + 1 - w) |->
                        LET mid == l + ((w - 1) \div 2) IN
                        IF w = 0 THEN IF l = 1 THEN "throws" ELSE "not sync"
                        ELSE IF k = s[mid] THEN "sync"
                        ELSE IF k > s[mid] THEN h[l + w - mid - 1][mid + 1]
                        ELSE h[mid - l][l]]
  <2>2. SyncStep(s, k, f, w) = F(f) /\ SyncStep(s, k, g, w) = F(g)
    BY DEF SyncStep
  <2>3. \A l \in 1..(Len(s) + 1 - w) : F(f)[l] = F(g)[l]
    <3> HIDE DEF F
    <3> QED BY <2>1, <2>2
  <2>4. F(f) = F(g)
    BY <2>3
  <2> QED BY <2>2, <2>4
<1> QED
  BY <1>1, <1>2

\* The search is defined.
LEMMA SyncSearchIs ==
    ASSUME NEW s, NEW k, NEW n \in Nat
    PROVE  \E f : SyncSearch(s, k, n, f)
<1> DEFINE P == {m \in Nat : \E f : SyncSearch(s, k, m, f)}
<1>1. 0 \in P
  <2> DEFINE f == [w \in 0..0 |-> SyncStep(s, k, <<>>, w)]
  <2>1. ASSUME NEW w \in 0..0 PROVE SyncStep(s, k, <<>>, w) = SyncStep(s, k, f, w)
    <3>1. w \in Nat /\ Same(<<>>, f, 0, w - 1)
      BY DEF Same
    <3> QED BY <3>1, SyncStepAlike
  <2>2. f = [w \in 0..0 |-> SyncStep(s, k, f, w)]
    BY <2>1
  <2> QED BY <2>2 DEF SyncSearch
<1>2. ASSUME NEW m \in Nat, m \in P
      PROVE  m + 1 \in P
  <2>1. PICK f : SyncSearch(s, k, m, f)
    BY <1>2
  <2> DEFINE g == [w \in 0..(m + 1) |-> IF w <= m THEN f[w] ELSE SyncStep(s, k, f, w)]
  <2>2. ASSUME NEW w \in 0..(m + 1)
        PROVE  g[w] = SyncStep(s, k, g, w)
    <3>1. w \in Nat
      OBVIOUS
    <3>2. Same(f, g, 0, w - 1)
      BY DEF Same
    <3>3. SyncStep(s, k, f, w) = SyncStep(s, k, g, w)
      <4> HIDE DEF g
      <4> QED BY <3>1, <3>2, SyncStepAlike
    <3>4. g[w] = SyncStep(s, k, f, w)
      <4>1. CASE w <= m
        <5>1. f[w] = SyncStep(s, k, f, w)
          <6>1. w \in 0..m
            BY <4>1
          <6>2. f = [v \in 0..m |-> SyncStep(s, k, f, v)]
            BY <2>1 DEF SyncSearch
          <6>3. \A v \in 0..m : [u \in 0..m |-> SyncStep(s, k, f, u)][v] = SyncStep(s, k, f, v)
            OBVIOUS
          <6> QED BY <6>1, <6>2, <6>3
        <5> QED BY <4>1, <5>1
      <4>2. CASE ~ (w <= m)
        BY <4>2
      <4> QED BY <4>1, <4>2
    <3> QED BY <3>3, <3>4
  <2>3. g = [w \in 0..(m + 1) |-> SyncStep(s, k, g, w)]
    <3>1. g = [w \in 0..(m + 1) |-> g[w]]
      OBVIOUS
    <3> HIDE DEF g
    <3> QED BY <2>2, <3>1
  <2> HIDE DEF g
  <2>4. SyncSearch(s, k, m + 1, g)
    BY <2>3 DEF SyncSearch
  <2> QED BY <2>4
<1> HIDE DEF P
<1>3. n \in P
  BY <1>1, <1>2, Induction
<1> QED
  BY <1>3 DEF P

\* Sync samples are listed in their order.
Ascending(s) == \A i, j \in 1..Len(s) : i < j => s[i] < s[j]

SearchAnswer(s, k) ==
    IF \E i \in 1..Len(s) : s[i] = k THEN "sync"
    ELSE IF \A i \in 1..Len(s) : k < s[i] THEN "throws" ELSE "not sync"

\* Halving an ascending list finds the sample if, and only if, it is there,
\* and leaves the list on its left if, and only if, all of it is beyond.
LEMMA SyncFound ==
    ASSUME NEW s \in Seq(Nat), Ascending(s), NEW k \in Nat, NEW f, SyncSearch(s, k, Len(s), f)
    PROVE  f[Len(s)][1] = SearchAnswer(s, k)
<1> DEFINE n == Len(s)
           In(w, l) == \E i \in l..(l + w - 1) : s[i] = k
           Beyond(w, l) == l = 1 /\ \A i \in 1..w : k < s[i]
           Answer(w, l) == IF In(w, l) THEN "sync"
                           ELSE IF Beyond(w, l) THEN "throws" ELSE "not sync"
           P == {m \in Nat : \A w \in 0..m : \A l \in 1..(n + 1 - w) :
                               w <= n => f[w][l] = Answer(w, l)}
<1>1. n \in Nat /\ \A i \in 1..n : s[i] \in Nat
  OBVIOUS
<1>2. ASSUME NEW w \in 0..n, NEW l \in 1..(n + 1 - w)
      PROVE  f[w][l] = LET mid == l + ((w - 1) \div 2) IN
                       IF w = 0 THEN IF l = 1 THEN "throws" ELSE "not sync"
                       ELSE IF k = s[mid] THEN "sync"
                       ELSE IF k > s[mid] THEN f[l + w - mid - 1][mid + 1]
                       ELSE f[mid - l][l]
  <2>1. f = [v \in 0..n |-> SyncStep(s, k, f, v)]
    BY DEF SyncSearch
  <2>2. \A v \in 0..n : [u \in 0..n |-> SyncStep(s, k, f, u)][v] = SyncStep(s, k, f, v)
    OBVIOUS
  <2>3. f[w] = SyncStep(s, k, f, w)
    BY <2>1, <2>2
  <2>4. SyncStep(s, k, f, w)[l] =
          LET mid == l + ((w - 1) \div 2) IN
          IF w = 0 THEN IF l = 1 THEN "throws" ELSE "not sync"
          ELSE IF k = s[mid] THEN "sync"
          ELSE IF k > s[mid] THEN f[l + w - mid - 1][mid + 1]
          ELSE f[mid - l][l]
    BY DEF SyncStep
  <2> QED BY <2>3, <2>4
<1> HIDE DEF n, In, Beyond, Answer
<1>3. 0 \in P
  <2> SUFFICES ASSUME NEW l \in 1..(n + 1) PROVE f[0][l] = Answer(0, l)
    BY <1>1
  <2>1. 0 \in 0..n /\ l \in 1..(n + 1 - 0)
    BY <1>1
  <2>2. f[0][l] = IF l = 1 THEN "throws" ELSE "not sync"
    BY <1>2, <2>1
  <2>3. ~ In(0, l)
    BY <1>1 DEF In
  <2>4. Beyond(0, l) <=> l = 1
    BY DEF Beyond
  <2> QED BY <2>2, <2>3, <2>4 DEF Answer
<1>4. ASSUME NEW m \in Nat, m \in P
      PROVE  m + 1 \in P
  <2> SUFFICES ASSUME NEW w \in 0..(m + 1), NEW l \in 1..(n + 1 - w), w <= n
               PROVE  f[w][l] = Answer(w, l)
    OBVIOUS
  <2>1. CASE w <= m
    BY <1>4, <2>1
  <2>2. CASE ~ (w <= m)
    <3>1. w \in Nat /\ w # 0 /\ w \in 0..n /\ w - 1 = m /\ l \in Nat /\ l + w <= n + 1 /\ 1 <= l
      BY <1>1, <2>2
    <3> DEFINE mid == l + ((w - 1) \div 2)
    <3>2. /\ mid \in Nat /\ l <= mid /\ mid <= l + w - 1
          /\ l + w - mid - 1 \in 0..(w - 1) /\ mid - l \in 0..(w - 1)
      BY <3>1, Halves
    <3>3. f[w][l] = IF k = s[mid] THEN "sync"
                    ELSE IF k > s[mid] THEN f[l + w - mid - 1][mid + 1]
                    ELSE f[mid - l][l]
      BY <1>2, <3>1
    <3> HIDE DEF mid
    <3>4. mid \in 1..n /\ s[mid] \in Nat
      BY <1>1, <3>1, <3>2
    <3>5. \A i \in l..(l + w - 1) : i \in 1..n /\ s[i] \in Nat
      BY <1>1, <3>1
    <3>6. CASE k = s[mid]
      <4>1. mid \in l..(l + w - 1)
        BY <3>1, <3>2
      <4>2. In(w, l)
        BY <3>6, <4>1 DEF In
      <4> QED BY <3>3, <3>6, <4>2 DEF Answer
    <3>7. CASE k # s[mid] /\ k > s[mid]
      <4> DEFINE v == l + w - mid - 1
      <4>1. v \in 0..m /\ mid + 1 \in 1..(n + 1 - v) /\ v <= n
        BY <1>1, <3>1, <3>2
      <4>2. f[w][l] = f[v][mid + 1]
        BY <3>3, <3>7
      <4>3. f[v][mid + 1] = Answer(v, mid + 1)
        <5> HIDE DEF v
        <5> QED BY <1>4, <4>1
      <4>4. In(w, l) <=> In(v, mid + 1)
        <5>1. ASSUME NEW i \in l..(l + w - 1), s[i] = k
              PROVE  i \in (mid + 1)..((mid + 1) + v - 1)
          <6>1. i \in 1..n /\ i \in Nat
            BY <1>1, <3>5
          <6>2. ~ (i < mid)
            BY <3>4, <3>7, <5>1, <6>1 DEF Ascending, n
          <6>3. i # mid
            BY <3>7, <5>1
          <6> QED BY <3>1, <3>2, <6>1, <6>2, <6>3
        <5>2. ASSUME NEW i \in (mid + 1)..((mid + 1) + v - 1)
              PROVE  i \in l..(l + w - 1)
          BY <3>1, <3>2
        <5> QED BY <5>1, <5>2 DEF In
      <4>5. ~ Beyond(w, l) /\ ~ Beyond(v, mid + 1)
        <5>1. l = 1 => mid \in 1..w
          BY <3>1, <3>2
        <5>2. mid + 1 # 1
          BY <3>1, <3>2
        <5>3. ~ (k < s[mid])
          BY <3>4, <3>7
        <5> QED BY <5>1, <5>2, <5>3 DEF Beyond
      <4> HIDE DEF v
      <4> QED BY <4>2, <4>3, <4>4, <4>5 DEF Answer
    <3>8. CASE k # s[mid] /\ ~ (k > s[mid])
      <4> DEFINE v == mid - l
      <4>1. v \in 0..m /\ l \in 1..(n + 1 - v) /\ v <= n
        BY <1>1, <3>1, <3>2
      <4>2. f[w][l] = f[v][l]
        BY <3>3, <3>8
      <4>3. f[v][l] = Answer(v, l)
        <5> HIDE DEF v
        <5> QED BY <1>4, <4>1
      <4>4. In(w, l) <=> In(v, l)
        <5>1. ASSUME NEW i \in l..(l + w - 1), s[i] = k
              PROVE  i \in l..(l + v - 1)
          <6>1. i \in 1..n /\ i \in Nat
            BY <1>1, <3>5
          <6>2. ~ (mid < i)
            BY <3>4, <3>8, <5>1, <6>1 DEF Ascending, n
          <6>3. i # mid
            BY <3>8, <5>1
          <6> QED BY <3>1, <3>2, <6>1, <6>2, <6>3
        <5>2. ASSUME NEW i \in l..(l + v - 1)
              PROVE  i \in l..(l + w - 1)
          BY <3>1, <3>2
        <5> QED BY <5>1, <5>2 DEF In
      <4>5. Beyond(w, l) <=> Beyond(v, l)
        <5>1. ASSUME l = 1, \A i \in 1..v : k < s[i], NEW i \in 1..w
              PROVE  k < s[i]
          <6>1. i \in 1..n /\ s[i] \in Nat /\ i \in Nat
            BY <3>1, <3>5, <5>1
          <6>2. CASE i < mid
            <7>1. i \in 1..v
              BY <3>2, <5>1, <6>1, <6>2
            <7> QED BY <5>1, <7>1
          <6>3. CASE ~ (i < mid)
            <7>1. k < s[mid]
              BY <3>4, <3>8
            <7>2. i = mid \/ s[mid] < s[i]
              BY <3>4, <6>1, <6>3 DEF Ascending, n
            <7> QED BY <3>4, <6>1, <7>1, <7>2
          <6> QED BY <6>2, <6>3
        <5>2. ASSUME l = 1, NEW i \in 1..v
              PROVE  i \in 1..w
          BY <3>1, <3>2, <5>2
        <5> QED BY <5>1, <5>2 DEF Beyond
      <4> HIDE DEF v
      <4> QED BY <4>2, <4>3, <4>4, <4>5 DEF Answer
    <3> QED BY <3>6, <3>7, <3>8
  <2> QED BY <2>1, <2>2
<1> HIDE DEF P
<1>5. n \in P
  BY <1>1, <1>3, <1>4, Induction
<1>6. f[n][1] = Answer(n, 1)
  <2>1. n \in 0..n /\ 1 \in 1..(n + 1 - n) /\ n <= n
    BY <1>1
  <2> QED BY <1>5, <2>1 DEF P
<1>7. In(n, 1) <=> \E i \in 1..n : s[i] = k
  <2>1. 1 + n - 1 = n
    BY <1>1
  <2> QED BY <2>1 DEF In
<1>8. Beyond(n, 1) <=> \A i \in 1..n : k < s[i]
  BY DEF Beyond
<1> QED
  BY <1>6, <1>7, <1>8 DEF Answer, SearchAnswer, n

\* What IsSyncSample has to say of the k-th of the samples L.
SyncAnswerOf(L, k) ==
    IF L[k].sync THEN "sync"
    ELSE IF \E i \in 1..k : L[i].sync THEN "not sync" ELSE "throws"

\* IsSyncSample answers what was written.
LEMMA SyncRead ==
    ASSUME NEW t \in Trak, NEW L, SyncOK(t.stss, L), Len(L) \in Nat, NEW k \in 1..Len(L)
    PROVE  IsSyncSample(t, k) = SyncAnswerOf(L, k)
<1>1. CASE t.stss = NoStss
  BY <1>1 DEF SyncOK, IsSyncSample, SyncAnswerOf
<1>2. CASE t.stss # NoStss
  <2> DEFINE s == t.stss
             n == Len(s)
             F(f) == [w \in 0..n |-> [l \in 1..(n + 1 - w) |->
                        LET mid == l + ((w - 1) \div 2) IN
                        IF w = 0 THEN IF l = 1 THEN "throws" ELSE "not sync"
                        ELSE IF k = t.stss[mid] THEN "sync"
                        ELSE IF k > t.stss[mid] THEN f[l + w - mid - 1][mid + 1]
                        ELSE f[mid - l][l]]]
             f == CHOOSE h : h = F(h)
  <2>1. IsSyncSample(t, k) = f[n][1]
    BY <1>2 DEF IsSyncSample
  <2>2. \A h : SyncSearch(s, k, n, h) <=> h = F(h)
    BY DEF SyncSearch, SyncStep
  <2>3. s \in Seq(Nat) /\ n \in Nat
    BY DEF Trak
  <2> HIDE DEF F
  <2>4. f = F(f)
    <3>1. \E h : SyncSearch(s, k, n, h)
      BY <2>3, SyncSearchIs
    <3> QED BY <2>2, <3>1
  <2> HIDE DEF f
  <2>5. SyncSearch(s, k, n, f)
    BY <2>2, <2>4
  <2>6. Ascending(s)
    BY <1>2 DEF SyncOK, Ascending
  <2>7. f[n][1] = SearchAnswer(s, k)
    BY <2>3, <2>5, <2>6, SyncFound
  <2>8. (\E i \in 1..n : s[i] = k) <=> L[k].sync
    <3>1. /\ \A i \in 1..n : L[s[i]].sync
          /\ L[k].sync => \E i \in 1..n : s[i] = k
      BY <1>2 DEF SyncOK
    <3> HIDE DEF s, n
    <3> QED BY <3>1
  <2>9. (\A i \in 1..n : k < s[i]) <=> ~ (\E i \in 1..k : L[i].sync)
    <3>1. /\ \A i \in 1..n : s[i] \in 1..Len(L) /\ L[s[i]].sync
          /\ \A j \in 1..Len(L) : L[j].sync => \E i \in 1..n : s[i] = j
      BY <1>2 DEF SyncOK
    <3> HIDE DEF s, n
    <3>2. ASSUME \A i \in 1..n : k < s[i], NEW j \in 1..k, L[j].sync
          PROVE  FALSE
      <4>1. j \in 1..Len(L) /\ ~ (k < j)
        OBVIOUS
      <4>2. PICK i \in 1..n : s[i] = j
        BY <3>1, <3>2, <4>1
      <4> QED BY <3>2, <4>1, <4>2
    <3>3. ASSUME NEW i \in 1..n, ~ (k < s[i])
          PROVE  s[i] \in 1..k /\ L[s[i]].sync
      BY <3>1, <3>3
    <3> QED BY <3>2, <3>3
  <2>10. SearchAnswer(s, k) = SyncAnswerOf(L, k)
    BY <2>8, <2>9 DEF SearchAnswer, SyncAnswerOf
  <2> QED BY <2>1, <2>7, <2>10
<1> QED
  BY <1>1, <1>2

(***************************************************************************)
(* Reading.                                                                *)
(***************************************************************************)

\* The first sample of each run is that of its first chunk.
At(stsc, fs) == \A r \in 1..Len(stsc) : stsc[r].firstSample = fs[stsc[r].firstChunk]

\* A run of chunks.
RunIs(stsc, C, fs, r) ==
    /\ stsc[r].firstChunk \in 1..C /\ stsc[r].samplesPerChunk \in Nat \ {0}
    /\ Upper(stsc, C, r) \in 1..(C + 1) /\ stsc[r].firstChunk < Upper(stsc, C, r)
    /\ \A c \in stsc[r].firstChunk..Upper(stsc, C, r) :
         fs[c] = fs[stsc[r].firstChunk] + (c - stsc[r].firstChunk) * stsc[r].samplesPerChunk

\* Each run of chunks is what Counted says, in numbers.
LEMMA RunsOfChunks ==
    ASSUME NEW stsc \in Seq(Chunks), NEW C \in Nat, NEW fs, Counted(stsc, C, fs)
    PROVE  \A r \in 1..Len(stsc) : RunIs(stsc, C, fs, r)
<1> SUFFICES ASSUME NEW r \in 1..Len(stsc) PROVE RunIs(stsc, C, fs, r)
  OBVIOUS
<1>1. /\ stsc[r].firstChunk < Upper(stsc, C, r) /\ Upper(stsc, C, r) <= C + 1
      /\ \A c \in stsc[r].firstChunk..Upper(stsc, C, r) :
           fs[c] = fs[stsc[r].firstChunk]
                     + (c - stsc[r].firstChunk) * stsc[r].samplesPerChunk
  BY DEF Counted
<1>2. stsc[r] \in Chunks
  OBVIOUS
<1>3. stsc[r].firstChunk \in Nat \ {0} /\ stsc[r].samplesPerChunk \in Nat \ {0}
  BY <1>2 DEF Chunks
<1>4. Upper(stsc, C, r) \in Nat
  <2>1. CASE r = Len(stsc)
    BY <2>1 DEF Upper
  <2>2. CASE r # Len(stsc)
    <3>1. r + 1 \in 1..Len(stsc)
      BY <2>2
    <3>2. stsc[r + 1] \in Chunks
      BY <3>1
    <3> QED BY <2>2, <3>2 DEF Upper, Chunks
  <2> QED BY <2>1, <2>2
<1> QED
  BY <1>1, <1>3, <1>4 DEF RunIs

\* Division with remainder.
LEMMA DivMod ==
    ASSUME NEW x \in Nat, NEW d \in Nat \ {0}
    PROVE  /\ x \div d \in Nat /\ x % d \in Nat /\ x % d < d
           /\ x = (x \div d) * d + (x % d)
  OBVIOUS

\* A smaller multiple is of a smaller number.
LEMMA Below ==
    ASSUME NEW q \in Nat, NEW m \in Nat, NEW d \in Nat \ {0}, q * d < m * d
    PROVE  q < m
  <1>1. CASE q >= m
    <2>1. PICK e \in Nat : q = m + e
      <3>1. q = m + (q - m) /\ q - m \in Nat
        BY <1>1
      <3> QED BY <3>1
    <2>2. (m + e) * d = m * d + e * d /\ e * d \in Nat /\ m * d \in Nat
      OBVIOUS
    <2> QED BY <2>1, <2>2
  <1> QED BY <1>1

\* The chunk that GetSampleFileOffset looks for sample k in.
ChunkAt(run, k, fs, C, c) ==
    /\ run.samplesPerChunk \in Nat \ {0}
    /\ c = run.firstChunk + ((k - run.firstSample) \div run.samplesPerChunk)
    /\ c \in 1..C /\ fs[c] <= k /\ k < fs[c + 1]
    /\ fs[c] = k - ((k - run.firstSample) % run.samplesPerChunk)

\* The run GetSampleStscIndex finds has the chunk of the sample in it.
LEMMA ChunkFound ==
    ASSUME NEW t, NEW stsc \in Seq(Chunks), t.stsc = stsc, NEW C \in Nat, NEW fs, Counted(stsc, C, fs),
           At(stsc, fs), NEW k \in Nat, 1 <= k, k < fs[C + 1]
    PROVE  stsc # <<>> /\ \E c : ChunkAt(stsc[GetSampleStscIndex(t, k)], k, fs, C, c)
<1> DEFINE n == Len(stsc)
           beyond == {i \in 1..n : k < stsc[i].firstSample}
           r == GetSampleStscIndex(t, k)
<1>1. /\ fs[1] = 1 /\ (stsc = <<>> <=> C = 0) /\ (stsc # <<>> => stsc[1].firstChunk = 1)
      /\ \A c \in Nat : fs[c] \in Nat
  BY NumberIn DEF Counted
<1>2. stsc # <<>> /\ n \in Nat /\ n > 0
  <2>1. C # 0
    <3>1. C = 0 => fs[C + 1] = 1
      BY <1>1
    <3> QED BY <3>1
  <2> QED BY <1>1, <2>1
<1>3. r = IF beyond = {} THEN n ELSE Min(beyond) - 1
  BY DEF GetSampleStscIndex
<1>4. r \in 1..n /\ ~ (r \in beyond) /\ (r # n => r + 1 \in beyond)
  <2> HIDE DEF r
  <2>1. CASE beyond = {}
    <3>1. r = n
      BY <1>3, <2>1
    <3> HIDE DEF beyond, n
    <3> QED BY <1>2, <2>1, <3>1
  <2>2. CASE beyond # {}
    <3>1. Min(beyond) \in beyond /\ \A i \in beyond : Min(beyond) <= i
      <4>1. beyond \subseteq Nat
        BY <1>2
      <4> HIDE DEF beyond
      <4> QED BY <2>2, <4>1, MinOf
    <3>2. r = Min(beyond) - 1
      BY <1>3, <2>2
    <3>3. ~ (1 \in beyond)
      <4>1. 1 \in 1..n
        BY <1>2
      <4>2. stsc[1].firstSample = fs[stsc[1].firstChunk]
        BY <4>1 DEF At
      <4> QED BY <1>1, <1>2, <4>2
    <3>4. Min(beyond) \in 1..n
      BY <3>1
    <3> DEFINE m == Min(beyond)
    <3>5. m \in beyond /\ (\A i \in beyond : m <= i) /\ r = m - 1 /\ m \in 1..n
      BY <3>1, <3>2, <3>4
    <3> HIDE DEF m, beyond, n
    <3>6. m # 1
      BY <3>3, <3>5
    <3>7. r \in 1..n /\ r + 1 = m /\ ~ (m <= r)
      BY <1>2, <3>5, <3>6
    <3> QED BY <3>5, <3>7
  <2> QED BY <2>1, <2>2
<1> HIDE DEF r
<1>5. ~ (k < stsc[r].firstSample) /\ (r # n => k < stsc[r + 1].firstSample)
  BY <1>4
<1> DEFINE run == stsc[r]
           u == Upper(stsc, C, r)
           back == k - run.firstSample
           q == back \div run.samplesPerChunk
           c == run.firstChunk + q
<1>6. RunIs(stsc, C, fs, r)
  BY <1>4, RunsOfChunks
<1>7. /\ run.firstChunk \in 1..C /\ run.samplesPerChunk \in Nat \ {0} /\ u \in 1..(C + 1)
      /\ run.firstChunk < u
      /\ \A d \in run.firstChunk..u :
           fs[d] = fs[run.firstChunk] + (d - run.firstChunk) * run.samplesPerChunk
  BY <1>6 DEF RunIs
<1>8. run.firstSample = fs[run.firstChunk] /\ run.firstSample \in Nat
  <2>1. run.firstSample = fs[run.firstChunk]
    BY <1>4 DEF At
  <2>2. run.firstChunk \in Nat
    BY <1>7
  <2> QED BY <1>1, <2>1, <2>2
<1>9. k < fs[u]
  <2>1. CASE r = n
    <3>1. u = C + 1
      BY <2>1 DEF Upper
    <3> QED BY <3>1
  <2>2. CASE r # n
    <3>1. r + 1 \in 1..n
      BY <1>2, <1>4, <2>2
    <3>2. stsc[r + 1].firstSample = fs[stsc[r + 1].firstChunk]
      BY <3>1 DEF At
    <3>3. u = stsc[r + 1].firstChunk
      BY <2>2 DEF Upper
    <3> QED BY <1>5, <2>2, <3>2, <3>3
  <2> QED BY <2>1, <2>2
<1>10. back \in Nat /\ k = fs[run.firstChunk] + back
  <2> HIDE DEF run
  <2> QED BY <1>5, <1>8 DEF run
<1> DEFINE a == run.firstChunk
           d == run.samplesPerChunk
<1>11. a \in 1..C /\ a \in Nat /\ d \in Nat \ {0} /\ u \in 1..(C + 1) /\ u \in Nat /\ a < u
       /\ \A e \in a..u : fs[e] = fs[a] + (e - a) * d
  BY <1>7
<1>12. q = back \div d /\ c = a + q /\ k = fs[a] + back /\ fs[a] \in Nat
  BY <1>8, <1>10
<1> HIDE DEF a, d, u, back, q, c
<1>13. q \in Nat /\ back % d \in Nat /\ back % d < d /\ back = q * d + (back % d)
  BY <1>10, <1>11, <1>12, DivMod
<1>14. q < u - a
  <2>1. fs[u] = fs[a] + (u - a) * d
    <3>1. u \in a..u
      BY <1>11
    <3> QED BY <1>11, <3>1
  <2>2. u - a \in Nat
    BY <1>11
  <2>3. q * d \in Nat /\ (u - a) * d \in Nat
    BY <1>11, <1>13, <2>2
  <2>4. q * d < (u - a) * d
    BY <1>9, <1>12, <1>13, <2>1, <2>3
  <2> QED BY <1>11, <1>13, <2>2, <2>4, Below
<1>15. c \in a..u /\ c + 1 \in a..u /\ c \in 1..C /\ c - a = q /\ (c + 1) - a = q + 1
  <2>1. a \in Nat /\ u \in Nat /\ q \in Nat /\ c = a + q /\ q < u - a /\ 1 <= a /\ u <= C + 1
    BY <1>11, <1>12, <1>13, <1>14
  <2>2. c \in Nat /\ a <= c /\ c + 1 <= u /\ c <= C /\ 1 <= c
    BY <2>1
  <2> QED BY <2>1, <2>2
<1>16. fs[c] = fs[a] + q * d /\ fs[c + 1] = fs[a] + (q + 1) * d
  BY <1>11, <1>15
<1>17. (q + 1) * d = q * d + d /\ q * d \in Nat
  BY <1>11, <1>13
<1>18. fs[c] = k - (back % d) /\ fs[c] <= k /\ k < fs[c + 1]
  <2> DEFINE p == q * d
             m == back % d
  <2>1. p \in Nat /\ m \in Nat /\ m < d /\ back = p + m /\ d \in Nat
    BY <1>11, <1>13, <1>17
  <2>2. fs[c] = fs[a] + p /\ fs[c + 1] = fs[a] + (p + d)
    BY <1>16, <1>17
  <2>3. fs[a] \in Nat /\ k = fs[a] + back
    BY <1>12
  <2> HIDE DEF p, m
  <2>4. fs[c] = k - m /\ fs[c] <= k /\ k < fs[c + 1]
    BY <2>1, <2>2, <2>3
  <2> QED BY <2>4 DEF m
<1>19. ChunkAt(run, k, fs, C, c)
  BY <1>11, <1>15, <1>18 DEF ChunkAt, a, d, back, q, c
<1> QED
  BY <1>2, <1>19 DEF r

\* Sizes.
LEMMA MaxOf ==
    ASSUME NEW s \in Seq(Nat), NEW k \in 1..Len(s)
    PROVE  Max(ToSet(s) \cup {0}) >= s[k] /\ Max(ToSet(s) \cup {0}) \in Nat
<1> DEFINE S == ToSet(s) \cup {0}
           T(m) == {s[i] : i \in 1..m} \cup {0}
           P == {m \in Nat : m <= Len(s) => \E x \in T(m) : x \in Nat /\ \A y \in T(m) : x >= y}
<1>1. 0 \in P
  OBVIOUS
<1>2. ASSUME NEW m \in Nat, m \in P
      PROVE  m + 1 \in P
  <2> SUFFICES ASSUME m + 1 <= Len(s)
               PROVE  \E x \in T(m + 1) : x \in Nat /\ \A y \in T(m + 1) : x >= y
    OBVIOUS
  <2>1. PICK x \in T(m) : x \in Nat /\ \A y \in T(m) : x >= y
    BY <1>2
  <2>2. s[m + 1] \in Nat
    OBVIOUS
  <2>3. \A y : y \in T(m + 1) <=> y \in T(m) \/ y = s[m + 1]
    <3>1. \A i \in 1..(m + 1) : i \in 1..m \/ i = m + 1
      OBVIOUS
    <3>2. \A i \in 1..m : i \in 1..(m + 1)
      OBVIOUS
    <3>3. m + 1 \in 1..(m + 1)
      OBVIOUS
    <3> QED BY <3>1, <3>2, <3>3
  <2> HIDE DEF T
  <2>4. CASE x >= s[m + 1]
    <3>1. x \in T(m + 1) /\ \A y \in T(m + 1) : x >= y
      BY <2>1, <2>3, <2>4
    <3> QED BY <2>1, <3>1
  <2>5. CASE ~ (x >= s[m + 1])
    <3>1. s[m + 1] \in T(m + 1)
      BY <2>3
    <3>2. ASSUME NEW y \in T(m + 1) PROVE s[m + 1] >= y
      <4>1. CASE y = s[m + 1]
        BY <2>2, <4>1
      <4>2. CASE y \in T(m)
        <5>1. x >= y /\ y \in Nat
          <6>1. \A i \in 1..m : s[i] \in Nat
            OBVIOUS
          <6> QED BY <2>1, <4>2, <6>1 DEF T
        <5> QED BY <2>1, <2>2, <2>5, <5>1
      <4> QED BY <2>3, <4>1, <4>2
    <3> QED BY <2>2, <3>1, <3>2
  <2> QED BY <2>4, <2>5
<1>3. Len(s) \in P
  <2> HIDE DEF P
  <2>1. Len(s) \in Nat
    OBVIOUS
  <2> QED BY <1>1, <1>2, <2>1, Induction
<1>4. S = T(Len(s))
  BY DEF ToSet
<1>5. PICK x \in S : x \in Nat /\ \A y \in S : x >= y
  <2>1. Len(s) \in Nat /\ Len(s) <= Len(s)
    OBVIOUS
  <2> HIDE DEF T, S
  <2> QED BY <1>3, <1>4, <2>1
<1>6. Max(S) = CHOOSE z \in S : \A y \in S : z >= y
  BY DEF Max
<1>7. s[k] \in S
  BY DEF ToSet
<1>8. (\A y \in S : Max(S) >= y) /\ Max(S) \in S
  <2> HIDE DEF S
  <2> QED BY <1>5, <1>6
<1>9. \A y \in S : y \in Nat
  <2>1. \A i \in 1..Len(s) : s[i] \in Nat
    OBVIOUS
  <2> QED BY <1>4, <2>1
<1> HIDE DEF S
<1> QED
  BY <1>7, <1>8, <1>9 DEF S

\* GetSampleSize answers the size of the sample, and the buffer is as large as
\* the largest.
LEMMA SizeRead ==
    ASSUME NEW t \in Trak, NEW L \in Seq(Entry), SizesOK(t, L), NEW k \in 1..Len(L)
    PROVE  GetSampleSize(t, k) = Len(L[k].bytes) /\ GetMaxSampleSize(t) >= Len(L[k].bytes)
           /\ Len(L[k].bytes) \in Nat /\ GetMaxSampleSize(t) \in Nat
<1>1. Len(L[k].bytes) \in Nat
  <2>1. L[k] \in Entry
    OBVIOUS
  <2>2. L[k].bytes \in Seq(Cell)
    BY <2>1 DEF Entry
  <2> QED BY <2>2
<1>2. CASE t.fixed # 0
  <2>1. Len(L[k].bytes) = t.fixed
    BY <1>2 DEF SizesOK
  <2> QED BY <1>1, <1>2, <2>1 DEF GetSampleSize, GetMaxSampleSize
<1>3. CASE t.fixed = 0
  <2>1. Len(t.sizes) = Len(L) /\ t.sizes[k] = Len(L[k].bytes)
    BY <1>3 DEF SizesOK
  <2>2. t.sizes \in Seq(Nat)
    BY DEF Trak
  <2>3. Max(ToSet(t.sizes) \cup {0}) >= t.sizes[k] /\ Max(ToSet(t.sizes) \cup {0}) \in Nat
    BY <2>1, <2>2, MaxOf
  <2> QED BY <1>1, <1>3, <2>1, <2>3 DEF GetSampleSize, GetMaxSampleSize
<1> QED
  BY <1>2, <1>3

\* A track of a closed file.
Readable(t, file, L) ==
    /\ Listed(t, L)
    /\ \E n \in Nat : \E fs, off :
         Placed(t.stsc, t.stco, <<>>, n, file, L, Len(L), fs, off) /\ At(t.stsc, fs)

\* The sizes before a sample of a chunk add up to its offset in the chunk.
LEMMA SizesUpTo ==
    ASSUME NEW f, NEW off, NEW from \in Nat, NEW to \in Nat, from <= to,
           \A i \in from..to : off[i] \in Int,
           \A i \in from..(to - 1) : f[i] \in Int /\ off[i + 1] = off[i] + f[i]
    PROVE  Total(f, from, to) = off[to] - off[from]
<1>1. from \in Int /\ to \in Int
  OBVIOUS
<1> QED
  BY <1>1, TotalBy

\* Sample k is where GetSampleFileOffset says.
Holds(file, at, bytes) ==
    at \in Nat /\ \A i \in 1..Len(bytes) : at + i \in 1..Len(file) /\ file[at + i] = bytes[i]

\* GetSampleFileOffset answers where the sample is.
LEMMA OffsetRead ==
    ASSUME NEW t, NEW file, NEW L, Readable(t, file, L), NEW k \in 1..Len(L), L[k].bytes # <<>>
    PROVE  Holds(file, GetSampleFileOffset(t, k), L[k].bytes)
<1>1. t \in Trak /\ L \in Seq(Entry) /\ SizesOK(t, L)
  BY DEF Readable, Listed
<1>2. PICK n \in Nat : \E fs, off :
        Placed(t.stsc, t.stco, <<>>, n, file, L, Len(L), fs, off) /\ At(t.stsc, fs)
  BY DEF Readable
<1>3. PICK fs, off :
        Placed(t.stsc, t.stco, <<>>, n, file, L, Len(L), fs, off) /\ At(t.stsc, fs)
  BY <1>2
<1> DEFINE C == Len(t.stco)
           l == Len(L)
<1>4. /\ Counted(t.stsc, C, fs) /\ Piece(<<>>, 0, off, L, fs[C + 1], l + 1)
      /\ off \in Table /\ \A c \in 1..C : Piece(file, t.stco[c], off, L, fs[c], fs[c + 1])
  BY <1>3 DEF Placed
<1>5. t.stsc \in Seq(Chunks) /\ t.stco \in Seq(Nat) /\ C \in Nat /\ l \in Nat /\ k \in Nat
  BY <1>1 DEF Trak
<1>6. (\A j \in Nat : off[j] \in Nat) /\ \A j \in Nat : fs[j] \in Nat
  BY <1>4, NumberIn DEF Counted
<1>7. Len(L[k].bytes) \in Nat /\ Len(L[k].bytes) >= 1
  <2>1. L[k] \in Entry
    BY <1>1
  <2>2. L[k].bytes \in Seq(Cell)
    BY <2>1 DEF Entry
  <2> QED BY <2>2
<1> HIDE DEF C, l
<1>8. k < fs[C + 1]
  <2> SUFFICES ASSUME ~ (k < fs[C + 1]) PROVE FALSE
    OBVIOUS
  <2>1. fs[C + 1] \in Nat
    BY <1>5, <1>6
  <2>2. k \in fs[C + 1]..((l + 1) - 1)
    BY <1>5, <2>1 DEF l
  <2>3. 1 \in 1..Len(L[k].bytes)
    BY <1>7
  <2>4. 0 + off[k] + 1 \in 1..Len(<<>>)
    BY <1>4, <2>2, <2>3 DEF Piece
  <2> QED BY <1>5, <1>6, <2>4
<1> DEFINE run == t.stsc[GetSampleStscIndex(t, k)]
           back == k - run.firstSample
           first == k - (back % run.samplesPerChunk)
<1>9. t.stsc # <<>> /\ \E c : ChunkAt(run, k, fs, C, c)
  <2>1. 1 <= k
    OBVIOUS
  <2> QED BY <1>3, <1>4, <1>5, <1>8, <2>1, ChunkFound
<1>10. PICK c : ChunkAt(run, k, fs, C, c)
  BY <1>9
<1>11. /\ c = run.firstChunk + (back \div run.samplesPerChunk)
       /\ c \in 1..C /\ fs[c] <= k /\ k < fs[c + 1] /\ fs[c] = first
  BY <1>10 DEF ChunkAt
<1>12. c \in Nat /\ fs[c] \in Nat /\ fs[c + 1] \in Nat /\ c <= C
  <2>1. c \in Nat /\ c + 1 \in Nat /\ c <= C
    BY <1>5, <1>11
  <2> QED BY <1>6, <2>1
<1> DEFINE sizes == [i \in first..(k - 1) |-> GetSampleSize(t, i)]
<1>13. GetSampleFileOffset(t, k) = t.stco[c] + Total(sizes, first, k)
  <2> HIDE DEF sizes
  <2>1. GetSampleFileOffset(t, k) = IF c > C THEN Throws ELSE t.stco[c] + Total(sizes, first, k)
    BY <1>9, <1>11 DEF GetSampleFileOffset, sizes, C
  <2>2. ~ (c > C)
    BY <1>5, <1>12
  <2> QED BY <2>1, <2>2
<1> HIDE DEF first, run
<1>14. Piece(file, t.stco[c], off, L, first, fs[c + 1]) /\ first \in Nat /\ first <= k
  BY <1>4, <1>11, <1>12
<1>15. Total(sizes, first, k) = off[k]
  <2>1. ASSUME NEW i \in first..(k - 1)
        PROVE  sizes[i] \in Int /\ off[i + 1] = off[i] + sizes[i]
    <3>1. i \in 1..Len(L)
      <4>1. first >= 1
        <5>1. fs[c] >= 1
          <6>1. FirstOK(fs, C, l)
            <7>1. l \in Nat /\ C \in Nat
              BY <1>5
            <7>2. Placed(t.stsc, t.stco, <<>>, n, file, L, l, fs, off)
              BY <1>3 DEF l
            <7> QED BY <7>1, <7>2, ChunksInOrder DEF C
          <6>2. c \in 1..(C + 1)
            BY <1>5, <1>11
          <6> QED BY <6>1, <6>2 DEF FirstOK
        <5> QED BY <1>11, <5>1
      <4> QED BY <1>5, <1>14, <4>1 DEF l
    <3>2. sizes[i] = Len(L[i].bytes) /\ Len(L[i].bytes) \in Nat
      BY <1>1, <3>1, SizeRead
    <3>3. i \in first..(fs[c + 1] - 2)
      BY <1>5, <1>11, <1>12, <1>14
    <3>4. off[i + 1] = off[i] + Len(L[i].bytes)
      BY <1>14, <3>3 DEF Piece
    <3> QED BY <3>2, <3>4
  <2>2. \A i \in first..k : off[i] \in Int
    <3>1. \A i \in first..k : i \in Nat
      BY <1>5, <1>14
    <3> QED BY <1>6, <3>1
  <2>3. first \in Int /\ k \in Int /\ first <= k
    BY <1>5, <1>14
  <2> HIDE DEF sizes
  <2>4. Total(sizes, first, k) = off[k] - off[first]
    <3> DEFINE a == first
    <3>1. a \in Nat /\ k \in Nat /\ a <= k
      BY <1>5, <1>14
    <3>2. \A i \in a..(k - 1) : sizes[i] \in Int /\ off[i + 1] = off[i] + sizes[i]
      BY <2>1
    <3>3. \A i \in a..k : off[i] \in Int
      BY <2>2
    <3> HIDE DEF a
    <3>4. Total(sizes, a, k) = off[k] - off[a]
      BY <3>1, <3>2, <3>3, SizesUpTo
    <3> QED BY <3>4 DEF a
  <2>5. off[first] = 0
    BY <1>14 DEF Piece
  <2>6. off[k] \in Nat
    BY <1>5, <1>6
  <2> QED BY <2>4, <2>5, <2>6
<1> HIDE DEF sizes
<1>16. GetSampleFileOffset(t, k) = t.stco[c] + off[k] /\ t.stco[c] \in Nat /\ off[k] \in Nat
  <2>1. c \in 1..Len(t.stco)
    BY <1>11 DEF C
  <2>2. t.stco[c] \in Nat
    BY <1>5, <2>1
  <2> QED BY <1>5, <1>6, <1>13, <1>15, <2>2
<1>17. \A i \in 1..Len(L[k].bytes) : /\ t.stco[c] + off[k] + i \in 1..Len(file)
                                     /\ file[t.stco[c] + off[k] + i] = L[k].bytes[i]
  <2>1. k \in first..(fs[c + 1] - 1)
    BY <1>5, <1>11, <1>12, <1>14
  <2> QED BY <1>14, <2>1 DEF Piece
<1> DEFINE at == GetSampleFileOffset(t, k)
<1>18. at = t.stco[c] + off[k] /\ at \in Nat
  BY <1>16
<1> HIDE DEF at
<1>19. Holds(file, at, L[k].bytes)
  BY <1>17, <1>18 DEF Holds
<1> QED
  BY <1>19 DEF at

\* ReadSample answers the bytes that were written.
LEMMA BytesRead ==
    ASSUME NEW t, NEW file \in Seq(Cell), NEW L, Readable(t, file, L), NEW k \in 1..Len(L),
           L[k].bytes # <<>>
    PROVE  LET r == ReadSample(t, file, k, GetMaxSampleSize(t)) IN
           r.ok /\ r.bytes = L[k].bytes
<1> DEFINE bytes == L[k].bytes
           at == GetSampleFileOffset(t, k)
           size == GetSampleSize(t, k)
<1>1. t \in Trak /\ L \in Seq(Entry) /\ SizesOK(t, L)
  BY DEF Readable, Listed
<1>2. bytes \in Seq(Cell) /\ Len(bytes) \in Nat /\ Len(bytes) >= 1
  <2>1. L[k] \in Entry
    BY <1>1
  <2>2. L[k].bytes \in Seq(Cell)
    BY <2>1 DEF Entry
  <2> QED BY <2>2
<1>3. size = Len(bytes) /\ GetMaxSampleSize(t) >= size /\ GetMaxSampleSize(t) \in Nat
  BY <1>1, SizeRead
<1>4. Holds(file, at, bytes)
  BY OffsetRead
<1> DEFINE maxSize == GetMaxSampleSize(t)
           r == ReadSample(t, file, k, maxSize)
<1>5. ~ (\/ k = MP4_INVALID_SAMPLE_ID \/ at = Throws \/ maxSize < size)
  <2>1. at \in Nat
    BY <1>4 DEF Holds
  <2>2. at # Throws
    <3> HIDE DEF at
    <3> QED BY <2>1 DEF Throws
  <2>3. k # MP4_INVALID_SAMPLE_ID
    BY DEF MP4_INVALID_SAMPLE_ID
  <2> HIDE DEF maxSize, size
  <2>4. ~ (maxSize < size)
    BY <1>2, <1>3 DEF maxSize
  <2> QED BY <2>2, <2>3, <2>4
<1>6. at \in Nat /\ at + size \in 1..Len(file)
      /\ \A i \in 1..size : at + i \in 1..Len(file) /\ file[at + i] = bytes[i]
  <2> HIDE DEF bytes, at, size
  <2>1. at \in Nat /\ \A i \in 1..size : at + i \in 1..Len(file) /\ file[at + i] = bytes[i]
    BY <1>3, <1>4 DEF Holds
  <2>2. size \in 1..size
    BY <1>2, <1>3
  <2> QED BY <2>1, <2>2
<1>7. ~ (at + size > Len(file))
  <2> HIDE DEF at, size
  <2> QED BY <1>6
<1>8. r.ok /\ r.bytes = SubSeq(file, at + 1, at + size)
  <2> HIDE DEF maxSize
  <2> QED BY <1>5, <1>7 DEF ReadSample
<1>9. SubSeq(file, at + 1, at + size) = bytes
  <2> HIDE DEF at, size, bytes, r
  <2>1. size \in Nat /\ at + 1 \in Nat /\ at + size \in Nat /\ at \in Nat
    BY <1>2, <1>3, <1>6
  <2> DEFINE part == SubSeq(file, at + 1, at + size)
  <2>2. \A i \in 1..size : at + i \in 1..Len(file)
    BY <1>6
  <2>3. part \in Seq(Cell) /\ Len(part) = size /\ \A i \in 1..size : part[i] = file[at + i]
    <3>1. 1 <= at + 1 /\ at + size <= Len(file) /\ (at + size) - (at + 1) + 1 = size
      BY <1>6, <2>1
    <3>2. \A i \in 1..size : (at + 1) + i - 1 = at + i
      BY <2>1
    <3> QED BY <2>1, <2>2, <3>1, <3>2
  <2> HIDE DEF part
  <2>4. part \in Seq(Cell) /\ bytes \in Seq(Cell) /\ Len(part) = Len(bytes)
        /\ \A i \in 1..Len(part) : part[i] = bytes[i]
    BY <1>2, <1>3, <1>6, <2>3
  <2>5. part = bytes
    BY <2>4
  <2> QED BY <2>5 DEF part
<1> HIDE DEF r
<1>10. r.ok /\ r.bytes = bytes
  BY <1>8, <1>9
<1> QED
  BY <1>10 DEF r

\* firstSample as the reader computes it.
Alike(z, stsc) ==
    /\ z \in Seq(Chunks) /\ Len(z) = Len(stsc)
    /\ \A r \in 1..Len(stsc) : /\ z[r].firstChunk = stsc[r].firstChunk
                               /\ z[r].samplesPerChunk = stsc[r].samplesPerChunk

\* The count of chunks does not depend on firstSample.
LEMMA CountedAlike ==
    ASSUME NEW stsc \in Seq(Chunks), NEW C \in Nat, NEW fs, Counted(stsc, C, fs),
           NEW z, Alike(z, stsc)
    PROVE  Counted(z, C, fs)
<1>1. /\ fs \in Table /\ fs[1] = 1
      /\ \A c \in 1..C : \A d \in (c + 1)..(C + 1) : fs[c] < fs[d]
  BY DEF Counted
<1>2. z = <<>> <=> stsc = <<>>
  BY DEF Alike
<1>3. (z = <<>> <=> C = 0) /\ (z # <<>> => z[1].firstChunk = 1)
  <2>1. (stsc = <<>> <=> C = 0) /\ (stsc # <<>> => stsc[1].firstChunk = 1)
    BY DEF Counted
  <2>2. stsc # <<>> => 1 \in 1..Len(stsc)
    OBVIOUS
  <2> QED BY <1>2, <2>1, <2>2 DEF Alike
<1>4. ASSUME NEW r \in 1..Len(z)
      PROVE  /\ z[r].firstChunk < Upper(z, C, r) /\ Upper(z, C, r) <= C + 1
             /\ \A c \in z[r].firstChunk..Upper(z, C, r) :
                  fs[c] = fs[z[r].firstChunk] + (c - z[r].firstChunk) * z[r].samplesPerChunk
  <2>1. r \in 1..Len(stsc) /\ Len(z) = Len(stsc) /\ Len(stsc) \in Nat
    BY DEF Alike
  <2>2. Upper(z, C, r) = Upper(stsc, C, r)
    <3>1. CASE r = Len(stsc)
      BY <2>1, <3>1 DEF Upper
    <3>2. CASE r # Len(stsc)
      <4>1. r + 1 \in 1..Len(stsc)
        BY <2>1, <3>2
      <4>2. z[r + 1].firstChunk = stsc[r + 1].firstChunk
        BY <4>1 DEF Alike
      <4> QED BY <2>1, <3>2, <4>2 DEF Upper
    <3> QED BY <3>1, <3>2
  <2>3. z[r].firstChunk = stsc[r].firstChunk /\ z[r].samplesPerChunk = stsc[r].samplesPerChunk
    BY <2>1 DEF Alike
  <2>4. /\ stsc[r].firstChunk < Upper(stsc, C, r) /\ Upper(stsc, C, r) <= C + 1
        /\ \A c \in stsc[r].firstChunk..Upper(stsc, C, r) :
             fs[c] = fs[stsc[r].firstChunk]
                       + (c - stsc[r].firstChunk) * stsc[r].samplesPerChunk
    BY <2>1 DEF Counted
  <2> QED BY <2>2, <2>3, <2>4
<1> QED
  BY <1>1, <1>3, <1>4 DEF Counted

\* The samples between chunk a and chunk b of run i.
Between(stsc, fs, a, b, i) ==
    a \in Nat /\ b \in Nat /\ fs[a] \in Nat /\ fs[b] \in Nat
      /\ (b - a) * stsc[i].samplesPerChunk \in Int
      /\ fs[b] = fs[a] + (b - a) * stsc[i].samplesPerChunk

\* The samples of run i are those between its first chunk and the next run's.
LEMMA RunBefore ==
    ASSUME NEW stsc \in Seq(Chunks), NEW C \in Nat, NEW fs, Counted(stsc, C, fs),
           NEW i \in 1..(Len(stsc) - 1)
    PROVE  Between(stsc, fs, stsc[i].firstChunk, stsc[i + 1].firstChunk, i)
<1> DEFINE a == stsc[i].firstChunk
           b == stsc[i + 1].firstChunk
<1>1. i \in 1..Len(stsc) /\ i + 1 \in 1..Len(stsc) /\ i # Len(stsc)
  OBVIOUS
<1>2. RunIs(stsc, C, fs, i) /\ RunIs(stsc, C, fs, i + 1)
  BY <1>1, RunsOfChunks
<1>3. Upper(stsc, C, i) = b
  BY <1>1 DEF Upper
<1>4. stsc[i].samplesPerChunk \in Nat /\ a \in Nat /\ b \in Nat /\ a < b
  BY <1>2, <1>3 DEF RunIs
<1>5. fs[a] \in Nat /\ fs[b] \in Nat
  BY <1>4, NumberIn DEF Counted
<1>6. b \in a..b
  BY <1>4
<1>7. fs[b] = fs[a] + (b - a) * stsc[i].samplesPerChunk
  BY <1>2, <1>3, <1>6 DEF RunIs
<1> HIDE DEF a, b
<1> QED
  BY <1>4, <1>5, <1>7 DEF Between, a, b

\* MP4StscAtom::Read computes the first sample of every run, and makes the
\* track readable.
LEMMA TrackRead ==
    ASSUME NEW t, NEW file \in Seq(Cell), NEW L, Listed(t, L), Stored(t, file, L), t.buffer = <<>>
    PROVE  LET u == MP4StscAtom_Read(t) IN Readable(u, file, L) /\ u.cache = t.cache
<1> DEFINE n == Len(t.stsc)
           samples == [i \in 1..(n - 1) |->
                         (t.stsc[i + 1].firstChunk - t.stsc[i].firstChunk)
                           * t.stsc[i].samplesPerChunk]
           z == [i \in 1..n |-> [t.stsc[i] EXCEPT !.firstSample = 1 + Total(samples, 1, i)]]
           u == MP4StscAtom_Read(t)
           C == Len(t.stco)
<1>1. t \in Trak /\ L \in Seq(Entry)
  BY DEF Listed
<1>2. t.stsc \in Seq(Chunks) /\ n \in Nat /\ t.stco \in Seq(Nat) /\ C \in Nat /\ Len(L) \in Nat
      /\ t.chunkSamples \in Nat
  BY <1>1 DEF Trak
<1>3. PICK fs, off : Placed(t.stsc, t.stco, <<>>, t.chunkSamples, file, L, Len(L), fs, off)
  BY DEF Stored
<1>4. Counted(t.stsc, C, fs)
  BY <1>3 DEF Placed
<1>5. ASSUME NEW i \in 1..n
      PROVE  1 + Total(samples, 1, i) = fs[t.stsc[i].firstChunk]
             /\ fs[t.stsc[i].firstChunk] \in Nat
  <2> DEFINE S == [j \in 1..n |-> fs[t.stsc[j].firstChunk]]
  <2>1. ASSUME NEW j \in 1..n PROVE S[j] \in Nat
    <3>1. t.stsc[j] \in Chunks
      BY <1>2
    <3>2. t.stsc[j].firstChunk \in Nat
      BY <3>1 DEF Chunks
    <3> QED BY <1>4, <3>2, NumberIn DEF Counted
  <2>2. ASSUME NEW j \in 1..(i - 1)
        PROVE  samples[j] \in Int /\ S[j + 1] = S[j] + samples[j]
    <3>1. j \in 1..(n - 1) /\ j \in 1..n /\ j + 1 \in 1..n
      BY <1>2
    <3>2. samples[j] = (t.stsc[j + 1].firstChunk - t.stsc[j].firstChunk) * t.stsc[j].samplesPerChunk
      BY <3>1
    <3> HIDE DEF samples
    <3>3. S[j] = fs[t.stsc[j].firstChunk] /\ S[j + 1] = fs[t.stsc[j + 1].firstChunk]
      BY <3>1
    <3> HIDE DEF S
    <3> DEFINE a == t.stsc[j].firstChunk
               b == t.stsc[j + 1].firstChunk
               p == (b - a) * t.stsc[j].samplesPerChunk
    <3>4. fs[a] \in Nat /\ fs[b] \in Nat /\ p \in Int /\ fs[b] = fs[a] + p
      <4>1. a = t.stsc[j].firstChunk /\ b = t.stsc[j + 1].firstChunk
            /\ p = (b - a) * t.stsc[j].samplesPerChunk
        OBVIOUS
      <4>2. j \in 1..(Len(t.stsc) - 1)
        BY <3>1
      <4>3. Between(t.stsc, fs, a, b, j)
        BY <1>2, <1>4, <4>2, RunBefore
      <4> HIDE DEF a, b, p, n
      <4>4. /\ a \in Nat /\ b \in Nat /\ fs[a] \in Nat /\ fs[b] \in Nat
            /\ (b - a) * t.stsc[j].samplesPerChunk \in Int
            /\ fs[b] = fs[a] + (b - a) * t.stsc[j].samplesPerChunk
        BY <4>3 DEF Between
      <4> QED BY <4>1, <4>4
    <3>5. samples[j] = p /\ S[j] = fs[a] /\ S[j + 1] = fs[b]
      BY <3>2, <3>3
    <3> HIDE DEF a, b, p
    <3> QED BY <3>4, <3>5
  <2>3. S[1] = 1 /\ S[i] = fs[t.stsc[i].firstChunk] /\ S[i] \in Nat
    <3>1. 1 \in 1..n
      BY <1>2
    <3>2. t.stsc # <<>>
      BY <1>2
    <3>3. t.stsc[1].firstChunk = 1 /\ fs[1] = 1
      BY <1>4, <3>2 DEF Counted
    <3> QED BY <2>1, <3>1, <3>3
  <2> HIDE DEF samples, S
  <2>4. \A j \in 1..i : S[j] \in Int
    BY <1>2, <2>1
  <2>5. 1 \in Nat /\ i \in Nat /\ 1 <= i
    BY <1>2
  <2>6. Total(samples, 1, i) = S[i] - S[1]
    BY <2>2, <2>4, <2>5, SizesUpTo
  <2> QED BY <2>3, <2>6
<1> HIDE DEF samples
<1>6. ASSUME NEW i \in 1..n
      PROVE  /\ z[i] = [t.stsc[i] EXCEPT !.firstSample = fs[t.stsc[i].firstChunk]]
             /\ z[i] \in Chunks /\ z[i].firstSample = fs[t.stsc[i].firstChunk]
             /\ z[i].firstChunk = t.stsc[i].firstChunk
             /\ z[i].samplesPerChunk = t.stsc[i].samplesPerChunk
  <2>1. z[i] = [t.stsc[i] EXCEPT !.firstSample = fs[t.stsc[i].firstChunk]]
    BY <1>5
  <2>2. t.stsc[i] \in Chunks /\ fs[t.stsc[i].firstChunk] \in Int
    BY <1>2, <1>5
  <2> HIDE DEF z
  <2> QED BY <2>1, <2>2 DEF Chunks
<1>7. z \in Seq(Chunks) /\ Len(z) = n
  <2>1. z = [i \in 1..n |-> z[i]]
    OBVIOUS
  <2> HIDE DEF z
  <2>2. \A i \in 1..n : z[i] \in Chunks
    BY <1>6
  <2> HIDE DEF n
  <2> QED BY <1>2, <2>1, <2>2
<1>8. u = [t EXCEPT !.stsc = z, !.buffer = <<>>, !.chunkSamples = 0, !.chunkDuration = 0,
                    !.writeSampleId = 1]
  BY DEF MP4StscAtom_Read, samples
<1> HIDE DEF u, z
<1>9. Alike(z, t.stsc) /\ At(z, fs)
  <2>1. Alike(z, t.stsc)
    BY <1>6, <1>7 DEF Alike
  <2>2. At(z, fs)
    BY <1>6, <1>7 DEF At
  <2> QED BY <2>1, <2>2
<1>10. u \in Trak
  <2>1. z \in Seq(Chunks) /\ <<>> \in Seq(Cell) /\ 0 \in Nat /\ 1 \in Nat
    BY <1>7
  <2> QED BY <1>1, <1>8, <2>1, Zenon DEF Trak
<1>11. /\ u.fixed = t.fixed /\ u.sizes = t.sizes /\ u.count = t.count /\ u.stts = t.stts
       /\ u.stss = t.stss /\ u.stsc = z /\ u.stco = t.stco /\ u.cache = t.cache
  BY <1>1, <1>8 DEF Trak
<1>12. Listed(u, L)
  BY <1>10, <1>11, ListedAlike
<1>13. Placed(z, t.stco, <<>>, t.chunkSamples, file, L, Len(L), fs, off)
  <2>1. Counted(z, C, fs)
    BY <1>2, <1>4, <1>9, CountedAlike
  <2> QED BY <1>3, <2>1 DEF Placed
<1>14. Readable(u, file, L)
  BY <1>2, <1>9, <1>11, <1>12, <1>13 DEF Readable
<1> QED
  BY <1>11, <1>14 DEF u

\* A track being read, with what GetSampleTimes remembers.
Ready(t, file, L) ==
    Readable(t, file, L) /\ \E b : Timed(t.stts, L, Len(L), b) /\ CacheOK(t, b)

\* The durations of the samples before k.
StartOf(L, k) == Total([i \in 1..(k - 1) |-> L[i].duration], 1, k)

\* GetSampleTimes is right about the sample and caches what may be cached.
TimesOK(g, t, file, L, k) ==
    /\ Ready([t EXCEPT !.cache = g.cache], file, L)
    /\ g.duration = L[k].duration
    /\ RunsFit(t) => g.start = StartOf(L, k)

\* GetSampleTimes is right whatever it remembers.
LEMMA TimesAre ==
    ASSUME NEW t, NEW file, NEW L, Ready(t, file, L), NEW k \in 1..Len(L)
    PROVE  TimesOK(GetSampleTimes(t, k), t, file, L, k)
<1> DEFINE g == GetSampleTimes(t, k)
           l == Len(L)
           u == [t EXCEPT !.cache = g.cache]
<1>1. Readable(t, file, L) /\ Listed(t, L) /\ t \in Trak /\ L \in Seq(Entry)
  BY DEF Ready, Readable, Listed
<1>2. PICK b : Timed(t.stts, L, l, b) /\ CacheOK(t, b)
  BY DEF Ready
<1>3. t.stts \in Seq(Run) /\ l \in Nat
  BY <1>1 DEF Trak
<1>4. InOrder(t.stts, L, l, b)
  BY <1>2, <1>3, RunsInOrder
<1>5. PICK r : TimesFound(g, t, b, k, r)
  <2>1. k \in 1..l
    OBVIOUS
  <2> QED BY <1>2, <1>3, <1>4, <2>1, TimesRead
<1> HIDE DEF g, l
<1>6. /\ r \in 1..Len(t.stts) /\ b[r] <= k /\ k < b[r + 1] /\ g.duration = t.stts[r].delta
      /\ g.cache = [index |-> r, sid |-> b[r], elapsed |-> Elapsed(t, r)]
  BY <1>5 DEF TimesFound
<1>7. r \in Nat /\ b[r] \in Nat /\ b[r + 1] \in Nat
  <2>1. Len(t.stts) \in Nat
    BY <1>3
  <2>2. r \in Nat /\ r + 1 \in Nat
    BY <1>6, <2>1
  <2> QED BY <1>4, <2>2 DEF InOrder
<1>8. Elapsed(t, r) \in Int
  <2>1. \A i \in 1..(r - 1) : Products(t)[i] \in Int
    <3>1. \A i \in 1..Len(t.stts) : Products(t)[i] \in Nat
      BY <1>4, ProductsOK
    <3>2. \A i \in 1..(r - 1) : i \in 1..Len(t.stts)
      BY <1>3, <1>6
    <3> QED BY <3>1, <3>2
  <2>2. 1 \in Int /\ r \in Int /\ 1 <= r /\ 1 <= 1
    BY <1>6
  <2> QED BY <2>1, <2>2, TotalSplit DEF Elapsed
<1>9. u \in Trak
  <2>1. g.cache \in [index : Nat, sid : Nat, elapsed : Int]
    BY <1>6, <1>7, <1>8
  <2> QED BY <1>1, <2>1, Zenon DEF Trak
<1>10. /\ u.fixed = t.fixed /\ u.sizes = t.sizes /\ u.count = t.count /\ u.stts = t.stts
       /\ u.stss = t.stss /\ u.stsc = t.stsc /\ u.stco = t.stco /\ u.cache = g.cache
  BY <1>1 DEF Trak
<1> HIDE DEF u
<1>11. Listed(u, L)
  BY <1>1, <1>9, <1>10, ListedAlike
<1>12. Readable(u, file, L)
  BY <1>1, <1>10, <1>11 DEF Readable
<1>13. CacheOK(u, b)
  <2>1. u.cache.index = r /\ u.cache.sid = b[r] /\ u.cache.elapsed = Elapsed(t, r)
    BY <1>6, <1>10
  <2>2. Elapsed(u, r) = Elapsed(t, r)
    BY <1>10 DEF Elapsed, Products
  <2> QED BY <1>6, <1>10, <2>1, <2>2 DEF CacheOK
<1>14. Ready(u, file, L)
  BY <1>2, <1>10, <1>12, <1>13 DEF Ready, l
<1>15. g.duration = L[k].duration
  <2>1. k \in b[r]..(b[r + 1] - 1)
    BY <1>3, <1>6, <1>7 DEF l
  <2> QED BY <1>4, <1>6, <2>1 DEF InOrder
<1>16. RunsFit(t) => g.start = StartOf(L, k)
  <2> SUFFICES ASSUME RunsFit(t) PROVE g.start = StartOf(L, k)
    OBVIOUS
  <2>1. Fit(t)
    <3>1. DOMAIN t.stts = 1..Len(t.stts)
      BY <1>3
    <3> QED BY <3>1 DEF RunsFit, Fit
  <2>2. k \in 1..l
    BY DEF l
  <2> QED BY <1>3, <1>4, <1>5, <2>1, <2>2, StartFound DEF StartOf
<1> QED
  BY <1>14, <1>15, <1>16 DEF TimesOK, g, u

\* ReadSample leaves the track as it was, but for the cache.
LEMMA ReadsOn ==
    ASSUME NEW t, NEW file, NEW L, Ready(t, file, L), NEW k \in 0..Len(L)
    PROVE  LET r == ReadSample(t, file, k, GetMaxSampleSize(t)) IN
           /\ Ready(r.trak, file, L) /\ r.trak.stts = t.stts
           /\ r.ok \in BOOLEAN /\ (r.ok => k # 0)
<1> DEFINE m == GetMaxSampleSize(t)
           r == ReadSample(t, file, k, m)
           refused == [ok |-> FALSE, bytes |-> <<>>, start |-> Throws, trak |-> t]
           at == GetSampleFileOffset(t, k)
           size == GetSampleSize(t, k)
           times == GetSampleTimes(t, k)
           read == [ok    |-> TRUE, bytes |-> SubSeq(file, at + 1, at + size),
                    start |-> times.start, trak  |-> [t EXCEPT !.cache = times.cache]]
<1>1. r = refused \/ (k # 0 /\ r = read)
  <2> HIDE DEF m
  <2> QED BY DEF ReadSample, MP4_INVALID_SAMPLE_ID
<1>2. CASE r = refused
  <2>1. r.trak = t /\ r.ok = FALSE
    BY <1>2
  <2> HIDE DEF r
  <2> QED BY <2>1 DEF r
<1>3. CASE k # 0 /\ r = read
  <2>1. r.trak = [t EXCEPT !.cache = times.cache] /\ r.ok = TRUE
    BY <1>3
  <2>2. t \in Trak
    BY DEF Ready, Readable, Listed
  <2>3. k \in 1..Len(L)
    BY <1>3
  <2>4. TimesOK(times, t, file, L, k)
    BY <2>3, TimesAre
  <2> HIDE DEF r, times
  <2>5. Ready(r.trak, file, L)
    BY <2>1, <2>4 DEF TimesOK
  <2>6. r.trak.stts = t.stts
    BY <2>1, <2>2 DEF Trak
  <2> QED BY <1>3, <2>1, <2>5, <2>6 DEF r
<1> QED
  BY <1>1, <1>2, <1>3

\* What SamplesReadBack says of a track.
ReadBack(t, file, L) ==
    /\ t.count = Len(L)
    /\ \A k \in 1..t.count :
         LET r     == ReadSample(t, file, k, GetMaxSampleSize(t))
             times == GetSampleTimes(t, k)
         IN  /\ L[k].bytes # <<>> => r.ok /\ r.bytes = L[k].bytes
             /\ RunsFit(t) => times.start = StartOf(L, k)
             /\ times.duration = L[k].duration
             /\ IsSyncSample(t, k) = SyncAnswerOf(L, k)

\* A track that is ready is read back.
LEMMA TrackReadBack ==
    ASSUME NEW t, NEW file \in Seq(Cell), NEW L, Ready(t, file, L)
    PROVE  ReadBack(t, file, L)
<1>1. Readable(t, file, L) /\ t \in Trak /\ L \in Seq(Entry) /\ SyncOK(t.stss, L) /\ t.count = Len(L)
  BY DEF Ready, Readable, Listed, SizesOK
<1>2. ASSUME NEW k \in 1..t.count
      PROVE  LET r     == ReadSample(t, file, k, GetMaxSampleSize(t))
                 times == GetSampleTimes(t, k)
             IN  /\ L[k].bytes # <<>> => r.ok /\ r.bytes = L[k].bytes
                 /\ RunsFit(t) => times.start = StartOf(L, k)
                 /\ times.duration = L[k].duration
                 /\ IsSyncSample(t, k) = SyncAnswerOf(L, k)
  <2> DEFINE r     == ReadSample(t, file, k, GetMaxSampleSize(t))
             times == GetSampleTimes(t, k)
  <2>1. k \in 1..Len(L) /\ Len(L) \in Nat
    BY <1>1
  <2>2. L[k].bytes # <<>> => r.ok /\ r.bytes = L[k].bytes
    BY <1>1, <2>1, BytesRead
  <2>3. TimesOK(times, t, file, L, k)
    BY <2>1, TimesAre
  <2>4. IsSyncSample(t, k) = SyncAnswerOf(L, k)
    BY <1>1, <2>1, SyncRead
  <2> HIDE DEF r, times
  <2> QED BY <2>2, <2>3, <2>4 DEF TimesOK, r, times
<1> QED
  BY <1>1, <1>2 DEF ReadBack

(***************************************************************************)
(* The recorder.                                                           *)
(***************************************************************************)

\* The recorder's record and the history, and what they say in each phase.
Slots == [trak : [Names -> Trak], file : Seq(Cell), vTrackId : Nat, bFirstVideo : BOOLEAN,
          u64VideoPTS : Nat]
Logs == [Names -> Seq(Entry)]

AllWritten(r, lg) == \A x \in Names : Written(r.trak[x], r.file, lg[x])

\* The bytes of a sample are bytes of a file.
LEMMA BytesAre ==
    ASSUME NEW x \in Names, NEW k \in Nat, NEW n \in Nat
    PROVE  Bytes(x, k, n) \in Seq(Cell) /\ Len(Bytes(x, k, n)) = n
<1>1. \A i \in 1..n : <<x, k, i>> \in Names \X Nat \X Nat
  OBVIOUS
<1>2. \A i \in 1..n : <<x, k, i>> \in Cell
  BY <1>1 DEF Cell
<1> QED
  BY <1>2 DEF Bytes

\* One sample more on track x: what Sampled answers.
SampledTo(w, r, lg, x, e) ==
    /\ w \in [rec : Slots, log : Logs] /\ AllWritten(w.rec, w.log)
    /\ w.rec.vTrackId = r.vTrackId /\ w.rec.bFirstVideo = r.bFirstVideo
    /\ w.rec.u64VideoPTS = r.u64VideoPTS
    /\ w.log[x] = Append(lg[x], e) /\ \A y \in Names : y # x => w.log[y] = lg[y]

\* The sample is of that duration and time.
SampledAs(w, r, lg, x, d, pts) ==
    \E e \in Entry : /\ SampledTo(w, r, lg, x, e) /\ e.pts = pts
                     /\ e.duration = EffectiveDuration(r.trak[x], d) % U32

\* MP4WriteSample on one track keeps both.
LEMMA SampledIs ==
    ASSUME NEW s, NEW r \in Slots, NEW lg \in Logs, s.rec = r, s.log = lg, AllWritten(r, lg),
           NEW x \in Names, NEW size \in Nat, NEW d \in Nat, NEW isSync \in BOOLEAN, NEW pts \in Nat
    PROVE  SampledAs(Sampled(s, x, size, d, isSync, pts), r, lg, x, d, pts)
<1> DEFINE t == r.trak[x]
           bytes == Bytes(x, t.writeSampleId, size)
           w == WriteSample(t, r.file, bytes, d, isSync)
           e == [bytes |-> bytes, sync |-> isSync, pts |-> pts,
                 duration |-> EffectiveDuration(t, d) % U32]
           v == Sampled(s, x, size, d, isSync, pts)
<1>1. t \in Trak /\ r.file \in Seq(Cell) /\ lg[x] \in Seq(Entry) /\ r.trak \in [Names -> Trak]
  BY DEF Slots, Logs
<1>2. bytes \in Seq(Cell)
  <2>1. t.writeSampleId \in Nat
    BY <1>1 DEF Trak
  <2> QED BY <2>1, BytesAre
<1>3. v = [rec |-> [r EXCEPT !.trak[x] = w.trak, !.file = w.file],
           log |-> [lg EXCEPT ![x] = Append(lg[x], e)]]
  BY DEF Sampled, Logs
<1>4. EffectiveDuration(t, d) % U32 \in 0..(U32 - 1)
  <2>1. EffectiveDuration(t, d) \in Nat
    BY <1>1, DurationOK
  <2>2. \A a \in Nat, b \in Nat : b > 0 => a % b \in 0..(b - 1)
    OBVIOUS
  <2> QED BY <2>1, <2>2, WidthsAssumption
<1> HIDE DEF bytes
<1>5. e \in Entry /\ e.bytes = bytes /\ e.sync = isSync /\ e.pts = pts
      /\ e.duration = EffectiveDuration(t, d) % U32
  BY <1>2, <1>4 DEF Entry
<1> HIDE DEF e
<1>6. Written(w.trak, w.file, Append(lg[x], e)) /\ Extends(w.file, r.file)
  <2>1. Written(t, r.file, lg[x])
    BY DEF AllWritten
  <2>2. w = WriteSample(t, r.file, e.bytes, d, e.sync)
    BY <1>5
  <2> HIDE DEF w, t
  <2> QED BY <1>1, <1>5, <2>1, <2>2, SampleWritten
<1> HIDE DEF w, v, t
<1>7. w.trak \in Trak /\ w.file \in Seq(Cell)
  BY <1>6 DEF Written, Listed, Extends
<1>8. Append(lg[x], e) \in Seq(Entry)
  BY <1>1, <1>5
<1> DEFINE r2 == [r EXCEPT !.trak[x] = w.trak, !.file = w.file]
           lg2 == [lg EXCEPT ![x] = Append(lg[x], e)]
<1>9. /\ r2.file = w.file /\ r2.trak = [r.trak EXCEPT ![x] = w.trak]
      /\ r2.vTrackId = r.vTrackId /\ r2.bFirstVideo = r.bFirstVideo
      /\ r2.u64VideoPTS = r.u64VideoPTS
  BY DEF Slots
<1>10. [r.trak EXCEPT ![x] = w.trak] \in [Names -> Trak]
  BY <1>1, <1>7
<1>11. r2 \in Slots
  <2>1. r2 = [r EXCEPT !.trak = [r.trak EXCEPT ![x] = w.trak], !.file = w.file]
    BY DEF Slots
  <2> HIDE DEF r2
  <2> QED BY <1>7, <1>10, <2>1, Zenon DEF Slots
<1>12. lg2 \in Logs
  BY <1>8 DEF Logs
<1>13. lg2[x] = Append(lg[x], e) /\ \A y \in Names : y # x => lg2[y] = lg[y]
  BY DEF Logs
<1>14. /\ r2.trak[x] = w.trak
       /\ \A y \in Names : y # x => r2.trak[y] = r.trak[y]
  <2> HIDE DEF r2
  <2> QED BY <1>1, <1>9
<1> HIDE DEF r2, lg2
<1>15. AllWritten(r2, lg2)
  <2> SUFFICES ASSUME NEW y \in Names PROVE Written(r2.trak[y], r2.file, lg2[y])
    BY DEF AllWritten
  <2>1. CASE y = x
    BY <1>6, <1>9, <1>13, <1>14, <2>1
  <2>2. CASE y # x
    <3>1. r2.trak[y] = r.trak[y] /\ lg2[y] = lg[y]
      BY <1>13, <1>14, <2>2
    <3>2. Written(r.trak[y], r.file, lg[y])
      BY DEF AllWritten
    <3>3. Stored(r.trak[y], w.file, lg[y])
      <4>1. r.trak[y] \in Trak /\ lg[y] \in Seq(Entry) /\ Stored(r.trak[y], r.file, lg[y])
        BY <3>2 DEF Written, Listed
      <4> QED BY <1>1, <1>6, <4>1, StoredStays
    <3>4. Written(r.trak[y], w.file, lg[y])
      BY <3>2, <3>3 DEF Written
    <3> QED BY <1>9, <3>1, <3>4
  <2> QED BY <2>1, <2>2
<1>16. v.rec = r2 /\ v.log = lg2 /\ v \in [rec : Slots, log : Logs]
  <2>1. v = [rec |-> r2, log |-> lg2]
    BY <1>3 DEF r2, lg2
  <2> QED BY <1>11, <1>12, <2>1
<1>17. SampledTo(v, r, lg, x, e)
  BY <1>9, <1>13, <1>15, <1>16 DEF SampledTo
<1> QED
  BY <1>5, <1>17 DEF SampledAs, v, t

\* Video samples last as long as the time since the frame before.
Follows(L) ==
    \A i \in 1..Len(L) :
      /\ L[i].pts \in 0..(U64 - 1)
      /\ L[i].pts # 0 =>
           L[i].duration = checkInvalidData(L[i].pts, L[IF i = 1 THEN 1 ELSE i - 1].pts)

\* While recording: the first video frame is still to come, or u64VideoPTS is
\* the time of the last one.
Recording(r, lg) ==
    /\ AllWritten(r, lg) /\ Follows(lg["video"])
    /\ r.vTrackId = MP4_INVALID_TRACK_ID => lg["video"] = <<>>
    /\ r.bFirstVideo <=> lg["video"] = <<>>
    /\ lg["video"] # <<>> => r.u64VideoPTS = lg["video"][Len(lg["video"])].pts

\* What Mp4VEncode carries from turn to turn, and what it cuts a frame into.
States == [rec : Slots, log : Logs]
Nalu == [type : STRING, code : {3, 4}, size : Nat]

\* The default duration is one a run can have.
LEMMA DefaultIs ==
    DefaultDuration \in Nat /\ DefaultDuration < U32 /\ DefaultDuration < 7 * VIDEO_TIME_SCALE
<1>1. \A d \in Nat \ {0} : 90000 \div d \in Nat /\ 90000 \div d <= 90000
  OBVIOUS
<1>2. FrameRate \in Nat \ {0} /\ 7 * VIDEO_TIME_SCALE < U32 /\ U32 \in Nat
  BY RecorderAssumption, WidthsAssumption
<1> QED
  BY <1>1, <1>2 DEF DefaultDuration, VIDEO_TIME_SCALE

\* 9 ticks for 100 microseconds, rounded down; the times that fall short are
\* of a whole number of ticks.
LEMMA TicksAre ==
    ASSUME NEW d \in Nat
    PROVE  /\ TicksIn(d) \in Nat /\ 100 * TicksIn(d) <= 9 * d /\ 9 * d <= 100 * TicksIn(d) + 99
           /\ d \in ShortTimes => TicksIn(d) - 1 \in Nat /\ 9 * d = 100 * TicksIn(d)
<1>1. \A m \in Nat : (m * 9) \div 100 \in Nat /\ 100 * ((m * 9) \div 100) <= 9 * m
                     /\ 9 * m <= 100 * ((m * 9) \div 100) + 99
  OBVIOUS
<1>2. ASSUME NEW m \in Nat, m > 0, (m * 9) % 100 = 0
      PROVE  (m * 9) \div 100 - 1 \in Nat /\ 9 * m = 100 * ((m * 9) \div 100)
  BY <1>2
<1>3. d \in ShortTimes => d > 0 /\ (d * 9) % 100 = 0
  BY RecorderAssumption
<1> QED
  BY <1>1, <1>2, <1>3 DEF TicksIn

\* The durations the recorder computes are less than 7 seconds, which 32 bits
\* hold.
LEMMA PTSIs ==
    ASSUME NEW a \in Nat, NEW b \in Nat
    PROVE  PTS2TIME_SCALE(a, b) \in Nat /\ checkInvalidData(a, b) \in Nat
           /\ checkInvalidData(a, b) < U32
<1> DEFINE p == PTS2TIME_SCALE(a, b)
<1>1. p \in Nat
  <2>1. \A m \in Int, n \in Nat : n > 0 => m % n \in Nat
    OBVIOUS
  <2>2. \A m \in Nat : TicksIn(m) \in Nat /\ (m \in ShortTimes => TicksIn(m) - 1 \in Nat)
    BY TicksAre
  <2>3. (a - b) % U64 \in Nat
    <3>1. a - b \in Int /\ U64 \in Nat /\ U64 > 0
      BY WidthsAssumption
    <3> QED BY <2>1, <3>1
  <2> DEFINE m == (a - b) % U64
  <2> HIDE DEF m
  <2>4. p = IF m \in ShortTimes THEN TicksIn(m) - 1 ELSE TicksIn(m)
    BY DEF PTS2TIME_SCALE, m
  <2> QED BY <2>2, <2>3, <2>4 DEF m
<1> HIDE DEF p
<1>2. checkInvalidData(a, b) = IF p >= 7 * VIDEO_TIME_SCALE THEN DefaultDuration ELSE p
  BY DEF checkInvalidData, p
<1>3. 7 * VIDEO_TIME_SCALE < U32 /\ U32 \in Nat /\ VIDEO_TIME_SCALE \in Nat
  BY RecorderAssumption, WidthsAssumption DEF VIDEO_TIME_SCALE
<1>4. checkInvalidData(a, b) \in Nat /\ checkInvalidData(a, b) < U32
  BY <1>1, <1>2, <1>3, DefaultIs
<1> QED
  BY <1>1, <1>4 DEF p

\* A duration of 32 bits is taken as it is.
LEMMA EffectiveIs ==
    ASSUME NEW t, NEW d \in Nat, d < U32
    PROVE  EffectiveDuration(t, d) % U32 = d
<1>1. U32 \in Nat /\ U64 \in Nat /\ U32 < U64
  BY WidthsAssumption
<1>2. d # MP4_INVALID_DURATION
  BY <1>1 DEF MP4_INVALID_DURATION
<1>3. \A a, b \in Nat : a < b => a % b = a
  OBVIOUS
<1> QED
  BY <1>1, <1>2, <1>3 DEF EffectiveDuration

\* The next video sample follows too.
LEMMA FollowsLonger ==
    ASSUME NEW L \in Seq(Entry), Follows(L), NEW e \in Entry, e.pts \in 0..(U64 - 1),
           e.pts # 0 => e.duration = checkInvalidData(e.pts, IF L = <<>> THEN e.pts ELSE L[Len(L)].pts)
    PROVE  Follows(Append(L, e))
<1> DEFINE L2 == Append(L, e)
           l == Len(L)
<1>1. /\ Len(L2) = l + 1 /\ l \in Nat /\ L2[l + 1] = e
      /\ \A i \in 1..l : L2[i] = L[i]
      /\ \A i \in 1..(l + 1) : i = l + 1 \/ i \in 1..l
  BY OneMore
<1> HIDE DEF L2
<1> SUFFICES ASSUME NEW i \in 1..Len(L2)
             PROVE  /\ L2[i].pts \in 0..(U64 - 1)
                    /\ L2[i].pts # 0 =>
                         L2[i].duration = checkInvalidData(L2[i].pts, L2[IF i = 1 THEN 1 ELSE i - 1].pts)
  BY DEF Follows, L2
<1>2. CASE i \in 1..l
  <2> DEFINE j == IF i = 1 THEN 1 ELSE i - 1
  <2>1. j \in 1..l
    BY <1>1, <1>2
  <2>2. /\ L[i].pts \in 0..(U64 - 1)
        /\ L[i].pts # 0 => L[i].duration = checkInvalidData(L[i].pts, L[j].pts)
    BY <1>2 DEF Follows
  <2>3. L2[i] = L[i] /\ L2[j] = L[j]
    BY <1>1, <1>2, <2>1
  <2> QED BY <2>2, <2>3
<1>3. CASE i = l + 1
  <2>1. CASE l = 0
    <3>1. L = <<>>
      BY <2>1
    <3>2. i = 1 /\ L2[1] = e
      BY <1>1, <1>3, <2>1
    <3> QED BY <3>1, <3>2
  <2>2. CASE l # 0
    <3>1. L # <<>>
      BY <2>2
    <3>2. i # 1 /\ i - 1 = l /\ l \in 1..l
      BY <1>1, <1>3, <2>2
    <3>3. L2[l] = L[l] /\ L2[i] = e
      BY <1>1, <1>3, <3>2
    <3> QED BY <3>1, <3>2, <3>3 DEF l
  <2> QED BY <2>1, <2>2
<1> QED
  BY <1>1, <1>2, <1>3

\* A new track has no sample.
LEMMA NewTrackWritten ==
    ASSUME NEW timeScale \in Nat, NEW d \in Nat, NEW file \in Seq(Cell)
    PROVE  NewTrack(timeScale, d) \in Trak /\ Written(NewTrack(timeScale, d), file, <<>>)
<1> DEFINE t == NewTrack(timeScale, d)
<1>1. /\ t.fixed = 0 /\ t.sizes = <<>> /\ t.count = 0 /\ t.stts = <<>> /\ t.stss = NoStss
      /\ t.stsc = <<>> /\ t.stco = <<>> /\ t.buffer = <<>> /\ t.chunkSamples = 0
      /\ t.writeSampleId = 1 /\ t.cache.sid = 0
  BY DEF NewTrack, MP4_INVALID_SAMPLE_ID
<1>2. t \in Trak
  <2>1. NoStss \in Seq(Nat) /\ <<>> \in Seq(Run) /\ <<>> \in Seq(Nat) /\ <<>> \in Seq(Chunks)
        /\ <<>> \in Seq(Cell) /\ 0 \in Nat /\ 1 \in Nat
    BY DEF NoStss, MP4_INVALID_SAMPLE_ID
  <2>2. [index |-> 1, sid |-> MP4_INVALID_SAMPLE_ID, elapsed |-> 0]
          \in [index : Nat, sid : Nat, elapsed : Int]
    BY DEF MP4_INVALID_SAMPLE_ID
  <2> QED BY <2>1, <2>2, Zenon DEF NewTrack, Trak
<1> HIDE DEF t
<1> DEFINE L == <<>>
           ones == [i \in Nat |-> 1]
           zeros == [i \in Nat |-> 0]
<1>3. Len(L) = 0 /\ L \in Seq(Entry)
  OBVIOUS
<1>4. SizesOK(t, L) /\ SyncOK(t.stss, L)
  BY <1>1 DEF SizesOK, SyncOK
<1>5. ones \in Table /\ zeros \in Table /\ (\A i \in Nat : ones[i] = 1) /\ \A i \in Nat : zeros[i] = 0
  BY DEF Table
<1> HIDE DEF ones, zeros
<1>6. Timed(t.stts, L, 0, ones)
  BY <1>1, <1>5 DEF Timed
<1>7. Counted(<<>>, 0, ones)
  BY <1>5 DEF Counted
<1>8. Placed(t.stsc, t.stco, t.buffer, t.chunkSamples, file, L, 0, ones, zeros)
  <2>1. Piece(<<>>, 0, zeros, L, ones[0 + 1], 0 + 1)
    BY <1>5 DEF Piece
  <2>2. ones[0 + 1] = 1 /\ zeros[0 + 1] = 0
    BY <1>5
  <2> QED BY <1>1, <1>5, <1>7, <2>1, <2>2 DEF Placed
<1>9. Written(t, file, L)
  BY <1>1, <1>2, <1>3, <1>4, <1>6, <1>8 DEF Written, Listed, Stored
<1> QED
  BY <1>2, <1>9 DEF t

\* The first SPS creates the video track.
LEMMA TrackCreated ==
    ASSUME NEW r \in Slots, NEW lg \in Logs, Recording(r, lg), r.vTrackId = MP4_INVALID_TRACK_ID
    PROVE  LET r2 == [r EXCEPT !.vTrackId = 2,
                               !.trak["video"] = NewTrack(VIDEO_TIME_SCALE, DefaultDuration)]
           IN  r2 \in Slots /\ Recording(r2, lg)
<1> DEFINE t == NewTrack(VIDEO_TIME_SCALE, DefaultDuration)
           trak2 == [r.trak EXCEPT !["video"] = t]
           r2 == [r EXCEPT !.vTrackId = 2, !.trak["video"] = t]
<1>1. r.trak \in [Names -> Trak] /\ r.file \in Seq(Cell) /\ "video" \in Names
  BY DEF Slots, Names
<1>2. t \in Trak /\ Written(t, r.file, <<>>)
  <2>1. VIDEO_TIME_SCALE \in Nat /\ DefaultDuration \in Nat
    BY DefaultIs DEF VIDEO_TIME_SCALE
  <2> QED BY <1>1, <2>1, NewTrackWritten
<1> HIDE DEF t
<1>3. r2 = [r EXCEPT !.vTrackId = 2, !.trak = trak2]
  BY DEF Slots
<1>4. trak2 \in [Names -> Trak] /\ trak2["video"] = t
      /\ \A x \in Names : x # "video" => trak2[x] = r.trak[x]
  BY <1>1, <1>2
<1> HIDE DEF trak2, r2
<1>5. r2 \in Slots
  <2>1. 2 \in Nat
    OBVIOUS
  <2> QED BY <1>3, <1>4, <2>1, Zenon DEF Slots
<1>6. r2.trak = trak2 /\ r2.file = r.file /\ r2.vTrackId = 2 /\ r2.bFirstVideo = r.bFirstVideo
      /\ r2.u64VideoPTS = r.u64VideoPTS
  BY <1>3 DEF Slots
<1>7. lg["video"] = <<>>
  BY DEF Recording
<1>8. AllWritten(r2, lg)
  <2> SUFFICES ASSUME NEW x \in Names PROVE Written(r2.trak[x], r2.file, lg[x])
    BY DEF AllWritten
  <2>1. CASE x = "video"
    BY <1>2, <1>4, <1>6, <1>7, <2>1
  <2>2. CASE x # "video"
    <3>1. Written(r.trak[x], r.file, lg[x])
      BY DEF Recording, AllWritten
    <3> QED BY <1>4, <1>6, <2>2, <3>1
  <2> QED BY <2>1, <2>2
<1>9. Recording(r2, lg)
  <2>1. /\ Follows(lg["video"]) /\ (r.bFirstVideo <=> lg["video"] = <<>>)
        /\ lg["video"] # <<>> => r.u64VideoPTS = lg["video"][Len(lg["video"])].pts
    BY DEF Recording
  <2> QED BY <1>6, <1>7, <1>8, <2>1 DEF Recording
<1> QED
  BY <1>5, <1>9 DEF r2, t

\* A slice becomes a sample of the video track.
LEMMA SliceKept ==
    ASSUME NEW r \in Slots, NEW lg \in Logs, Recording(r, lg), r.vTrackId # MP4_INVALID_TRACK_ID,
           NEW size \in Nat, NEW isSync \in BOOLEAN, NEW pts \in 0..(U64 - 1),
           NEW d, d = IF pts = 0 THEN MP4_INVALID_DURATION
                      ELSE checkInvalidData(pts, IF r.bFirstVideo THEN pts ELSE r.u64VideoPTS),
           NEW s, s.rec = [r EXCEPT !.bFirstVideo = FALSE, !.u64VideoPTS = pts], s.log = lg
    PROVE  LET w == Sampled(s, "video", size, d, isSync, pts) IN
           w \in States /\ Recording(w.rec, w.log)
<1> DEFINE r1 == [r EXCEPT !.bFirstVideo = FALSE, !.u64VideoPTS = pts]
           w == Sampled(s, "video", size, d, isSync, pts)
           L == lg["video"]
<1>1. pts \in Nat /\ U64 \in Nat
  BY WidthsAssumption
<1>2. r1 \in Slots
  BY <1>1, Zenon DEF Slots
<1>3. /\ r1.trak = r.trak /\ r1.file = r.file /\ r1.vTrackId = r.vTrackId /\ r1.bFirstVideo = FALSE
      /\ r1.u64VideoPTS = pts /\ s.rec = r1
  BY DEF Slots
<1> HIDE DEF r1
<1>4. AllWritten(r1, lg)
  <2>1. AllWritten(r, lg)
    BY DEF Recording
  <2> QED BY <1>3, <2>1 DEF AllWritten
<1>5. d \in Nat /\ (pts # 0 => d < U32 /\ d = checkInvalidData(pts, IF L = <<>> THEN pts ELSE L[Len(L)].pts))
  <2>1. CASE pts = 0
    <3>1. MP4_INVALID_DURATION \in Nat
      BY WidthsAssumption DEF MP4_INVALID_DURATION
    <3> QED BY <2>1, <3>1
  <2>2. CASE pts # 0
    <3> DEFINE prev == IF r.bFirstVideo THEN pts ELSE r.u64VideoPTS
    <3>1. prev \in Nat
      BY <1>1 DEF Slots
    <3>2. prev = IF L = <<>> THEN pts ELSE L[Len(L)].pts
      BY DEF Recording
    <3>3. d = checkInvalidData(pts, prev)
      BY <2>2
    <3> HIDE DEF prev, L
    <3>4. checkInvalidData(pts, prev) \in Nat /\ checkInvalidData(pts, prev) < U32
      BY <1>1, <3>1, PTSIs
    <3> QED BY <2>2, <3>2, <3>3, <3>4
  <2> QED BY <2>1, <2>2
<1>6. PICK e \in Entry : SampledTo(w, r1, lg, "video", e) /\ e.pts = pts
                         /\ e.duration = EffectiveDuration(r1.trak["video"], d) % U32
  <2>1. "video" \in Names
    BY DEF Names
  <2> HIDE DEF L
  <2>2. SampledAs(w, r1, lg, "video", d, pts)
    BY <1>1, <1>2, <1>3, <1>4, <1>5, <2>1, SampledIs
  <2> QED BY <2>2 DEF SampledAs
<1> HIDE DEF w
<1>7. /\ w \in States /\ AllWritten(w.rec, w.log) /\ w.rec.vTrackId = r.vTrackId
      /\ w.rec.bFirstVideo = FALSE /\ w.rec.u64VideoPTS = pts /\ w.log["video"] = Append(L, e)
  BY <1>3, <1>6 DEF SampledTo, States
<1>8. L \in Seq(Entry) /\ Follows(L)
  BY DEF Logs, Names, Recording
<1> HIDE DEF L
<1>9. Follows(Append(L, e))
  <2>1. e.pts # 0 => e.duration = checkInvalidData(e.pts, IF L = <<>> THEN e.pts ELSE L[Len(L)].pts)
    <3> SUFFICES ASSUME pts # 0 PROVE e.duration = d
      BY <1>5, <1>6
    <3>1. d < U32 /\ d \in Nat
      BY <1>5
    <3>2. EffectiveDuration(r1.trak["video"], d) % U32 = d
      BY <3>1, EffectiveIs
    <3> QED BY <1>6, <3>2
  <2> QED BY <1>6, <1>8, <2>1, FollowsLonger
<1>10. Append(L, e) # <<>> /\ Append(L, e)[Len(Append(L, e))].pts = pts
  BY <1>6, <1>8
<1>11. Recording(w.rec, w.log)
  BY <1>7, <1>9, <1>10 DEF Recording
<1> QED
  BY <1>7, <1>11 DEF w

\* Mp4VNaluEncode keeps what holds while recording.
LEMMA NaluKept ==
    ASSUME NEW s \in States, Recording(s.rec, s.log), NEW nalu \in Nalu, NEW pts \in 0..(U64 - 1)
    PROVE  LET v == Mp4VNaluEncode(s, nalu, pts) IN v \in States /\ Recording(v.rec, v.log)
<1> DEFINE index == IF nalu.code = 4 THEN nalu.type ELSE "none"
           r == s.rec
           v == Mp4VNaluEncode(s, nalu, pts)
           Sps == index = "SPS" /\ r.vTrackId = MP4_INVALID_TRACK_ID
           Slice == index \in {"I", "P"} /\ r.vTrackId # MP4_INVALID_TRACK_ID
<1>1. r \in Slots /\ s.log \in Logs
  BY DEF States
<1>2. CASE Sps
  <2> DEFINE r2 == [r EXCEPT !.vTrackId = 2,
                             !.trak["video"] = NewTrack(VIDEO_TIME_SCALE, DefaultDuration)]
  <2>1. v = [s EXCEPT !.rec.vTrackId = 2,
                      !.rec.trak["video"] = NewTrack(VIDEO_TIME_SCALE, DefaultDuration)]
    BY <1>2 DEF Mp4VNaluEncode
  <2>2. v = [s EXCEPT !.rec = r2]
    BY <2>1 DEF States, Slots
  <2>3. r2 \in Slots /\ Recording(r2, s.log)
    BY <1>1, <1>2, TrackCreated
  <2> HIDE DEF r2, v
  <2>4. v \in States /\ v.rec = r2 /\ v.log = s.log
    BY <2>2, <2>3 DEF States
  <2> QED BY <2>3, <2>4 DEF v
<1>3. CASE Slice
  <2> DEFINE prev == IF r.bFirstVideo THEN pts ELSE r.u64VideoPTS
             d == IF pts = 0 THEN MP4_INVALID_DURATION ELSE checkInvalidData(pts, prev)
             s1 == [s EXCEPT !.rec.bFirstVideo = FALSE, !.rec.u64VideoPTS = pts]
  <2>1. v = Sampled(s1, "video", nalu.size, d, index = "I", pts)
    BY <1>3 DEF Mp4VNaluEncode
  <2>2. s1.rec = [r EXCEPT !.bFirstVideo = FALSE, !.u64VideoPTS = pts] /\ s1.log = s.log
    BY <1>1 DEF States, Slots
  <2>3. nalu.size \in Nat /\ (index = "I") \in BOOLEAN
    BY DEF Nalu
  <2> DEFINE i == index = "I"
  <2>4. i \in BOOLEAN /\ v = Sampled(s1, "video", nalu.size, d, i, pts)
    BY <2>1, <2>3
  <2>5. d = IF pts = 0 THEN MP4_INVALID_DURATION
            ELSE checkInvalidData(pts, IF r.bFirstVideo THEN pts ELSE r.u64VideoPTS)
    OBVIOUS
  <2> DEFINE lg == s.log
             size == nalu.size
             w == Sampled(s1, "video", size, d, i, pts)
  <2>6. r \in Slots /\ lg \in Logs /\ Recording(r, lg) /\ r.vTrackId # MP4_INVALID_TRACK_ID
        /\ size \in Nat /\ s1.log = lg
    BY <1>1, <1>3, <2>2, <2>3
  <2> HIDE DEF s1, d, v, i, r, lg, size, Slice
  <2>7. w \in States /\ Recording(w.rec, w.log)
    BY <2>2, <2>4, <2>5, <2>6, SliceKept
  <2> QED BY <2>4, <2>7 DEF v, size
<1>4. CASE ~ Sps /\ ~ Slice
  <2>1. v = s
    BY <1>4 DEF Mp4VNaluEncode
  <2> HIDE DEF v
  <2> QED BY <2>1 DEF v
<1> HIDE DEF Sps, Slice, v
<1>5. v \in States /\ Recording(v.rec, v.log)
  BY <1>2, <1>3, <1>4 DEF v
<1> QED
  BY <1>5 DEF v

\* The turns of Mp4VEncode.
Turns(s, frame, pts, n, f) ==
    f = [i \in 0..n |-> IF i = 0 THEN s ELSE Mp4VNaluEncode(f[i - 1], frame[i], pts)]

\* The loop of Mp4VEncode is defined.
LEMMA TurnsAre ==
    ASSUME NEW s, NEW frame, NEW pts, NEW n \in Nat
    PROVE  \E f : Turns(s, frame, pts, n, f)
<1> DEFINE P == {m \in Nat : \E f : Turns(s, frame, pts, m, f)}
<1>1. 0 \in P
  <2> DEFINE f == [i \in 0..0 |-> s]
  <2>1. \A i \in 0..0 : i = 0
    OBVIOUS
  <2>2. f = [i \in 0..0 |-> IF i = 0 THEN s ELSE Mp4VNaluEncode(f[i - 1], frame[i], pts)]
    BY <2>1
  <2> QED BY <2>2 DEF Turns
<1>2. ASSUME NEW m \in Nat, m \in P
      PROVE  m + 1 \in P
  <2>1. PICK f : Turns(s, frame, pts, m, f)
    BY <1>2
  <2> DEFINE g == [i \in 0..(m + 1) |-> IF i <= m THEN f[i]
                                        ELSE Mp4VNaluEncode(f[i - 1], frame[i], pts)]
             G(h, i) == IF i = 0 THEN s ELSE Mp4VNaluEncode(h[i - 1], frame[i], pts)
  <2>2. \A i \in 0..m : f[i] = G(f, i)
    <3>1. f = [i \in 0..m |-> G(f, i)]
      BY <2>1 DEF Turns
    <3> HIDE DEF G
    <3>2. \A i \in 0..m : [j \in 0..m |-> G(f, j)][i] = G(f, i)
      OBVIOUS
    <3> QED BY <3>1, <3>2
  <2>3. ASSUME NEW i \in 0..(m + 1)
        PROVE  g[i] = G(g, i)
    <3>1. CASE i <= m
      <4>1. i \in 0..m /\ g[i] = f[i] /\ (i # 0 => g[i - 1] = f[i - 1])
        BY <3>1
      <4>2. f[i] = G(f, i)
        BY <2>2, <4>1
      <4> HIDE DEF g
      <4> QED BY <4>1, <4>2
    <3>2. CASE ~ (i <= m)
      <4>1. i # 0 /\ i - 1 \in 0..(m + 1) /\ i - 1 <= m
        BY <3>2
      <4>2. g[i] = Mp4VNaluEncode(f[i - 1], frame[i], pts) /\ g[i - 1] = f[i - 1]
        BY <3>2, <4>1
      <4> HIDE DEF g
      <4> QED BY <4>1, <4>2
    <3> QED BY <3>1, <3>2
  <2>4. g = [i \in 0..(m + 1) |-> G(g, i)]
    <3>1. g = [i \in 0..(m + 1) |-> g[i]]
      OBVIOUS
    <3> HIDE DEF g, G
    <3> QED BY <2>3, <3>1
  <2> HIDE DEF g
  <2>5. Turns(s, frame, pts, m + 1, g)
    BY <2>4 DEF Turns
  <2> QED BY <2>5
<1> HIDE DEF P
<1>3. n \in P
  BY <1>1, <1>2, Induction
<1> QED
  BY <1>3 DEF P

\* So does the loop, however many turns it takes.
LEMMA FrameKept ==
    ASSUME NEW s \in States, Recording(s.rec, s.log), NEW frame, NEW n \in Nat,
           \A i \in 1..n : frame[i] \in Nalu,
           NEW pts \in 0..(U64 - 1), NEW f, Turns(s, frame, pts, n, f)
    PROVE  f[n] \in States /\ Recording(f[n].rec, f[n].log)
<1> DEFINE P == {m \in Nat : m <= n => f[m] \in States /\ Recording(f[m].rec, f[m].log)}
           G(i) == IF i = 0 THEN s ELSE Mp4VNaluEncode(f[i - 1], frame[i], pts)
<1>1. \A i \in 0..n : f[i] = G(i)
  <2>1. f = [i \in 0..n |-> G(i)]
    BY DEF Turns
  <2> HIDE DEF G
  <2>2. \A i \in 0..n : [j \in 0..n |-> G(j)][i] = G(i)
    OBVIOUS
  <2> QED BY <2>1, <2>2
<1>2. 0 \in P
  <2>1. 0 \in 0..n
    OBVIOUS
  <2>2. f[0] = s
    BY <1>1, <2>1
  <2> QED BY <2>2
<1>3. ASSUME NEW m \in Nat, m \in P
      PROVE  m + 1 \in P
  <2> SUFFICES ASSUME m + 1 <= n
               PROVE  f[m + 1] \in States /\ Recording(f[m + 1].rec, f[m + 1].log)
    OBVIOUS
  <2>1. m + 1 \in 0..n /\ m + 1 \in 1..n /\ m + 1 # 0 /\ (m + 1) - 1 = m /\ m <= n
    OBVIOUS
  <2>2. f[m + 1] = Mp4VNaluEncode(f[m], frame[m + 1], pts)
    BY <1>1, <2>1
  <2>3. f[m] \in States /\ Recording(f[m].rec, f[m].log)
    BY <1>3, <2>1
  <2>4. frame[m + 1] \in Nalu
    BY <2>1
  <2> DEFINE u == f[m]
             nalu == frame[m + 1]
             v == Mp4VNaluEncode(u, nalu, pts)
  <2>5. u \in States /\ Recording(u.rec, u.log) /\ nalu \in Nalu
    BY <2>3, <2>4
  <2> HIDE DEF u, nalu
  <2>6. v \in States /\ Recording(v.rec, v.log)
    BY <2>5, NaluKept
  <2> QED BY <2>2, <2>6 DEF u, nalu
<1> HIDE DEF P
<1>4. n \in P
  BY <1>2, <1>3, Induction
<1>5. n <= n
  OBVIOUS
<1> QED
  BY <1>4, <1>5 DEF P

(***************************************************************************)
(* The invariant, by the phase of the recorder.                            *)
(***************************************************************************)

\* A track all of whose chunks are in the file.
Closed(t, file, L) == Listed(t, L) /\ Stored(t, file, L) /\ t.buffer = <<>> /\ t.cache.sid = 0

\* Both tracks.
AllClosed(r, lg) == \A x \in Names : Closed(r.trak[x], r.file, lg[x])
AllReady(r, lg) == \A x \in Names : Ready(r.trak[x], r.file, lg[x])

\* The time that was handed out is the start of the next sample.
OutOK(o, r, lg) ==
    o.ok => /\ o.name \in Names /\ o.sample \in 1..(Len(lg[o.name]) - 1)
            /\ RunsFit(r.trak[o.name]) => o.time = StartOf(lg[o.name], o.sample + 1)

\* The inductive invariant.
RecorderInv ==
    /\ phase \in {"idle", "writing", "closed", "reading"}
    /\ rec \in Slots /\ log \in Logs /\ play \in [Names -> Nat]
    /\ Follows(log["video"])
    /\ phase = "idle" => rec = Fresh /\ log = [x \in Names |-> <<>>]
    /\ phase = "writing" => Recording(rec, log)
    /\ phase = "closed" => AllClosed(rec, log)
    /\ phase = "reading" => AllReady(rec, log)
    /\ phase # "reading" => out = NoRead
    /\ OutOK(out, rec, log)

\* A recorder and a history that are empty.
LEMMA FreshIs ==
    /\ Fresh \in Slots /\ [x \in Names |-> <<>>] \in Logs /\ [x \in Names |-> 0] \in [Names -> Nat]
    /\ Follows([x \in Names |-> <<>>]["video"]) /\ \A r, lg : OutOK(NoRead, r, lg)
<1>1. NewTrack(1, 0) \in Trak
  <2>1. <<>> \in Seq(Cell) /\ 0 \in Nat /\ 1 \in Nat
    OBVIOUS
  <2> QED BY <2>1, NewTrackWritten
<1>2. Fresh \in Slots
  <2>1. [x \in Names |-> NewTrack(1, 0)] \in [Names -> Trak]
    BY <1>1
  <2>2. <<>> \in Seq(Cell) /\ 0 \in Nat /\ MP4_INVALID_TRACK_ID \in Nat
    BY DEF MP4_INVALID_TRACK_ID
  <2> QED BY <2>1, <2>2 DEF Fresh, Slots
<1>3. [x \in Names |-> <<>>] \in Logs /\ [x \in Names |-> <<>>]["video"] = <<>>
  BY DEF Logs, Names
<1>4. Follows(<<>>)
  BY DEF Follows
<1>5. \A r, lg : OutOK(NoRead, r, lg)
  BY DEF OutOK, NoRead
<1> QED
  BY <1>2, <1>3, <1>4, <1>5

\* One lemma for each action: OpenMp4Encoder.
LEMMA Opened ==
    ASSUME RecorderInv, OpenMp4Encoder
    PROVE  RecorderInv'
<1> DEFINE t == NewTrack(SampleRate, BitsPerSample)
           trak2 == [Fresh.trak EXCEPT !["audio"] = t]
           file == <<"ftyp">>
           r == [Fresh EXCEPT !.trak["audio"] = t, !.file = file]
<1>1. /\ phase = "idle" /\ phase' = "writing" /\ rec' = r
      /\ UNCHANGED <<play, out, log, given>>
  BY DEF OpenMp4Encoder
<1>2. /\ rec = Fresh /\ log = [x \in Names |-> <<>>] /\ log \in Logs /\ play \in [Names -> Nat]
      /\ Follows(log["video"]) /\ out = NoRead
  BY <1>1 DEF RecorderInv
<1>3. file \in Seq(Cell)
  BY DEF Cell
<1>4. /\ t \in Trak /\ Written(t, file, <<>>)
      /\ NewTrack(1, 0) \in Trak /\ Written(NewTrack(1, 0), file, <<>>)
  <2>1. SampleRate \in Nat /\ BitsPerSample \in Nat /\ 0 \in Nat /\ 1 \in Nat
    BY RecorderAssumption
  <2> HIDE DEF file
  <2> QED BY <1>3, <2>1, NewTrackWritten
<1>5. Fresh \in Slots /\ Fresh.trak = [x \in Names |-> NewTrack(1, 0)]
      /\ Fresh.vTrackId = MP4_INVALID_TRACK_ID /\ Fresh.bFirstVideo = TRUE
  BY FreshIs DEF Fresh
<1> HIDE DEF t, file
<1>6. trak2 \in [Names -> Trak] /\ trak2["audio"] = t
      /\ \A x \in Names : x # "audio" => trak2[x] = NewTrack(1, 0)
  BY <1>4, <1>5 DEF Names
<1>7. r = [Fresh EXCEPT !.trak = trak2, !.file = file]
  BY <1>5 DEF Slots
<1> HIDE DEF trak2, r
<1>8. r \in Slots
  BY <1>3, <1>5, <1>6, <1>7, Zenon DEF Slots
<1>9. r.trak = trak2 /\ r.file = file /\ r.vTrackId = MP4_INVALID_TRACK_ID /\ r.bFirstVideo = TRUE
  BY <1>5, <1>7 DEF Slots
<1>10. log["video"] = <<>> /\ \A x \in Names : log[x] = <<>>
  BY <1>2 DEF Names
<1>11. AllWritten(r, log)
  <2> SUFFICES ASSUME NEW x \in Names PROVE Written(r.trak[x], r.file, log[x])
    BY DEF AllWritten
  <2>1. CASE x = "audio"
    BY <1>4, <1>6, <1>9, <1>10, <2>1
  <2>2. CASE x # "audio"
    BY <1>4, <1>6, <1>9, <1>10, <2>2
  <2> QED BY <2>1, <2>2
<1>12. Recording(r, log)
  BY <1>2, <1>9, <1>10, <1>11 DEF Recording
<1>13. OutOK(out, r, log)
  BY <1>2, FreshIs
<1> QED
  BY <1>1, <1>2, <1>8, <1>12, <1>13 DEF RecorderInv

\* Mp4VEncode.
LEMMA VideoHanded ==
    ASSUME RecorderInv, NEW frame \in Frames, NEW pts \in Times, Mp4VEncode(frame, pts)
    PROVE  RecorderInv'
<1> DEFINE n == Min({Len(frame), MaxTurns - 1})
           s == [rec |-> rec, log |-> log]
           f == CHOOSE h : h = [i \in 0..n |-> IF i = 0 THEN s ELSE Mp4VNaluEncode(h[i - 1], frame[i], pts)]
<1>1. phase = "writing" /\ rec' = f[n].rec /\ log' = f[n].log /\ UNCHANGED <<phase, play, out>>
  BY DEF Mp4VEncode
<1>2. rec \in Slots /\ log \in Logs /\ play \in [Names -> Nat] /\ Recording(rec, log) /\ out = NoRead
  BY <1>1 DEF RecorderInv
<1>3. s \in States /\ Recording(s.rec, s.log)
  BY <1>2 DEF States
<1>4. n \in Nat /\ n <= Len(frame) /\ \A i \in 1..Len(frame) : frame[i] \in Nalu
  <2>1. frame \in Seq(Nalu)
    BY RecorderAssumption DEF Nalu
  <2>2. Len(frame) \in Nat /\ MaxTurns - 1 \in Nat
    BY <2>1, RecorderAssumption
  <2>3. \A i \in 1..Len(frame) : frame[i] \in Nalu
    BY <2>1
  <2> DEFINE a == Len(frame)
             b == MaxTurns - 1
             S == {a, b}
  <2>4. S \subseteq Nat /\ S # {} /\ a \in S /\ b \in S /\ n = Min(S)
    BY <2>2
  <2> HIDE DEF S, n
  <2>5. Min(S) \in S /\ \A i \in S : Min(S) <= i
    BY <2>4, MinOf
  <2> QED BY <2>3, <2>4, <2>5
<1>5. pts \in 0..(U64 - 1)
  BY RecorderAssumption
<1> HIDE DEF n, s
<1>6. Turns(s, frame, pts, n, f)
  <2>1. \A h : Turns(s, frame, pts, n, h) <=>
               h = [i \in 0..n |-> IF i = 0 THEN s ELSE Mp4VNaluEncode(h[i - 1], frame[i], pts)]
    BY DEF Turns
  <2>2. \E h : Turns(s, frame, pts, n, h)
    BY <1>4, TurnsAre
  <2>3. f = [i \in 0..n |-> IF i = 0 THEN s ELSE Mp4VNaluEncode(f[i - 1], frame[i], pts)]
    BY <2>1, <2>2
  <2> HIDE DEF f
  <2> QED BY <2>1, <2>3
<1> HIDE DEF f
<1>7. f[n] \in States /\ Recording(f[n].rec, f[n].log)
  <2>1. \A i \in 1..n : frame[i] \in Nalu
    <3>1. Len(frame) \in Nat
      BY RecorderAssumption
    <3>2. \A i \in 1..n : i \in 1..Len(frame)
      BY <1>4, <3>1
    <3> QED BY <1>4, <3>2
  <2> QED BY <1>3, <1>4, <1>5, <1>6, <2>1, FrameKept
<1>8. rec' \in Slots /\ log' \in Logs /\ Recording(rec', log')
  BY <1>1, <1>7 DEF States
<1>9. Follows(log'["video"])
  BY <1>8 DEF Recording
<1>10. OutOK(out, rec', log')
  BY <1>2, FreshIs
<1> QED
  BY <1>1, <1>2, <1>8, <1>9, <1>10 DEF RecorderInv

\* Mp4AEncode.
LEMMA AudioHanded ==
    ASSUME RecorderInv, NEW aacSize \in AacSizes, Mp4AEncode(aacSize)
    PROVE  RecorderInv'
<1>1. /\ phase = "writing" /\ UNCHANGED <<phase, play, out>>
      /\ rec \in Slots /\ log \in Logs /\ play \in [Names -> Nat] /\ Recording(rec, log) /\ out = NoRead
  BY DEF Mp4AEncode, RecorderInv
<1>2. rec' \in Slots /\ log' \in Logs /\ Recording(rec', log')
  <2>1. CASE rec.vTrackId = MP4_INVALID_TRACK_ID
    <3>1. rec' = rec /\ log' = log
      BY <2>1 DEF Mp4AEncode
    <3> QED BY <1>1, <3>1
  <2>2. CASE rec.vTrackId # MP4_INVALID_TRACK_ID
    <3> DEFINE s == [rec |-> rec, log |-> log]
               w == Sampled(s, "audio", aacSize - 7, 1024, TRUE, 0)
               size == aacSize - 7
               isSync == TRUE
    <3>1. rec' = w.rec /\ log' = w.log
      BY <2>2 DEF Mp4AEncode
    <3>2. s.rec = rec /\ s.log = log /\ AllWritten(rec, log) /\ "audio" \in Names /\ isSync \in BOOLEAN
          /\ 1024 \in Nat /\ 0 \in Nat
      BY <1>1 DEF Recording, Names
    <3>3. size \in Nat
      <4>1. aacSize \in Nat /\ aacSize >= 7
        BY RecorderAssumption
      <4> QED BY <4>1
    <3> HIDE DEF s, size, isSync
    <3> DEFINE v == Sampled(s, "audio", size, 1024, isSync, 0)
    <3>4. PICK e \in Entry : SampledTo(v, rec, log, "audio", e)
      <4>1. SampledAs(v, rec, log, "audio", 1024, 0)
        BY <1>1, <3>2, <3>3, SampledIs
      <4> QED BY <4>1 DEF SampledAs
    <3>5. v = w
      BY DEF size, isSync
    <3> HIDE DEF v, w
    <3>6. /\ w \in States /\ AllWritten(w.rec, w.log)
          /\ w.rec.vTrackId = rec.vTrackId /\ w.rec.bFirstVideo = rec.bFirstVideo
          /\ w.rec.u64VideoPTS = rec.u64VideoPTS /\ w.log["video"] = log["video"]
      BY <3>4, <3>5 DEF SampledTo, States, Names
    <3>7. Recording(w.rec, w.log)
      BY <1>1, <3>6 DEF Recording
    <3> QED BY <3>1, <3>6, <3>7 DEF States
  <2> QED BY <2>1, <2>2
<1>3. Follows(log'["video"])
  BY <1>2 DEF Recording
<1>4. OutOK(out, rec', log')
  BY <1>1, FreshIs
<1> QED
  BY <1>1, <1>2, <1>3, <1>4 DEF RecorderInv

\* The record with other tracks and another file.
Replaced(r2, trak2, file2) == r2 \in Slots /\ r2.trak = trak2 /\ r2.file = file2

\* Replacing keeps the types.
LEMMA TracksReplaced ==
    ASSUME NEW r \in Slots, NEW trak2 \in [Names -> Trak], NEW file2 \in Seq(Cell)
    PROVE  Replaced([r EXCEPT !.trak = trak2, !.file = file2], trak2, file2)
<1> DEFINE r2 == [r EXCEPT !.trak = trak2, !.file = file2]
<1>1. r2 \in Slots
  BY Zenon DEF Slots
<1>2. r2.trak = trak2 /\ r2.file = file2
  BY DEF Slots
<1> HIDE DEF r2
<1> QED
  BY <1>1, <1>2 DEF r2, Replaced

\* CloseMp4Encoder: the audio track is flushed first, the video track behind it.
LEMMA RecordingClosed ==
    ASSUME RecorderInv, CloseMp4Encoder
    PROVE  RecorderInv'
<1> DEFINE ta == rec.trak["audio"]
           tv == rec.trak["video"]
           a == WriteChunkBuffer(ta, rec.file)
           v == WriteChunkBuffer(tv, a.file)
           trak2 == [x \in Names |-> IF x = "audio" THEN a.trak ELSE v.trak]
           file2 == Append(v.file, "moov")
           r == [rec EXCEPT !.trak = trak2, !.file = file2]
<1>1. phase = "writing" /\ phase' = "closed" /\ rec' = r /\ UNCHANGED <<play, out, log, given>>
  BY DEF CloseMp4Encoder
<1>2. rec \in Slots /\ log \in Logs /\ play \in [Names -> Nat] /\ Recording(rec, log) /\ out = NoRead
      /\ Follows(log["video"])
  BY <1>1 DEF RecorderInv
<1>3. /\ rec.file \in Seq(Cell) /\ "audio" \in Names /\ "video" \in Names
      /\ log["audio"] \in Seq(Entry) /\ log["video"] \in Seq(Entry)
      /\ rec.trak["audio"] \in Trak /\ rec.trak["video"] \in Trak
  BY <1>2 DEF Slots, Logs, Names
<1> DEFINE La == log["audio"]
           Lv == log["video"]
<1>4. /\ Listed(ta, La) /\ Stored(ta, rec.file, La) /\ ta.cache.sid = 0
      /\ Listed(tv, Lv) /\ Stored(tv, rec.file, Lv) /\ tv.cache.sid = 0
  BY <1>2, <1>3 DEF Recording, AllWritten, Written
<1>5. ta \in Trak /\ tv \in Trak /\ La \in Seq(Entry) /\ Lv \in Seq(Entry)
  BY <1>3
<1> HIDE DEF ta, tv, La, Lv
<1>6. /\ Listed(a.trak, La) /\ Stored(a.trak, a.file, La) /\ Extends(a.file, rec.file)
      /\ a.trak.buffer = <<>> /\ a.trak.cache = ta.cache
  BY <1>3, <1>4, <1>5, BufferWritten
<1> HIDE DEF a
<1>7. a.file \in Seq(Cell) /\ a.trak \in Trak
  BY <1>6 DEF Extends, Listed
<1>8. Stored(tv, a.file, Lv)
  BY <1>3, <1>4, <1>5, <1>6, StoredStays
<1>9. /\ Listed(v.trak, Lv) /\ Stored(v.trak, v.file, Lv) /\ Extends(v.file, a.file)
      /\ v.trak.buffer = <<>> /\ v.trak.cache = tv.cache
  BY <1>4, <1>5, <1>7, <1>8, BufferWritten
<1> HIDE DEF v
<1>10. v.file \in Seq(Cell) /\ v.trak \in Trak
  BY <1>9 DEF Extends, Listed
<1>11. Extends(file2, v.file) /\ file2 \in Seq(Cell)
  <2>1. "moov" \in Cell
    BY DEF Cell
  <2>2. <<"moov">> \in Seq(Cell) /\ file2 = v.file \o <<"moov">>
    BY <1>10, <2>1
  <2> HIDE DEF file2
  <2>3. Extends(file2, v.file)
    BY <1>10, <2>2, ExtendedBy
  <2> QED BY <2>3 DEF Extends
<1> HIDE DEF file2
<1>12. Closed(a.trak, file2, La)
  <2>1. Extends(file2, a.file)
    BY <1>7, <1>9, <1>11, ExtendsBoth
  <2>2. Stored(a.trak, file2, La)
    BY <1>5, <1>6, <1>7, <2>1, StoredStays
  <2> QED BY <1>4, <1>6, <2>2 DEF Closed
<1>13. Closed(v.trak, file2, Lv)
  <2>1. Stored(v.trak, file2, Lv)
    BY <1>5, <1>9, <1>10, <1>11, StoredStays
  <2> QED BY <1>4, <1>9, <2>1 DEF Closed
<1>14. trak2 \in [Names -> Trak] /\ trak2["audio"] = a.trak /\ trak2["video"] = v.trak
  BY <1>7, <1>10 DEF Names
<1> HIDE DEF trak2
<1>15. r \in Slots /\ r.trak = trak2 /\ r.file = file2
  <2>1. Replaced([rec EXCEPT !.trak = trak2, !.file = file2], trak2, file2)
    BY <1>2, <1>11, <1>14, TracksReplaced
  <2> QED BY <2>1 DEF Replaced
<1> HIDE DEF r
<1>16. AllClosed(r, log)
  BY <1>12, <1>13, <1>14, <1>15 DEF AllClosed, Names, La, Lv
<1>17. OutOK(out, r, log)
  BY <1>2, FreshIs
<1> QED
  BY <1>1, <1>2, <1>15, <1>16, <1>17 DEF RecorderInv

\* OpenMp4Reader.
LEMMA ReaderOpened ==
    ASSUME RecorderInv, OpenMp4Reader
    PROVE  RecorderInv'
<1> DEFINE trak2 == [x \in Names |-> MP4StscAtom_Read(rec.trak[x])]
           r == [rec EXCEPT !.trak = trak2]
<1>1. phase = "closed" /\ phase' = "reading" /\ rec' = r /\ play' = [x \in Names |-> 1]
      /\ UNCHANGED <<out, log, given>>
  BY DEF OpenMp4Reader
<1>2. rec \in Slots /\ log \in Logs /\ AllClosed(rec, log) /\ out = NoRead /\ Follows(log["video"])
  BY <1>1 DEF RecorderInv
<1>3. rec.file \in Seq(Cell) /\ rec.trak \in [Names -> Trak]
  BY <1>2 DEF Slots
<1>4. ASSUME NEW x \in Names
      PROVE  trak2[x] \in Trak /\ Ready(trak2[x], rec.file, log[x])
  <2> DEFINE t == rec.trak[x]
             L == log[x]
             u == MP4StscAtom_Read(t)
  <2>1. Listed(t, L) /\ Stored(t, rec.file, L) /\ t.buffer = <<>> /\ t.cache.sid = 0
    BY <1>2 DEF AllClosed, Closed
  <2>2. trak2[x] = u
    OBVIOUS
  <2> HIDE DEF t, L, trak2
  <2>3. Readable(u, rec.file, L) /\ u.cache = t.cache
    BY <1>3, <2>1, TrackRead
  <2> HIDE DEF u
  <2>4. u \in Trak /\ \E b : Timed(u.stts, L, Len(L), b)
    BY <2>3 DEF Readable, Listed
  <2>5. \A b : CacheOK(u, b)
    BY <2>1, <2>3 DEF CacheOK
  <2>6. Ready(u, rec.file, L)
    BY <2>3, <2>4, <2>5 DEF Ready
  <2> QED BY <2>2, <2>4, <2>6 DEF L
<1>5. trak2 \in [Names -> Trak]
  BY <1>4
<1> HIDE DEF trak2
<1>6. r \in Slots /\ r.trak = trak2 /\ r.file = rec.file
  <2>1. r = [rec EXCEPT !.trak = trak2, !.file = rec.file]
    BY <1>2 DEF Slots
  <2> HIDE DEF r
  <2>2. Replaced([rec EXCEPT !.trak = trak2, !.file = rec.file], trak2, rec.file)
    BY <1>2, <1>3, <1>5, TracksReplaced
  <2> QED BY <2>1, <2>2 DEF Replaced
<1> HIDE DEF r
<1>7. AllReady(r, log)
  BY <1>4, <1>6 DEF AllReady
<1>8. OutOK(out, r, log)
  BY <1>2, FreshIs
<1>9. [x \in Names |-> 1] \in [Names -> Nat]
  OBVIOUS
<1> QED
  BY <1>1, <1>2, <1>6, <1>7, <1>8, <1>9 DEF RecorderInv

\* Mp4ReadVideo and Mp4ReadAudio.
LEMMA SampleHandedOut ==
    ASSUME RecorderInv, NEW x \in Names, ReadNext(x)
    PROVE  RecorderInv'
<1> DEFINE t == rec.trak[x]
           L == log[x]
           k == play[x]
           r == ReadSample(t, rec.file, k, GetMaxSampleSize(t))
           ok == r.ok /\ r.bytes # <<>>
           times == GetSampleTimes(r.trak, k + 1)
           u == IF ok THEN [r.trak EXCEPT !.cache = times.cache] ELSE r.trak
           trak2 == [rec.trak EXCEPT ![x] = u]
           r2 == [rec EXCEPT !.trak[x] = u]
           o == [name |-> x, sample |-> k, ok |-> ok, time |-> IF ok THEN times.start ELSE Throws]
<1>1. /\ phase = "reading" /\ phase' = phase /\ k < t.count /\ play' = [play EXCEPT ![x] = @ + 1]
      /\ rec' = r2 /\ out' = o /\ log' = log
  BY DEF ReadNext
<1>2. rec \in Slots /\ log \in Logs /\ play \in [Names -> Nat] /\ AllReady(rec, log)
      /\ Follows(log["video"])
  BY <1>1 DEF RecorderInv
<1>3. Ready(t, rec.file, L) /\ L \in Seq(Entry) /\ t.count = Len(L) /\ k \in Nat
      /\ rec.file \in Seq(Cell) /\ rec.trak \in [Names -> Trak]
  <2>1. Ready(t, rec.file, L)
    BY <1>2 DEF AllReady
  <2>2. L \in Seq(Entry) /\ k \in Nat /\ rec.file \in Seq(Cell) /\ rec.trak \in [Names -> Trak]
    BY <1>2 DEF Logs, Slots
  <2> HIDE DEF t, L, k
  <2>3. t.count = Len(L)
    BY <2>1 DEF Ready, Readable, Listed, SizesOK
  <2> QED BY <2>1, <2>2, <2>3
<1> DEFINE l == Len(L)
<1>4. k \in 0..l /\ k + 1 \in 1..l /\ l \in Nat
  <2> HIDE DEF k, L
  <2> QED BY <1>1, <1>3
<1>5. /\ Ready(r.trak, rec.file, L) /\ r.trak.stts = t.stts
      /\ r.ok \in BOOLEAN /\ (r.ok => k # 0)
  <2> HIDE DEF t, L, k
  <2> QED BY <1>3, <1>4, ReadsOn
<1>6. TimesOK(times, r.trak, rec.file, L, k + 1)
  <2> DEFINE m == k + 1
             t1 == r.trak
  <2>1. Ready(t1, rec.file, L) /\ m \in 1..Len(L)
    BY <1>4, <1>5
  <2> HIDE DEF t1, m, L
  <2>2. TimesOK(GetSampleTimes(t1, m), t1, rec.file, L, m)
    BY <2>1, TimesAre
  <2> QED BY <2>2 DEF t1, m
<1> HIDE DEF times, r
<1>7. Ready(u, rec.file, L) /\ u.stts = t.stts /\ u \in Trak
  <2>1. r.trak \in Trak
    BY <1>5 DEF Ready, Readable, Listed
  <2>2. [r.trak EXCEPT !.cache = times.cache].stts = r.trak.stts
    BY <2>1 DEF Trak
  <2>3. Ready([r.trak EXCEPT !.cache = times.cache], rec.file, L)
    BY <1>6 DEF TimesOK
  <2>4. Ready(u, rec.file, L) /\ u.stts = t.stts
    BY <1>5, <2>2, <2>3
  <2> HIDE DEF u
  <2> QED BY <2>4 DEF Ready, Readable, Listed
<1>8. ok => k \in 1..(l - 1) /\ (RunsFit(u) => times.start = StartOf(L, k + 1))
  <2>1. RunsFit(u) => RunsFit(r.trak)
    <3> HIDE DEF u
    <3> QED BY <1>5, <1>7 DEF RunsFit
  <2>2. RunsFit(r.trak) => times.start = StartOf(L, k + 1)
    BY <1>6 DEF TimesOK
  <2>3. ok => k # 0
    BY <1>5
  <2>4. k \in Nat /\ k # 0 => k \in 1..(l - 1)
    <3> HIDE DEF k, l
    <3> QED BY <1>4
  <2> HIDE DEF u, k, l
  <2> QED BY <1>3, <2>1, <2>2, <2>3, <2>4
<1> HIDE DEF u
<1>9. trak2 \in [Names -> Trak] /\ trak2[x] = u
      /\ \A y \in Names : y # x => trak2[y] = rec.trak[y]
  BY <1>3, <1>7
<1> HIDE DEF trak2
<1>10. r2 \in Slots /\ r2.trak = trak2 /\ r2.file = rec.file
  <2>1. r2 = [rec EXCEPT !.trak = trak2, !.file = rec.file]
    BY <1>2 DEF Slots, trak2
  <2> HIDE DEF r2
  <2>2. Replaced([rec EXCEPT !.trak = trak2, !.file = rec.file], trak2, rec.file)
    BY <1>2, <1>3, <1>9, TracksReplaced
  <2> QED BY <2>1, <2>2 DEF Replaced
<1> HIDE DEF r2
<1>11. AllReady(r2, log)
  <2> SUFFICES ASSUME NEW y \in Names PROVE Ready(r2.trak[y], r2.file, log[y])
    BY DEF AllReady
  <2>1. CASE y = x
    BY <1>7, <1>9, <1>10, <2>1
  <2>2. CASE y # x
    <3>1. Ready(rec.trak[y], rec.file, log[y])
      BY <1>2 DEF AllReady
    <3> QED BY <1>9, <1>10, <2>2, <3>1
  <2> QED BY <2>1, <2>2
<1>12. OutOK(o, r2, log)
  <2>1. o.name = x /\ o.sample = k /\ o.ok = ok /\ (ok => o.time = times.start)
    OBVIOUS
  <2> HIDE DEF o, ok
  <2>2. r2.trak[x] = u
    BY <1>9, <1>10
  <2> QED BY <1>8, <2>1, <2>2 DEF OutOK
<1> HIDE DEF o
<1>13. play' \in [Names -> Nat]
  <2>1. k + 1 \in Nat
    BY <1>3
  <2> QED BY <1>1, <1>2, <2>1
<1> QED
  BY <1>1, <1>2, <1>10, <1>11, <1>12, <1>13 DEF RecorderInv

\* Mp4SeekMedia, also to sample 0, which does not exist.
LEMMA Sought ==
    ASSUME RecorderInv, NEW s \in Seeks, Mp4SeekMedia(s[1], s[2])
    PROVE  RecorderInv'
<1>1. phase = "reading" /\ UNCHANGED <<phase, rec, out, log, given>>
      /\ play' = [x \in Names |-> (s[2] * rec.trak[x].count) \div s[1]]
  BY DEF Mp4SeekMedia
<1>2. s[1] \in Nat \ {0} /\ s[2] \in Nat
  BY RecorderAssumption
<1>3. \A x \in Names : rec.trak[x].count \in Nat
  BY DEF RecorderInv, Slots, Trak
<1>4. play' \in [Names -> Nat]
  <2>1. \A a, c \in Nat, d \in Nat \ {0} : (a * c) \div d \in Nat
    <3>1. \A a, c \in Nat : a * c \in Nat
      OBVIOUS
    <3>2. \A a \in Nat, d \in Nat \ {0} : a \div d \in Nat
      OBVIOUS
    <3> QED BY <3>1, <3>2
  <2>2. \A x \in Names : (s[2] * rec.trak[x].count) \div s[1] \in Nat
    BY <1>2, <1>3, <2>1
  <2> QED BY <1>1, <2>2
<1> QED
  BY <1>1, <1>4 DEF RecorderInv

\* CloseMp4Reader.
LEMMA ReaderClosed ==
    ASSUME RecorderInv, CloseMp4Reader
    PROVE  RecorderInv'
<1>1. phase' = "idle" /\ rec' = Fresh /\ log' = [x \in Names |-> <<>>]
      /\ play' = [x \in Names |-> 0] /\ out' = NoRead
  BY DEF CloseMp4Reader
<1> QED
  BY <1>1, FreshIs DEF RecorderInv

\* The invariant holds at the start, and every operation of CMp4Encoder.c keeps
\* it.
THEOREM RecorderInvHolds == Spec => []RecorderInv
<1>1. Init => RecorderInv
  BY FreshIs DEF Init, RecorderInv
<1>2. RecorderInv /\ [Next]_vars => RecorderInv'
  <2> SUFFICES ASSUME RecorderInv, [Next]_vars PROVE RecorderInv'
    OBVIOUS
  <2>1. CASE OpenMp4Encoder
    BY <2>1, Opened
  <2>2. ASSUME NEW frame \in Frames, NEW pts \in Times, Mp4VEncode(frame, pts) PROVE RecorderInv'
    BY <2>2, VideoHanded
  <2>3. ASSUME NEW n \in AacSizes, Mp4AEncode(n) PROVE RecorderInv'
    BY <2>3, AudioHanded
  <2>4. CASE CloseMp4Encoder
    BY <2>4, RecordingClosed
  <2>5. CASE OpenMp4Reader
    BY <2>5, ReaderOpened
  <2>6. CASE Mp4ReadVideo
    BY <2>6, SampleHandedOut DEF Mp4ReadVideo, Names
  <2>7. CASE Mp4ReadAudio
    BY <2>7, SampleHandedOut DEF Mp4ReadAudio, Names
  <2>8. ASSUME NEW s \in Seeks, Mp4SeekMedia(s[1], s[2]) PROVE RecorderInv'
    BY <2>8, Sought
  <2>9. CASE CloseMp4Reader
    BY <2>9, ReaderClosed
  <2>10. CASE UNCHANGED vars
    BY <2>10 DEF RecorderInv, vars
  <2> QED
    BY <2>1, <2>2, <2>3, <2>4, <2>5, <2>6, <2>7, <2>8, <2>9, <2>10 DEF Next
<1> QED
  BY <1>1, <1>2, PTL DEF Spec

(***************************************************************************)
(* Everything is found again, and frames keep their time.                  *)
(***************************************************************************)

\* Every sample of a closed recording is found again: bytes, start, duration
\* and sync flag (WriteSample, WriteChunkBuffer, GetSampleFileOffset,
\* GetSampleTimes, IsSyncSample).
THEOREM SamplesReadBackHolds == Spec => []SamplesReadBack
<1>1. RecorderInv => SamplesReadBack
  <2> SUFFICES ASSUME RecorderInv, phase = "reading", NEW x \in Names
               PROVE  LET t == rec.trak[x] IN
                      /\ t.count = Len(log[x])
                      /\ \A k \in 1..t.count :
                           LET r     == ReadSample(t, rec.file, k, GetMaxSampleSize(t))
                               times == GetSampleTimes(t, k)
                           IN  /\ log[x][k].bytes # <<>> => r.ok /\ r.bytes = log[x][k].bytes
                               /\ RunsFit(t) => times.start = Start(x, k)
                               /\ times.duration = log[x][k].duration
                               /\ IsSyncSample(t, k) = SyncAnswer(x, k)
    BY DEF SamplesReadBack
  <2> DEFINE t == rec.trak[x]
             L == log[x]
  <2>1. Ready(t, rec.file, L) /\ rec.file \in Seq(Cell)
    BY DEF RecorderInv, AllReady, Slots
  <2>2. ReadBack(t, rec.file, L)
    BY <2>1, TrackReadBack
  <2>3. \A k : Start(x, k) = StartOf(L, k) /\ SyncAnswer(x, k) = SyncAnswerOf(L, k)
    BY DEF Start, StartOf, SyncAnswer, SyncAnswerOf
  <2> QED BY <2>2, <2>3 DEF ReadBack
<1> QED
  BY <1>1, RecorderInvHolds, PTL

\* The time of the frames of which none misses its time.
SevenSeconds == 7000000

\* What Steady says of the samples of the video track.
SteadyUpTo(L, k) ==
    /\ \A i \in 1..k : L[i].pts # 0
    /\ \A i \in 1..(k - 1) :
         LET gap == L[i + 1].pts - L[i].pts IN gap >= 0 /\ gap < SevenSeconds

\* What PTS2TIME_SCALE makes of a time: at most one whole tick is lost.
LEMMA Ticks ==
    ASSUME NEW a \in 0..(U64 - 1), NEW b \in 0..(U64 - 1), b <= a
    PROVE  LET q == PTS2TIME_SCALE(a, b) IN
           /\ q \in Nat /\ 100 * q <= 9 * (a - b) /\ 9 * (a - b) <= 100 * q + 100
           /\ a - b < SevenSeconds => checkInvalidData(a, b) = q
<1> DEFINE d == a - b
           q == PTS2TIME_SCALE(a, b)
           e == TicksIn(d)
<1>1. d \in Nat /\ d < U64 /\ U64 \in Nat
  BY WidthsAssumption
<1>2. d % U64 = d
  <2>1. \A m, n \in Nat : m < n => m % n = m
    OBVIOUS
  <2> HIDE DEF d
  <2> QED BY <1>1, <2>1
<1>3. q = IF d \in ShortTimes THEN e - 1 ELSE e
  BY <1>2 DEF PTS2TIME_SCALE
<1> HIDE DEF d
<1>4. /\ e \in Nat /\ 100 * e <= 9 * d /\ 9 * d <= 100 * e + 99
      /\ d \in ShortTimes => e - 1 \in Nat /\ 9 * d = 100 * e
  BY <1>1, TicksAre
<1> HIDE DEF e, q
<1>5. q \in Nat /\ 100 * q <= 9 * d /\ 9 * d <= 100 * q + 100
  <2>1. CASE d \in ShortTimes
    BY <1>1, <1>3, <1>4, <2>1
  <2>2. CASE d \notin ShortTimes
    BY <1>1, <1>3, <1>4, <2>2
  <2> QED BY <2>1, <2>2
<1>6. d < SevenSeconds => checkInvalidData(a, b) = q
  <2> SUFFICES ASSUME d < SevenSeconds PROVE ~ (q >= 7 * VIDEO_TIME_SCALE)
    BY DEF checkInvalidData, q
  <2> QED BY <1>1, <1>5, SMT DEF VIDEO_TIME_SCALE, SevenSeconds
<1> QED
  BY <1>5, <1>6 DEF d, q

\* A tick of rounding more for each sample.
LEMMA OneMoreTick ==
    ASSUME NEW T \in Int, NEW q \in Nat, NEW a \in Nat, NEW b \in Nat, NEW c \in Nat, NEW j \in Nat,
           a <= b, 100 * T <= 9 * (b - a), 9 * (b - a) <= 100 * T + 100 * (j - 1),
           b <= c, 100 * q <= 9 * (c - b), 9 * (c - b) <= 100 * q + 100
    PROVE  /\ T + q \in Int /\ a <= c /\ 100 * (T + q) <= 9 * (c - a)
           /\ 9 * (c - a) <= 100 * (T + q) + 100 * ((j + 1) - 1)
  OBVIOUS

\* How far the samples are behind the times they were given.
Behind(L, k) ==
    LET T == StartOf(L, k + 1)
        d == L[k].pts - L[1].pts
    IN  T \in Int /\ d \in Nat /\ 100 * T <= 9 * d /\ 9 * d <= 100 * T + 100 * (k - 1)

\* Durations that are rounded down one by one fall behind by at most a tick
\* each.
LEMMA SteadyTimes ==
    ASSUME NEW L \in Seq(Entry), Follows(L), NEW k \in 1..Len(L), SteadyUpTo(L, k)
    PROVE  Behind(L, k)
<1> DEFINE l == Len(L)
           D == [i \in 1..l |-> L[i].duration]
           S(j) == Total(D, 1, j + 1)
           p(j) == L[j].pts
           P == {j \in Nat : j \in 1..k =>
                   /\ S(j) \in Int /\ p(1) <= p(j)
                   /\ 100 * S(j) <= 9 * (p(j) - p(1)) /\ 9 * (p(j) - p(1)) <= 100 * S(j) + 100 * (j - 1)}
<1>1. l \in Nat /\ k \in Nat /\ 1 <= k /\ k <= l
  OBVIOUS
<1>2. ASSUME NEW i \in 1..l
      PROVE  L[i].duration \in Nat /\ D[i] = L[i].duration
  <2>1. L[i] \in Entry
    OBVIOUS
  <2>2. L[i].duration \in Nat
    BY <2>1, WidthsAssumption DEF Entry
  <2> QED BY <2>2
<1>3. \A i \in 1..l : p(i) \in 0..(U64 - 1)
  BY DEF Follows
<1>4. \A i \in 1..k : p(i) # 0
  BY DEF SteadyUpTo
<1>5. \A i \in 1..l : D[i] \in Int
  BY <1>2
<1>6. ASSUME NEW j \in Nat, j + 1 <= l
      PROVE  S(j) \in Int /\ S(j + 1) = S(j) + L[j + 1].duration
  <2>1. \A i \in 1..(j + 1) : D[i] \in Int
    <3>1. \A i \in 1..(j + 1) : i \in 1..l
      BY <1>1, <1>6
    <3> QED BY <1>5, <3>1
  <2>2. D[j + 1] = L[j + 1].duration
    <3>1. j + 1 \in 1..l
      BY <1>1, <1>6
    <3> QED BY <1>2, <3>1
  <2>3. 1 \in Int /\ j + 1 \in Int /\ 1 <= j + 1
    OBVIOUS
  <2> DEFINE m == j + 1
  <2> HIDE DEF D, m
  <2>4. Total(D, 1, m) \in Int /\ Total(D, 1, m + 1) = Total(D, 1, m) + D[m]
    BY <2>1, <2>3, TotalStep DEF m
  <2> QED BY <2>2, <2>4 DEF m
<1>7. S(0) = 0
  <2>1. 1 \in Int /\ 0 + 1 = 1
    OBVIOUS
  <2> HIDE DEF D
  <2> QED BY <2>1, TotalNone
<1> HIDE DEF D, S
<1>8. ASSUME NEW i \in 1..k
      PROVE  L[i].duration = checkInvalidData(p(i), p(IF i = 1 THEN 1 ELSE i - 1))
  <2>1. i \in 1..l /\ L[i].pts # 0
    BY <1>1, <1>4
  <2> QED BY <2>1 DEF Follows
<1> HIDE DEF p
<1>9. 0 \in P
  OBVIOUS
<1>10. ASSUME NEW j \in Nat, j \in P
       PROVE  j + 1 \in P
  <2> SUFFICES ASSUME j + 1 \in 1..k
               PROVE  /\ S(j + 1) \in Int /\ p(1) <= p(j + 1)
                      /\ 100 * S(j + 1) <= 9 * (p(j + 1) - p(1))
                      /\ 9 * (p(j + 1) - p(1)) <= 100 * S(j + 1) + 100 * ((j + 1) - 1)
    OBVIOUS
  <2>1. S(j) \in Int /\ S(j + 1) = S(j) + L[j + 1].duration
    BY <1>1, <1>6
  <2>2. CASE j = 0
    <3>1. 1 \in 1..k /\ 1 \in 1..l
      BY <1>1
    <3>2. L[1].duration = checkInvalidData(p(1), p(1))
      BY <1>8, <3>1
    <3>3. p(1) \in 0..(U64 - 1) /\ p(1) \in Nat
      BY <1>3, <3>1
    <3>4. checkInvalidData(p(1), p(1)) = 0
      <4>1. p(1) <= p(1) /\ p(1) - p(1) = 0 /\ 0 < SevenSeconds
        BY <3>3, SMT DEF SevenSeconds
      <4> DEFINE q == PTS2TIME_SCALE(p(1), p(1))
      <4>2. q \in Nat /\ 100 * q <= 9 * (p(1) - p(1)) /\ checkInvalidData(p(1), p(1)) = q
        BY <3>3, <4>1, Ticks
      <4> HIDE DEF q
      <4> QED BY <4>1, <4>2
    <3>5. S(1) = 0
      <4>1. S(0 + 1) = S(0) + L[0 + 1].duration
        BY <2>1, <2>2
      <4>2. 0 + 1 = 1
        OBVIOUS
      <4> QED BY <1>7, <3>2, <3>4, <4>1, <4>2
    <3>6. j + 1 = 1
      BY <2>2
    <3>7. /\ S(1) \in Int /\ p(1) <= p(1)
          /\ 100 * S(1) <= 9 * (p(1) - p(1)) /\ 9 * (p(1) - p(1)) <= 100 * S(1) + 100 * (1 - 1)
      BY <3>3, <3>5
    <3> QED BY <3>6, <3>7
  <2>3. CASE j # 0
    <3>1. j \in 1..k /\ j \in 1..l /\ j + 1 \in 1..l /\ 1 \in 1..l /\ j + 1 # 1 /\ (j + 1) - 1 = j
          /\ j \in 1..(k - 1)
      BY <1>1, <2>3
    <3>2. /\ S(j) \in Int /\ p(1) <= p(j)
          /\ 100 * S(j) <= 9 * (p(j) - p(1)) /\ 9 * (p(j) - p(1)) <= 100 * S(j) + 100 * (j - 1)
      BY <1>10, <3>1
    <3>3. /\ p(j) \in 0..(U64 - 1) /\ p(j + 1) \in 0..(U64 - 1) /\ p(1) \in 0..(U64 - 1)
          /\ p(j) \in Nat /\ p(j + 1) \in Nat /\ p(1) \in Nat
      BY <1>3, <3>1
    <3>4. p(j) <= p(j + 1) /\ p(j + 1) - p(j) < SevenSeconds
      <4>1. p(j + 1) - p(j) >= 0 /\ p(j + 1) - p(j) < SevenSeconds
        BY <3>1 DEF SteadyUpTo, p
      <4> QED BY <3>3, <4>1
    <3> DEFINE q == PTS2TIME_SCALE(p(j + 1), p(j))
    <3>5. /\ q \in Nat /\ 100 * q <= 9 * (p(j + 1) - p(j)) /\ 9 * (p(j + 1) - p(j)) <= 100 * q + 100
          /\ checkInvalidData(p(j + 1), p(j)) = q
      BY <3>3, <3>4, Ticks
    <3>6. L[j + 1].duration = checkInvalidData(p(j + 1), p(j))
      BY <1>8, <3>1
    <3> HIDE DEF q
    <3>7. S(j + 1) = S(j) + q
      BY <2>1, <3>5, <3>6
    <3> DEFINE T == S(j)
               a == p(1)
               b == p(j)
               c == p(j + 1)
    <3>8. /\ T \in Int /\ q \in Nat /\ a \in Nat /\ b \in Nat /\ c \in Nat /\ a <= b
          /\ 100 * T <= 9 * (b - a) /\ 9 * (b - a) <= 100 * T + 100 * (j - 1)
          /\ b <= c /\ 100 * q <= 9 * (c - b) /\ 9 * (c - b) <= 100 * q + 100
      BY <3>2, <3>3, <3>4, <3>5
    <3> HIDE DEF T, a, b, c
    <3>9. /\ T + q \in Int /\ a <= c /\ 100 * (T + q) <= 9 * (c - a)
          /\ 9 * (c - a) <= 100 * (T + q) + 100 * ((j + 1) - 1)
      BY <3>8, OneMoreTick
    <3>10. S(j + 1) = T + q
      BY <3>7 DEF T
    <3> QED BY <3>9, <3>10 DEF a, c
  <2> QED BY <2>2, <2>3
<1> HIDE DEF P
<1>11. k \in P
  BY <1>1, <1>9, <1>10, Induction
<1>12. /\ S(k) \in Int /\ p(1) <= p(k)
       /\ 100 * S(k) <= 9 * (p(k) - p(1)) /\ 9 * (p(k) - p(1)) <= 100 * S(k) + 100 * (k - 1)
  <2>1. k \in 1..k
    BY <1>1
  <2> QED BY <1>11, <2>1 DEF P
<1>13. StartOf(L, k + 1) = S(k)
  <2> DEFINE E == [i \in 1..((k + 1) - 1) |-> L[i].duration]
  <2>1. (k + 1) - 1 = k /\ \A i \in 1..k : i \in 1..l
    BY <1>1
  <2>2. Same(E, D, 1, (k + 1) - 1)
    BY <1>2, <2>1 DEF Same
  <2>3. \A i \in 1..((k + 1) - 1) : D[i] \in Int
    BY <1>5, <2>1
  <2>4. 1 \in Int /\ k + 1 \in Int /\ 1 <= k + 1
    BY <1>1
  <2>5. StartOf(L, k + 1) = Total(E, 1, k + 1)
    BY DEF StartOf
  <2> HIDE DEF E
  <2>6. Total(E, 1, k + 1) = Total(D, 1, k + 1)
    BY <2>2, <2>3, <2>4, TotalAlike
  <2> QED BY <2>5, <2>6 DEF S
<1>14. p(k) \in Nat /\ p(1) \in Nat
  <2>1. k \in 1..l /\ 1 \in 1..l
    BY <1>1
  <2> QED BY <1>3, <2>1
<1> HIDE DEF l
<1> QED
  BY <1>12, <1>13, <1>14 DEF Behind, p

\* From hundredths of ticks to ticks.
LEMMA InTime ==
    ASSUME NEW T \in Int, NEW d \in Nat, NEW q \in Nat, NEW k \in Nat, k > 0,
           100 * T <= 9 * d, 9 * d <= 100 * T + 100 * (k - 1),
           100 * q <= 9 * d, 9 * d <= 100 * q + 99
    PROVE  T <= q /\ q <= T + k - 1
  OBVIOUS

\* A video frame is played at the time it was recorded with, less at most a
\* tick for each frame after the first (Mp4VNaluEncode, Mp4ReadVideo).
THEOREM FramesKeepTheirTimeHolds == Spec => []FramesKeepTheirTime
<1>1. RecorderInv => FramesKeepTheirTime
  <2> DEFINE k == out.sample
             L == log["video"]
             q == TicksIn(L[k].pts - L[1].pts)
  <2> SUFFICES ASSUME RecorderInv, out.name = "video", out.ok, Steady(k), RunsFit(rec.trak["video"])
               PROVE  out.time <= q /\ q <= out.time + k - 1
    BY DEF FramesKeepTheirTime
  <2>1. L \in Seq(Entry) /\ Follows(L) /\ k \in 1..(Len(L) - 1) /\ out.time = StartOf(L, k + 1)
    BY DEF RecorderInv, OutOK, Logs, Names
  <2>2. SteadyUpTo(L, k)
    BY SMT DEF Steady, SteadyUpTo, SevenSeconds
  <2>3. k \in 1..Len(L) /\ k \in Nat /\ k > 0
    <3> HIDE DEF k, L
    <3>1. Len(L) \in Nat
      BY <2>1
    <3> QED BY <2>1, <3>1
  <2> HIDE DEF k, L
  <2>4. Behind(L, k)
    BY <2>1, <2>2, <2>3, SteadyTimes
  <2> DEFINE d == L[k].pts - L[1].pts
             T == out.time
  <2>5. T \in Int /\ d \in Nat /\ 100 * T <= 9 * d /\ 9 * d <= 100 * T + 100 * (k - 1)
    BY <2>1, <2>4 DEF Behind
  <2> HIDE DEF d, T
  <2>6. TicksIn(d) \in Nat /\ 100 * TicksIn(d) <= 9 * d /\ 9 * d <= 100 * TicksIn(d) + 99
    BY <2>5, TicksAre
  <2> DEFINE c == TicksIn(d)
  <2> HIDE DEF c
  <2>7. T <= c /\ c <= T + k - 1
    BY <2>3, <2>5, <2>6, InTime DEF c
  <2> QED BY <2>7 DEF c, d, T
<1> QED
  BY <1>1, RecorderInvHolds, PTL
=============================================================================
