------------------------ MODULE MediaPipelineProofs ------------------------
(***************************************************************************)
(* The frames on their way from the cameras to the sessions: first the two *)
(* parts of frame.c, each on its own, then the media path with its three   *)
(* threads.                                                                *)
(*                                                                         *)
(* The frame heap works for any number of frames.  The occupied slots are  *)
(* always the ones from take up to put, going round; take = put means all  *)
(* or none, and "all" leaves no frame that could still be on its way back. *)
(*                                                                         *)
(* The exchanger never drops a frame and its bytes announce delivered      *)
(* frames, for every number of slots and every set of frames; and a        *)
(* capture thread that has met a NULL is starved for good.  Neither part   *)
(* needs PipelineAssumption, which no proof about them cites.              *)
(*                                                                         *)
(* The media path keeps the reference counts exact and the heap sound, for *)
(* every number of frames, slots and queue cells, and is an implementation *)
(* of the exchanger; and the event loop runs out of frames only behind a   *)
(* backlog of audio.  Its invariant has those of the parts in it; their    *)
(* lemmas are cited for the steps that happen inside a part.               *)
(***************************************************************************)
EXTENDS MediaPipeline, SequenceTheorems, FiniteSetTheorems, TLAPS

(***************************************************************************)
(* The frame heap.                                                         *)
(***************************************************************************)
(* Slot i is one of those from take up to put. *)
Between(i) == IF take < put THEN take <= i /\ i < put ELSE take <= i \/ i < put

(* The ring: exactly those slots are occupied. *)
HeapRing ==
    IF take = put
    THEN (\A i \in Slot : heap[i] # NULL) \/ (\A i \in Slot : heap[i] = NULL)
    ELSE \A i \in Slot : heap[i] # NULL <=> Between(i)

(* The inductive invariant of the heap. *)
HeapInv == HeapTypeOK /\ FramePlaces /\ HeapRing /\ ~ stuck

-----------------------------------------------------------------------------
(* The heap has at least one slot, and NULL is not a frame. *)
LEMMA CountPositive == Count \in Nat /\ Count > 0 /\ NULL \notin Frames
  BY FramesAssumption, FS_CardinalityType, FS_EmptySet DEF Count

(* Following the slots' next pointers stays in the ring. *)
LEMMA NextSlot == \A i \in Slot : next(i) \in Slot
  BY CountPositive DEF next, Slot

(* When every slot is occupied every frame is in the heap: as many slots   *)
(* as frames, and no frame in two slots.                                   *)
LEMMA FullHeap ==
    ASSUME heap \in [Slot -> Frames], \A i, j \in Slot : heap[i] = heap[j] => i = j
    PROVE  InHeap = Frames
  <1>1. heap \in Injection(Slot, Frames)
    BY DEF Injection, IsInjective
  <1>2. Cardinality(Slot) = Cardinality(Frames)
    BY CountPositive, FS_Interval DEF Slot, Count
  <1>3. heap \in Surjection(Slot, Frames)
    BY <1>1, <1>2, FramesAssumption, FS_Injection
  <1> QED BY <1>3 DEF Surjection, InHeap

(* A frame on its way back finds an empty slot. *)
LEMMA RoomForDying == HeapInv => NeverStuck
  <1> SUFFICES ASSUME HeapInv, dying # {}, heap[put] # NULL PROVE FALSE
    BY DEF HeapInv, NeverStuck
  <1>1. put \in Slot /\ take \in Slot /\ Slot \subseteq Int
    BY CountPositive DEF HeapInv, HeapTypeOK, Slot
  <1>2. take = put
    BY <1>1 DEF HeapInv, HeapRing, Between
  <1>3. \A i \in Slot : heap[i] # NULL
    BY <1>1, <1>2 DEF HeapInv, HeapRing
  <1>4. InHeap = Frames
    <2>1. heap \in [Slot -> Frames] /\ \A i, j \in Slot : heap[i] = heap[j] => i = j
      BY <1>3 DEF HeapInv, HeapTypeOK, FramePlaces
    <2> QED BY <2>1, FullHeap
  <1> QED BY <1>4 DEF HeapInv, HeapTypeOK, FramePlaces

(* The slot at take is empty only when all are. *)
LEMMA EmptyAtTake == HeapInv => FailsOnlyWhenAllOut
  <1> SUFFICES ASSUME HeapInv, heap[take] = NULL PROVE InHeap = {}
    BY DEF FailsOnlyWhenAllOut
  <1>1. put \in Slot /\ take \in Slot /\ Slot \subseteq Int
    BY CountPositive DEF HeapInv, HeapTypeOK, Slot
  <1>2. take = put
    BY <1>1 DEF HeapInv, HeapRing, Between
  <1>3. \A i \in Slot : heap[i] = NULL
    BY <1>1, <1>2 DEF HeapInv, HeapRing
  <1> QED BY <1>3, CountPositive DEF InHeap

(* init_frame_heap fills every slot. *)
LEMMA InitHeapInv == HeapInit => HeapInv
  <1> SUFFICES ASSUME HeapInit PROVE HeapInv
    OBVIOUS
  <1>1. HeapTypeOK
    <2>1. heap \in [Slot -> Frames \cup {NULL}] /\ ref_count \in [Frames -> Nat]
      BY DEF HeapInit
    <2>2. 0 \in Slot
      BY CountPositive DEF Slot
    <2> QED BY <2>1, <2>2 DEF HeapInit, HeapTypeOK
  <1>2. \A i \in Slot : heap[i] # NULL
    BY CountPositive DEF HeapInit
  <1>3. FramePlaces
    <2>1. /\ InHeap \cap dying = {}
          /\ \A i, j \in Slot : heap[i] = heap[j] /\ heap[i] # NULL => i = j
      BY DEF HeapInit
    <2>2. InHeap = Frames
      BY FullHeap DEF HeapInit
    <2> QED BY <2>1, <2>2 DEF HeapInit, FramePlaces
  <1>4. HeapRing
    BY <1>2 DEF HeapInit, HeapRing
  <1> QED BY <1>1, <1>3, <1>4 DEF HeapInv, HeapInit

(* new_frame empties the slot at take. *)
LEMMA NewFrameHeapInv == ASSUME HeapInv, NEW f \in Frames, new_frame(f) PROVE HeapInv'
  <1>1. /\ heap \in [Slot -> Frames \cup {NULL}] /\ take \in Slot /\ put \in Slot
        /\ heap[take] = f /\ f # NULL /\ heap' = [heap EXCEPT ![take] = NULL]
        /\ take' = next(take) /\ put' = put /\ dying' = dying
        /\ ref_count' = [ref_count EXCEPT ![f] = 1]
    BY DEF HeapInv, HeapTypeOK, new_frame
  <1>2. HeapTypeOK'
    BY <1>1, NextSlot DEF HeapInv, HeapTypeOK, new_frame
  <1>3. InHeap' = InHeap \ {f}
    <2>1. \A i \in Slot : i # take => heap'[i] = heap[i] /\ heap[i] # f
      BY <1>1 DEF HeapInv, FramePlaces
    <2>2. heap'[take] = NULL
      BY <1>1
    <2>3. ASSUME NEW g \in Frames
          PROVE  (\E i \in Slot : heap'[i] = g) <=> (\E i \in Slot : heap[i] = g) /\ g # f
      BY <2>1, <2>2, <1>1, CountPositive
    <2> QED BY <2>3 DEF InHeap
  <1>4. FramePlaces'
    BY <1>1, <1>3 DEF HeapInv, HeapTypeOK, FramePlaces, InHeap
  <1>5. HeapRing'
    <2>1. \A i \in Slot : heap'[i] # NULL <=> heap[i] # NULL /\ i # take
      BY <1>1
    <2>2. Slot = 0..(Count - 1) /\ Count \in Nat /\ Count > 0
      BY CountPositive DEF Slot
    <2>3. CASE take = put
      <3>1. \A i \in Slot : heap[i] # NULL
        BY <2>3, <1>1 DEF HeapInv, HeapRing
      <3> QED BY <2>1, <2>2, <2>3, <3>1, <1>1 DEF HeapRing, Between, next
    <2>4. CASE take # put
      <3>1. \A i \in Slot : heap[i] # NULL <=> Between(i)
        BY <2>4 DEF HeapInv, HeapRing
      <3> QED BY <2>1, <2>2, <2>4, <3>1, <1>1 DEF HeapRing, Between, next
    <2> QED BY <2>3, <2>4
  <1> QED BY <1>2, <1>4, <1>5 DEF HeapInv, new_frame

(* The last unref_frame fills the slot at put. *)
LEMMA PutFrameHeapInv == ASSUME HeapInv, NEW f \in Frames, put_frame(f) PROVE HeapInv'
  <1>1. heap[put] = NULL /\ f \in dying
    BY RoomForDying DEF put_frame, NeverStuck
  <1>2. /\ heap \in [Slot -> Frames \cup {NULL}] /\ take \in Slot /\ put \in Slot
        /\ heap' = [heap EXCEPT ![put] = f] /\ f # NULL
        /\ put' = next(put) /\ take' = take /\ dying' = dying \ {f}
        /\ ref_count' = ref_count /\ stuck' = stuck
    BY <1>1, CountPositive DEF HeapInv, HeapTypeOK, put_frame
  <1>3. HeapTypeOK'
    BY <1>2, NextSlot DEF HeapInv, HeapTypeOK
  <1>4. InHeap' = InHeap \cup {f} /\ f \notin InHeap
    BY <1>1, <1>2, CountPositive DEF HeapInv, FramePlaces, InHeap
  <1>5. FramePlaces'
    BY <1>1, <1>2, <1>4 DEF HeapInv, HeapTypeOK, FramePlaces, InHeap
  <1>6. HeapRing'
    <2>1. \A i \in Slot : heap'[i] # NULL <=> heap[i] # NULL \/ i = put
      BY <1>2
    <2>2. Slot = 0..(Count - 1) /\ Count \in Nat /\ Count > 0
      BY CountPositive DEF Slot
    <2>3. CASE take = put
      <3>1. \A i \in Slot : heap[i] = NULL
        BY <2>3, <1>1, <1>2 DEF HeapInv, HeapRing
      <3> QED BY <2>1, <2>2, <2>3, <3>1, <1>2 DEF HeapRing, Between, next
    <2>4. CASE take # put
      <3>1. \A i \in Slot : heap[i] # NULL <=> Between(i)
        BY <2>4 DEF HeapInv, HeapRing
      <3> QED BY <2>1, <2>2, <2>4, <3>1, <1>2 DEF HeapRing, Between, next
    <2> QED BY <2>3, <2>4
  <1> QED BY <1>2, <1>3, <1>5, <1>6 DEF HeapInv

(* References change no slot; the last one dropped makes a frame dying. *)
LEMMA RefHeapInv ==
    ASSUME HeapInv, NEW f \in Frames,
           (ref_count[f] > 0 /\ ref_frame(f)) \/ unref_frame(f)
    PROVE  HeapInv'
  <1>1. /\ ref_count \in [Frames -> Nat] /\ ref_count[f] > 0
        /\ UNCHANGED <<heap, take, put, stuck>>
    BY DEF HeapInv, HeapTypeOK, ref_frame, unref_frame
  <1>2. HeapTypeOK'
    BY <1>1 DEF HeapInv, HeapTypeOK, ref_frame, unref_frame
  <1>3. InHeap' = InHeap
    BY <1>1 DEF InHeap
  <1>4. FramePlaces'
    <2>1. CASE ref_frame(f)
      BY <2>1, <1>1, <1>3 DEF ref_frame, HeapInv, HeapTypeOK, FramePlaces
    <2>2. CASE unref_frame(f)
      BY <2>2, <1>1, <1>3 DEF unref_frame, HeapInv, HeapTypeOK, FramePlaces
    <2> QED BY <2>1, <2>2
  <1>5. HeapRing'
    BY <1>1 DEF HeapInv, HeapRing, Between
  <1> QED BY <1>1, <1>2, <1>4, <1>5 DEF HeapInv

(* new_frame, ref_frame, unref_frame and the way back keep the invariant. *)
LEMMA NextHeapInv == HeapInv /\ [HeapNext]_heapVars => HeapInv'
  <1> SUFFICES ASSUME HeapInv, [HeapNext]_heapVars PROVE HeapInv'
    OBVIOUS
  <1>1. ASSUME NEW f \in Frames, new_frame(f) PROVE HeapInv'
    BY <1>1, NewFrameHeapInv
  <1>2. ASSUME NEW f \in Frames, ref_count[f] \in 1..(MaxRef - 1), ref_frame(f) PROVE HeapInv'
    BY <1>2, RefHeapInv, MaxRefAssumption
  <1>3. ASSUME NEW f \in Frames, unref_frame(f) PROVE HeapInv'
    BY <1>3, RefHeapInv
  <1>4. ASSUME NEW f \in Frames, put_frame(f) PROVE HeapInv'
    BY <1>4, PutFrameHeapInv
  <1>5. CASE UNCHANGED heapVars
    BY <1>5 DEF heapVars, HeapInv, HeapTypeOK, FramePlaces, InHeap, HeapRing, Between
  <1> QED BY <1>1, <1>2, <1>3, <1>4, <1>5 DEF HeapNext

-----------------------------------------------------------------------------
(* The invariant of the frame heap, for any number of frames. *)
THEOREM HeapInvHolds == HeapSpec => []HeapInv
  BY InitHeapInv, NextHeapInv, PTL DEF HeapSpec

(* The variables of the frame heap (frame.c) keep their types. *)
THEOREM HeapTypeCorrect == HeapSpec => []HeapTypeOK
  <1>1. HeapInv => HeapTypeOK
    BY DEF HeapInv
  <1> QED BY <1>1, HeapInvHolds, PTL

(* No frame is ever in two places or lost, however new_frame, ref_frame    *)
(* and unref_frame of several threads interleave.                          *)
THEOREM FramesNeverLost == HeapSpec => []FramePlaces
  <1>1. HeapInv => FramePlaces
    BY DEF HeapInv
  <1> QED BY <1>1, HeapInvHolds, PTL

(* unref_frame never takes its error path, which returns with the heap     *)
(* mutex locked.                                                           *)
THEOREM HeapNeverStuck == HeapSpec => []NeverStuck
  BY RoomForDying, HeapInvHolds, PTL

(* new_frame fails only when the heap is really empty: a free frame is     *)
(* never hidden behind an empty slot.                                      *)
THEOREM NoFalseExhaustion == HeapSpec => []FailsOnlyWhenAllOut
  BY EmptyAtTake, HeapInvHolds, PTL

(***************************************************************************)
(* The frame exchanger.                                                    *)
(***************************************************************************)
(* How many slots the master goes on from i to reach k. *)
ahead(i, k) == IF k < i THEN k - i + Slots ELSE k - i

(* The master holds a place in the ring open: it has taken the frame of    *)
(* master_write and not yet put another one in.                            *)
Hole == mpc \in {"new_frame", "exchange"}

(* The slot of the frame the next byte will be about. *)
NextByte == IF spc = "advance" THEN succ(slave_cur) ELSE slave_cur

(* The slot is out of the slave's reach: already given back, or the hole.  *)
Delivered(i) == \/ ahead(master_read, i) < bytes
                \/ Hole /\ i = master_write
                \/ spc = "write" /\ i = slave_cur

(* The cursors.  The master writes where it has read, the slave is as many *)
(* slots ahead of master_read as there are bytes in the pipe.              *)
Cursors ==
    /\ IF Hole THEN master_read = succ(master_write) ELSE master_write = master_read
    /\ bytes <= Slots
    /\ Hole => bytes < Slots
    /\ ahead(master_read, NextByte) = IF bytes = Slots THEN 0 ELSE bytes
    /\ spc = "write" => bytes < Slots /\ (Hole => bytes + 1 < Slots)

(* The slots.  Pending are those that nobody has delivered; what is        *)
(* delivered is a frame.                                                   *)
Slotted ==
    /\ \A i \in Ring : pending[i] <=> ~ Delivered(i)
    /\ \A i \in Ring : ahead(master_read, i) < bytes => slot[i] # NULL
    /\ Hole => slot[master_write] = NULL
    /\ spc \in {"encode", "deliver", "write"} => slot[slave_cur] # NULL
    /\ spc \in {"encode", "deliver"} => pending[slave_cur]

(* What the master holds. *)
Held == /\ dropped = {}
        /\ mpc \in {"new_frame", "exchange", "to_stream"} => taken # NULL

ExInv == ExTypeOK /\ Cursors /\ Slotted /\ Held

-----------------------------------------------------------------------------
(* succ and ahead stay in the ring. *)
LEMMA RingSteps ==
    ASSUME NEW i \in Ring, NEW k \in Ring
    PROVE  /\ succ(i) \in Ring
           /\ ahead(i, k) \in Ring
           /\ ahead(i, k) = 0 <=> i = k
           /\ ahead(succ(i), i) = Slots - 1
           /\ ahead(succ(i), k) = IF k = i THEN Slots - 1 ELSE ahead(i, k) - 1
           /\ ahead(i, succ(k)) = IF ahead(i, k) = Slots - 1 THEN 0
                                                            ELSE ahead(i, k) + 1
BY SlotsAssumption DEF Ring, succ, ahead

(* Counted from one slot, two slots are not equally far. *)
LEMMA AheadInjective ==
    ASSUME NEW m \in Ring, NEW i \in Ring, NEW k \in Ring,
           ahead(m, i) = ahead(m, k)
    PROVE  i = k
BY SlotsAssumption DEF Ring, ahead

-----------------------------------------------------------------------------
(* When the capture thread starts every slot waits for it. *)
LEMMA ExInitInv == ExInit => ExInv
<1> SUFFICES ASSUME ExInit PROVE ExInv
  OBVIOUS
<1>1. 0 \in Ring /\ Ring # {} /\ Slots > 0
  BY SlotsAssumption DEF Ring
<1>2. ExTypeOK
  BY <1>1, SlotsAssumption DEF ExInit, ExTypeOK
<1>3. ~ Hole /\ NextByte = 0 /\ ahead(0, 0) = 0
  BY DEF ExInit, Hole, NextByte, ahead
<1>4. Cursors
  BY <1>1, <1>3, SlotsAssumption DEF ExInit, Cursors
<1>5. \A i \in Ring : ~ (ahead(master_read, i) < bytes)
  BY <1>1, RingSteps, SlotsAssumption DEF ExInit, Ring
<1>6. Slotted
  BY <1>3, <1>5 DEF ExInit, Slotted, Delivered
<1> QED
  BY <1>2, <1>4, <1>6 DEF ExInv, Held, ExInit

(* A step of the master outside the ring, one that neither opens nor fills *)
(* the hole.                                                               *)
LEMMA MasterElsewhere ==
    ASSUME ExInv, UNCHANGED <<ring, spc, dropped>>, Hole' <=> Hole,
           taken' \in Frames \cup {NULL}, fresh' \in Frames \cup {NULL},
           mpc' \in {"new_frame", "exchange", "to_stream"} => taken' # NULL
    PROVE  ExInv'
<1>1. ExTypeOK'
  BY DEF ExInv, ExTypeOK, ring
<1>2. NextByte' = NextByte /\ (\A i \in Ring : Delivered(i)' <=> Delivered(i))
  BY DEF NextByte, Delivered, ring
<1>3. Cursors'
  BY <1>2 DEF ExInv, Cursors, ring
<1>4. Slotted'
  BY <1>2 DEF ExInv, Slotted, ring
<1> QED
  BY <1>1, <1>3, <1>4 DEF ExInv, Held

(* The frame at master_read, which a byte announces, leaves the ring. *)
LEMMA ReadInv == ASSUME ExInv, exchanger_read PROVE ExInv'
<1> USE DEF ExInv
<1>1. /\ master_read \in Ring /\ slave_cur \in Ring /\ NextByte \in Ring
      /\ bytes \in Nat /\ bytes > 0 /\ bytes' = bytes - 1
      /\ master_read' = succ(master_read) /\ master_write' = master_write
      /\ slave_cur' = slave_cur /\ spc' = spc /\ pending' = pending
      /\ slot' = [slot EXCEPT ![master_read] = NULL]
      /\ ~ Hole /\ Hole' /\ dropped' = dropped
      /\ NextByte' = NextByte
  BY RingSteps DEF exchanger_read, ExTypeOK, Hole, NextByte
<1>2. master_write = master_read
  BY <1>1 DEF Cursors
<1>3. slot[master_read] # NULL /\ ahead(master_read, master_read) = 0
  BY <1>1, RingSteps DEF Slotted
<1>4. ExTypeOK'
  BY <1>1, <1>2, <1>3, RingSteps DEF ExTypeOK, exchanger_read
<1>5. \A i \in Ring : ahead(master_read', i) =
         IF i = master_read THEN Slots - 1 ELSE ahead(master_read, i) - 1
  BY <1>1, RingSteps
<1>6. spc = "write" => slave_cur # master_read
  BY <1>1, <1>3, SlotsAssumption DEF Cursors, NextByte
<1>7. Cursors'
  <2>1. bytes' <= Slots /\ bytes' < Slots
    BY <1>1, SlotsAssumption DEF Cursors
  <2>2. ahead(master_read', NextByte') = IF bytes' = Slots THEN 0 ELSE bytes'
    <3>1. CASE NextByte = master_read
      BY <1>1, <1>3, <1>5, <3>1, SlotsAssumption DEF Cursors
    <3>2. CASE NextByte # master_read
      <4>1. ahead(master_read, NextByte) # 0
        BY <1>1, <3>2, RingSteps
      <4> QED
        BY <1>1, <1>5, <3>2, <4>1, SlotsAssumption DEF Cursors
    <3> QED BY <3>1, <3>2
  <2>3. spc' = "write" => bytes' < Slots /\ bytes' + 1 < Slots
    BY <1>1, SlotsAssumption DEF Cursors
  <2> QED
    BY <1>1, <1>2, <2>1, <2>2, <2>3 DEF Cursors
<1>8. \A i \in Ring : Delivered(i)' <=> Delivered(i)
  <2> SUFFICES ASSUME NEW i \in Ring PROVE Delivered(i)' <=> Delivered(i)
    OBVIOUS
  <2>1. CASE i = master_read
    BY <1>1, <1>2, <1>3, <2>1 DEF Delivered
  <2>2. CASE i # master_read
    <3>1. ahead(master_read, i) \in Int
      BY <1>1, RingSteps, SlotsAssumption DEF Ring
    <3>2. ahead(master_read', i) = ahead(master_read, i) - 1
      BY <1>5, <2>2
    <3> QED
      BY <1>1, <1>2, <2>2, <3>1, <3>2 DEF Delivered
  <2> QED BY <2>1, <2>2
<1>9. Slotted'
  <2>1. \A i \in Ring : pending'[i] <=> ~ Delivered(i)'
    BY <1>1, <1>8 DEF Slotted
  <2>2. \A i \in Ring : ahead(master_read', i) < bytes' => slot'[i] # NULL
    <3> SUFFICES ASSUME NEW i \in Ring, ahead(master_read', i) < bytes'
                 PROVE  slot'[i] # NULL
      OBVIOUS
    <3>1. i # master_read
      BY <1>1, <1>5, SlotsAssumption DEF Cursors
    <3>2. ahead(master_read, i) \in Int
      BY <1>1, RingSteps, SlotsAssumption DEF Ring
    <3>3. ahead(master_read, i) < bytes
      BY <1>1, <1>5, <3>1, <3>2
    <3> QED
      BY <1>1, <3>1, <3>3 DEF Slotted, ExTypeOK
  <2>3. slot'[master_write'] = NULL
    BY <1>1, <1>2 DEF ExTypeOK
  <2>4. spc \in {"encode", "deliver", "write"} => slave_cur # master_read
    <3>1. spc \in {"encode", "deliver"} => slave_cur # master_read
      <4>1. ~ pending[master_read]
        BY <1>1, <1>3 DEF Slotted, Delivered
      <4> QED BY <4>1 DEF Slotted
    <3> QED BY <1>6, <3>1
  <2> QED
    BY <1>1, <2>1, <2>2, <2>3, <2>4 DEF Slotted, ExTypeOK
<1> QED
  BY <1>1, <1>3, <1>4, <1>7, <1>9 DEF Held, exchanger_read

(* The new frame, or NULL, fills the hole: exchange_frame finds the slot   *)
(* at master_write empty.                                                  *)
LEMMA ExchangeInv == ASSUME ExInv, get_back_frame_exchange PROVE ExInv'
<1> USE DEF ExInv
<1>1. /\ Hole /\ ~ Hole' /\ spc' = spc /\ taken' = taken /\ fresh' = NULL
      /\ mpc = "exchange" /\ mpc' = "to_stream"
      /\ exchange_frame(fresh)
  BY DEF get_back_frame_exchange, Hole
<1>2. /\ slot' = [slot EXCEPT ![master_write] = fresh]
      /\ pending' = [pending EXCEPT ![master_write] = TRUE]
      /\ master_write' = succ(master_write)
      /\ slave_cur' = slave_cur /\ master_read' = master_read
      /\ bytes' = bytes /\ dropped' = dropped
  BY <1>1 DEF exchange_frame, Slotted
<1>3. /\ master_write \in Ring /\ master_read \in Ring /\ slave_cur \in Ring
      /\ master_read = succ(master_write) /\ bytes \in Nat /\ bytes < Slots
      /\ NextByte' = NextByte
  BY <1>1, <1>2 DEF ExTypeOK, Cursors, NextByte
<1>4. ExTypeOK'
  BY <1>1, <1>2, <1>3 DEF ExTypeOK
<1>5. Cursors'
  BY <1>1, <1>2, <1>3 DEF Cursors
<1>6. ~ (ahead(master_read, master_write) < bytes)
  BY <1>3, RingSteps, SlotsAssumption
<1>7. spc = "write" => slave_cur # master_write
  <2>1. spc = "write" => ahead(master_read, slave_cur) # Slots - 1
    BY <1>1, <1>3, SlotsAssumption DEF Cursors, NextByte
  <2> QED BY <1>3, <2>1, RingSteps
<1>8. \A i \in Ring : Delivered(i)' <=> Delivered(i) /\ i # master_write
  BY <1>1, <1>2, <1>6, <1>7 DEF Delivered
<1>9. Slotted'
  <2>1. \A i \in Ring : pending'[i] <=> ~ Delivered(i)'
    <3> SUFFICES ASSUME NEW i \in Ring PROVE pending'[i] <=> ~ Delivered(i)'
      OBVIOUS
    <3>1. CASE i = master_write
      BY <1>2, <1>3, <1>8, <3>1 DEF ExTypeOK
    <3>2. CASE i # master_write
      <4>1. pending'[i] = pending[i]
        BY <1>2, <1>3, <3>2 DEF ExTypeOK
      <4> QED BY <1>8, <3>2, <4>1 DEF Slotted
    <3> QED BY <3>1, <3>2
  <2>2. \A i \in Ring : i # master_write => slot'[i] = slot[i]
    BY <1>2, <1>3 DEF ExTypeOK
  <2>3. \A i \in Ring : ahead(master_read', i) < bytes' => slot'[i] # NULL
    BY <1>2, <1>6, <2>2 DEF Slotted
  <2>4. spc \in {"encode", "deliver", "write"} => slave_cur # master_write
    <3>1. ~ pending[master_write]
      BY <1>1, <1>3 DEF Slotted, Delivered
    <3> QED BY <1>7, <3>1 DEF Slotted
  <2>5. spc \in {"encode", "deliver"} => pending'[slave_cur]
    BY <1>2, <1>3, <2>4 DEF Slotted, ExTypeOK
  <2> QED
    BY <1>1, <1>2, <1>3, <2>1, <2>2, <2>3, <2>4, <2>5 DEF Slotted
<1> QED
  BY <1>1, <1>2, <1>4, <1>5, <1>9 DEF Held

-----------------------------------------------------------------------------
(* The slave asks for a frame, encodes, or fails to: the ring stays as it  *)
(* is, and a slot it goes on to work at is pending and holds a frame.      *)
LEMMA SlaveElsewhere ==
    ASSUME ExInv, get_next_frame \/ encode \/ encode_fails
    PROVE  ExInv'
<1> USE DEF ExInv
<1>1. /\ UNCHANGED <<ring, master, dropped>> /\ Hole' = Hole
      /\ spc \in {"get", "encode"} /\ spc' \in {"get", "encode", "deliver"}
      /\ spc' \in {"encode", "deliver"} =>
            pending[slave_cur] /\ slot[slave_cur] # NULL
  BY DEF get_next_frame, encode, encode_fails, Slotted, master, Hole
<1>2. NextByte' = NextByte /\ (\A i \in Ring : Delivered(i)' <=> Delivered(i))
  BY <1>1 DEF NextByte, Delivered, ring
<1>3. ExTypeOK'
  BY <1>1 DEF ExTypeOK, ring, master
<1>4. Cursors'
  BY <1>1, <1>2 DEF Cursors, ring
<1>5. Slotted'
  BY <1>1, <1>2 DEF Slotted, ring
<1> QED
  BY <1>1, <1>3, <1>4, <1>5 DEF Held, master

(* deliver_frame clears pending: the slot is the slave's until the byte is *)
(* written.                                                                *)
LEMMA DeliverInv == ASSUME ExInv, deliver_frame PROVE ExInv'
<1> USE DEF ExInv
<1>1. /\ spc = "deliver" /\ spc' = "write"
      /\ UNCHANGED <<slot, slave_cur, master_read, master_write, bytes>>
      /\ UNCHANGED <<mpc, taken, fresh, dropped>>
      /\ pending' = [pending EXCEPT ![slave_cur] = FALSE]
      /\ Hole' = Hole /\ NextByte' = slave_cur /\ NextByte = slave_cur
      /\ slave_cur \in Ring /\ master_read \in Ring /\ master_write \in Ring
      /\ bytes \in Nat
  BY DEF deliver_frame, master, Hole, NextByte, ExTypeOK
<1>2. ExTypeOK'
  BY <1>1 DEF ExTypeOK
<1>3. ~ Delivered(slave_cur)
  BY <1>1 DEF Slotted
<1>4. bytes < Slots /\ (Hole => bytes + 1 < Slots)
  <2>1. ahead(master_read, slave_cur) = IF bytes = Slots THEN 0 ELSE bytes
    BY <1>1 DEF Cursors
  <2>2. ~ (ahead(master_read, slave_cur) < bytes)
    BY <1>3 DEF Delivered
  <2>3. bytes < Slots
    BY <1>1, <2>1, <2>2, SlotsAssumption DEF Cursors
  <2>4. Hole => slave_cur # master_write
    BY <1>3 DEF Delivered
  <2>5. Hole => ahead(master_read, master_write) = Slots - 1
    BY <1>1, RingSteps DEF Cursors
  <2>6. Hole => ahead(master_read, slave_cur) # Slots - 1
    BY <1>1, <2>4, <2>5, AheadInjective
  <2> QED
    BY <1>1, <2>1, <2>3, <2>6, SlotsAssumption
<1>5. Cursors'
  BY <1>1, <1>4 DEF Cursors
<1>6. \A i \in Ring : Delivered(i)' <=> Delivered(i) \/ i = slave_cur
  BY <1>1 DEF Delivered
<1>7. Slotted'
  <2>1. \A i \in Ring : pending'[i] <=> ~ Delivered(i)'
    <3> SUFFICES ASSUME NEW i \in Ring PROVE pending'[i] <=> ~ Delivered(i)'
      OBVIOUS
    <3>1. CASE i = slave_cur
      BY <1>1, <1>6, <3>1 DEF ExTypeOK
    <3>2. CASE i # slave_cur
      <4>1. pending'[i] = pending[i]
        BY <1>1, <3>2 DEF ExTypeOK
      <4> QED BY <1>6, <3>2, <4>1 DEF Slotted
    <3> QED BY <3>1, <3>2
  <2> QED
    BY <1>1, <2>1 DEF Slotted
<1> QED
  BY <1>1, <1>2, <1>5, <1>7 DEF Held

(* The byte is written: the slot is the master's. *)
LEMMA WriteInv == ASSUME ExInv, deliver_write PROVE ExInv'
<1> USE DEF ExInv
<1>1. /\ spc = "write" /\ spc' = "advance" /\ bytes' = bytes + 1
      /\ UNCHANGED <<slot, pending, slave_cur, master_read, master_write>>
      /\ UNCHANGED <<mpc, taken, fresh, dropped>> /\ Hole' = Hole
      /\ slave_cur \in Ring /\ master_read \in Ring /\ bytes \in Nat
      /\ NextByte = slave_cur /\ NextByte' = succ(slave_cur)
  BY DEF deliver_write, master, Hole, NextByte, ExTypeOK
<1>2. ExTypeOK'
  BY <1>1 DEF ExTypeOK
<1>3. bytes < Slots /\ (Hole => bytes + 1 < Slots) /\ ahead(master_read, slave_cur) = bytes
  BY <1>1, SlotsAssumption DEF Cursors
<1>4. ahead(master_read', NextByte') = IF bytes' = Slots THEN 0 ELSE bytes'
  <2>1. ahead(master_read, succ(slave_cur)) = IF bytes = Slots - 1 THEN 0 ELSE bytes + 1
    BY <1>1, <1>3, RingSteps
  <2> QED BY <1>1, <1>3, <2>1, SlotsAssumption
<1>5. Cursors'
  BY <1>1, <1>3, <1>4, SlotsAssumption DEF Cursors
<1>6. ASSUME NEW i \in Ring
      PROVE  ahead(master_read, i) < bytes + 1 <=>
                ahead(master_read, i) < bytes \/ i = slave_cur
  <2>1. ahead(master_read, i) \in Int
    BY <1>1, RingSteps, SlotsAssumption DEF Ring
  <2>2. ahead(master_read, i) = bytes => i = slave_cur
    BY <1>1, <1>3, AheadInjective
  <2> QED BY <1>1, <1>3, <2>1, <2>2
<1>7. \A i \in Ring : Delivered(i)' <=> Delivered(i)
  BY <1>1, <1>6 DEF Delivered
<1>8. Slotted'
  BY <1>1, <1>6, <1>7 DEF Slotted
<1> QED
  BY <1>1, <1>2, <1>5, <1>8 DEF Held

(* The slave moves to the slot after the one it delivered. *)
LEMMA AdvanceInv == ASSUME ExInv, deliver_advance PROVE ExInv'
<1> USE DEF ExInv
<1>1. /\ spc = "advance" /\ spc' = "get" /\ slave_cur' = succ(slave_cur)
      /\ UNCHANGED <<slot, pending, master_read, master_write, bytes>>
      /\ UNCHANGED <<mpc, taken, fresh, dropped>> /\ Hole' = Hole
      /\ NextByte' = NextByte /\ slave_cur' \in Ring
  BY RingSteps DEF deliver_advance, master, Hole, NextByte, ExTypeOK
<1>2. ExTypeOK'
  BY <1>1 DEF ExTypeOK
<1>3. Cursors'
  BY <1>1 DEF Cursors
<1>4. Slotted'
  BY <1>1 DEF Slotted, Delivered
<1> QED
  BY <1>1, <1>2, <1>3, <1>4 DEF Held

(* Every step of the slave. *)
LEMMA SlaveInv == ASSUME ExInv, Slave PROVE ExInv'
BY SlaveElsewhere, DeliverInv, WriteInv, AdvanceInv DEF Slave

-----------------------------------------------------------------------------
(* The invariant is kept by every step of both threads. *)
LEMMA ExStepInv == ExInv /\ [ExNext]_exchangerVars => ExInv'
<1> SUFFICES ASSUME ExInv, [ExNext]_exchangerVars PROVE ExInv'
  OBVIOUS
<1>1. CASE exchanger_ready \/ exchanger_read_done
  BY <1>1, MasterElsewhere DEF exchanger_ready, exchanger_read_done, Hole, ExInv, ExTypeOK
<1>2. CASE exchanger_read
  BY <1>2, ReadInv
<1>3. ASSUME NEW x \in Frames \cup {NULL}, supply_frame(x)
      PROVE  ExInv'
  BY <1>3, MasterElsewhere DEF supply_frame, Hole, ExInv, ExTypeOK, Held
<1>4. CASE get_back_frame_exchange
  BY <1>4, ExchangeInv
<1>5. CASE deliver_frame_to_stream
  BY <1>5, MasterElsewhere DEF deliver_frame_to_stream, Hole, ExInv, ExTypeOK
<1>6. CASE Slave
  BY <1>6, SlaveInv
<1>7. CASE UNCHANGED exchangerVars
  BY <1>7, MasterElsewhere DEF exchangerVars, master, Hole, ExInv, ExTypeOK, Held
<1> QED
  BY <1>1, <1>2, <1>3, <1>4, <1>5, <1>6, <1>7 DEF ExNext, Master

(* ExInv holds in every reachable state: the master's cursors are together   *)
(* but for the hole, the slave is as many slots ahead as there are bytes.  *)
THEOREM ExInvHolds == ExSpec => []ExInv
BY ExInitInv, ExStepInv, PTL DEF ExSpec

(* While the master holds the place open, it is the one it fills next. *)
LEMMA InvNeverDropped == ExInv => NeverDropped
BY DEF ExInv, Held, Slotted, Hole, NeverDropped

(* What Slotted says of every slot, at the three cursors. *)
LEMMA InvBytesAnnounceFrames == ExInv => BytesAnnounceFrames
<1> SUFFICES ASSUME ExInv PROVE BytesAnnounceFrames
  OBVIOUS
<1> USE DEF ExInv
<1>1. /\ master_read \in Ring /\ slave_cur \in Ring /\ master_write \in Ring
      /\ bytes \in Nat
  BY DEF ExTypeOK
<1>2. ahead(master_read, master_read) = 0
  BY <1>1, RingSteps
<1>3. bytes > 0 => slot[master_read] # NULL /\ ~ pending[master_read]
  BY <1>1, <1>2 DEF Slotted, Delivered
<1>4. ASSUME spc \in {"encode", "deliver"}
      PROVE  /\ bytes > 0 => master_read # slave_cur
             /\ Hole => master_write # slave_cur
  BY <1>1, <1>3, <1>4 DEF Slotted, Delivered
<1>5. ASSUME spc = "write"
      PROVE  /\ bytes > 0 => master_read # slave_cur
             /\ Hole => master_write # slave_cur
  <2>1. ahead(master_read, slave_cur) = bytes
    BY <1>1, <1>5, SlotsAssumption DEF Cursors, NextByte
  <2>2. Hole => ahead(master_read, master_write) = Slots - 1 /\ bytes + 1 < Slots
    BY <1>1, <1>5, RingSteps DEF Cursors
  <2> QED BY <1>1, <1>2, <2>1, <2>2, SlotsAssumption
<1> QED
  BY <1>3, <1>4, <1>5 DEF BytesAnnounceFrames, Slotted, Held, Hole

(* exchange_frame never meets an occupied slot, for any number of slots:   *)
(* its "Exchanger is full, dropping frame!" path is dead code.             *)
THEOREM NeverDroppedHolds == ExSpec => []NeverDropped
BY InvNeverDropped, ExInvHolds, PTL

(* Every byte announces a delivered frame, and deliver_frame may do        *)
(* without the mutex: the slot it works at is neither the one the master   *)
(* reads next nor the one it fills.                                        *)
THEOREM BytesAnnounceFramesHolds == ExSpec => []BytesAnnounceFrames
BY InvBytesAnnounceFrames, ExInvHolds, PTL

(* A capture thread that has reached a NULL stays there: the only slot the *)
(* master may fill is one that is not pending.                             *)
THEOREM StarvationIsPermanentHolds == ExSpec => StarvationIsPermanent
<1>1. ASSUME ExInv, ExNext, Starved
      PROVE  Starved'
  <2> USE <1>1 DEF ExInv, Starved
  <2>1. slave_cur \in Ring /\ master_read \in Ring /\ master_write \in Ring
    BY DEF ExTypeOK
  <2>2. CASE exchanger_ready \/ exchanger_read_done \/ deliver_frame_to_stream
             \/ (\E x \in Frames \cup {NULL} : supply_frame(x))
    BY <2>2 DEF exchanger_ready, exchanger_read_done, deliver_frame_to_stream,
                supply_frame, ring
  <2>3. CASE exchanger_read
    BY <2>1, <2>3 DEF exchanger_read, ExTypeOK
  <2>4. CASE get_back_frame_exchange
    <3>1. slot[master_write] = NULL /\ ~ pending[master_write]
      BY <2>1, <2>4 DEF get_back_frame_exchange, Slotted, Delivered, Hole
    <3>2. slave_cur # master_write
      BY <3>1
    <3> QED
      BY <2>1, <2>4, <3>1, <3>2 DEF get_back_frame_exchange, exchange_frame, ExTypeOK
  <2>5. CASE Slave
    BY <2>5 DEF Slave, get_next_frame, encode, encode_fails, deliver_frame,
                deliver_write, deliver_advance
  <2> QED
    BY <2>2, <2>3, <2>4, <2>5 DEF ExNext, Master
<1>2. ASSUME ExInv, [ExNext]_exchangerVars
      PROVE  [Starved => Starved']_exchangerVars
  BY <1>1, <1>2
<1> QED
  BY <1>2, ExInvHolds, PTL DEF ExSpec, StarvationIsPermanent

(***************************************************************************)
(* The media path.                                                         *)
(***************************************************************************)
(* Where the event loop has a video frame in its hands, a PCM frame, and   *)
(* an A-law frame besides.                                                 *)
VideoPlace == {"new_frame", "exchange", "to_stream", "live", "drop", "put"}
AlawPlace == {"alaw_unref", "alaw_stream", "alaw_live", "alaw_drop", "alaw_put"}
AudioPlace == {"pcm", "alaw_new", "pcm_drop", "pcm_put", "crashed"} \cup AlawPlace

(* What the threads hold where they are. *)
Where ==
    /\ mpc \in {"loop", "read"} \cup VideoPlace \cup AudioPlace
    /\ apc \in {"fill", "add", "unref", "put"}
    /\ q \in Seq(Frames) /\ Len(q) <= QueueLen
    /\ {out, alaw, aframe} \subseteq Frames \cup {NULL}
    /\ taken # NULL <=> mpc \in VideoPlace
    /\ out # NULL <=> mpc \in AudioPlace
    /\ alaw # NULL <=> mpc \in AlawPlace
    /\ fresh # NULL => mpc = "exchange"
    /\ aframe # NULL <=> apc # "fill"

(* A frame whose last reference is gone is in the hands of a thread that   *)
(* is about to put it back.                                                *)
Returning ==
    \A f \in dying : \/ mpc = "put" /\ f = taken
                     \/ mpc = "alaw_put" /\ f = alaw
                     \/ mpc = "pcm_put" /\ f = out
                     \/ apc = "put" /\ f = aframe

(* The inductive invariant. *)
Inv == HeapInv /\ ExInv /\ Where /\ Returning /\ Counted

-----------------------------------------------------------------------------
(* f is held where it was, but perhaps for the places P. *)
SameHeld(f, P) ==
    /\ \A i \in Ring : slot'[i] = f <=> slot[i] = f
    /\ q' = q
    /\ \A p \in Place \ P : HeldAt(p, f)' <=> HeldAt(p, f)

(* A function takes no more values than it has arguments. *)
LEMMA Values ==
    ASSUME NEW S, IsFiniteSet(S), NEW g, DOMAIN g = S
    PROVE  /\ IsFiniteSet({g[x] : x \in S})
           /\ Cardinality({g[x] : x \in S}) <= Cardinality(S)
<1> DEFINE T == {g[x] : x \in S}
           h == [x \in S |-> g[x]]
<1>1. h \in Surjection(S, T)
  BY DEF Surjection
<1> HIDE DEF T, h
<1>2. IsFiniteSet(T) /\ Cardinality(T) <= Cardinality(S)
  BY <1>1, FS_Surjection
<1> QED
  BY <1>2 DEF T

(* Only finitely many hold a frame. *)
LEMMA HoldersFinite ==
    ASSUME NEW f, q \in Seq(Frames)
    PROVE  IsFiniteSet(Holders(f)) /\ Cardinality(Holders(f)) \in Nat
<1> DEFINE S1 == {i \in Ring : slot[i] = f}
           S2 == {i \in 1..Len(q) : q[i] = f}
           S3 == {p \in Place : HeldAt(p, f)}
<1>1. IsFiniteSet(Ring) /\ IsFiniteSet(1..Len(q))
  BY FS_Interval, SlotsAssumption, LenProperties DEF Ring
<1>2. IsFiniteSet(Place)
  <2>1. \A S, x : IsFiniteSet(S) => IsFiniteSet(S \cup {x})
    BY FS_AddElement
  <2>2. Place = ((((((({} \cup {"fresh"}) \cup {"video"}) \cup {"live"}) \cup {"pcm"})
                 \cup {"encoder"}) \cup {"alaw"}) \cup {"alaw_live"}) \cup {"thread"}
    BY DEF Place
  <2>3. IsFiniteSet({})
    BY FS_EmptySet
  <2> HIDE <2>2
  <2> QED
    BY <2>1, <2>2, <2>3, Zenon
<1>3. IsFiniteSet(S1) /\ IsFiniteSet(S2) /\ IsFiniteSet(S3)
  BY <1>1, <1>2, FS_Subset
<1> HIDE DEF S1, S2, S3
<1>4. /\ IsFiniteSet({<<"slot", i>> : i \in S1})
      /\ IsFiniteSet({<<"queue", i>> : i \in S2})
      /\ IsFiniteSet({<<"place", p>> : p \in S3})
  <2> DEFINE Tag(t, S) == [i \in S |-> <<t, i>>]
  <2>1. ASSUME NEW t, NEW S, IsFiniteSet(S)
        PROVE  IsFiniteSet({<<t, i>> : i \in S})
    <3>1. IsFiniteSet({Tag(t, S)[i] : i \in S})
      BY <2>1, Values
    <3>2. {Tag(t, S)[i] : i \in S} = {<<t, i>> : i \in S}
      OBVIOUS
    <3> QED
      BY <3>1, <3>2
  <2> QED
    BY <1>3, <2>1
<1>5. Holders(f) = ({<<"slot", i>> : i \in S1} \cup {<<"queue", i>> : i \in S2})
                        \cup {<<"place", p>> : p \in S3}
  BY DEF Holders, S1, S2, S3
<1>6. IsFiniteSet(Holders(f))
  <2>1. \A X, Y : IsFiniteSet(X) /\ IsFiniteSet(Y) => IsFiniteSet(X \cup Y)
    BY FS_Union
  <2>2. PICK T1, T2, T3 : /\ T1 = {<<"slot", i>> : i \in S1}
                          /\ T2 = {<<"queue", i>> : i \in S2}
                          /\ T3 = {<<"place", p>> : p \in S3}
    OBVIOUS
  <2>3. IsFiniteSet(T1) /\ IsFiniteSet(T2) /\ IsFiniteSet(T3) /\ Holders(f) = (T1 \cup T2) \cup T3
    BY <1>4, <1>5, <2>2, Zenon
  <2>4. IsFiniteSet(T1 \cup T2)
    BY <2>1, <2>3, Zenon
  <2> QED
    BY <2>1, <2>3, <2>4, Zenon
<1> QED
  BY <1>6, FS_CardinalityType

(* A holder joins. *)
LEMMA Joins ==
    ASSUME NEW S, IsFiniteSet(S), NEW x, x \notin S
    PROVE  IsFiniteSet(S \cup {x}) /\ Cardinality(S \cup {x}) = Cardinality(S) + 1
BY FS_AddElement

(* A holder leaves. *)
LEMMA Leaves ==
    ASSUME NEW S, IsFiniteSet(S), NEW x \in S
    PROVE  IsFiniteSet(S \ {x}) /\ Cardinality(S \ {x}) = Cardinality(S) - 1
BY FS_RemoveElement

(* A holder changes places. *)
LEMMA Moves ==
    ASSUME NEW S, IsFiniteSet(S), NEW x \in S, NEW y, y \notin S
    PROVE  Cardinality((S \ {x}) \cup {y}) = Cardinality(S)
<1>1. IsFiniteSet(S \ {x}) /\ Cardinality(S \ {x}) = Cardinality(S) - 1
  BY Leaves
<1>2. Cardinality((S \ {x}) \cup {y}) = Cardinality(S \ {x}) + 1
  BY <1>1, Joins
<1> QED
  BY <1>1, <1>2, FS_CardinalityType

(* Held in the same places, a frame has the same holders ... *)
LEMMA SameHolders ==
    ASSUME NEW f, SameHeld(f, {})
    PROVE  Holders(f)' = Holders(f)
BY DEF SameHeld, Holders

(* ... one more ... *)
LEMMA OneMore ==
    ASSUME NEW f, q \in Seq(Frames), NEW p \in Place, SameHeld(f, {p}),
           ~ HeldAt(p, f), HeldAt(p, f)'
    PROVE  Cardinality(Holders(f))' = Cardinality(Holders(f)) + 1
<1>1. Holders(f)' = Holders(f) \cup {<<"place", p>>}
  BY DEF SameHeld, Holders
<1>2. <<"place", p>> \notin Holders(f)
  BY DEF Holders
<1> QED
  BY <1>1, <1>2, HoldersFinite, Joins

(* ... or one less. *)
LEMMA OneLess ==
    ASSUME NEW f, q \in Seq(Frames), NEW p \in Place, SameHeld(f, {p}),
           HeldAt(p, f), ~ HeldAt(p, f)'
    PROVE  Cardinality(Holders(f))' = Cardinality(Holders(f)) - 1
<1>1. Holders(f)' = Holders(f) \ {<<"place", p>>}
  BY DEF SameHeld, Holders
<1>2. <<"place", p>> \in Holders(f)
  BY DEF Holders
<1> QED
  BY <1>1, <1>2, HoldersFinite, Leaves

(* Who is held is referenced, by two if it is held twice. *)
LEMMA HeldReferenced ==
    ASSUME NEW f, q \in Seq(Frames), NEW p \in Place, HeldAt(p, f)
    PROVE  /\ Cardinality(Holders(f)) >= 1
           /\ (\E r \in Place \ {p} : HeldAt(r, f)) => Cardinality(Holders(f)) >= 2
<1> DEFINE S == Holders(f)
<1>1. <<"place", p>> \in S /\ IsFiniteSet(S) /\ Cardinality(S) \in Nat
  BY HoldersFinite DEF Holders
<1>2. IsFiniteSet(S \ {<<"place", p>>}) /\ Cardinality(S \ {<<"place", p>>}) = Cardinality(S) - 1
  BY <1>1, Leaves
<1>3. Cardinality(S \ {<<"place", p>>}) \in Nat
  BY <1>2, FS_CardinalityType
<1>4. ASSUME NEW r \in Place \ {p}, HeldAt(r, f)
      PROVE  Cardinality(S) >= 2
  <2> DEFINE T == S \ {<<"place", p>>}
  <2>1. <<"place", r>> \in T
    BY <1>4 DEF Holders
  <2>2. IsFiniteSet(T \ {<<"place", r>>}) /\ Cardinality(T \ {<<"place", r>>}) = Cardinality(T) - 1
    BY <1>2, <2>1, Leaves
  <2>3. Cardinality(T \ {<<"place", r>>}) \in Nat
    BY <2>2, FS_CardinalityType
  <2> QED
    BY <1>1, <1>2, <2>2, <2>3
<1> QED
  BY <1>1, <1>2, <1>3, <1>4

-----------------------------------------------------------------------------
(* What the heap's operations do to the counts.  new_frame finds a frame   *)
(* without references in the heap and gives the first one.                 *)
LEMMA NewCounts ==
    ASSUME Inv, NEW f \in Frames, new_frame(f), NEW p \in Place,
           SameHeld(f, {p}), ~ HeldAt(p, f), HeldAt(p, f)',
           \A g \in Frames \ {f} : SameHeld(g, {})
    PROVE  HeapInv' /\ Counted'
<1>1. HeapInv'
  BY NewFrameHeapInv DEF Inv
<1>2. ref_count[f] = 0 /\ ref_count \in [Frames -> Nat]
  BY FramesAssumption DEF Inv, HeapInv, HeapTypeOK, FramePlaces, InHeap, new_frame
<1>3. Cardinality(Holders(f)) = 0
  BY <1>2 DEF Inv, Counted
<1>4. Cardinality(Holders(f))' = 1
  BY <1>3, OneMore DEF Inv, Where
<1>5. ASSUME NEW g \in Frames PROVE ref_count'[g] = Cardinality(Holders(g))'
  <2>1. CASE g = f
    BY <2>1, <1>2, <1>4 DEF new_frame
  <2>2. CASE g # f
    <3>1. ref_count'[g] = ref_count[g]
      BY <2>2, <1>2 DEF new_frame
    <3>2. Holders(g)' = Holders(g)
      BY <2>2, SameHolders
    <3> QED
      BY <3>1, <3>2 DEF Inv, Counted
  <2> QED
    BY <2>1, <2>2
<1> QED
  BY <1>1, <1>5 DEF Counted

(* ref_frame is called by one who holds the frame, for another. *)
LEMMA RefCounts ==
    ASSUME Inv, NEW f \in Frames, ref_frame(f), NEW p \in Place, NEW r \in Place,
           HeldAt(r, f), SameHeld(f, {p}), ~ HeldAt(p, f), HeldAt(p, f)',
           \A g \in Frames \ {f} : SameHeld(g, {})
    PROVE  HeapInv' /\ Counted' /\ dying' = dying
<1>1. ref_count \in [Frames -> Nat] /\ q \in Seq(Frames)
  BY DEF Inv, HeapInv, HeapTypeOK, Where
<1>2. ref_count[f] = Cardinality(Holders(f)) /\ ref_count[f] > 0
  BY <1>1, HeldReferenced DEF Inv, Counted
<1>3. HeapInv'
  BY <1>2, RefHeapInv DEF Inv
<1>4. Cardinality(Holders(f))' = Cardinality(Holders(f)) + 1
  BY <1>1, OneMore
<1>5. ASSUME NEW g \in Frames PROVE ref_count'[g] = Cardinality(Holders(g))'
  <2>1. CASE g = f
    BY <2>1, <1>1, <1>2, <1>4 DEF ref_frame
  <2>2. CASE g # f
    <3>1. ref_count'[g] = ref_count[g]
      BY <2>2, <1>1 DEF ref_frame
    <3>2. Holders(g)' = Holders(g)
      BY <2>2, SameHolders
    <3> QED
      BY <3>1, <3>2 DEF Inv, Counted
  <2> QED
    BY <2>1, <2>2
<1> QED
  BY <1>3, <1>5 DEF Counted, ref_frame

(* unref_frame gives up a reference; the frame dies unless another one     *)
(* holds it.                                                               *)
LEMMA UnrefCounts ==
    ASSUME Inv, NEW f \in Frames, unref_frame(f), NEW p \in Place,
           HeldAt(p, f), SameHeld(f, {p}), ~ HeldAt(p, f)',
           \A g \in Frames \ {f} : SameHeld(g, {})
    PROVE  /\ HeapInv' /\ Counted'
           /\ dying' \subseteq dying \cup {f}
           /\ (\E r \in Place \ {p} : HeldAt(r, f)) => dying' = dying
<1>1. ref_count \in [Frames -> Nat] /\ q \in Seq(Frames)
  BY DEF Inv, HeapInv, HeapTypeOK, Where
<1>2. ref_count[f] = Cardinality(Holders(f)) /\ ref_count[f] > 0
  BY <1>1, HeldReferenced DEF Inv, Counted
<1>3. HeapInv'
  BY <1>2, RefHeapInv DEF Inv
<1>4. Cardinality(Holders(f))' = Cardinality(Holders(f)) - 1
  BY <1>1, OneLess
<1>5. ASSUME NEW g \in Frames PROVE ref_count'[g] = Cardinality(Holders(g))'
  <2>1. CASE g = f
    BY <2>1, <1>1, <1>2, <1>4 DEF unref_frame
  <2>2. CASE g # f
    <3>1. ref_count'[g] = ref_count[g]
      BY <2>2, <1>1 DEF unref_frame
    <3>2. Holders(g)' = Holders(g)
      BY <2>2, SameHolders
    <3> QED
      BY <3>1, <3>2 DEF Inv, Counted
  <2> QED
    BY <2>1, <2>2
<1>6. (\E r \in Place \ {p} : HeldAt(r, f)) => ref_count[f] >= 2
  BY <1>1, <1>2, HeldReferenced
<1> QED
  BY <1>3, <1>5, <1>6 DEF Counted, unref_frame

(* Nobody holds a frame that is put back, so nobody's holding changes. *)
LEMMA PutCounts ==
    ASSUME Inv, NEW f \in Frames, put_frame(f), \A g \in Frames : SameHeld(g, {})
    PROVE  HeapInv' /\ Counted' /\ dying' = dying \ {f}
<1>1. HeapInv'
  BY PutFrameHeapInv DEF Inv
<1>2. \A g \in Frames : Holders(g)' = Holders(g)
  BY SameHolders
<1> QED
  BY <1>1, <1>2 DEF Inv, Counted, put_frame

(* A step that leaves the heap alone and every frame where it is held. *)
LEMMA SameCounts ==
    ASSUME Inv, UNCHANGED heapVars, \A g \in Frames : SameHeld(g, {})
    PROVE  HeapInv' /\ Counted'
<1>1. HeapInv'
  BY NextHeapInv DEF Inv
<1>2. \A g \in Frames : Holders(g)' = Holders(g)
  BY SameHolders
<1> QED
  BY <1>1, <1>2 DEF Inv, Counted, heapVars

-----------------------------------------------------------------------------
(* The video capture thread works inside the exchanger and moves no frame. *)
LEMMA VideoCaptureInv == ASSUME Inv, VideoCapture PROVE Inv'
<1>1. ExInv'
  BY SlaveInv DEF VideoCapture, Inv
<1>2. /\ UNCHANGED <<slot, mpc, taken, fresh, dropped>>
      /\ UNCHANGED <<heapVars, q, out, alaw, apc, aframe>>
  BY DEF VideoCapture, Slave, get_next_frame, encode, encode_fails, deliver_frame,
         deliver_write, deliver_advance, ring, master, audioThread
<1>3. \A g \in Frames : SameHeld(g, {})
  BY <1>2 DEF SameHeld, HeldAt
<1>4. HeapInv' /\ Counted'
  BY <1>2, <1>3, SameCounts
<1>5. Where' /\ Returning'
  BY <1>2 DEF Inv, Where, Returning, heapVars
<1> QED
  BY <1>1, <1>4, <1>5 DEF Inv

(* Between event loop and exchanger_read nothing is held. *)
LEMMA LoopInv ==
    ASSUME Inv, ExchangerStep, exchanger_ready \/ exchanger_read_done
    PROVE  Inv'
<1>1. /\ UNCHANGED <<ring, spc, taken, fresh, dropped>>
      /\ UNCHANGED <<heapVars, q, out, alaw, apc, aframe>>
      /\ {mpc, mpc'} \subseteq {"loop", "read"}
  BY DEF ExchangerStep, exchanger_ready, exchanger_read_done, audioThread
<1>2. ExInv'
  BY <1>1, MasterElsewhere DEF Inv, ExInv, ExTypeOK, Hole
<1>3. \A g \in Frames : SameHeld(g, {})
  BY <1>1 DEF SameHeld, HeldAt, ring
<1>4. HeapInv' /\ Counted'
  BY <1>1, <1>3, SameCounts
<1>5. Where' /\ Returning'
  BY <1>1 DEF Inv, Where, Returning, heapVars, VideoPlace, AudioPlace, AlawPlace
<1> QED
  BY <1>2, <1>4, <1>5 DEF Inv

(* exchanger_read: the reference of the slot becomes get_back_frame's. *)
LEMMA ExchangerReadInv ==
    ASSUME Inv, ExchangerStep, exchanger_read
    PROVE  Inv'
<1>1. /\ UNCHANGED <<heapVars, q, out, alaw, apc, aframe, fresh>>
      /\ mpc = "read" /\ mpc' = "new_frame"
      /\ taken' = slot[master_read] /\ slot' = [slot EXCEPT ![master_read] = NULL]
  BY DEF ExchangerStep, exchanger_read, audioThread
<1>2. ExInv'
  BY ReadInv DEF Inv
<1>3. /\ slot \in [Ring -> Frames \cup {NULL}] /\ master_read \in Ring
      /\ slot[master_read] # NULL
      /\ q \in Seq(Frames)
  BY InvBytesAnnounceFrames DEF Inv, ExInv, ExTypeOK, BytesAnnounceFrames, exchanger_read, Where
<1>4. taken = NULL /\ out = NULL /\ alaw = NULL /\ fresh = NULL
  BY <1>1 DEF Inv, Where, VideoPlace, AudioPlace, AlawPlace
<1>5. Where' /\ Returning'
  BY <1>1, <1>3, <1>4 DEF Inv, Where, Returning, heapVars, VideoPlace, AudioPlace, AlawPlace
<1>6. ASSUME NEW g \in Frames PROVE Cardinality(Holders(g))' = Cardinality(Holders(g))
  <2>0. \A p \in Place \ {"video"} : HeldAt(p, g)' <=> HeldAt(p, g)
    BY <1>1, <1>4, FramesAssumption DEF HeldAt
  <2>1. CASE g = slot[master_read]
    <3> DEFINE x == <<"slot", master_read>>
               y == <<"place", "video">>
    <3>1. x \in Holders(g)
      BY <2>1, <1>3 DEF Holders
    <3>2. ~ HeldAt("video", g)
      BY <1>4, FramesAssumption DEF HeldAt
    <3>3. y \notin Holders(g)
      BY <3>2 DEF Holders
    <3>4. HeldAt("video", g)' /\ "video" \in Place
      BY <1>1, <2>1 DEF HeldAt, Place
    <3>5. \A i \in Ring : slot'[i] = g <=> slot[i] = g /\ i # master_read
      BY <1>1, <1>3, FramesAssumption
    <3>6. Holders(g)' = (Holders(g) \ {x}) \cup {y}
      BY <2>0, <3>2, <3>4, <3>5, <1>1 DEF Holders
    <3> HIDE DEF x, y
    <3> QED
      BY <3>1, <3>3, <3>6, <1>3, HoldersFinite, Moves
  <2>2. CASE g # slot[master_read]
    <3>1. \A i \in Ring : slot'[i] = g <=> slot[i] = g
      BY <2>2, <1>1, <1>3, FramesAssumption
    <3>2. HeldAt("video", g)' <=> HeldAt("video", g)
      BY <2>2, <1>1, <1>4, FramesAssumption DEF HeldAt
    <3>3. SameHeld(g, {})
      BY <1>1, <2>0, <3>1, <3>2 DEF SameHeld
    <3> QED
      BY <3>3, SameHolders
  <2> QED
    BY <2>1, <2>2
<1>7. Counted'
  BY <1>1, <1>6 DEF Inv, Counted, heapVars
<1>8. HeapInv'
  BY <1>1, NextHeapInv DEF Inv
<1> QED
  BY <1>2, <1>5, <1>7, <1>8 DEF Inv

(* exchange_frame: the reference of the new frame becomes the slot's. *)
LEMMA ExchangeFrameInv ==
    ASSUME Inv, ExchangerStep, get_back_frame_exchange
    PROVE  Inv'
<1>1. /\ UNCHANGED <<heapVars, q, out, alaw, apc, aframe, taken>>
      /\ mpc = "exchange" /\ mpc' = "to_stream" /\ fresh' = NULL
  BY DEF ExchangerStep, get_back_frame_exchange, audioThread
<1>2. ExInv'
  BY ExchangeInv DEF Inv
<1>3. /\ slot \in [Ring -> Frames \cup {NULL}] /\ master_write \in Ring
      /\ slot[master_write] = NULL
      /\ q \in Seq(Frames)
  BY <1>1, InvNeverDropped DEF Inv, ExInv, ExTypeOK, NeverDropped, Where
<1>4. slot' = [slot EXCEPT ![master_write] = fresh]
  BY <1>3 DEF get_back_frame_exchange, exchange_frame
<1>5. Where' /\ Returning'
  BY <1>1 DEF Inv, Where, Returning, heapVars, VideoPlace, AudioPlace, AlawPlace
<1>6. ASSUME NEW g \in Frames PROVE Cardinality(Holders(g))' = Cardinality(Holders(g))
  <2>0. \A p \in Place \ {"fresh"} : HeldAt(p, g)' <=> HeldAt(p, g)
    BY <1>1 DEF HeldAt
  <2>1. CASE g = fresh
    <3> DEFINE x == <<"place", "fresh">>
               y == <<"slot", master_write>>
    <3>1. HeldAt("fresh", g) /\ "fresh" \in Place
      BY <2>1 DEF HeldAt, Place
    <3>2. x \in Holders(g)
      BY <3>1 DEF Holders
    <3>3. y \notin Holders(g)
      BY <1>3, FramesAssumption DEF Holders
    <3>4. ~ HeldAt("fresh", g)'
      BY <1>1, FramesAssumption DEF HeldAt
    <3>5. \A i \in Ring : slot'[i] = g <=> slot[i] = g \/ i = master_write
      BY <1>3, <1>4, <2>1
    <3>6. Holders(g)' = (Holders(g) \ {x}) \cup {y}
      BY <2>0, <3>4, <3>5, <1>1, <1>3 DEF Holders
    <3> HIDE DEF x, y
    <3> QED
      BY <3>2, <3>3, <3>6, <1>3, HoldersFinite, Moves
  <2>2. CASE g # fresh
    <3>1. \A i \in Ring : slot'[i] = g <=> slot[i] = g
      BY <2>2, <1>3, <1>4, FramesAssumption
    <3>2. HeldAt("fresh", g)' <=> HeldAt("fresh", g)
      BY <2>2, <1>1, FramesAssumption DEF HeldAt
    <3>3. SameHeld(g, {})
      BY <1>1, <2>0, <3>1, <3>2 DEF SameHeld
    <3> QED
      BY <3>3, SameHolders
  <2> QED
    BY <2>1, <2>2
<1>7. Counted'
  BY <1>1, <1>6 DEF Inv, Counted, heapVars
<1>8. HeapInv'
  BY <1>1, NextHeapInv DEF Inv
<1> QED
  BY <1>2, <1>5, <1>7, <1>8 DEF Inv

-----------------------------------------------------------------------------
(* The event loop at work outside the exchanger. *)
LEMMA MainElsewhere ==
    ASSUME Inv, MainUnchanged, ~ Hole, ~ Hole', taken' \in {taken, NULL},
           mpc' = "to_stream" => taken' # NULL
    PROVE  ExInv'
BY MasterElsewhere DEF MainUnchanged, exVars, Hole, Inv, ExInv, ExTypeOK

(* A stream gives its destination a reference of its own. *)
LEMMA StreamDeliverInv ==
    ASSUME Inv, \/ Deliver(taken, "to_stream", "live")
                \/ Deliver(out, "pcm", "alaw_new")
                \/ Deliver(alaw, "alaw_stream", "alaw_live")
    PROVE  Inv'
<1>1. CASE Deliver(taken, "to_stream", "live")
  <2>1. taken \in Frames
    BY <1>1 DEF Deliver, Inv, ExInv, ExTypeOK, Where, VideoPlace, AudioPlace, AlawPlace
  <2>2. PICK f \in Frames : f = taken
    BY <2>1
  <2>3. /\ UNCHANGED <<slot, fresh, taken, out, alaw, apc, aframe, q>>
        /\ mpc = "to_stream" /\ mpc' = "live" /\ ref_frame(f)
    BY <1>1, <2>2 DEF Deliver, MainUnchanged, exVars, ring, audioThread
  <2>4. /\ SameHeld(f, {"live"}) /\ ~ HeldAt("live", f) /\ HeldAt("live", f)'
        /\ HeldAt("video", f) /\ "live" \in Place /\ "video" \in Place
    BY <2>2, <2>3 DEF SameHeld, HeldAt, Place
  <2>5. \A g \in Frames \ {f} : SameHeld(g, {})
    BY <2>2, <2>3 DEF SameHeld, HeldAt
  <2>6. HeapInv' /\ Counted' /\ dying' = dying
    BY <2>3, <2>4, <2>5, RefCounts
  <2>7. ExInv'
    BY <1>1, <2>3, MainElsewhere DEF Deliver, Hole, Inv, Where, ExInv, ExTypeOK, VideoPlace
  <2>8. Where' /\ Returning'
    BY <2>3, <2>6 DEF Inv, Where, Returning, VideoPlace, AudioPlace, AlawPlace
  <2> QED
    BY <2>6, <2>7, <2>8 DEF Inv
<1>2. CASE Deliver(out, "pcm", "alaw_new")
  <2>1. out \in Frames
    BY <1>2 DEF Deliver, Inv, ExInv, ExTypeOK, Where, VideoPlace, AudioPlace, AlawPlace
  <2>2. PICK f \in Frames : f = out
    BY <2>1
  <2>3. /\ UNCHANGED <<slot, fresh, taken, out, alaw, apc, aframe, q>>
        /\ mpc = "pcm" /\ mpc' = "alaw_new" /\ ref_frame(f)
    BY <1>2, <2>2 DEF Deliver, MainUnchanged, exVars, ring, audioThread
  <2>4. /\ SameHeld(f, {"encoder"}) /\ ~ HeldAt("encoder", f) /\ HeldAt("encoder", f)'
        /\ HeldAt("pcm", f) /\ "encoder" \in Place /\ "pcm" \in Place
    BY <2>2, <2>3 DEF SameHeld, HeldAt, Place
  <2>5. \A g \in Frames \ {f} : SameHeld(g, {})
    BY <2>2, <2>3 DEF SameHeld, HeldAt
  <2>6. HeapInv' /\ Counted' /\ dying' = dying
    BY <2>3, <2>4, <2>5, RefCounts
  <2>7. ExInv'
    BY <1>2, <2>3, MainElsewhere DEF Deliver, Hole, Inv, Where, ExInv, ExTypeOK, VideoPlace
  <2>8. Where' /\ Returning'
    BY <2>3, <2>6 DEF Inv, Where, Returning, VideoPlace, AudioPlace, AlawPlace
  <2> QED
    BY <2>6, <2>7, <2>8 DEF Inv
<1>3. CASE Deliver(alaw, "alaw_stream", "alaw_live")
  <2>1. alaw \in Frames
    BY <1>3 DEF Deliver, Inv, ExInv, ExTypeOK, Where, VideoPlace, AudioPlace, AlawPlace
  <2>2. PICK f \in Frames : f = alaw
    BY <2>1
  <2>3. /\ UNCHANGED <<slot, fresh, taken, out, alaw, apc, aframe, q>>
        /\ mpc = "alaw_stream" /\ mpc' = "alaw_live" /\ ref_frame(f)
    BY <1>3, <2>2 DEF Deliver, MainUnchanged, exVars, ring, audioThread
  <2>4. /\ SameHeld(f, {"alaw_live"}) /\ ~ HeldAt("alaw_live", f) /\ HeldAt("alaw_live", f)'
        /\ HeldAt("alaw", f) /\ "alaw_live" \in Place /\ "alaw" \in Place
    BY <2>2, <2>3 DEF SameHeld, HeldAt, Place
  <2>5. \A g \in Frames \ {f} : SameHeld(g, {})
    BY <2>2, <2>3 DEF SameHeld, HeldAt
  <2>6. HeapInv' /\ Counted' /\ dying' = dying
    BY <2>3, <2>4, <2>5, RefCounts
  <2>7. ExInv'
    BY <1>3, <2>3, MainElsewhere DEF Deliver, Hole, Inv, Where, ExInv, ExTypeOK, VideoPlace
  <2>8. Where' /\ Returning'
    BY <2>3, <2>6 DEF Inv, Where, Returning, VideoPlace, AudioPlace, AlawPlace
  <2> QED
    BY <2>6, <2>7, <2>8 DEF Inv
<1> QED
  BY <1>1, <1>2, <1>3

(* A stream whose destination is not waiting. *)
LEMMA PassOverInv ==
    ASSUME Inv, \/ PassOver("to_stream", "drop")
                \/ PassOver("pcm", "pcm_drop")
                \/ PassOver("alaw_stream", "alaw_drop")
    PROVE  Inv'
<1>1. /\ UNCHANGED <<slot, fresh, taken, out, alaw, apc, aframe, q, heapVars>>
      /\ MainUnchanged
      /\ \/ mpc = "to_stream" /\ mpc' = "drop"
         \/ mpc = "pcm" /\ mpc' = "pcm_drop"
         \/ mpc = "alaw_stream" /\ mpc' = "alaw_drop"
  BY DEF PassOver, MainUnchanged, exVars, ring, audioThread
<1>2. \A g \in Frames : SameHeld(g, {})
  BY <1>1 DEF SameHeld, HeldAt
<1>3. HeapInv' /\ Counted'
  BY <1>1, <1>2, SameCounts
<1>4. ExInv'
  BY <1>1, MainElsewhere DEF Hole
<1>5. Where' /\ Returning'
  BY <1>1 DEF Inv, Where, Returning, heapVars, VideoPlace, AudioPlace, AlawPlace
<1> QED
  BY <1>3, <1>4, <1>5 DEF Inv

(* A destination, and at last the stream, gives its reference up. *)
LEMMA StreamUnrefInv ==
    ASSUME Inv, \/ Unref(taken, "live", "drop")
                \/ Unref(taken, "drop", "put")
                \/ Unref(out, "alaw_unref", "alaw_stream")
                \/ Unref(alaw, "alaw_live", "alaw_drop")
                \/ Unref(alaw, "alaw_drop", "alaw_put")
                \/ Unref(out, "pcm_drop", "pcm_put")
    PROVE  Inv'
<1>1. CASE Unref(taken, "live", "drop")
  <2>1. taken \in Frames
    BY <1>1 DEF Unref, Inv, ExInv, ExTypeOK, Where, VideoPlace, AudioPlace, AlawPlace
  <2>2. PICK f \in Frames : f = taken
    BY <2>1
  <2>3. /\ UNCHANGED <<slot, fresh, taken, out, alaw, apc, aframe, q>>
        /\ mpc = "live" /\ mpc' = "drop" /\ unref_frame(f)
    BY <1>1, <2>2 DEF Unref, MainUnchanged, exVars, ring, audioThread
  <2>4. /\ SameHeld(f, {"live"}) /\ HeldAt("live", f) /\ ~ HeldAt("live", f)'
        /\ "live" \in Place
        /\ HeldAt("video", f) /\ "video" \in Place \ {"live"}
    BY <2>2, <2>3 DEF SameHeld, HeldAt, Place
  <2>5. \A g \in Frames \ {f} : SameHeld(g, {})
    BY <2>2, <2>3 DEF SameHeld, HeldAt
  <2>6. HeapInv' /\ Counted' /\ dying' = dying
    BY <2>3, <2>4, <2>5, UnrefCounts
  <2>7. ExInv'
    BY <1>1, <2>3, MainElsewhere DEF Unref, Hole, Inv, Where, ExInv, ExTypeOK, VideoPlace
  <2>8. Where' /\ Returning'
    BY <2>2, <2>3, <2>6 DEF Inv, Where, Returning, VideoPlace, AudioPlace, AlawPlace
  <2> QED
    BY <2>6, <2>7, <2>8 DEF Inv
<1>2. CASE Unref(taken, "drop", "put")
  <2>1. taken \in Frames
    BY <1>2 DEF Unref, Inv, ExInv, ExTypeOK, Where, VideoPlace, AudioPlace, AlawPlace
  <2>2. PICK f \in Frames : f = taken
    BY <2>1
  <2>3. /\ UNCHANGED <<slot, fresh, taken, out, alaw, apc, aframe, q>>
        /\ mpc = "drop" /\ mpc' = "put" /\ unref_frame(f)
    BY <1>2, <2>2 DEF Unref, MainUnchanged, exVars, ring, audioThread
  <2>4. /\ SameHeld(f, {"video"}) /\ HeldAt("video", f) /\ ~ HeldAt("video", f)'
        /\ "video" \in Place
    BY <2>2, <2>3 DEF SameHeld, HeldAt, Place
  <2>5. \A g \in Frames \ {f} : SameHeld(g, {})
    BY <2>2, <2>3 DEF SameHeld, HeldAt
  <2>6. HeapInv' /\ Counted' /\ dying' \subseteq dying \cup {f}
    BY <2>3, <2>4, <2>5, UnrefCounts
  <2>7. ExInv'
    BY <1>2, <2>3, MainElsewhere DEF Unref, Hole, Inv, Where, ExInv, ExTypeOK, VideoPlace
  <2>8. Where' /\ Returning'
    BY <2>2, <2>3, <2>6 DEF Inv, Where, Returning, VideoPlace, AudioPlace, AlawPlace
  <2> QED
    BY <2>6, <2>7, <2>8 DEF Inv
<1>3. CASE Unref(out, "alaw_unref", "alaw_stream")
  <2>1. out \in Frames
    BY <1>3 DEF Unref, Inv, ExInv, ExTypeOK, Where, VideoPlace, AudioPlace, AlawPlace
  <2>2. PICK f \in Frames : f = out
    BY <2>1
  <2>3. /\ UNCHANGED <<slot, fresh, taken, out, alaw, apc, aframe, q>>
        /\ mpc = "alaw_unref" /\ mpc' = "alaw_stream" /\ unref_frame(f)
    BY <1>3, <2>2 DEF Unref, MainUnchanged, exVars, ring, audioThread
  <2>4. /\ SameHeld(f, {"encoder"}) /\ HeldAt("encoder", f) /\ ~ HeldAt("encoder", f)'
        /\ "encoder" \in Place
        /\ HeldAt("pcm", f) /\ "pcm" \in Place \ {"encoder"}
    BY <2>2, <2>3 DEF SameHeld, HeldAt, Place
  <2>5. \A g \in Frames \ {f} : SameHeld(g, {})
    BY <2>2, <2>3 DEF SameHeld, HeldAt
  <2>6. HeapInv' /\ Counted' /\ dying' = dying
    BY <2>3, <2>4, <2>5, UnrefCounts
  <2>7. ExInv'
    BY <1>3, <2>3, MainElsewhere DEF Unref, Hole, Inv, Where, ExInv, ExTypeOK, VideoPlace
  <2>8. Where' /\ Returning'
    BY <2>2, <2>3, <2>6 DEF Inv, Where, Returning, VideoPlace, AudioPlace, AlawPlace
  <2> QED
    BY <2>6, <2>7, <2>8 DEF Inv
<1>4. CASE Unref(alaw, "alaw_live", "alaw_drop")
  <2>1. alaw \in Frames
    BY <1>4 DEF Unref, Inv, ExInv, ExTypeOK, Where, VideoPlace, AudioPlace, AlawPlace
  <2>2. PICK f \in Frames : f = alaw
    BY <2>1
  <2>3. /\ UNCHANGED <<slot, fresh, taken, out, alaw, apc, aframe, q>>
        /\ mpc = "alaw_live" /\ mpc' = "alaw_drop" /\ unref_frame(f)
    BY <1>4, <2>2 DEF Unref, MainUnchanged, exVars, ring, audioThread
  <2>4. /\ SameHeld(f, {"alaw_live"}) /\ HeldAt("alaw_live", f) /\ ~ HeldAt("alaw_live", f)'
        /\ "alaw_live" \in Place
        /\ HeldAt("alaw", f) /\ "alaw" \in Place \ {"alaw_live"}
    BY <2>2, <2>3 DEF SameHeld, HeldAt, Place
  <2>5. \A g \in Frames \ {f} : SameHeld(g, {})
    BY <2>2, <2>3 DEF SameHeld, HeldAt
  <2>6. HeapInv' /\ Counted' /\ dying' = dying
    BY <2>3, <2>4, <2>5, UnrefCounts
  <2>7. ExInv'
    BY <1>4, <2>3, MainElsewhere DEF Unref, Hole, Inv, Where, ExInv, ExTypeOK, VideoPlace
  <2>8. Where' /\ Returning'
    BY <2>2, <2>3, <2>6 DEF Inv, Where, Returning, VideoPlace, AudioPlace, AlawPlace
  <2> QED
    BY <2>6, <2>7, <2>8 DEF Inv
<1>5. CASE Unref(alaw, "alaw_drop", "alaw_put")
  <2>1. alaw \in Frames
    BY <1>5 DEF Unref, Inv, ExInv, ExTypeOK, Where, VideoPlace, AudioPlace, AlawPlace
  <2>2. PICK f \in Frames : f = alaw
    BY <2>1
  <2>3. /\ UNCHANGED <<slot, fresh, taken, out, alaw, apc, aframe, q>>
        /\ mpc = "alaw_drop" /\ mpc' = "alaw_put" /\ unref_frame(f)
    BY <1>5, <2>2 DEF Unref, MainUnchanged, exVars, ring, audioThread
  <2>4. /\ SameHeld(f, {"alaw"}) /\ HeldAt("alaw", f) /\ ~ HeldAt("alaw", f)'
        /\ "alaw" \in Place
    BY <2>2, <2>3 DEF SameHeld, HeldAt, Place
  <2>5. \A g \in Frames \ {f} : SameHeld(g, {})
    BY <2>2, <2>3 DEF SameHeld, HeldAt
  <2>6. HeapInv' /\ Counted' /\ dying' \subseteq dying \cup {f}
    BY <2>3, <2>4, <2>5, UnrefCounts
  <2>7. ExInv'
    BY <1>5, <2>3, MainElsewhere DEF Unref, Hole, Inv, Where, ExInv, ExTypeOK, VideoPlace
  <2>8. Where' /\ Returning'
    BY <2>2, <2>3, <2>6 DEF Inv, Where, Returning, VideoPlace, AudioPlace, AlawPlace
  <2> QED
    BY <2>6, <2>7, <2>8 DEF Inv
<1>6. CASE Unref(out, "pcm_drop", "pcm_put")
  <2>1. out \in Frames
    BY <1>6 DEF Unref, Inv, ExInv, ExTypeOK, Where, VideoPlace, AudioPlace, AlawPlace
  <2>2. PICK f \in Frames : f = out
    BY <2>1
  <2>3. /\ UNCHANGED <<slot, fresh, taken, out, alaw, apc, aframe, q>>
        /\ mpc = "pcm_drop" /\ mpc' = "pcm_put" /\ unref_frame(f)
    BY <1>6, <2>2 DEF Unref, MainUnchanged, exVars, ring, audioThread
  <2>4. /\ SameHeld(f, {"pcm"}) /\ HeldAt("pcm", f) /\ ~ HeldAt("pcm", f)'
        /\ "pcm" \in Place
    BY <2>2, <2>3 DEF SameHeld, HeldAt, Place
  <2>5. \A g \in Frames \ {f} : SameHeld(g, {})
    BY <2>2, <2>3 DEF SameHeld, HeldAt
  <2>6. HeapInv' /\ Counted' /\ dying' \subseteq dying \cup {f}
    BY <2>3, <2>4, <2>5, UnrefCounts
  <2>7. ExInv'
    BY <1>6, <2>3, MainElsewhere DEF Unref, Hole, Inv, Where, ExInv, ExTypeOK, VideoPlace
  <2>8. Where' /\ Returning'
    BY <2>2, <2>3, <2>6 DEF Inv, Where, Returning, VideoPlace, AudioPlace, AlawPlace
  <2> QED
    BY <2>6, <2>7, <2>8 DEF Inv
<1> QED
  BY <1>1, <1>2, <1>3, <1>4, <1>5, <1>6

(* The video frame goes back to the heap. *)
LEMMA VideoPutInv == ASSUME Inv, VideoPut PROVE Inv'
<1>1. taken \in Frames
  BY DEF VideoPut, Inv, ExInv, ExTypeOK, Where, VideoPlace, AudioPlace, AlawPlace
<1>2. PICK f \in Frames : f = taken
  BY <1>1
<1>3. /\ UNCHANGED <<slot, fresh, out, alaw, apc, aframe, q>>
      /\ mpc = "put" /\ mpc' = "read" /\ put_frame(f) /\ taken' = NULL
      /\ MainUnchanged
  BY <1>2 DEF VideoPut, MainUnchanged, exVars, ring, audioThread
<1>4. \A g \in Frames : SameHeld(g, {})
  BY <1>3, FramesAssumption DEF SameHeld, HeldAt, Inv, Where, VideoPlace, AudioPlace, AlawPlace
<1>5. HeapInv' /\ Counted' /\ dying' = dying \ {f}
  BY <1>3, <1>4, PutCounts
<1>6. ExInv'
  BY <1>3, MainElsewhere DEF Hole
<1>7. Where' /\ Returning'
  BY <1>2, <1>3, <1>5 DEF Inv, Where, Returning, VideoPlace, AudioPlace, AlawPlace
<1> QED
  BY <1>5, <1>6, <1>7 DEF Inv

(* The A-law frame goes back to the heap. *)
LEMMA AlawPutInv == ASSUME Inv, AlawPut PROVE Inv'
<1>1. alaw \in Frames
  BY DEF AlawPut, Inv, ExInv, ExTypeOK, Where, VideoPlace, AudioPlace, AlawPlace
<1>2. PICK f \in Frames : f = alaw
  BY <1>1
<1>3. /\ UNCHANGED <<slot, fresh, taken, out, apc, aframe, q>>
      /\ mpc = "alaw_put" /\ mpc' = "pcm_drop" /\ put_frame(f) /\ alaw' = NULL
      /\ MainUnchanged
  BY <1>2 DEF AlawPut, MainUnchanged, exVars, ring, audioThread
<1>4. \A g \in Frames : SameHeld(g, {})
  BY <1>3, FramesAssumption DEF SameHeld, HeldAt, Inv, Where, VideoPlace, AudioPlace, AlawPlace
<1>5. HeapInv' /\ Counted' /\ dying' = dying \ {f}
  BY <1>3, <1>4, PutCounts
<1>6. ExInv'
  BY <1>3, MainElsewhere DEF Hole
<1>7. Where' /\ Returning'
  BY <1>2, <1>3, <1>5 DEF Inv, Where, Returning, VideoPlace, AudioPlace, AlawPlace
<1> QED
  BY <1>5, <1>6, <1>7 DEF Inv

(* The PCM frame goes back to the heap. *)
LEMMA AudioPutInv == ASSUME Inv, AudioPut PROVE Inv'
<1>1. out \in Frames
  BY DEF AudioPut, Inv, ExInv, ExTypeOK, Where, VideoPlace, AudioPlace, AlawPlace
<1>2. PICK f \in Frames : f = out
  BY <1>1
<1>3. /\ UNCHANGED <<slot, fresh, taken, alaw, apc, aframe, q>>
      /\ mpc = "pcm_put" /\ mpc' = "loop" /\ put_frame(f) /\ out' = NULL
      /\ MainUnchanged
  BY <1>2 DEF AudioPut, MainUnchanged, exVars, ring, audioThread, A!Done
<1>4. \A g \in Frames : SameHeld(g, {})
  BY <1>3, FramesAssumption DEF SameHeld, HeldAt, Inv, Where, VideoPlace, AudioPlace, AlawPlace
<1>5. HeapInv' /\ Counted' /\ dying' = dying \ {f}
  BY <1>3, <1>4, PutCounts
<1>6. ExInv'
  BY <1>3, MainElsewhere DEF Hole
<1>7. Where' /\ Returning'
  BY <1>2, <1>3, <1>5 DEF Inv, Where, Returning, VideoPlace, AudioPlace, AlawPlace
<1> QED
  BY <1>5, <1>6, <1>7 DEF Inv


-----------------------------------------------------------------------------
(* new_frame of get_back_frame, successful or not. *)
LEMMA BackFrameNewInv == ASSUME Inv, get_back_frame_new PROVE Inv'
<1>1. /\ UNCHANGED <<ring, spc, dropped, taken, q, out, alaw, apc, aframe>>
      /\ mpc = "new_frame" /\ mpc' = "exchange"
      /\ fresh = NULL /\ taken # NULL
  BY DEF get_back_frame_new, exVars, audioThread, Inv, Where, VideoPlace
<1>2. \/ \E f \in Frames : new_frame(f) /\ fresh' = f
      \/ new_frame_fails /\ fresh' = NULL
  BY DEF get_back_frame_new
<1>3. fresh' \in Frames \cup {NULL} /\ dying' = dying
  BY <1>2 DEF new_frame, new_frame_fails, heapVars
<1>4. ExInv'
  BY <1>1, <1>3, MasterElsewhere DEF Inv, ExInv, ExTypeOK, Hole
<1>5. Where' /\ Returning'
  BY <1>1, <1>3 DEF Inv, Where, Returning, VideoPlace, AudioPlace, AlawPlace
<1>6. \A g \in Frames : SameHeld(g, {"fresh"})
  BY <1>1 DEF SameHeld, HeldAt, ring
<1>7. ASSUME NEW f \in Frames, new_frame(f), fresh' = f
      PROVE  HeapInv' /\ Counted'
  <2>1. /\ "fresh" \in Place /\ ~ HeldAt("fresh", f) /\ HeldAt("fresh", f)'
        /\ SameHeld(f, {"fresh"})
    BY <1>1, <1>6, <1>7, FramesAssumption DEF HeldAt, Place
  <2>2. \A g \in Frames \ {f} : SameHeld(g, {})
    BY <1>1, <1>6, <1>7, FramesAssumption DEF SameHeld, HeldAt
  <2> QED
    BY <1>7, <2>1, <2>2, NewCounts
<1>8. CASE new_frame_fails /\ fresh' = NULL
  <2>1. \A g \in Frames : SameHeld(g, {})
    BY <1>1, <1>6, <1>8, FramesAssumption DEF SameHeld, HeldAt
  <2>2. HeapInv' /\ Counted'
    BY <1>8, <2>1, SameCounts DEF new_frame_fails
  <2> QED
    BY <2>2, <1>4, <1>5 DEF Inv
<1> QED
  BY <1>2, <1>4, <1>5, <1>7, <1>8 DEF Inv

(* new_frame of alaw_encode, which ends the server if it fails. *)
LEMMA AlawNewInv == ASSUME Inv, alaw_encode_new PROVE Inv'
<1>1. /\ UNCHANGED <<slot, fresh, taken, q, out, apc, aframe>>
      /\ mpc = "alaw_new" /\ MainUnchanged
      /\ alaw = NULL /\ out # NULL
  BY DEF alaw_encode_new, MainUnchanged, exVars, ring, audioThread, Inv, Where,
         AudioPlace, AlawPlace
<1>2. \/ \E f \in Frames : new_frame(f) /\ alaw' = f /\ mpc' = "alaw_unref"
      \/ new_frame_fails /\ alaw' = NULL /\ mpc' = "crashed"
  BY <1>1 DEF alaw_encode_new
<1>3. alaw' \in Frames \cup {NULL} /\ dying' = dying /\ mpc' \in {"alaw_unref", "crashed"}
  BY <1>2 DEF new_frame, new_frame_fails, heapVars
<1>4. ExInv'
  BY <1>1, <1>3, MainElsewhere DEF Hole
<1>5. Where' /\ Returning'
  BY <1>1, <1>2, <1>3, FramesAssumption
  DEF Inv, Where, Returning, VideoPlace, AudioPlace, AlawPlace
<1>6. \A g \in Frames : SameHeld(g, {"alaw"})
  BY <1>1, <1>3 DEF SameHeld, HeldAt
<1>7. ASSUME NEW f \in Frames, new_frame(f), alaw' = f, mpc' = "alaw_unref"
      PROVE  HeapInv' /\ Counted'
  <2>1. /\ "alaw" \in Place /\ ~ HeldAt("alaw", f) /\ HeldAt("alaw", f)'
        /\ SameHeld(f, {"alaw"})
    BY <1>1, <1>6, <1>7, FramesAssumption DEF HeldAt, Place
  <2>2. \A g \in Frames \ {f} : SameHeld(g, {})
    BY <1>1, <1>6, <1>7, FramesAssumption DEF SameHeld, HeldAt
  <2> QED
    BY <1>7, <2>1, <2>2, NewCounts
<1>8. CASE new_frame_fails /\ alaw' = NULL
  <2>1. \A g \in Frames : SameHeld(g, {})
    BY <1>1, <1>6, <1>8, FramesAssumption DEF SameHeld, HeldAt
  <2>2. HeapInv' /\ Counted'
    BY <1>8, <2>1, SameCounts DEF new_frame_fails
  <2> QED
    BY <2>2, <1>4, <1>5 DEF Inv
<1> QED
  BY <1>2, <1>4, <1>5, <1>7, <1>8 DEF Inv

-----------------------------------------------------------------------------
(* The audio thread changes nothing of the exchanger and its users. *)
LEMMA ThreadElsewhere ==
    ASSUME Inv, UNCHANGED <<exVars, spc, mpc, taken, fresh>>
    PROVE  ExInv'
BY MasterElsewhere DEF exVars, Hole, Inv, ExInv, ExTypeOK, Held

(* new_frame of the audio thread. *)
LEMMA AudioNewInv == ASSUME Inv, AudioNew PROVE Inv'
<1>1. /\ UNCHANGED <<slot, mpc, fresh, taken, q, out, alaw>>
      /\ apc = "fill" /\ aframe = NULL
  BY DEF AudioNew, exVars, ring, Inv, Where
<1>2. ExInv'
  BY ThreadElsewhere DEF AudioNew
<1>3. ASSUME NEW f \in Frames, new_frame(f), aframe' = f, apc' = "add"
      PROVE  Inv'
  <2>1. /\ "thread" \in Place /\ ~ HeldAt("thread", f) /\ HeldAt("thread", f)'
        /\ SameHeld(f, {"thread"})
    BY <1>1, <1>3, FramesAssumption DEF SameHeld, HeldAt, Place
  <2>2. \A g \in Frames \ {f} : SameHeld(g, {})
    BY <1>1, <1>3, FramesAssumption DEF SameHeld, HeldAt
  <2>3. HeapInv' /\ Counted'
    BY <1>3, <2>1, <2>2, NewCounts
  <2>4. Where' /\ Returning'
    BY <1>1, <1>3, FramesAssumption DEF Inv, Where, Returning, new_frame
  <2> QED
    BY <1>2, <2>3, <2>4 DEF Inv
<1>4. CASE new_frame_fails /\ UNCHANGED audioThread
  <2>1. \A g \in Frames : SameHeld(g, {})
    BY <1>1, <1>4 DEF SameHeld, HeldAt, audioThread
  <2>2. HeapInv' /\ Counted'
    BY <1>4, <2>1, SameCounts DEF new_frame_fails
  <2>3. Where' /\ Returning'
    BY <1>1, <1>4 DEF Inv, Where, Returning, new_frame_fails, heapVars, audioThread
  <2> QED
    BY <1>2, <2>2, <2>3 DEF Inv
<1> QED
  BY <1>3, <1>4 DEF AudioNew

(* The frame of a block that found the queue full. *)
LEMMA AudioUnrefInv == ASSUME Inv, AudioUnref PROVE Inv'
<1>1. aframe \in Frames
  BY DEF AudioUnref, Inv, Where
<1>2. PICK f \in Frames : f = aframe
  BY <1>1
<1>3. /\ UNCHANGED <<slot, mpc, fresh, taken, q, out, alaw, aframe>>
      /\ apc = "unref" /\ apc' = "put" /\ unref_frame(f)
  BY <1>2 DEF AudioUnref, exVars, ring
<1>4. /\ SameHeld(f, {"thread"}) /\ HeldAt("thread", f) /\ ~ HeldAt("thread", f)'
      /\ "thread" \in Place
  BY <1>2, <1>3 DEF SameHeld, HeldAt, Place
<1>5. \A g \in Frames \ {f} : SameHeld(g, {})
  BY <1>2, <1>3 DEF SameHeld, HeldAt
<1>6. HeapInv' /\ Counted' /\ dying' \subseteq dying \cup {f}
  BY <1>3, <1>4, <1>5, UnrefCounts
<1>7. ExInv'
  BY ThreadElsewhere DEF AudioUnref
<1>8. Where' /\ Returning'
  BY <1>2, <1>3, <1>6 DEF Inv, Where, Returning
<1> QED
  BY <1>6, <1>7, <1>8 DEF Inv

(* It goes back to the heap. *)
LEMMA AudioReturnInv == ASSUME Inv, AudioReturn PROVE Inv'
<1>1. aframe \in Frames
  BY DEF AudioReturn, Inv, Where
<1>2. PICK f \in Frames : f = aframe
  BY <1>1
<1>3. /\ UNCHANGED <<slot, mpc, fresh, taken, q, out, alaw>>
      /\ apc = "put" /\ apc' = "fill" /\ aframe' = NULL /\ put_frame(f)
  BY <1>2 DEF AudioReturn, exVars, ring
<1>4. \A g \in Frames : SameHeld(g, {})
  BY <1>3, FramesAssumption DEF SameHeld, HeldAt
<1>5. HeapInv' /\ Counted' /\ dying' = dying \ {f}
  BY <1>3, <1>4, PutCounts
<1>6. ExInv'
  BY ThreadElsewhere DEF AudioReturn
<1>7. Where' /\ Returning'
  BY <1>2, <1>3, <1>5 DEF Inv, Where, Returning
<1> QED
  BY <1>5, <1>6, <1>7 DEF Inv

(* A block is queued: the reference of the thread becomes the queue's. *)
LEMMA AudioAddInv == ASSUME Inv, AudioAdd PROVE Inv'
<1>1. /\ UNCHANGED <<slot, mpc, fresh, taken, out, alaw, heapVars>>
      /\ apc = "add" /\ aframe \in Frames /\ q \in Seq(Frames)
      /\ Len(q) \in Nat /\ Len(q) <= QueueLen /\ QueueLen \in Nat
  BY LenProperties, PipelineAssumption DEF AudioAdd, exVars, ring, Inv, Where, A!Put
<1>2. ExInv'
  BY ThreadElsewhere DEF AudioAdd
<1>3. HeapInv'
  BY <1>1, NextHeapInv DEF Inv
<1>4. CASE A!Put(aframe) /\ aframe' = NULL /\ apc' = "fill"
  <2>1. Len(q) < QueueLen /\ q' = Append(q, aframe)
    BY <1>4 DEF A!Put
  <2>2. /\ q' \in Seq(Frames) /\ Len(q') = Len(q) + 1
        /\ \A i \in 1..Len(q) : q'[i] = q[i]
        /\ q'[Len(q) + 1] = aframe
    BY <1>1, <2>1, AppendProperties
  <2>3. Where' /\ Returning'
    BY <1>1, <1>4, <2>1, <2>2 DEF Inv, Where, Returning, heapVars
  <2>4. ASSUME NEW g \in Frames PROVE Cardinality(Holders(g))' = Cardinality(Holders(g))
    <3>1. \A p \in Place \ {"thread"} : HeldAt(p, g)' <=> HeldAt(p, g)
      BY <1>1 DEF HeldAt
    <3>2. CASE g = aframe
      <4> DEFINE x == <<"place", "thread">>
                 y == <<"queue", Len(q) + 1>>
      <4>1. HeldAt("thread", g) /\ "thread" \in Place
        BY <3>2, <1>1 DEF HeldAt, Place
      <4>2. x \in Holders(g)
        BY <4>1 DEF Holders
      <4>3. y \notin Holders(g)
        BY <1>1 DEF Holders
      <4>4. ~ HeldAt("thread", g)'
        BY <1>4, FramesAssumption DEF HeldAt
      <4>5. {i \in 1..Len(q') : q'[i] = g} = {i \in 1..Len(q) : q[i] = g} \cup {Len(q) + 1}
        BY <1>1, <2>2, <3>2
      <4>6. {p \in Place : HeldAt(p, g)'} = {p \in Place : HeldAt(p, g)} \ {"thread"}
        BY <3>1, <4>4
      <4>7. Holders(g)' = (Holders(g) \ {x}) \cup {y}
        BY <4>5, <4>6, <1>1 DEF Holders
      <4> HIDE DEF x, y
      <4> QED
        BY <4>2, <4>3, <4>7, <1>1, HoldersFinite, Moves
    <3>3. CASE g # aframe
      <4>1. {i \in 1..Len(q') : q'[i] = g} = {i \in 1..Len(q) : q[i] = g}
        BY <1>1, <2>2, <3>3
      <4>2. HeldAt("thread", g)' <=> HeldAt("thread", g)
        BY <1>1, <1>4, <3>3, FramesAssumption DEF HeldAt
      <4>3. {p \in Place : HeldAt(p, g)'} = {p \in Place : HeldAt(p, g)}
        BY <3>1, <4>2
      <4>4. Holders(g)' = Holders(g)
        BY <4>1, <4>3, <1>1 DEF Holders
      <4> QED
        BY <4>4
    <3> QED
      BY <3>2, <3>3
  <2>5. Counted'
    BY <1>1, <2>4 DEF Inv, Counted, heapVars
  <2> QED
    BY <1>2, <1>3, <2>3, <2>5 DEF Inv
<1>5. CASE apc' = "unref" /\ UNCHANGED <<q, out, aframe>>
  <2>1. \A g \in Frames : SameHeld(g, {})
    BY <1>1, <1>5 DEF SameHeld, HeldAt
  <2>2. Counted'
    BY <1>1, <2>1, SameCounts
  <2>3. Where' /\ Returning'
    BY <1>1, <1>5, FramesAssumption DEF Inv, Where, Returning, heapVars
  <2> QED
    BY <1>2, <1>3, <2>2, <2>3 DEF Inv
<1> QED
  BY <1>4, <1>5 DEF AudioAdd

(* sq_run takes the oldest block: the reference of the first cell becomes  *)
(* get_back_frame's, the others move up.                                   *)
LEMMA AudioGetInv == ASSUME Inv, AudioGet PROVE Inv'
<1>1. /\ UNCHANGED <<slot, taken, fresh, alaw, apc, aframe, heapVars>>
      /\ mpc = "loop" /\ mpc' = "pcm"
      /\ q # <<>> /\ out' = Head(q) /\ q' = Tail(q)
  BY DEF AudioGet, A!Get, exVars, ring, audioThread
<1>2. /\ q \in Seq(Frames) /\ Len(q) <= QueueLen /\ QueueLen \in Nat
      /\ taken = NULL /\ out = NULL /\ alaw = NULL /\ fresh = NULL
  BY <1>1, PipelineAssumption DEF Inv, Where, VideoPlace, AudioPlace, AlawPlace
<1>3. /\ Len(q) \in Nat \ {0} /\ q' \in Seq(Frames) /\ Len(q') = Len(q) - 1
      /\ \A i \in 1..Len(q') : q'[i] = q[i + 1]
      /\ out' = q[1] /\ out' \in Frames
  BY <1>1, <1>2, HeadTailProperties, ElementOfSeq, EmptySeq, LenProperties
<1>4. ExInv'
  BY <1>1, <1>2, MasterElsewhere DEF AudioGet, exVars, Hole, Inv, ExInv, ExTypeOK
<1>5. HeapInv'
  BY <1>1, NextHeapInv DEF Inv
<1>6. Where' /\ Returning'
  BY <1>1, <1>2, <1>3, FramesAssumption
  DEF Inv, Where, Returning, heapVars, VideoPlace, AudioPlace, AlawPlace
<1>7. ASSUME NEW g \in Frames PROVE Cardinality(Holders(g))' = Cardinality(Holders(g))
  <2>1. PICK S : S = Holders(g)
    OBVIOUS
  <2>2. PICK T : T = Holders(g)'
    OBVIOUS
  <2>3. PICK n \in Nat : n = Len(q)
    BY <1>3
  <2>4. PICK P : P = {<<"place", p>> : p \in {p \in Place : HeldAt(p, g)}}
    OBVIOUS
  <2> DEFINE x == <<"place", "pcm">>
             F == [h \in S |-> IF h[1] = "queue"
                               THEN IF h[2] = 1 THEN x ELSE <<"queue", h[2] - 1>>
                               ELSE h]
  <2>5. \A h : h \in S <=>
            \/ \E i \in Ring : h = <<"slot", i>> /\ slot[i] = g
            \/ \E i \in 1..n : h = <<"queue", i>> /\ q[i] = g
            \/ h \in P
    BY <2>1, <2>3, <2>4 DEF Holders
  <2>6. /\ \A p \in Place \ {"pcm"} : HeldAt(p, g)' <=> HeldAt(p, g)
        /\ HeldAt("pcm", g)' <=> q[1] = g
        /\ ~ HeldAt("pcm", g) /\ "pcm" \in Place
    BY <1>1, <1>2, <1>3, FramesAssumption DEF HeldAt, Place
  <2>7. \A h : h \in T <=>
            \/ \E i \in Ring : h = <<"slot", i>> /\ slot[i] = g
            \/ \E i \in 1..(n - 1) : h = <<"queue", i>> /\ q[i + 1] = g
            \/ h \in P
            \/ h = x /\ q[1] = g
    BY <1>1, <1>3, <2>2, <2>3, <2>4, <2>6 DEF Holders
  <2>8. x \notin S /\ (\A h \in P : \E p : h = <<"place", p>>)
    BY <2>1, <2>4, <2>6 DEF Holders
  <2>9. \A h \in S : F[h] \in T
    BY <2>3, <2>5, <2>7, <2>8
  <2>10. \A h, k \in S : F[h] = F[k] => h = k
    BY <2>3, <2>5, <2>8
  <2>11. ASSUME NEW t \in T PROVE \E h \in S : F[h] = t
    <3>1. ASSUME NEW i \in 1..(n - 1), t = <<"queue", i>>, q[i + 1] = g
          PROVE  <<"queue", i + 1>> \in S /\ F[<<"queue", i + 1>>] = t
      BY <3>1, <2>3, <2>5
    <3>2. ASSUME t = x, q[1] = g
          PROVE  <<"queue", 1>> \in S /\ F[<<"queue", 1>>] = t
      <4>1. 1 \in 1..n
        BY <1>3, <2>3
      <4> QED
        BY <3>2, <2>5, <4>1
    <3>3. ASSUME NEW i \in Ring, t = <<"slot", i>>, slot[i] = g
          PROVE  t \in S /\ F[t] = t
      BY <3>3, <2>5
    <3>4. ASSUME t \in P
          PROVE  t \in S /\ F[t] = t
      BY <3>4, <2>5, <2>8
    <3> HIDE DEF F
    <3> QED
      BY <2>7, <3>1, <3>2, <3>3, <3>4
  <2> HIDE DEF F
  <2>12. F \in Bijection(S, T)
    BY <2>9, <2>10, <2>11 DEF F, Bijection, Injection, Surjection, IsInjective
  <2>13. Cardinality(S) = Cardinality(T)
    BY <2>12, <1>2, <2>1, HoldersFinite, FS_Bijection DEF ExistsBijection
  <2> QED
    BY <2>1, <2>2, <2>13
<1>8. Counted'
  BY <1>1, <1>7 DEF Inv, Counted, heapVars
<1> QED
  BY <1>4, <1>5, <1>6, <1>8 DEF Inv

-----------------------------------------------------------------------------
(* When the threads start, the first Slots frames are in the exchanger and *)
(* the others in the heap.                                                 *)
LEMMA InitInv == Init => Inv
<1> SUFFICES ASSUME Init PROVE Inv
  OBVIOUS
<1>1. PICK h \in [Slot -> Frames] :
         /\ \A i, j \in Slot : h[i] = h[j] => i = j
         /\ heap = [i \in Slot |-> IF i < Slots THEN NULL ELSE h[i]]
         /\ slot = [i \in Ring |-> h[i]]
         /\ ref_count = [f \in Frames |-> IF \E i \in Ring : h[i] = f THEN 1 ELSE 0]
  BY DEF Init
<1>2. /\ Count \in Nat /\ Slots \in Nat \ {0} /\ Slots < Count /\ NULL \notin Frames
      /\ Ring \subseteq Slot /\ (\A i \in Slot : i \in Ring <=> i < Slots)
      /\ Slots \in Slot /\ 0 \in Slot /\ Slot \subseteq Nat
  BY CountPositive, SlotsAssumption, PipelineAssumption DEF Ring, Slot
<1>3. \A f \in Frames : \E i \in Slot : h[i] = f
  <2>1. h \in Injection(Slot, Frames)
    BY <1>1 DEF Injection, IsInjective
  <2>2. Cardinality(Slot) = Cardinality(Frames)
    BY CountPositive, FS_Interval DEF Slot, Count
  <2>3. h \in Surjection(Slot, Frames)
    BY <2>1, <2>2, FramesAssumption, FS_Injection
  <2> QED
    BY <2>3 DEF Surjection
<1>4. HeapInv
  <2>1. HeapTypeOK
    BY <1>1, <1>2 DEF Init, HeapTypeOK
  <2>2. \A f \in Frames : f \in InHeap <=> ~ \E i \in Ring : h[i] = f
    BY <1>1, <1>2, <1>3 DEF InHeap
  <2>3. FramePlaces
    <3>1. \A f \in Frames : ref_count[f] > 0 <=> f \notin InHeap \cup dying
      BY <1>1, <2>2 DEF Init
    <3>2. \A i, j \in Slot : heap[i] = heap[j] /\ heap[i] # NULL => i = j
      BY <1>1
    <3> QED
      BY <3>1, <3>2 DEF FramePlaces, Init
  <2>4. HeapRing
    BY <1>1, <1>2 DEF HeapRing, Between, Init
  <2> QED
    BY <2>1, <2>3, <2>4 DEF HeapInv, Init
<1>5. ExInv
  <2>1. slot \in [Ring -> Frames] /\ IsInjective(slot)
    BY <1>1, <1>2 DEF IsInjective
  <2> QED
    BY <2>1, ExInitInv DEF Init, ExInit
<1>6. q = <<>> /\ out = NULL /\ QueueLen \in Nat
  BY PipelineAssumption DEF Init, A!Init
<1>7. Where /\ Returning
  BY <1>6, EmptySeq DEF Init, Where, Returning, VideoPlace, AudioPlace, AlawPlace
<1>8. ASSUME NEW f \in Frames PROVE ref_count[f] = Cardinality(Holders(f))
  <2>1. \A p \in Place : ~ HeldAt(p, f)
    BY <1>2, <1>6 DEF Init, HeldAt
  <2>2. \A x : x \in Holders(f) <=> \E i \in Ring : x = <<"slot", i>> /\ h[i] = f
    BY <1>1, <1>6, <2>1 DEF Holders
  <2>3. CASE \E i \in Ring : h[i] = f
    <3>1. PICK i \in Ring : h[i] = f
      BY <2>3
    <3>2. \A k \in Ring : h[k] = f => k = i
      BY <1>1, <1>2, <3>1
    <3>3. Holders(f) = {<<"slot", i>>}
      BY <2>2, <3>1, <3>2
    <3> QED
      BY <1>1, <2>3, <3>3, FS_Singleton
  <2>4. CASE ~ \E i \in Ring : h[i] = f
    <3>1. Holders(f) = {}
      BY <2>2, <2>4
    <3> QED
      BY <1>1, <2>4, <3>1, FS_EmptySet
  <2> QED
    BY <2>3, <2>4
<1> QED
  BY <1>4, <1>5, <1>7, <1>8 DEF Inv, Counted

(* Every step of the three threads keeps the invariant. *)
LEMMA NextInv == Inv /\ [Next]_vars => Inv'
<1> SUFFICES ASSUME Inv, [Next]_vars PROVE Inv'
  OBVIOUS
<1>1. CASE VideoCapture
  BY <1>1, VideoCaptureInv
<1>2. CASE ExchangerStep
  BY <1>2, LoopInv, ExchangerReadInv, ExchangeFrameInv DEF ExchangerStep
<1>3. CASE get_back_frame_new
  BY <1>3, BackFrameNewInv
<1>4. CASE VideoToStream
  BY <1>4, StreamDeliverInv, PassOverInv, StreamUnrefInv DEF VideoToStream
<1>5. CASE VideoPut
  BY <1>5, VideoPutInv
<1>6. CASE AudioGet
  BY <1>6, AudioGetInv
<1>7. CASE AudioToStream
  BY <1>7, StreamDeliverInv, PassOverInv, StreamUnrefInv, AlawNewInv DEF AudioToStream
<1>8. CASE AlawPut
  BY <1>8, AlawPutInv
<1>9. CASE AudioPut
  BY <1>9, AudioPutInv
<1>10. CASE AudioCapture
  BY <1>10, AudioNewInv, AudioAddInv, AudioUnrefInv, AudioReturnInv DEF AudioCapture
<1>11. CASE UNCHANGED vars
  <2>1. /\ UNCHANGED <<exVars, spc, mpc, taken, fresh>> /\ UNCHANGED heapVars
        /\ UNCHANGED <<slot, dying, q, out, alaw, apc, aframe>>
    BY <1>11 DEF vars, exVars, heapVars, ring
  <2>2. \A g \in Frames : SameHeld(g, {})
    BY <2>1 DEF SameHeld, HeldAt
  <2>3. HeapInv' /\ Counted' /\ ExInv'
    BY <2>1, <2>2, SameCounts, ThreadElsewhere
  <2>4. Where' /\ Returning'
    BY <2>1 DEF Inv, Where, Returning
  <2> QED
    BY <2>3, <2>4 DEF Inv
<1> QED
  BY <1>1, <1>2, <1>3, <1>4, <1>5, <1>6, <1>7, <1>8, <1>9, <1>10, <1>11 DEF Next, Main

-----------------------------------------------------------------------------
(* Heap, exchanger, threads and counts agree in every reachable state. *)
THEOREM PipelineInvHolds == Spec => []Inv
BY InitInv, NextInv, PTL DEF Spec

(* Across both paths and all three threads ref_count counts exactly the    *)
(* references held: no frame leaks and none is freed in use, however the   *)
(* threads interleave and whether new_frame and sq_add succeed or not.     *)
THEOREM RefCountsExactHolds == Spec => []RefCountsExact
<1>1. ASSUME Inv PROVE TypeOK
  BY <1>1 DEF Inv, HeapInv, ExInv, Cursors, Where, TypeOK, A!TypeOK,
              VideoPlace, AudioPlace, AlawPlace
<1>2. Inv => RefCountsExact
  BY <1>1 DEF Inv, RefCountsExact
<1> QED
  BY <1>2, PipelineInvHolds, PTL

(* Frames that three threads take and give back in different orders are in *)
(* the heap, on their way there or referenced, and in one slot at most.    *)
THEOREM PipelineFramePlaces == Spec => []FramePlaces
<1>1. Inv => FramePlaces
  BY DEF Inv, HeapInv
<1> QED
  BY <1>1, PipelineInvHolds, PTL

(* The heap that three threads share never meets an occupied slot, where   *)
(* unref_frame would return with frame_heap_mutex locked ...               *)
THEOREM PipelineNeverStuck == Spec => []NeverStuck
<1>1. Inv => NeverStuck
  BY RoomForDying DEF Inv
<1> QED
  BY <1>1, PipelineInvHolds, PTL

(* ... and new_frame fails only when every frame is out.                   *)
THEOREM PipelineNoFalseExhaustion == Spec => []FailsOnlyWhenAllOut
<1>1. Inv => FailsOnlyWhenAllOut
  BY EmptyAtTake DEF Inv
<1> QED
  BY <1>1, PipelineInvHolds, PTL

-----------------------------------------------------------------------------
(* The video path uses the exchanger as module Exchanger has it.           *)

(* A frame that new_frame hands out while the master has another in its    *)
(* hands is in none of the exchanger's places.                             *)
LEMMA NewFrameUnused ==
    ASSUME Inv, mpc = "new_frame", NEW f \in Frames, new_frame(f)
    PROVE  f \in Ex!Unused
<1>1. ref_count[f] = 0
  BY FramesAssumption DEF Inv, HeapInv, HeapTypeOK, FramePlaces, InHeap, new_frame
<1>2. Holders(f) = {}
  <2>1. Cardinality(Holders(f)) = 0
    BY <1>1 DEF Inv, Counted
  <2>2. IsFiniteSet(Holders(f))
    BY HoldersFinite DEF Inv, Where
  <2> QED BY <2>1, <2>2, FS_EmptySet
<1>3. \A i \in Ring : slot[i] # f
  BY <1>2 DEF Holders
<1>4. taken # f
  <2>1. ~ HeldAt("video", f)
    BY <1>2 DEF Holders, Place
  <2> QED BY <2>1 DEF HeldAt
<1>5. f \notin Range(slot)
  BY <1>3 DEF Inv, ExInv, ExTypeOK, Range
<1>6. dropped = {}
  BY DEF Inv, ExInv, Held
<1> QED
  BY <1>4, <1>5, <1>6 DEF Ex!Unused, Ex!Range, Range

(* A step that leaves the exchanger and master_pc alone is a stutter.      *)
LEMMA Stutters ==
    ASSUME UNCHANGED <<exVars, spc, taken, fresh>>, master_pc' = master_pc
    PROVE  UNCHANGED Ex!exchangerVars
BY DEF exVars, ring, Ex!exchangerVars, Ex!ring, Ex!master

(* The capture thread's steps are its steps in the exchanger.              *)
LEMMA SlaveSteps == ASSUME VideoCapture PROVE Ex!Slave
<1>1. Slave /\ master_pc' = master_pc
  BY DEF VideoCapture, Slave, get_next_frame, encode, encode_fails, deliver_frame,
         deliver_write, deliver_advance, master, master_pc
<1>2. CASE get_next_frame
  BY <1>1, <1>2 DEF Ex!Slave, get_next_frame, Ex!get_next_frame, ring, Ex!ring, master, Ex!master
<1>3. CASE encode
  BY <1>1, <1>3 DEF Ex!Slave, encode, Ex!encode, ring, Ex!ring, master, Ex!master
<1>4. CASE encode_fails
  BY <1>1, <1>4 DEF Ex!Slave, encode_fails, Ex!encode_fails, ring, Ex!ring, master, Ex!master
<1>5. CASE deliver_frame
  BY <1>1, <1>5 DEF Ex!Slave, deliver_frame, Ex!deliver_frame, master, Ex!master
<1>6. CASE deliver_write
  BY <1>1, <1>6 DEF Ex!Slave, deliver_write, Ex!deliver_write, master, Ex!master
<1>7. CASE deliver_advance
  BY <1>1, <1>7 DEF Ex!Slave, deliver_advance, Ex!deliver_advance, succ, Ex!succ, master, Ex!master
<1> QED
  BY <1>1, <1>2, <1>3, <1>4, <1>5, <1>6, <1>7 DEF Slave

(* The event loop's steps with the exchanger are the master's.             *)
LEMMA MasterSteps == ASSUME ExchangerStep PROVE Ex!Master
<1>1. CASE exchanger_ready
  BY <1>1 DEF Ex!Master, exchanger_ready, Ex!exchanger_ready, ring, Ex!ring, master_pc
<1>2. CASE exchanger_read
  BY <1>2 DEF Ex!Master, exchanger_read, Ex!exchanger_read, succ, Ex!succ, master_pc
<1>3. CASE exchanger_read_done
  BY <1>3 DEF Ex!Master, exchanger_read_done, Ex!exchanger_read_done, ring, Ex!ring, master_pc
<1>4. CASE get_back_frame_exchange
  BY <1>4 DEF Ex!Master, get_back_frame_exchange, Ex!get_back_frame_exchange, exchange_frame,
              Ex!exchange_frame, ring, Ex!ring, succ, Ex!succ, master_pc
<1> QED
  BY <1>1, <1>2, <1>3, <1>4 DEF ExchangerStep

(* What new_frame returns to get_back_frame is a frame that the exchanger  *)
(* does not have, or NULL.                                                 *)
LEMMA SupplyStep == ASSUME Inv, get_back_frame_new PROVE Ex!Master
<1>1. /\ mpc = "new_frame" /\ mpc' = "exchange" /\ UNCHANGED <<exVars, spc, taken>>
      /\ \/ \E f \in Frames : new_frame(f) /\ fresh' = f
         \/ fresh' = NULL
  BY DEF get_back_frame_new
<1>2. fresh' \in Ex!Unused \cup {NULL}
  BY <1>1, NewFrameUnused
<1>3. fresh' \in Frames \cup {NULL}
  BY <1>1
<1>4. Ex!supply_frame(fresh')
  BY <1>1, <1>2 DEF Ex!supply_frame, exVars, ring, Ex!ring, master_pc
<1> QED
  BY <1>3, <1>4 DEF Ex!Master

(* Every step of the server is a step of the exchanger, or none.           *)
LEMMA StepOfExchanger ==
    ASSUME Inv, [Next]_vars
    PROVE  [Ex!ExNext]_(Ex!exchangerVars)
<1>1. CASE VideoCapture
  BY <1>1, SlaveSteps DEF Ex!ExNext
<1>2. CASE ExchangerStep
  BY <1>2, MasterSteps DEF Ex!ExNext
<1>3. CASE get_back_frame_new
  BY <1>3, SupplyStep DEF Ex!ExNext
<1>4. CASE VideoToStream
  <2>1. UNCHANGED <<exVars, spc, taken, fresh>> /\ master_pc' = master_pc
    BY <1>4 DEF VideoToStream, Deliver, PassOver, Unref, MainUnchanged, master_pc
  <2> QED BY <2>1, Stutters
<1>5. CASE VideoPut
  <2>1. Ex!deliver_frame_to_stream
    BY <1>5 DEF VideoPut, MainUnchanged, exVars, ring, Ex!deliver_frame_to_stream, Ex!ring, master_pc
  <2> QED BY <2>1 DEF Ex!ExNext, Ex!Master
<1>6. CASE AudioGet
  <2>1. UNCHANGED <<exVars, spc, taken, fresh>> /\ master_pc' = master_pc
    BY <1>6 DEF AudioGet, master_pc
  <2> QED BY <2>1, Stutters
<1>7. CASE AudioToStream
  <2>1. UNCHANGED <<exVars, spc, taken, fresh>> /\ master_pc' = master_pc
    BY <1>7 DEF AudioToStream, alaw_encode_new, Deliver, PassOver, Unref, MainUnchanged, master_pc
  <2> QED BY <2>1, Stutters
<1>8. CASE AlawPut \/ AudioPut
  <2>1. UNCHANGED <<exVars, spc, taken, fresh>> /\ master_pc' = master_pc
    BY <1>8 DEF AlawPut, AudioPut, MainUnchanged, master_pc
  <2> QED BY <2>1, Stutters
<1>9. CASE AudioCapture
  <2>1. UNCHANGED <<exVars, spc, mpc, taken, fresh>>
    BY <1>9 DEF AudioCapture, AudioNew, AudioAdd, AudioUnref, AudioReturn
  <2> QED BY <2>1, Stutters DEF master_pc
<1>10. CASE UNCHANGED vars
  BY <1>10, Stutters DEF vars, master_pc
<1> QED
  BY <1>1, <1>2, <1>3, <1>4, <1>5, <1>6, <1>7, <1>8, <1>9, <1>10 DEF Next, Main

(* The server starts as the exchanger does, every slot with a frame.       *)
LEMMA StartOfExchanger == Init => Ex!ExInit
<1> SUFFICES ASSUME Init PROVE Ex!ExInit
  OBVIOUS
<1>1. PICK h \in [Slot -> Frames] : /\ \A i, j \in Slot : h[i] = h[j] => i = j
                                    /\ slot = [i \in Ring |-> h[i]]
  BY DEF Init
<1>2. \A i \in Ring : i \in Slot
  BY SlotsAssumption, PipelineAssumption, CountPositive DEF Ring, Slot
<1>3. slot \in [Ring -> Frames] /\ \A i, j \in Ring : slot[i] = slot[j] => i = j
  BY <1>1, <1>2
<1>4. Ex!IsInjective(slot)
  BY <1>3 DEF Ex!IsInjective
<1> QED
  BY <1>3, <1>4 DEF Init, Ex!ExInit, Ring, Ex!Ring, master_pc

(* The server implements the exchanger: nothing is dropped, every byte is  *)
(* about a frame and a NULL in the ring starves the capture, whatever the  *)
(* audio path does with the heap, for every number of frames and slots.    *)
THEOREM PipelineIsExchanger == Spec => ImplementsExchanger
BY StartOfExchanger, StepOfExchanger, PipelineInvHolds, PTL
DEF Spec, ImplementsExchanger, Ex!ExSpec

-----------------------------------------------------------------------------
(* When new_frame fails, every frame is in the exchanger, in the queue or  *)
(* in the hands of a thread.                                               *)
LEMMA AllOut ==
    ASSUME Inv, heap[take] = NULL, NEW f \in Frames
    PROVE  \/ \E i \in Ring : slot[i] = f
           \/ \E i \in 1..Len(q) : q[i] = f
           \/ f \in {taken, fresh, out, alaw, aframe}
<1>1. InHeap = {}
  BY EmptyAtTake DEF Inv, FailsOnlyWhenAllOut
<1>2. CASE f \in dying
  BY <1>2 DEF Inv, Returning
<1>3. CASE f \notin dying
  <2>1. ref_count[f] > 0 /\ ref_count[f] = Cardinality(Holders(f))
    BY <1>1, <1>3 DEF Inv, HeapInv, FramePlaces, Counted
  <2>2. Holders(f) # {}
    BY <2>1, FS_EmptySet
  <2> QED
    BY <2>2 DEF Holders, HeldAt
<1> QED
  BY <1>2, <1>3

(* Every frame is in one of the slots R, in the queue, or in E. *)
Covered(R, E) ==
    \A f \in Frames : (\E i \in R : slot[i] = f) \/ (\E i \in 1..Len(q) : q[i] = f) \/ f \in E

(* Then there are no more frames than those. *)
LEMMA FramesCounted ==
    ASSUME Inv, NEW R \in SUBSET Ring, NEW E, IsFiniteSet(E), Covered(R, E)
    PROVE  Count <= Cardinality(R) + Len(q) + Cardinality(E)
<1> DEFINE g == [i \in R |-> slot[i]]
           h == [i \in 1..Len(q) |-> q[i]]
           B == {g[i] : i \in R}
           C == {h[i] : i \in 1..Len(q)}
<1>1. /\ IsFiniteSet(Ring) /\ IsFiniteSet(1..Len(q)) /\ Len(q) \in Nat
      /\ Cardinality(1..Len(q)) = Len(q)
  <2>1. Len(q) \in Nat
    BY LenProperties DEF Inv, Where
  <2>2. IsFiniteSet(1..Len(q)) /\ Cardinality(1..Len(q)) = Len(q)
    BY <2>1, FS_Interval
  <2> QED
    BY <2>1, <2>2, FS_Interval, SlotsAssumption DEF Ring
<1>2. IsFiniteSet(R)
  BY <1>1, FS_Subset
<1>3. IsFiniteSet(B) /\ Cardinality(B) <= Cardinality(R)
  BY <1>2, Values
<1>4. IsFiniteSet(C) /\ Cardinality(C) <= Len(q)
  BY <1>1, Values
<1>5. Frames \subseteq (B \cup C) \cup E
  BY DEF Covered
<1> HIDE DEF B, C
<1>6. ASSUME NEW S, NEW T, IsFiniteSet(S), IsFiniteSet(T)
      PROVE  /\ IsFiniteSet(S \cup T)
             /\ Cardinality(S \cup T) <= Cardinality(S) + Cardinality(T)
  <2>1. IsFiniteSet(S \cap T)
    BY <1>6, FS_Intersection
  <2>2. Cardinality(S) \in Nat /\ Cardinality(T) \in Nat /\ Cardinality(S \cap T) \in Nat
    BY <1>6, <2>1, FS_CardinalityType
  <2>3. /\ IsFiniteSet(S \cup T)
        /\ Cardinality(S \cup T) = Cardinality(S) + Cardinality(T) - Cardinality(S \cap T)
    BY <1>6, FS_Union
  <2> QED
    BY <2>2, <2>3
<1>7. IsFiniteSet(B \cup C) /\ Cardinality(B \cup C) <= Cardinality(B) + Cardinality(C)
  BY <1>3, <1>4, <1>6
<1>8. /\ IsFiniteSet((B \cup C) \cup E)
      /\ Cardinality((B \cup C) \cup E) <= Cardinality(B \cup C) + Cardinality(E)
  BY <1>6, <1>7
<1>9. Count <= Cardinality((B \cup C) \cup E)
  BY <1>5, <1>8, FS_Subset DEF Count
<1>10. /\ Cardinality(R) \in Nat /\ Cardinality(B) \in Nat /\ Cardinality(C) \in Nat
       /\ Cardinality(E) \in Nat /\ Cardinality(B \cup C) \in Nat
       /\ Cardinality((B \cup C) \cup E) \in Nat /\ Count \in Nat
  BY <1>2, <1>3, <1>4, <1>7, <1>8, FS_CardinalityType, CountPositive
<1> QED
  BY <1>1, <1>3, <1>4, <1>7, <1>8, <1>9, <1>10

(* The number of slots, and of a few places. *)
LEMMA SlotsAndPlaces ==
    /\ Cardinality(Ring) = Slots
    /\ \A m \in Ring : Cardinality(Ring \ {m}) = Slots - 1
    /\ \A a, b : IsFiniteSet({a, b}) /\ Cardinality({a, b}) <= 2
    /\ \A a, b, c, d : IsFiniteSet({a, b, c, d}) /\ Cardinality({a, b, c, d}) <= 4
<1>1. IsFiniteSet(Ring) /\ Cardinality(Ring) = Slots
  BY FS_Interval, SlotsAssumption DEF Ring
<1>2. \A m \in Ring : Cardinality(Ring \ {m}) = Slots - 1
  BY <1>1, Leaves
<1>3. ASSUME NEW S, IsFiniteSet(S), NEW x
      PROVE  IsFiniteSet(S \cup {x}) /\ Cardinality(S \cup {x}) <= Cardinality(S) + 1
  <2>1. Cardinality(S) \in Nat
    BY <1>3, FS_CardinalityType
  <2>2. /\ IsFiniteSet(S \cup {x})
        /\ Cardinality(S \cup {x}) = IF x \in S THEN Cardinality(S) ELSE Cardinality(S) + 1
    BY <1>3, FS_AddElement
  <2> QED
    BY <2>1, <2>2
<1>4. ASSUME NEW a, NEW b PROVE IsFiniteSet({a, b}) /\ Cardinality({a, b}) <= 2
  <2>1. IsFiniteSet({a}) /\ Cardinality({a}) = 1
    BY FS_Singleton
  <2>2. {a, b} = {a} \cup {b}
    OBVIOUS
  <2>3. PICK S : S = {a}
    OBVIOUS
  <2>4. IsFiniteSet(S \cup {b}) /\ Cardinality(S \cup {b}) <= Cardinality(S) + 1
    BY <1>3, <2>1, <2>3, Zenon
  <2>5. Cardinality(S) = 1 /\ {a, b} = S \cup {b}
    BY <2>1, <2>2, <2>3
  <2> QED
    BY <2>4, <2>5
<1>5. ASSUME NEW a, NEW b, NEW c, NEW d
      PROVE  IsFiniteSet({a, b, c, d}) /\ Cardinality({a, b, c, d}) <= 4
  <2> DEFINE S == {a, b} \cup {c}
  <2>1. IsFiniteSet({a, b}) /\ Cardinality({a, b}) <= 2 /\ Cardinality({a, b}) \in Nat
    BY <1>4, FS_CardinalityType
  <2>2. IsFiniteSet(S) /\ Cardinality(S) <= Cardinality({a, b}) + 1 /\ Cardinality(S) \in Nat
    BY <2>1, <1>3, FS_CardinalityType
  <2>3. {a, b, c, d} = S \cup {d}
    OBVIOUS
  <2> HIDE DEF S
  <2>4. /\ IsFiniteSet(S \cup {d}) /\ Cardinality(S \cup {d}) <= Cardinality(S) + 1
        /\ Cardinality(S \cup {d}) \in Nat
    BY <2>2, <1>3, FS_CardinalityType
  <2> QED
    BY <2>1, <2>2, <2>3, <2>4
<1> QED
  BY <1>1, <1>2, <1>4, <1>5

(* When new_frame fails get_back_frame there is a hole in the exchanger,   *)
(* and besides slots and queue only the video frame and the audio thread's *)
(* are out; when it fails alaw_encode, only the PCM frame and the audio    *)
(* thread's.                                                               *)
LEMMA InvOutOnlyBehindBacklog == Inv => OutOnlyBehindBacklog
<1> SUFFICES ASSUME Inv, heap[take] = NULL
             PROVE  /\ mpc = "new_frame" => Len(q) + Slots + 1 >= Count
                    /\ mpc = "alaw_new" => Len(q) + Slots + 2 >= Count
  BY DEF OutOnlyBehindBacklog
<1>1. /\ Len(q) \in Nat /\ Slots \in Nat /\ Count \in Nat
      /\ master_write \in Ring /\ NULL \notin Frames
  BY LenProperties, SlotsAssumption, CountPositive DEF Inv, Where, ExInv, ExTypeOK
<1>2. /\ IsFiniteSet({taken, aframe}) /\ Cardinality({taken, aframe}) <= 2
      /\ Cardinality({taken, aframe}) \in Nat
      /\ IsFiniteSet({out, aframe}) /\ Cardinality({out, aframe}) <= 2
      /\ Cardinality({out, aframe}) \in Nat
  BY SlotsAndPlaces, FS_CardinalityType
<1>3. CASE mpc = "new_frame"
  <2>1. /\ fresh = NULL /\ out = NULL /\ alaw = NULL /\ slot[master_write] = NULL
    BY <1>3 DEF Inv, Where, AudioPlace, AlawPlace, ExInv, Slotted, Hole
  <2>2. Covered(Ring \ {master_write}, {taken, aframe})
    BY <2>1, <1>1, AllOut DEF Covered
  <2>3. Count <= Cardinality(Ring \ {master_write}) + Len(q) + Cardinality({taken, aframe})
    BY <1>2, <2>2, FramesCounted
  <2>4. Cardinality(Ring \ {master_write}) = Slots - 1
    BY <1>1, SlotsAndPlaces
  <2> QED
    BY <1>1, <1>2, <1>3, <2>3, <2>4
<1>4. CASE mpc = "alaw_new"
  <2>1. /\ fresh = NULL /\ taken = NULL /\ alaw = NULL
    BY <1>4 DEF Inv, Where, VideoPlace, AlawPlace
  <2>2. Covered(Ring, {out, aframe})
    BY <2>1, <1>1, AllOut DEF Covered
  <2>3. Count <= Cardinality(Ring) + Len(q) + Cardinality({out, aframe})
    BY <1>2, <2>2, FramesCounted
  <2>4. Cardinality(Ring) = Slots
    BY SlotsAndPlaces
  <2> QED
    BY <1>1, <1>2, <1>4, <2>3, <2>4
<1> QED
  BY <1>3, <1>4

(* The event loop finds the heap empty only behind a backlog of audio      *)
(* frames, for every size of heap, exchanger and queue: with 25 frames and *)
(* 10 slots it takes 14 of them to lose the video path, 13 to crash.       *)
THEOREM OutOnlyBehindBacklogHolds == Spec => []OutOnlyBehindBacklog
BY InvOutOnlyBehindBacklog, PipelineInvHolds, PTL

(* What the audio thread finds when it takes a frame: it holds none, the   *)
(* event loop holds at most a video frame and the one to exchange for it,  *)
(* or a PCM and an A-law frame.                                            *)
LEMMA RoomForAudio ==
    ASSUME Inv, apc = "fill", heap[take] = NULL
    PROVE  Count <= Slots + Len(q) + 2
<1>1. /\ Len(q) \in Nat /\ Slots \in Nat /\ Count \in Nat /\ NULL \notin Frames
      /\ aframe = NULL
  BY LenProperties, SlotsAssumption, CountPositive DEF Inv, Where
<1>2. (taken = NULL /\ fresh = NULL) \/ (out = NULL /\ alaw = NULL)
  BY DEF Inv, Where, VideoPlace, AudioPlace, AlawPlace
<1>3. Cardinality(Ring) = Slots
  BY SlotsAndPlaces
<1>4. /\ IsFiniteSet({taken, fresh}) /\ Cardinality({taken, fresh}) <= 2
      /\ Cardinality({taken, fresh}) \in Nat
      /\ IsFiniteSet({out, alaw}) /\ Cardinality({out, alaw}) <= 2
      /\ Cardinality({out, alaw}) \in Nat
  BY SlotsAndPlaces, FS_CardinalityType
<1>5. CASE out = NULL /\ alaw = NULL
  <2>1. Covered(Ring, {taken, fresh})
    BY <1>1, <1>5, AllOut DEF Covered
  <2>2. Count <= Cardinality(Ring) + Len(q) + Cardinality({taken, fresh})
    BY <1>4, <2>1, FramesCounted
  <2> QED
    BY <1>1, <1>3, <1>4, <2>2
<1>6. CASE taken = NULL /\ fresh = NULL
  <2>1. Covered(Ring, {out, alaw})
    BY <1>1, <1>6, AllOut DEF Covered
  <2>2. Count <= Cardinality(Ring) + Len(q) + Cardinality({out, alaw})
    BY <1>4, <2>1, FramesCounted
  <2> QED
    BY <1>1, <1>3, <1>4, <2>2
<1> QED
  BY <1>2, <1>5, <1>6

(* With Slots + QueueLen + 3 frames new_frame never fails anybody, and so  *)
(* alaw_encode never crashes the server.                                   *)
THEOREM HeapSufficesHolds == Spec => []HeapSuffices
<1> DEFINE Enough == Count >= Slots + QueueLen + 3
           Alive == Enough => mpc # "crashed"
<1>1. ASSUME Inv, Enough, mpc \in {"new_frame", "alaw_new"} \/ apc = "fill"
      PROVE  heap[take] # NULL
  <2>1. /\ Len(q) \in Nat /\ Len(q) <= QueueLen /\ QueueLen \in Nat
        /\ Slots \in Nat /\ Count \in Nat
    BY <1>1, LenProperties, SlotsAssumption, PipelineAssumption, CountPositive DEF Inv, Where
  <2> QED
    BY <1>1, <2>1, InvOutOnlyBehindBacklog, RoomForAudio DEF OutOnlyBehindBacklog
<1>2. Init => Alive
  BY DEF Init
<1>3. Inv /\ Alive /\ [Next]_vars => Alive'
  <2> SUFFICES ASSUME Inv, Alive, [Next]_vars, Enough, mpc' = "crashed" PROVE FALSE
    BY DEF Count
  <2>1. mpc # "crashed"
    OBVIOUS
  <2>2. alaw_encode_new
    BY <2>1 DEF Next, Main, AudioCapture, VideoCapture, Slave, get_next_frame, encode,
                encode_fails, deliver_frame, deliver_write, deliver_advance, master,
                ExchangerStep, exchanger_ready, exchanger_read, exchanger_read_done,
                get_back_frame_exchange, get_back_frame_new, VideoToStream, VideoPut,
                AudioGet, AudioToStream, AlawPut, AudioPut, Deliver, PassOver, Unref,
                AudioNew, AudioAdd, AudioUnref, AudioReturn, vars
  <2>3. mpc = "alaw_new" /\ heap[take] = NULL
    BY <2>2 DEF alaw_encode_new, new_frame_fails
  <2> QED
    BY <2>3, <1>1
<1>4. Inv /\ Alive => HeapSuffices
  BY <1>1 DEF HeapSuffices
<1> QED
  BY <1>2, <1>3, <1>4, PipelineInvHolds, PTL DEF Spec
=============================================================================
