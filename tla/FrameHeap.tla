----------------------------- MODULE FrameHeap -----------------------------
(***************************************************************************)
(* The frame heap of src/spook/frame.c: all frame buffers of the server    *)
(* live in a ring of slots.  new_frame empties the slot at take, the last  *)
(* unref_frame fills the slot at put.  The ring is protected by one mutex, *)
(* the reference count of a frame by the frame's own mutex; a thread that  *)
(* drops the last reference holds neither between the two.                 *)
(***************************************************************************)
EXTENDS FrameBuffers

CONSTANT MaxRef   \* bound on a reference count, for a closed instance

Count == Cardinality(Frames)
ASSUME MaxRefAssumption == MaxRef \in Nat

Slot == 0..(Count - 1)
\* f->next in the circular list of slots
next(i) == IF i = Count - 1 THEN 0 ELSE i + 1

VARIABLES
    heap,       \* heap[i]: the free frame in slot i, or NULL
    take,       \* frame_heap_take
    put,        \* frame_heap_put
    ref_count,  \* of every frame
    dying,      \* last reference dropped, frame not yet back in its slot
    stuck       \* frame_heap_mutex was left locked

heapVars == <<heap, take, put, ref_count, dying, stuck>>

HeapTypeOK ==
    /\ heap \in [Slot -> Frames \cup {NULL}]
    /\ take \in Slot
    /\ put \in Slot
    /\ ref_count \in [Frames -> Nat]
    /\ dying \subseteq Frames
    /\ stuck \in BOOLEAN

(* init_frame_heap: one frame in every slot. *)
HeapInit ==
    /\ heap \in [Slot -> Frames]
    /\ \A i, j \in Slot : heap[i] = heap[j] => i = j
    /\ take = 0 /\ put = 0
    /\ ref_count = [f \in Frames |-> 0]
    /\ dying = {}
    /\ stuck = FALSE

-----------------------------------------------------------------------------
(* Slip: frame_heap_take stays where it is. *)
new_frame_stays(f) ==
    /\ ~ stuck
    /\ heap[take] = f /\ f # NULL
    /\ heap' = [heap EXCEPT ![take] = NULL]
    /\ ref_count' = [ref_count EXCEPT ![f] = 1]
    /\ UNCHANGED <<take, put, dying, stuck>>

(* Slip: the slot keeps the frame that is handed out. *)
new_frame_keeps(f) ==
    /\ ~ stuck
    /\ heap[take] = f /\ f # NULL
    /\ take' = next(take)
    /\ ref_count' = [ref_count EXCEPT ![f] = 1]
    /\ UNCHANGED <<heap, put, dying, stuck>>

(* new_frame returns f *)
new_frame(f) ==
    /\ ~ stuck
    /\ heap[take] = f /\ f # NULL
    /\ heap' = [heap EXCEPT ![take] = NULL]
    /\ take' = next(take)
    /\ ref_count' = [ref_count EXCEPT ![f] = 1]
    /\ UNCHANGED <<put, dying, stuck>>

(* new_frame returns NULL: "Ack!  Out of frame buffers!" *)
new_frame_fails ==
    /\ ~ stuck
    /\ heap[take] = NULL
    /\ UNCHANGED heapVars

ref_frame(f) ==
    /\ ref_count' = [ref_count EXCEPT ![f] = @ + 1]
    /\ UNCHANGED <<heap, take, put, dying, stuck>>

(* Slip: the frame goes back to the heap with any reference dropped. *)
unref_frame_any(f) ==
    /\ ref_count[f] > 0
    /\ ref_count' = [ref_count EXCEPT ![f] = @ - 1]
    /\ dying' = dying \cup {f}
    /\ UNCHANGED <<heap, take, put, stuck>>

(* unref_frame up to the unlock of the frame's mutex *)
unref_frame(f) ==
    /\ ref_count[f] > 0
    /\ ref_count' = [ref_count EXCEPT ![f] = @ - 1]
    /\ dying' = IF ref_count[f] = 1 THEN dying \cup {f} ELSE dying
    /\ UNCHANGED <<heap, take, put, stuck>>

(* Slip: frame_heap_put stays where it is. *)
put_frame_stays(f) ==
    /\ f \in dying /\ ~ stuck
    /\ dying' = dying \ {f}
    /\ IF heap[put] # NULL
       THEN stuck' = TRUE /\ UNCHANGED heap
       ELSE heap' = [heap EXCEPT ![put] = f] /\ UNCHANGED stuck
    /\ UNCHANGED <<take, put, ref_count>>

(* the rest of the last unref_frame; an occupied slot at put is reported   *)
(* and the function returns with frame_heap_mutex locked                   *)
put_frame(f) ==
    /\ f \in dying /\ ~ stuck
    /\ dying' = dying \ {f}
    /\ IF heap[put] # NULL
       THEN stuck' = TRUE /\ UNCHANGED <<heap, put>>
       ELSE /\ heap' = [heap EXCEPT ![put] = f]
            /\ put' = next(put)
            /\ UNCHANGED stuck
    /\ UNCHANGED <<take, ref_count>>

(* Callers own a reference when they take or drop one. *)
HeapNext == \E f \in Frames :
            \/ new_frame(f)
            \/ ref_count[f] \in 1..(MaxRef - 1) /\ ref_frame(f)
            \/ unref_frame(f)
            \/ put_frame(f)

HeapSpec == HeapInit /\ [][HeapNext]_heapVars

-----------------------------------------------------------------------------
InHeap == {f \in Frames : \E i \in Slot : heap[i] = f}

(* A frame is in the heap, on its way there, or referenced: never in two   *)
(* of these places, never in none, never in two slots.  (unref_frame puts  *)
(* a frame back once per life; a second time would hand one buffer to two  *)
(* owners.)                                                                *)
FramePlaces ==
    /\ \A f \in Frames : ref_count[f] > 0 <=> f \notin InHeap \cup dying
    /\ InHeap \cap dying = {}
    /\ \A i, j \in Slot : heap[i] = heap[j] /\ heap[i] # NULL => i = j

(* A frame on its way back always finds the slot at frame_heap_put empty:  *)
(* the "Ack!  There is a frame at frame_heap_put!" path of unref_frame,    *)
(* which returns without unlocking frame_heap_mutex and would hang every   *)
(* thread at its next frame, is never taken.                               *)
NeverStuck == /\ ~ stuck
              /\ dying # {} => heap[put] = NULL

(* new_frame fails only when every buffer of the heap is out.              *)
FailsOnlyWhenAllOut == heap[take] = NULL => InHeap = {}

=============================================================================
