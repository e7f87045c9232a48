--------------------------- MODULE MediaPipeline ---------------------------
(***************************************************************************)
(* The media path of the spook server: the capture threads, the event loop *)
(* and the one frame heap they share.                                      *)
(*                                                                         *)
(*   video: capture thread -exchanger-> get_back_frame -> stream           *)
(*          "compressed" -> live                                           *)
(*   audio: audio thread -soft queue-> get_back_frame -> stream "pcm" ->   *)
(*          A-law encoder -> stream "alaw" -> live                         *)
(*                                                                         *)
(* Heap and exchanger are the modules FrameHeap and Exchanger, whose       *)
(* actions are steps of the ones below; the soft queue is used as what     *)
(* SoftQueue is shown to implement, BoundedFifo.                           *)
(* The model starts when the configuration has been read: the exchanger    *)
(* holds its frames and the threads start.                                 *)
(***************************************************************************)
EXTENDS FrameHeap, Exchanger, Sequences

CONSTANT QueueLen   \* cells of the soft queue

VARIABLES q,          \* the audio frames queued for the event loop
          out,        \* the audio frame the event loop is delivering (pcm)
          alaw,       \* the frame alaw_encode fills and delivers
          apc,        \* where the audio capture thread is
          aframe      \* the frame it holds

exVars == <<ring, dropped>>
audioThread == <<apc, aframe>>
vars == <<heapVars, exVars, spc, mpc, taken, fresh, q, out, alaw, apc, aframe>>

A == INSTANCE BoundedFifo WITH Capacity <- QueueLen, Item <- Frames, NoItem <- NULL

ASSUME PipelineAssumption == /\ Slots < Count
                             /\ QueueLen \in Nat \ {0}

TypeOK ==
    /\ HeapTypeOK /\ ExTypeOK /\ A!TypeOK
    /\ bytes <= Slots
    /\ mpc \in {"loop", "read", "new_frame", "exchange", "to_stream", "live",
                "drop", "put", "pcm", "alaw_new", "alaw_unref", "alaw_stream",
                "alaw_live", "alaw_drop", "alaw_put", "pcm_drop", "pcm_put",
                "crashed"}
    /\ apc \in {"fill", "add", "unref", "put"}
    /\ {alaw, aframe} \subseteq Frames \cup {NULL}

(* read_config_file has run: v4l2's end_block has moved the first Slots    *)
(* frames of the heap into the exchanger.                                  *)
Init ==
    /\ \E h \in [Slot -> Frames] :
         /\ \A i, j \in Slot : h[i] = h[j] => i = j
         /\ heap = [i \in Slot |-> IF i < Slots THEN NULL ELSE h[i]]
         /\ slot = [i \in Ring |-> h[i]]
         /\ ref_count = [f \in Frames |->
                            IF \E i \in Ring : h[i] = f THEN 1 ELSE 0]
    /\ take = Slots /\ put = 0 /\ dying = {} /\ stuck = FALSE
    /\ pending = [i \in Ring |-> TRUE]
    /\ slave_cur = 0 /\ master_read = 0 /\ master_write = 0
    /\ bytes = 0 /\ dropped = {}
    /\ spc = "get" /\ mpc = "loop" /\ apc = "fill"
    /\ taken = NULL /\ fresh = NULL /\ alaw = NULL /\ aframe = NULL
    /\ A!Init

-----------------------------------------------------------------------------
(* The video capture thread, and what the event loop does in the exchanger. *)
VideoCapture == /\ Slave
                /\ UNCHANGED <<heapVars, q, out, alaw, audioThread>>

ExchangerStep == /\ \/ exchanger_ready \/ exchanger_read
                    \/ exchanger_read_done \/ get_back_frame_exchange
                 /\ UNCHANGED <<heapVars, q, out, alaw, audioThread>>

(* The argument of exchange_frame in get_back_frame: a frame, or the NULL  *)
(* of an empty heap.                                                       *)
get_back_frame_new ==
    /\ mpc = "new_frame"
    /\ \/ \E f \in Frames : new_frame(f) /\ fresh' = f
       \/ new_frame_fails /\ fresh' = NULL
    /\ mpc' = "exchange"
    /\ UNCHANGED <<exVars, spc, taken, q, out, alaw, audioThread>>

-----------------------------------------------------------------------------
(* deliver_frame_to_stream( f, s ) and the steps of its callers are taken  *)
(* one mutex operation at a time.  A step of the event loop thread moves   *)
(* it from one place to the next and leaves all but the heap alone.        *)
MainUnchanged == UNCHANGED <<exVars, spc, fresh, q, audioThread>>

(* A listening destination is given a reference of its own ... *)
Deliver(f, from, to) ==
    /\ mpc = from /\ mpc' = to
    /\ ref_frame(f)
    /\ MainUnchanged /\ UNCHANGED <<taken, out, alaw>>

(* ... a destination that is not waiting is passed over. *)
PassOver(from, to) ==
    /\ mpc = from /\ mpc' = to
    /\ UNCHANGED heapVars
    /\ MainUnchanged /\ UNCHANGED <<taken, out, alaw>>

Unref(f, from, to) ==
    /\ mpc = from /\ mpc' = to
    /\ unref_frame(f)
    /\ MainUnchanged /\ UNCHANGED <<taken, out, alaw>>

(* Slip: a frame without a waiting destination is not given back. *)
VideoToStream_leaks ==
    \/ Deliver(taken, "to_stream", "live")
    \/ PassOver("to_stream", "read")
    \/ Unref(taken, "live", "drop")
    \/ Unref(taken, "drop", "put")

(* stream "compressed": next_live_frame sends the frame to the playing     *)
(* sessions and drops its reference; then the stream drops its own.        *)
VideoToStream ==
    \/ Deliver(taken, "to_stream", "live")
    \/ PassOver("to_stream", "drop")
    \/ Unref(taken, "live", "drop")
    \/ Unref(taken, "drop", "put")

VideoPut ==
    /\ mpc = "put" /\ mpc' = "read"
    /\ put_frame(taken) /\ taken' = NULL
    /\ MainUnchanged /\ UNCHANGED <<out, alaw>>

(* sq_run takes a queued frame and calls get_back_frame of input-oss.c. *)
AudioGet ==
    /\ mpc = "loop" /\ mpc' = "pcm"
    /\ A!Get
    /\ UNCHANGED <<heapVars, exVars, spc, taken, fresh, alaw, audioThread>>

(* alaw_encode takes new_frame's result for granted: NULL ends the server. *)
alaw_encode_new ==
    /\ mpc = "alaw_new"
    /\ \/ \E f \in Frames : /\ new_frame(f) /\ alaw' = f
                            /\ mpc' = "alaw_unref"
       \/ /\ new_frame_fails /\ UNCHANGED alaw
          /\ mpc' = "crashed"
    /\ MainUnchanged /\ UNCHANGED <<taken, out>>

(* stream "pcm" with the A-law encoder as destination, which delivers its  *)
(* frame to stream "alaw" with the live track as destination.              *)
AudioToStream ==
    \/ Deliver(out, "pcm", "alaw_new")
    \/ PassOver("pcm", "pcm_drop")
    \/ alaw_encode_new
    \/ Unref(out, "alaw_unref", "alaw_stream")
    \/ Deliver(alaw, "alaw_stream", "alaw_live")
    \/ PassOver("alaw_stream", "alaw_drop")
    \/ Unref(alaw, "alaw_live", "alaw_drop")
    \/ Unref(alaw, "alaw_drop", "alaw_put")
    \/ Unref(out, "pcm_drop", "pcm_put")

AlawPut ==
    /\ mpc = "alaw_put" /\ mpc' = "pcm_drop"
    /\ put_frame(alaw) /\ alaw' = NULL
    /\ MainUnchanged /\ UNCHANGED <<taken, out>>

AudioPut ==
    /\ mpc = "pcm_put" /\ mpc' = "loop"
    /\ put_frame(out) /\ A!Done
    /\ UNCHANGED <<exVars, spc, fresh, audioThread, taken, alaw>>

-----------------------------------------------------------------------------
(* The audio thread, audio_ring_input: when a block of samples is complete *)
(* it takes a frame, or drops the block if there is none ...               *)
AudioNew ==
    /\ apc = "fill"
    /\ \/ \E f \in Frames : new_frame(f) /\ aframe' = f /\ apc' = "add"
       \/ new_frame_fails /\ UNCHANGED audioThread
    /\ UNCHANGED <<exVars, spc, mpc, taken, fresh, q, out, alaw>>

(* Slip: the frame is forgotten when the queue is full. *)
AudioAdd_leaks ==
    /\ apc = "add"
    /\ A!Put(aframe) \/ (Len(q) = QueueLen /\ UNCHANGED <<q, out>>)
    /\ aframe' = NULL /\ apc' = "fill"
    /\ UNCHANGED <<heapVars, exVars, spc, mpc, taken, fresh, alaw>>

(* ... and queues it, or gives the frame back when the queue is full. *)
AudioAdd ==
    /\ apc = "add"
    /\ \/ A!Put(aframe) /\ aframe' = NULL /\ apc' = "fill"
       \/ /\ Len(q) = QueueLen
          /\ apc' = "unref" /\ UNCHANGED <<q, out, aframe>>
    /\ UNCHANGED <<heapVars, exVars, spc, mpc, taken, fresh, alaw>>

AudioUnref ==
    /\ apc = "unref" /\ apc' = "put"
    /\ unref_frame(aframe)
    /\ UNCHANGED <<exVars, spc, mpc, taken, fresh, q, out, alaw, aframe>>

AudioReturn ==
    /\ apc = "put" /\ apc' = "fill"
    /\ put_frame(aframe) /\ aframe' = NULL
    /\ UNCHANGED <<exVars, spc, mpc, taken, fresh, q, out, alaw>>

Main == \/ ExchangerStep \/ get_back_frame_new \/ VideoToStream \/ VideoPut
        \/ AudioGet \/ AudioToStream \/ AlawPut \/ AudioPut
AudioCapture == AudioNew \/ AudioAdd \/ AudioUnref \/ AudioReturn

Next == mpc # "crashed" /\ (VideoCapture \/ Main \/ AudioCapture)

(* The threads keep running, the video encoder does not fail for ever, and *)
(* event_loop, which runs every ready fd in a pass, gets to the exchanger. *)
Fairness == /\ WF_vars(Main) /\ WF_vars(VideoCapture)
            /\ SF_vars(VideoCapture /\ encode)
            /\ SF_vars(ExchangerStep /\ exchanger_ready)

Spec == Init /\ [][Next]_vars
FairSpec == Spec /\ Fairness

-----------------------------------------------------------------------------
(* The places outside slots and queue where a reference may be held: the   *)
(* variables of the callers, and the destinations of a stream while they   *)
(* are delivered to.                                                       *)
Place == {"fresh", "video", "live", "pcm", "encoder", "alaw", "alaw_live", "thread"}
HeldAt(p, f) ==
    \/ p = "fresh" /\ fresh = f
    \/ p = "video" /\ taken = f /\ mpc # "put"
    \/ p = "live" /\ taken = f /\ mpc = "live"
    \/ p = "pcm" /\ out = f /\ mpc # "pcm_put"
    \/ p = "encoder" /\ out = f /\ mpc \in {"alaw_new", "alaw_unref", "crashed"}
    \/ p = "alaw" /\ alaw = f /\ mpc # "alaw_put"
    \/ p = "alaw_live" /\ alaw = f /\ mpc = "alaw_live"
    \/ p = "thread" /\ aframe = f /\ apc # "put"

(* Who holds a reference to f. *)
Holders(f) ==
    {<<"slot", i>> : i \in {i \in Ring : slot[i] = f}}
    \cup {<<"queue", i>> : i \in {i \in 1..Len(q) : q[i] = f}}
    \cup {<<"place", p>> : p \in {p \in Place : HeldAt(p, f)}}

Counted == \A f \in Frames : ref_count[f] = Cardinality(Holders(f))

(* Across both paths and all three threads ref_count counts exactly the    *)
(* references held: no frame leaks, none is freed while someone uses it.   *)
RefCountsExact == TypeOK /\ Counted

(* What the event loop does as the exchanger sees it: a frame is on its    *)
(* way through the stream until the stream's reference is gone, and audio  *)
(* is delivered between two calls of exchanger_read.                       *)
master_pc ==
    CASE mpc \in {"loop", "read", "new_frame", "exchange", "to_stream"} -> mpc
      [] mpc \in {"live", "drop", "put"} -> "to_stream"
      [] OTHER -> "loop"

Ex == INSTANCE Exchanger WITH mpc <- master_pc, MayRunOut <- TRUE

(* On the heap that it shares with audio the video path uses the exchanger *)
(* as module Exchanger has it: get_back_frame is never handed a frame that *)
(* is still in the ring or in the master's hands, and the master reads on  *)
(* only when it has let go of its frame.  So what is shown of the          *)
(* exchanger - nothing dropped, every byte about a frame, a NULL in the    *)
(* ring starves the capture - holds in the server.                         *)
ImplementsExchanger == Ex!ExSpec

(* The event loop finds the heap empty - and then loses the video path or  *)
(* the whole server - only behind a backlog of audio frames: the exchanger *)
(* and the threads alone never use up the heap.  With the built-in         *)
(* configuration (25 frames, 10 slots) it takes 14 queued audio frames to  *)
(* lose the video path and 13 to crash in alaw_encode.                     *)
OutOnlyBehindBacklog ==
    /\ mpc = "new_frame" /\ heap[take] = NULL => Len(q) + Slots + 1 >= Count
    /\ mpc = "alaw_new" /\ heap[take] = NULL => Len(q) + Slots + 2 >= Count

(* A heap of Slots + QueueLen + 3 frames is never exhausted: new_frame     *)
(* succeeds for the audio thread, get_back_frame and alaw_encode, so the   *)
(* server neither crashes nor freezes, whatever the event loop's delays.   *)
HeapSuffices ==
    Count >= Slots + QueueLen + 3 =>
        /\ mpc \in {"new_frame", "alaw_new"} \/ apc = "fill" => heap[take] # NULL
        /\ mpc # "crashed"

(* With such a heap video keeps flowing: the capture thread delivers again *)
(* and again, and the event loop hands on what it delivered.               *)
VideoKeepsFlowing == []<>(spc = "deliver") /\ []<>(mpc = "to_stream")

=============================================================================
