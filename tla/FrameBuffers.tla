---------------------------- MODULE FrameBuffers ----------------------------
(***************************************************************************)
(* The frame buffers of the server (src/spook/frame.c), which frame heap,  *)
(* frame exchanger and media pipeline share.                               *)
(***************************************************************************)
EXTENDS Naturals, FiniteSets

CONSTANTS Frames,   \* the buffers init_frame_heap allocates
          NULL

ASSUME FramesAssumption == IsFiniteSet(Frames) /\ Frames # {} /\ NULL \notin Frames

=============================================================================
