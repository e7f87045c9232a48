----------------------------- MODULE Exchanger -----------------------------
(***************************************************************************)
(* The frame exchanger of src/spook/frame.c with its two users: the master *)
(* is the event loop, which puts empty frames into a ring of slots and     *)
(* reads filled ones back; the slave is the video capture thread           *)
(* (src/spook/input-v4l2.c capture_loop), which fills the frame of the     *)
(* slot it stands at.  A byte in a pipe tells the master that the next     *)
(* slot has been delivered.  The master's accesses are made under the      *)
(* exchanger's mutex; deliver_frame, on the slave's side, takes no lock.   *)
(* Both ends of the pipe belong to the process and are never closed, so    *)
(* the paths for a failing read or write of it are left out.               *)
(***************************************************************************)
EXTENDS FrameBuffers, Functions

CONSTANTS Slots,      \* new_exchanger( slots )
          MayRunOut   \* may new_frame return NULL to get_back_frame?

ASSUME SlotsAssumption == Slots \in Nat \ {0}
ASSUME MayRunOutAssumption == MayRunOut \in BOOLEAN

Ring == 0..(Slots - 1)
\* slot->next in the circular list
succ(i) == IF i = Slots - 1 THEN 0 ELSE i + 1

VARIABLES
    slot,         \* slot[i].f
    pending,      \* slot[i].pending: the frame waits for the slave
    slave_cur,    \* the slot the slave works on
    master_read,  \* the slot the master reads next
    master_write, \* the slot the master fills next
    bytes,        \* bytes in the pipe
    spc,          \* where the capture thread is
    mpc,          \* where the event loop is
    taken,        \* the frame the master took out, get_back_frame's f
    fresh,        \* what new_frame returned to get_back_frame
    dropped       \* frames forgotten by a full exchanger

ring == <<slot, pending, slave_cur, master_read, master_write, bytes>>
master == <<mpc, taken, fresh>>
exchangerVars == <<ring, spc, master, dropped>>

ExTypeOK ==
    /\ slot \in [Ring -> Frames \cup {NULL}]
    /\ pending \in [Ring -> BOOLEAN]
    /\ slave_cur \in Ring /\ master_read \in Ring /\ master_write \in Ring
    /\ bytes \in Nat
    /\ spc \in {"get", "encode", "deliver", "write", "advance"}
    /\ taken \in Frames \cup {NULL}
    /\ fresh \in Frames \cup {NULL}
    /\ dropped \subseteq Frames

(* new_exchanger and the exchange_frame calls of v4l2's end_block: when    *)
(* the capture thread starts there is a frame in every slot.               *)
ExInit ==
    /\ slot \in [Ring -> Frames]
    /\ IsInjective(slot)
    /\ pending = [i \in Ring |-> TRUE]
    /\ slave_cur = 0 /\ master_read = 0 /\ master_write = 0
    /\ bytes = 0
    /\ spc = "get"
    /\ mpc = "loop"
    /\ taken = NULL /\ fresh = NULL
    /\ dropped = {}

-----------------------------------------------------------------------------
(* select() reports the pipe readable: event_loop calls exchanger_read. *)
exchanger_ready ==
    /\ mpc = "loop" /\ bytes > 0
    /\ mpc' = "read"
    /\ UNCHANGED <<ring, spc, taken, fresh, dropped>>

(* Slip: the slot keeps the frame that is read. *)
exchanger_read_keeps ==
    /\ mpc = "read" /\ bytes > 0
    /\ bytes' = bytes - 1
    /\ taken' = slot[master_read]
    /\ master_read' = succ(master_read)
    /\ mpc' = "new_frame"
    /\ UNCHANGED <<slot, pending, slave_cur, master_write, spc, fresh, dropped>>

(* One turn of exchanger_read: a byte was read, the frame at master_read   *)
(* leaves the ring and get_back_frame is called with it.                   *)
exchanger_read ==
    /\ mpc = "read" /\ bytes > 0
    /\ bytes' = bytes - 1
    /\ taken' = slot[master_read]
    /\ slot' = [slot EXCEPT ![master_read] = NULL]
    /\ master_read' = succ(master_read)
    /\ mpc' = "new_frame"
    /\ UNCHANGED <<pending, slave_cur, master_write, spc, fresh, dropped>>

(* read() says EAGAIN: back to the event loop. *)
exchanger_read_done ==
    /\ mpc = "read" /\ bytes = 0
    /\ mpc' = "loop"
    /\ UNCHANGED <<ring, spc, taken, fresh, dropped>>

(* Slip: pending is not set again. *)
exchange_frame_idle(x) ==
    IF slot[master_write] # NULL
    THEN /\ dropped' = dropped \cup ({x} \ {NULL})
         /\ UNCHANGED ring
    ELSE /\ slot' = [slot EXCEPT ![master_write] = x]
         /\ master_write' = succ(master_write)
         /\ UNCHANGED <<pending, slave_cur, master_read, bytes, dropped>>

(* exchange_frame( ex, x ): "Exchanger is full, dropping frame!" when the  *)
(* slot at master_write is occupied, and the caller's frame is forgotten.  *)
(* x may be NULL: get_back_frame passes on what new_frame returned.        *)
exchange_frame(x) ==
    IF slot[master_write] # NULL
    THEN /\ dropped' = dropped \cup ({x} \ {NULL})
         /\ UNCHANGED ring
    ELSE /\ slot' = [slot EXCEPT ![master_write] = x]
         /\ pending' = [pending EXCEPT ![master_write] = TRUE]
         /\ master_write' = succ(master_write)
         /\ UNCHANGED <<slave_cur, master_read, bytes, dropped>>

(* get_back_frame of input-v4l2.c: exchange_frame( conf->ex, new_frame() ) *)
get_back_frame_exchange ==
    /\ mpc = "exchange"
    /\ exchange_frame(fresh)
    /\ fresh' = NULL
    /\ mpc' = "to_stream"
    /\ UNCHANGED <<spc, taken>>

-----------------------------------------------------------------------------
(* Slip: a pending NULL is returned like a frame. *)
get_next_frame_null ==
    /\ spc = "get"
    /\ pending[slave_cur]
    /\ spc' = "encode"
    /\ UNCHANGED <<ring, master, dropped>>

(* get_next_frame( ex, 0 ) returns a frame; with none the thread polls. *)
get_next_frame ==
    /\ spc = "get"
    /\ pending[slave_cur] /\ slot[slave_cur] # NULL
    /\ spc' = "encode"
    /\ UNCHANGED <<ring, master, dropped>>

(* ak_venc_get_stream has a picture, which is copied into the frame. *)
encode ==
    /\ spc = "encode"
    /\ spc' = "deliver"
    /\ UNCHANGED <<ring, master, dropped>>

(* ak_venc_get_stream fails: the thread sleeps and asks for the frame again. *)
encode_fails ==
    /\ spc = "encode"
    /\ spc' = "get"
    /\ UNCHANGED <<ring, master, dropped>>

(* Slip: the frame stays marked as pending. *)
deliver_frame_pending ==
    /\ spc = "deliver"
    /\ spc' = "write"
    /\ UNCHANGED <<ring, master, dropped>>

(* deliver_frame in three steps, no mutex held.  slot[slave_cur] keeps the *)
(* frame get_next_frame found there.                                       *)
deliver_frame ==
    /\ spc = "deliver"
    /\ pending' = [pending EXCEPT ![slave_cur] = FALSE]
    /\ spc' = "write"
    /\ UNCHANGED <<slot, slave_cur, master_read, master_write, bytes,
                   master, dropped>>

deliver_write ==
    /\ spc = "write"
    /\ bytes' = bytes + 1
    /\ spc' = "advance"
    /\ UNCHANGED <<slot, pending, slave_cur, master_read, master_write,
                   master, dropped>>

deliver_advance ==
    /\ spc = "advance"
    /\ slave_cur' = succ(slave_cur)
    /\ spc' = "get"
    /\ UNCHANGED <<slot, pending, master_read, master_write, bytes,
                   master, dropped>>

Slave == \/ get_next_frame \/ encode \/ encode_fails
         \/ deliver_frame \/ deliver_write \/ deliver_advance

-----------------------------------------------------------------------------
(* The rest of the server, as far as the exchanger sees it: new_frame      *)
(* returns a frame nobody uses, or NULL; deliver_frame_to_stream lets go   *)
(* of the frame taken.  Module MediaPipeline has the real ones.            *)
Unused == Frames \ (Range(slot) \cup {taken} \cup dropped)

supply_frame(x) ==
    /\ mpc = "new_frame"
    /\ x \in Unused \cup (IF MayRunOut THEN {NULL} ELSE {})
    /\ fresh' = x
    /\ mpc' = "exchange"
    /\ UNCHANGED <<ring, spc, taken, dropped>>

deliver_frame_to_stream ==
    /\ mpc = "to_stream"
    /\ taken' = NULL
    /\ mpc' = "read"
    /\ UNCHANGED <<ring, spc, fresh, dropped>>

Master == \/ exchanger_ready \/ exchanger_read \/ exchanger_read_done
          \/ (\E x \in Frames \cup {NULL} : supply_frame(x))
          \/ get_back_frame_exchange
          \/ deliver_frame_to_stream

ExNext == Master \/ Slave

(* Both threads keep running; the encoder does not fail for ever. *)
ExFairness == /\ WF_exchangerVars(Master) /\ WF_exchangerVars(Slave)
              /\ SF_exchangerVars(encode)

ExSpec == ExInit /\ [][ExNext]_exchangerVars
ExFairSpec == ExSpec /\ ExFairness

-----------------------------------------------------------------------------
(* Frames are exchanged one for one: exchange_frame never finds the ring   *)
(* full, so no frame is ever lost to the "Exchanger is full, dropping      *)
(* frame!" path (which forgets the frame without unref_frame).             *)
NeverDropped == /\ dropped = {}
                /\ mpc = "exchange" => slot[master_write] = NULL

(* A byte in the pipe announces a delivered frame at master_read: the      *)
(* master never takes NULL (get_back_frame would pass it to the stream)    *)
(* and never takes a frame the slave has not delivered.  And deliver_frame *)
(* may work on its slot without the mutex, because from get_next_frame     *)
(* until the byte is written the master can neither take that slot's frame *)
(* nor write that slot.                                                    *)
BytesAnnounceFrames ==
    /\ ExTypeOK
    /\ bytes > 0 => slot[master_read] # NULL /\ ~ pending[master_read]
    /\ mpc \in {"new_frame", "exchange", "to_stream"} => taken # NULL
    /\ spc \in {"encode", "deliver", "write"} =>
          /\ slot[slave_cur] # NULL
          /\ bytes > 0 => master_read # slave_cur
          /\ mpc \in {"new_frame", "exchange"} => master_write # slave_cur

(* Unless new_frame once fails get_back_frame, the capture thread is given *)
(* a frame again and again and what it delivers comes back to the master.  *)
CaptureNeverStarves ==
    \/ []<>(spc = "deliver") /\ []<>(mpc = "to_stream")
    \/ <>(mpc = "exchange" /\ fresh = NULL)

(* The slave stands at a slot whose pending frame is NULL. *)
Starved == spc = "get" /\ pending[slave_cur] /\ slot[slave_cur] = NULL

(* A NULL that new_frame returned to get_back_frame is exchanged like a    *)
(* frame.  When the slave reaches it, capture_loop polls for ever: no      *)
(* later step of either thread takes it out again.                         *)
StarvationIsPermanent == [][Starved => Starved']_exchangerVars

=============================================================================

