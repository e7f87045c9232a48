----------------------------- MODULE SoftQueue -----------------------------
(***************************************************************************)
(* The soft queue of src/spook/event.c: how a capture thread hands items   *)
(* to the event loop.  A fixed number of cells circulates between the      *)
(* empty list and the list of queued items; one byte in a pipe per queued  *)
(* item makes select() wake the event loop, whose fd callback sq_run takes *)
(* one item per byte and gives it to every registered listener.            *)
(*                                                                         *)
(* Every critical section of the queue's mutex is a step, except that the  *)
(* two system calls that may block while the mutex is held - the write()   *)
(* of soft_queue_add and the read() of sq_run - are steps of their own.    *)
(***************************************************************************)
EXTENDS Naturals, Sequences, FiniteSets, Functions

CONSTANTS Length,      \* new_soft_queue( length ): the number of cells
          PipeCap,     \* bytes the pipe takes before write() blocks
          Producers,   \* threads that call soft_queue_add
          Listeners,   \* events that add_softqueue_event may create
          Oneshot,     \* the listeners created with EVENT_F_ONESHOT
          Data,        \* what is queued
          NoData,      \* NULL
          Main,        \* the thread that runs event_loop
          Nobody,      \* the mutex is free
          PipeFaults   \* may pipe() and read() fail?

ASSUME QueueAssumption ==
    /\ Length \in Nat \ {0}
    /\ PipeCap \in Nat
    /\ Length <= PipeCap
ASSUME ThreadAssumption ==
    /\ Main \notin Producers
    /\ Nobody \notin Producers \cup {Main}
    /\ NoData \notin Data
    /\ Oneshot \subseteq Listeners
    /\ PipeFaults \in BOOLEAN

Cell == 1..Length

VARIABLES
    empty_se_list,  \* cells not in use; add_to_list appends, the head is taken
    se_list,        \* cells in use, oldest first
    event_data,     \* what each cell carries
    ev_list,        \* the registered listeners; their order is left open
    removed,        \* listeners with EVENT_F_REMOVE set
    fd_event,       \* the pipe exists and sq_run is registered for it
    fds,            \* bytes in the pipe
    mutex,          \* the thread that holds sq->mutex
    pc,             \* where the event loop thread is
    todo,           \* the listeners sq_run has still to call for its item
    data,           \* i.data, the item sq_run took
    ppc             \* where each producer is

vars == <<empty_se_list, se_list, event_data, ev_list, removed, fd_event,
          fds, mutex, pc, todo, data, ppc>>
queue == <<empty_se_list, se_list, event_data>>
listeners == <<ev_list, removed, fd_event>>

TypeOK ==
    /\ empty_se_list \in Seq(Cell)
    /\ se_list \in Seq(Cell)
    /\ event_data \in [Cell -> Data \cup {NoData}]
    /\ ev_list \subseteq Listeners
    /\ removed \subseteq Listeners
    /\ fd_event \in BOOLEAN
    /\ fds \in Nat
    /\ mutex \in Producers \cup {Main, Nobody}
    /\ pc \in {"config", "select", "lock", "read", "scan", "callback", "relock"}
    /\ todo \subseteq Listeners
    /\ data \in Data \cup {NoData}
    /\ ppc \in [Producers -> {"idle", "write"}]

-----------------------------------------------------------------------------
(* new_soft_queue: all cells on the empty list, no listener, no pipe. *)
Init ==
    /\ empty_se_list = [i \in Cell |-> i]
    /\ se_list = <<>>
    /\ event_data = [c \in Cell |-> NoData]
    /\ ev_list = {}
    /\ removed = {}
    /\ fd_event = FALSE
    /\ fds = 0
    /\ mutex = Nobody
    /\ pc = "config"
    /\ todo = {}
    /\ data = NoData
    /\ ppc = [p \in Producers |-> "idle"]

(* add_softqueue_event: the first call creates the pipe; when that fails   *)
(* nothing is registered.                                                  *)
(* Called from the configuration code before any producer thread starts,   *)
(* or by a listener while it is being called: the new one goes to the head *)
(* of the list, which sq_run has passed, so it waits for the next item.    *)
add_softqueue_event(l) ==
    /\ pc \in {"config", "callback"}
    /\ mutex = Nobody
    /\ l \notin ev_list \cup removed
    /\ \/ /\ fd_event' = TRUE
          /\ ev_list' = ev_list \cup {l}
       \/ /\ PipeFaults /\ ~ fd_event
          /\ UNCHANGED <<fd_event, ev_list>>
    /\ UNCHANGED <<queue, removed, fds, mutex, pc, todo, data, ppc>>

(* pthread_create and event_loop: the producers run from here on.  The     *)
(* configuration code ignores a failed add_softqueue_event.                *)
start_threads ==
    /\ pc = "config"
    /\ ev_list # {} \/ PipeFaults
    /\ pc' = "select"
    /\ UNCHANGED <<queue, listeners, fds, mutex, todo, data, ppc>>

-----------------------------------------------------------------------------
(* Slip: the event loop is woken only when the queue was empty. *)
soft_queue_add_edge(p, d) ==
    /\ pc # "config"
    /\ mutex = Nobody /\ ppc[p] = "idle"
    /\ empty_se_list # <<>>
    /\ LET se == Head(empty_se_list) IN
         /\ empty_se_list' = Tail(empty_se_list)
         /\ se_list' = Append(se_list, se)
         /\ event_data' = [event_data EXCEPT ![se] = d]
    /\ IF fd_event /\ se_list = <<>>
       THEN /\ mutex' = p
            /\ ppc' = [ppc EXCEPT ![p] = "write"]
       ELSE UNCHANGED <<mutex, ppc>>
    /\ UNCHANGED <<listeners, fds, pc, todo, data>>

(* soft_queue_add up to the wake-up: with no empty cell it returns -1;     *)
(* otherwise a cell moves to the tail of se_list.  With no pipe the wake-up *)
(* is a condition variable nobody waits on.                                *)
soft_queue_add(p, d) ==
    /\ pc # "config"
    /\ mutex = Nobody /\ ppc[p] = "idle"
    /\ empty_se_list # <<>>
    /\ LET se == Head(empty_se_list) IN
         /\ empty_se_list' = Tail(empty_se_list)
         /\ se_list' = Append(se_list, se)
         /\ event_data' = [event_data EXCEPT ![se] = d]
    /\ IF fd_event THEN /\ mutex' = p
                        /\ ppc' = [ppc EXCEPT ![p] = "write"]
                   ELSE UNCHANGED <<mutex, ppc>>
    /\ UNCHANGED <<listeners, fds, pc, todo, data>>

(* write( sq->fds[1], &c, 1 ), still under the mutex; blocks on a full pipe. *)
write_byte(p) ==
    /\ ppc[p] = "write"
    /\ fds < PipeCap
    /\ fds' = fds + 1
    /\ mutex' = Nobody
    /\ ppc' = [ppc EXCEPT ![p] = "idle"]
    /\ UNCHANGED <<queue, listeners, pc, todo, data>>

-----------------------------------------------------------------------------
(* select() reports the read end readable and event_loop calls sq_run. *)
select ==
    /\ pc = "select"
    /\ fd_event /\ fds > 0
    /\ pc' = "lock"
    /\ UNCHANGED <<queue, listeners, fds, mutex, todo, data, ppc>>

sq_run_lock ==
    /\ pc = "lock" /\ mutex = Nobody
    /\ mutex' = Main
    /\ pc' = "read"
    /\ UNCHANGED <<queue, listeners, fds, todo, data, ppc>>

(* Slip: the cell is not given back to the empty list. *)
locked_get_next_event_leaks ==
    /\ data' = IF se_list = <<>> THEN NoData ELSE event_data[Head(se_list)]
    /\ se_list' = IF se_list = <<>> THEN se_list ELSE Tail(se_list)
    /\ UNCHANGED <<empty_se_list, event_data>>

(* Slip: the newest item is taken first. *)
locked_get_next_event_newest ==
    /\ se_list # <<>>
    /\ LET se == se_list[Len(se_list)] IN
         /\ data' = event_data[se]
         /\ se_list' = SubSeq(se_list, 1, Len(se_list) - 1)
         /\ empty_se_list' = Append(empty_se_list, se)
    /\ UNCHANGED event_data

(* locked_get_next_event, on the unprimed state: NULL if nothing is queued. *)
locked_get_next_event ==
    IF se_list = <<>>
    THEN data' = NoData /\ UNCHANGED queue
    ELSE LET se == Head(se_list) IN
           /\ data' = event_data[se]
           /\ se_list' = Tail(se_list)
           /\ empty_se_list' = Append(empty_se_list, se)
           /\ UNCHANGED event_data

(* Slip: the byte is only looked at. *)
sq_run_read_peek ==
    /\ pc = "read"
    /\ fds > 0
    /\ locked_get_next_event
    /\ todo' = ev_list
    /\ pc' = "scan"
    /\ UNCHANGED <<listeners, fds, mutex, ppc>>

(* read( sq->fds[0], &c, 1 ) blocks on an empty pipe with the mutex held. *)
sq_run_read ==
    /\ pc = "read"
    /\ fds > 0
    /\ fds' = fds - 1
    /\ locked_get_next_event
    /\ todo' = ev_list
    /\ pc' = "scan"
    /\ UNCHANGED <<listeners, mutex, ppc>>

(* A failing read closes the pipe: the queue is never served again. *)
sq_run_read_error ==
    /\ pc = "read" /\ PipeFaults
    /\ fd_event' = FALSE
    /\ fds' = 0
    /\ mutex' = Nobody
    /\ pc' = "select"
    /\ UNCHANGED <<queue, ev_list, removed, todo, data, ppc>>

(* The next listener is called with the mutex released. *)
sq_run_call(l) ==
    /\ pc = "scan" /\ l \in todo
    /\ todo' = todo \ {l}
    /\ removed' = removed \cup ({l} \cap Oneshot)
    /\ mutex' = Nobody
    /\ pc' = "callback"
    /\ UNCHANGED <<queue, ev_list, fd_event, fds, data, ppc>>

(* The listener returns; sq_run goes on once it has the mutex again. *)
sq_run_return ==
    /\ pc = "callback"
    /\ pc' = "relock"
    /\ UNCHANGED <<queue, listeners, fds, mutex, todo, data, ppc>>

sq_run_relock ==
    /\ pc = "relock" /\ mutex = Nobody
    /\ mutex' = Main
    /\ pc' = "scan"
    /\ UNCHANGED <<queue, listeners, fds, todo, data, ppc>>

(* Slip: listeners marked for removal stay on the list. *)
strip_events_none == UNCHANGED ev_list

(* strip_events( &sq->ev_list ) *)
strip_events == ev_list' = ev_list \ removed

(* Slip: the handler goes round again without asking select(). *)
sq_run_strip_again ==
    /\ pc = "scan" /\ todo = {}
    /\ strip_events
    /\ mutex' = Nobody
    /\ data' = NoData
    /\ pc' = "lock"
    /\ UNCHANGED <<queue, removed, fd_event, fds, todo, ppc>>

sq_run_strip ==
    /\ pc = "scan" /\ todo = {}
    /\ strip_events
    /\ mutex' = Nobody
    /\ data' = NoData
    /\ pc' = "select"
    /\ UNCHANGED <<queue, removed, fd_event, fds, todo, ppc>>

Next ==
    \/ \E l \in Listeners : add_softqueue_event(l)
    \/ start_threads
    \/ \E p \in Producers, d \in Data : soft_queue_add(p, d)
    \/ \E p \in Producers : write_byte(p)
    \/ select \/ sq_run_lock \/ sq_run_read \/ sq_run_read_error
    \/ (\E l \in Listeners : sq_run_call(l))
    \/ sq_run_return \/ sq_run_relock \/ sq_run_strip

MainStep == \/ start_threads \/ select \/ sq_run_read
            \/ \E l \in Listeners : sq_run_call(l)
            \/ sq_run_return \/ sq_run_strip

(* The event loop and a started write() do not stop; a thread that keeps   *)
(* asking for the mutex gets it, for every holder soon releases it.        *)
Fairness == /\ WF_vars(MainStep)
            /\ SF_vars(sq_run_lock) /\ SF_vars(sq_run_relock)
            /\ \A p \in Producers : WF_vars(write_byte(p))

Spec == Init /\ [][Next]_vars
FairSpec == Spec /\ Fairness

-----------------------------------------------------------------------------
(* The producers between taking a cell and writing the byte for it. *)
Writing == {p \in Producers : ppc[p] = "write"}

(* Cells are neither lost nor in two places: empty_se_list and se_list     *)
(* (event.c remove_from_list, add_to_list) always share out all of them.   *)
CellsConserved ==
    /\ Len(empty_se_list) + Len(se_list) = Length
    /\ Range(empty_se_list) \cup Range(se_list) = Cell

(* Each queued item has exactly one wake-up byte in the pipe, or a producer *)
(* that holds the mutex and is about to write it: fewer would strand items *)
(* in the queue, more would make sq_run take items that are not there.     *)
WakeupPerItem == fd_event => Len(se_list) = fds + Cardinality(Writing)

(* The two system calls made with the mutex held never block, so a stuck   *)
(* read() in the event loop or write() in a capture thread cannot hang the *)
(* server: when sq_run has been called there is a byte to read, and a      *)
(* producer at its write() finds room in the pipe.                         *)
NeverBlocksInMutex == /\ pc \in {"lock", "read"} => fds > 0
                      /\ Writing # {} => fds < PipeCap

(* A listener is never called with NULL: get_back_frame of input-oss.c     *)
(* dereferences what it is given.                                          *)
NoNullItem == pc \in {"scan", "callback", "relock"} => data # NoData

(* A listener registered with EVENT_F_ONESHOT is not called a second time. *)
OneshotOnce ==
    [][\A l \in Listeners : sq_run_call(l) => l \notin removed]_vars

(* While the pipe works, what a producer has queued is eventually taken by *)
(* the event loop and its cell is free again.                              *)
EveryItemServed ==
    \A c \in Cell : (c \in Range(se_list)) ~> (c \in Range(empty_se_list))

(* The soft queue is a bounded first-in first-out queue of the event loop. *)
Fifo == INSTANCE BoundedFifo WITH
            Capacity <- Length, Item <- Data, NoItem <- NoData,
            q <- [i \in 1..Len(se_list) |-> event_data[se_list[i]]],
            out <- data
ImplementsFifo == Fifo!Spec

=============================================================================
