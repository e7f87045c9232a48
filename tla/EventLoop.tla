----------------------------- MODULE EventLoop -----------------------------
(***************************************************************************)
(* The descriptor events of src/spook/event.c.  A pass of event_loop marks *)
(* the enabled events as running, asks select() about their descriptors,   *)
(* calls the running events whose descriptor was reported and at the end   *)
(* strips the events marked for removal.  Callbacks add, remove, enable    *)
(* and disable events, their own and others', in the middle of a pass.     *)
(*                                                                         *)
(* Timed and always events use the same flags; a pass calls them before    *)
(* the descriptor events.  They are left out here, as is EVENT_F_ONESHOT,  *)
(* which no descriptor event of the program has.  A pass goes through the  *)
(* list from its head, where events are added; the order is left open.     *)
(***************************************************************************)
EXTENDS Naturals, FiniteSets

CONSTANTS Events,   \* addresses for a struct event
          NULL

VARIABLES
    fd_event_list,  \* fd_event_list[e]: the event at e, NULL when not listed
    enabled,        \* EVENT_F_ENABLED
    running,        \* reported events with EVENT_F_RUNNING, not yet called
    remove,         \* EVENT_F_REMOVE
    cur,            \* the event whose callback runs, NULL between callbacks
    pc              \* where the event loop is

loopVars == <<fd_event_list, enabled, running, remove, cur, pc>>
flags == <<fd_event_list, enabled, running, remove>>

Listed == {e \in Events : fd_event_list[e] # NULL}

(* The descriptor an event is about, and whether it waits to write. *)
Watch(e) == <<fd_event_list[e].fd, fd_event_list[e].write>>

(* The enabled events are marked and select() returns with the descriptors *)
(* R in rfds and wfds: the marked events among them will be called unless  *)
(* they lose the mark.  After a timeout or an error (R = {}) no descriptor *)
(* event is called in this pass.                                           *)
select(R) ==
    /\ pc = "select"
    /\ R \subseteq {Watch(e) : e \in enabled}
    /\ running' = {e \in enabled : Watch(e) \in R}
    /\ pc' = "dispatch"
    /\ UNCHANGED <<fd_event_list, enabled, remove, cur>>

call(e) ==
    /\ pc = "dispatch" /\ e \in running
    /\ running' = running \ {e}
    /\ cur' = e
    /\ pc' = "callback"
    /\ UNCHANGED <<fd_event_list, enabled, remove>>

(* The end of a pass: strip_events( &fd_event_list ).  The code does not   *)
(* free the event; here its name may be used again from now on.            *)
strip_events ==
    /\ pc = "dispatch" /\ running = {}
    /\ fd_event_list' = [e \in Events |->
                            IF e \in remove THEN NULL ELSE fd_event_list[e]]
    /\ remove' = {}
    /\ pc' = "select"
    /\ UNCHANGED <<enabled, running, cur>>

(* Slip: remove_event leaves the running flag alone. *)
change_events_running(added, removed, on, off) ==
    LET new == DOMAIN added IN
    /\ fd_event_list' = [e \in Events |->
                            IF e \in new THEN added[e] ELSE fd_event_list[e]]
    /\ enabled' = ((enabled \cup new \cup on) \ off) \ removed
    /\ remove' = remove \cup removed
    /\ UNCHANGED running

(* What a callback does to events: add_fd_event for the events in the      *)
(* domain of added, then set_event_enabled for on and off, then            *)
(* remove_event for those in removed.                                      *)
change_events(added, removed, on, off) ==
    LET new == DOMAIN added IN
    /\ fd_event_list' = [e \in Events |->
                            IF e \in new THEN added[e] ELSE fd_event_list[e]]
    /\ enabled' = ((enabled \cup new \cup on) \ off) \ removed
    /\ running' = running \ removed
    /\ remove' = remove \cup removed

=============================================================================
