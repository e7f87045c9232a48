---------------------------- MODULE BoundedFifo ----------------------------
(***************************************************************************)
(* What a soft queue promises its users (src/spook/event.c): a first-in    *)
(* first-out queue of at most Capacity items between any number of         *)
(* producer threads and one consumer, the event loop.  A producer that     *)
(* finds the queue full is told so and keeps its item.  The consumer has   *)
(* one item at a time in its hands (out).                                  *)
(***************************************************************************)
EXTENDS Naturals, Sequences

CONSTANTS Capacity,  \* how many items the queue holds
          Item,      \* what producers put in it
          NoItem     \* the consumer is not handling an item

VARIABLES q,         \* the items waiting, oldest first
          out        \* the item the consumer is handling, or NoItem

vars == <<q, out>>

TypeOK == /\ q \in Seq(Item)
          /\ Len(q) <= Capacity
          /\ out \in Item \cup {NoItem}

Init == q = <<>> /\ out = NoItem

Put(d) == /\ Len(q) < Capacity
          /\ q' = Append(q, d)
          /\ UNCHANGED out

Get == /\ out = NoItem
       /\ q # <<>>
       /\ out' = Head(q)
       /\ q' = Tail(q)

Done == /\ out # NoItem
        /\ out' = NoItem
        /\ UNCHANGED q

Next == (\E d \in Item : Put(d)) \/ Get \/ Done

Spec == Init /\ [][Next]_vars /\ WF_vars(Get) /\ WF_vars(Done)

=============================================================================
