----------------------------- MODULE ByteStream -----------------------------
(***************************************************************************)
(* What the senders of a connection rely on: bytes reach the client in the *)
(* order they were sent, and of a message either all or none are taken.    *)
(***************************************************************************)
EXTENDS Naturals, Sequences

CONSTANTS Capacity,   \* bytes that can be waiting
          Content     \* the messages, sequences of bytes

VARIABLES stream,     \* the bytes not yet written to the socket
          up          \* whether there is a connection

streamVars == <<stream, up>>

Init == stream = <<>> /\ up = FALSE

Open == ~up /\ up' = TRUE /\ stream' = <<>>

Put(m) ==
    /\ up /\ Len(stream) + Len(m) <= Capacity
    /\ stream' = stream \o m
    /\ UNCHANGED up

Take(n) ==
    /\ up /\ n \in 1..Len(stream)
    /\ stream' = SubSeq(stream, n + 1, Len(stream))
    /\ UNCHANGED up

Drop == up /\ up' = FALSE /\ stream' = <<>>

Next == \/ Open \/ Drop
        \/ \E m \in Content : Put(m)
        \/ \E n \in 1..Capacity : Take(n)

Spec == Init /\ [][Next]_streamVars

=============================================================================
