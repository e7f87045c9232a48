------------------------------ MODULE SendRing ------------------------------
(***************************************************************************)
(* The ring buffer of a connection in src/spook/tcp.c: replies and         *)
(* interleaved packets go in, each in two or more pieces, and conn_write   *)
(* moves what is there to the socket, as much at a time as the socket      *)
(* takes.  Module TcpConn has the connections around it.                   *)
(***************************************************************************)
EXTENDS Integers, Sequences

CONSTANTS Size,       \* sizeof( send_buf )
          Byte,
          Messages    \* what is sent: records with a head and a body

ASSUME SendRingAssumption ==
    /\ Size \in Nat \ {0}
    /\ Messages \subseteq [head : Seq(Byte), body : Seq(Byte)]

VARIABLES
    ring,          \* send_buf, send_buf_r and send_buf_w of the connection
    up,            \* whether there is a connection
    write_event,   \* whether its write event is enabled
    writing        \* conn_write is in its loop

vars == <<ring, up, write_event, writing>>

Place == 0..(Size - 1)
Ring == [send_buf : [Place -> Byte], send_buf_r : Place, send_buf_w : Place]

(* After the last place comes the first. *)
wrap(p) == IF p >= Size THEN p - Size ELSE p

(* Bytes between two positions, going round. *)
ahead(p, q) == wrap(q + Size - p)

TypeOK ==
    /\ ring \in Ring
    /\ up \in BOOLEAN /\ write_event \in BOOLEAN /\ writing \in BOOLEAN

(* No connection yet; memory from malloc holds anything. *)
Init ==
    /\ ring \in [send_buf : [Place -> Byte], send_buf_r : {0}, send_buf_w : {0}]
    /\ up = FALSE /\ write_event = FALSE /\ writing = FALSE

do_accept ==
    /\ ~up /\ up' = TRUE
    /\ ring' = [ring EXCEPT !.send_buf_r = 0, !.send_buf_w = 0]
    /\ write_event' = FALSE
    /\ UNCHANGED writing

-----------------------------------------------------------------------------
avail_send_buf(r) ==
    IF r.send_buf_r > r.send_buf_w
    THEN r.send_buf_r - r.send_buf_w - 1
    ELSE Size - r.send_buf_w + r.send_buf_r - 1

(* The bytes of d are stored from send_buf_w on, going round; d is left    *)
(* out when there is no room for it.                                       *)
send_data(r, d) ==
    IF avail_send_buf(r) < Len(d) THEN r
    ELSE [r EXCEPT
            !.send_buf = [p \in Place |->
                LET n == ahead(r.send_buf_w, p)
                IN  IF n < Len(d) THEN d[n + 1] ELSE r.send_buf[p]],
            !.send_buf_w = wrap(r.send_buf_w + Len(d))]

(* Slip: the room is checked without the head. *)
send_message_body(m) ==
    /\ up /\ ~writing
    /\ IF avail_send_buf(ring) < Len(m.body)
       THEN UNCHANGED <<ring, write_event>>
       ELSE /\ ring' = send_data(send_data(ring, m.head), m.body)
            /\ write_event' = TRUE
    /\ UNCHANGED <<up, writing>>

(* interleave_send, and tcp_send_pmsg with the send_data for the body that *)
(* its callers do when it succeeds: the room for everything is checked     *)
(* first, then head and body are sent on their own.                        *)
send_message(m) ==
    /\ up /\ ~writing
    /\ IF avail_send_buf(ring) < Len(m.head) + Len(m.body)
       THEN UNCHANGED <<ring, write_event>>
       ELSE /\ ring' = send_data(send_data(ring, m.head), m.body)
            /\ write_event' = TRUE
    /\ UNCHANGED <<up, writing>>

-----------------------------------------------------------------------------
(* The event loop calls conn_write, which does not return before the ring  *)
(* is empty or the connection is gone.                                     *)
conn_write ==
    /\ up /\ write_event /\ ~writing
    /\ writing' = TRUE
    /\ UNCHANGED <<ring, up, write_event>>

(* The bytes that lie in one piece at send_buf_r. *)
chunk(r) == IF r.send_buf_w < r.send_buf_r
            THEN Size - r.send_buf_r
            ELSE r.send_buf_w - r.send_buf_r

(* write() takes n bytes.  (With EAGAIN the loop sleeps and goes on.)      *)
conn_write_some(n) ==
    /\ writing /\ n \in 1..chunk(ring)
    /\ ring' = [ring EXCEPT !.send_buf_r = wrap(ring.send_buf_r + n)]
    /\ UNCHANGED <<up, write_event, writing>>

(* write() fails, and the connection is dropped. *)
conn_write_fails ==
    /\ writing /\ ring.send_buf_r # ring.send_buf_w
    /\ up' = FALSE /\ writing' = FALSE
    /\ UNCHANGED <<ring, write_event>>

(* All is written: back to waiting, or, after a last reply, dropped. *)
conn_write_done ==
    /\ writing /\ ring.send_buf_r = ring.send_buf_w
    /\ writing' = FALSE
    /\ \/ write_event' = FALSE /\ UNCHANGED up
       \/ up' = FALSE /\ UNCHANGED write_event
    /\ UNCHANGED ring

(* Dropped from do_read. *)
drop_conn ==
    /\ up /\ ~writing /\ up' = FALSE
    /\ UNCHANGED <<ring, write_event, writing>>

Next == \/ do_accept \/ drop_conn
        \/ \E m \in Messages : send_message(m)
        \/ conn_write \/ conn_write_fails \/ conn_write_done
        \/ \E n \in 1..Size : conn_write_some(n)

Spec == Init /\ [][Next]_vars

-----------------------------------------------------------------------------
(* The bytes between send_buf_r and send_buf_w, in their order. *)
used(r) == ahead(r.send_buf_r, r.send_buf_w)
Unsent(r) == [i \in 1..used(r) |-> r.send_buf[wrap(r.send_buf_r + i - 1)]]

B == INSTANCE ByteStream WITH
        Capacity <- Size - 1,
        Content <- {m.head \o m.body : m \in Messages},
        stream <- IF up THEN Unsent(ring) ELSE <<>>

(* The ring with its two positions, its wrapped and partial writes and its *)
(* messages in two pieces is a byte stream of Size - 1 bytes: nothing is   *)
(* lost, repeated or reordered, and no head goes out without its body (the *)
(* client would take what comes next for the body).                        *)
ImplementsByteStream == B!Spec

=============================================================================
