--------------------------- MODULE MCConnBuffers ---------------------------
(* The two sides of a connection share nothing but its descriptor: a        *)
(* behaviour is one of the sending or of the receiving side.                *)
EXTENDS SendRing, Requests

VARIABLE side

\* As on the wire, the head tells the length of the body.  The longest
\* message does not fit into an empty ring.
MCMessages == {[head |-> <<0, n>>, body |-> [i \in 1..n |-> 1 + (i % 3)]] : n \in 0..4}

\* The longest does not fit into the request buffer, the next shorter only
\* without base64.
MCRequested == [kind : {"request"}, len : {5, 6, 7, 8}] \cup
               [kind : {"packet"}, len : {4, 5}] \cup
               [kind : {"malformed"}, len : {4}]

MCInit ==
    \/ side = "send" /\ Init /\ ReqInit /\ ~ tunnel
    \/ side = "receive" /\ Init /\ ring.send_buf = [p \in Place |-> 0] /\ ReqInit

MCSend == side = "send" /\ Next /\ UNCHANGED <<reqVars, side>>
MCReceive == side = "receive" /\ ReqNext /\ UNCHANGED <<vars, side>>

MCSpec == MCInit /\ [][MCSend \/ MCReceive]_<<vars, reqVars, side>>

=============================================================================
