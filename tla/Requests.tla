------------------------------ MODULE Requests ------------------------------
(***************************************************************************)
(* The receiving side of a connection in src/spook/tcp.c: do_read puts     *)
(* what read() returns behind what is in req_buf, decodes it when it comes *)
(* through the HTTP tunnel, and hands whole requests and interleaved       *)
(* packets on.  TCP cuts the stream anywhere.  Module SendRing has the     *)
(* other side, TcpConn the connections around both.                        *)
(*                                                                         *)
(* Byte k of the client's message m is <<m, k>>, and so is character k of  *)
(* its base64 form: four of them stand for three bytes, at the end for     *)
(* fewer (padding).  Of the text of a request the end of its first line    *)
(* and its end (the empty line) matter.  An HTTP connection is read like   *)
(* one of RTSP without packets.                                            *)
(***************************************************************************)
EXTENDS Integers, Sequences

CONSTANTS BufSize,   \* sizeof( req_buf ), 4096
          Requested, \* what a client sends: kind "request", "packet" (with a
                     \* '$' and a length in front) or "malformed", and length
          MaxSent    \* bound: messages of a client

ASSUME RequestsAssumption ==
    /\ BufSize \in Nat /\ BufSize > 4 /\ MaxSent \in Nat
    /\ Requested \subseteq
         [kind : {"request", "packet", "malformed"}, len : {n \in Nat : n >= 4}]

VARIABLES
    proto, req_buf,
    enc,       \* the base64_count characters at the end of req_buf
    tunnel,    \* base64_count >= 0
    connected,
    client_msgs,  \* what the client has sent
    wire,      \* what has not been read of it
    \* history: messages handed on (0 for a piece of one that looked like a
    \* request), whether req_buf never had bytes of two messages
    handled, clean

reqVars == <<proto, req_buf, enc, tunnel, connected, client_msgs, wire, handled, clean>>

req_len == Len(req_buf) + Len(enc)

(* do_accept; or handle_QT_tunnel for a GET, which makes it an RTSP        *)
(* connection whose bytes are base64.                                      *)
ReqInit ==
    /\ tunnel \in BOOLEAN
    /\ proto = IF tunnel THEN "RTSP" ELSE "START"
    /\ req_buf = <<>> /\ enc = <<>> /\ connected = TRUE
    /\ client_msgs = <<>> /\ wire = <<>> /\ handled = <<>> /\ clean = TRUE

-----------------------------------------------------------------------------
Junk == <<0, 1>>          \* what comes of characters of two groups

BytesOf(m, len) == [k \in 1..len |-> <<m, k>>]

(* Behind the base64 form comes a character that is not part of it, a line *)
(* break: <<m, 0>>.                                                        *)
CharsOf(len) == 4 * ((len + 2) \div 3)
Base64Of(m, len) == Append([k \in 1..CharsOf(len) |-> <<m, k>>], <<m, 0>>)
IsBreak(c) == c[2] = 0

(* The client sends a message, without waiting for the end of the last.    *)
(* Packets only come on RTSP connections, after a request.                 *)
ClientSends(msg) ==
    LET m == Len(client_msgs) + 1 IN
    /\ connected /\ m <= MaxSent
    /\ msg.kind = "packet" => m > 1
    /\ client_msgs' = Append(client_msgs, msg)
    /\ wire' = wire \o (IF tunnel THEN Base64Of(m, msg.len) ELSE BytesOf(m, msg.len))
    /\ UNCHANGED <<proto, req_buf, enc, tunnel, connected, handled, clean>>

(* One group of four characters. *)
Group(g) ==
    LET m == g[1][1]
        q == (g[1][2] - 1) \div 4
        len == client_msgs[m].len
    IN  IF \A j \in 1..4 : g[j] = <<m, 4 * q + j>>
        THEN [k \in 1..(IF 3 * q + 3 > len THEN len - 3 * q ELSE 3) |-> <<m, 3 * q + k>>]
        ELSE <<Junk, Junk, Junk>>

(* One character: the fourth of a group completes it. *)
Taken(was, c) ==
    LET group == Append(was.rest, c) IN
    IF IsBreak(c) THEN was
    ELSE IF Len(group) < 4 THEN [was EXCEPT !.rest = group]
    ELSE [bytes |-> was.bytes \o Group(group), rest |-> <<>>]

(* Slip: the characters of an unfinished group are dropped. *)
unbase64_drops(chars) ==
    LET upto[k \in 0..Len(chars)] ==
          IF k = 0 THEN [bytes |-> <<>>, rest |-> <<>>] ELSE Taken(upto[k - 1], chars[k])
    IN  [upto[Len(chars)] EXCEPT !.rest = <<>>]

(* unbase64: whole groups are decoded, the rest is kept. *)
unbase64(chars) ==
    LET upto[k \in 0..Len(chars)] ==
          IF k = 0 THEN [bytes |-> <<>>, rest |-> <<>>] ELSE Taken(upto[k - 1], chars[k])
    IN  upto[Len(chars)]

-----------------------------------------------------------------------------
IsText(b) == b[1] > 0 /\ client_msgs[b[1]].kind # "packet"
HasLine(buf) == \E k \in DOMAIN buf : IsText(buf[k]) /\ buf[k][2] = 2
HasEnd(buf) == \E k \in DOMAIN buf :
                 IsText(buf[k]) /\ buf[k][2] = client_msgs[buf[k][1]].len
IsDollar(b) == b[1] > 0 /\ b[2] = 1 /\ client_msgs[b[1]].kind = "packet"

(* What parse_client_data finds in the buffer once proto is known: nothing *)
(* whole yet, a packet, or a request.                                      *)
Whole(buf) ==
    /\ Len(buf) >= 4
    /\ IF IsDollar(buf[1]) THEN Len(buf) >= client_msgs[buf[1][1]].len
       ELSE HasEnd(buf)

(* The message the buffer begins with, 0 when it begins inside of one. *)
Sent(buf) == IF buf[1][2] = 1 /\ buf[1] # Junk THEN buf[1][1] ELSE 0

(* parse_pmsg accepts the buffer.  A piece of a request may look like one. *)
Accepted(buf) ==
    IF Sent(buf) > 0 THEN {client_msgs[Sent(buf)].kind # "malformed"} ELSE BOOLEAN

(* parse_client_data until it returns 0 or less, for a buffer buf: the     *)
(* protocol is taken from the first line, which may be malformed; what is  *)
(* whole is handed on and all of the buffer is discarded; a request that   *)
(* parse_pmsg rejects ends the connection.                                 *)
parse_client_data(buf) ==
    \/ /\ proto = "START" /\ HasLine(buf) /\ client_msgs[1].kind = "malformed"
       /\ connected' = FALSE /\ req_buf' = buf /\ UNCHANGED <<proto, handled>>
    \/ /\ proto' = IF HasLine(buf) THEN "RTSP" ELSE proto
       /\ IF proto' = "START" \/ ~ Whole(buf)
          THEN req_buf' = buf /\ UNCHANGED <<connected, handled>>
          ELSE \E ok \in Accepted(buf) :
                 /\ req_buf' = <<>>
                 /\ connected' = ok
                 /\ handled' = IF ok THEN Append(handled, Sent(buf)) ELSE handled

OneMessage(bytes) == \A j, k \in DOMAIN bytes : bytes[j][1] = bytes[k][1]

(* One round of do_read: read() returns n bytes.  A buffer that is full    *)
(* ends the connection; nothing is parsed while a group is unfinished.     *)
do_read(n) ==
    LET new == SubSeq(wire, 1, n)
        un == IF tunnel THEN unbase64(enc \o new) ELSE [bytes |-> new, rest |-> <<>>]
        buf == req_buf \o un.bytes
        len == Len(buf) + Len(un.rest)
    IN  /\ connected /\ n <= BufSize - req_len - 1
        /\ wire' = SubSeq(wire, n + 1, Len(wire))
        /\ enc' = un.rest
        /\ clean' = (clean /\ OneMessage(buf \o un.rest))
        /\ IF len = BufSize - 1
           THEN req_buf' = buf /\ connected' = FALSE /\ UNCHANGED <<proto, handled>>
           ELSE IF un.rest # <<>>
           THEN req_buf' = buf /\ UNCHANGED <<proto, connected, handled>>
           ELSE parse_client_data(buf)
        /\ UNCHANGED <<tunnel, client_msgs>>

ReqNext == \/ \E msg \in Requested : ClientSends(msg)
           \/ \E n \in DOMAIN wire : do_read(n)

ReqSpec == ReqInit /\ [][ReqNext]_reqVars

-----------------------------------------------------------------------------
(* Messages that do not fit: the buffer is full with them, or - in the     *)
(* tunnel, where the last characters need room before they are decoded -   *)
(* nearly.                                                                 *)
TooLong(len) ==
    IF tunnel THEN 3 * ((len - 1) \div 3) + 4 > BufSize - 1
              ELSE len >= BufSize - 1

(* However TCP cuts the stream, base64 or not: as long as no read brought  *)
(* bytes of the next message too, the messages handed on are those the     *)
(* client sent, whole and in order; once all is read all are handed on;    *)
(* and the connection is dropped only for a malformed or too long message. *)
(* When a read does bring bytes behind a message they are discarded with   *)
(* it ("should really just delete the request from the buffer"): the next  *)
(* message is lost, or its end is taken for a request.  Even then every    *)
(* request acted on as sent is whole, in order and acted on once.          *)
RequestsSurviveCuts ==
    /\ clean =>
        /\ handled = [m \in 1..Len(handled) |-> m]
        /\ \A k \in DOMAIN req_buf : req_buf[k] = <<Len(handled) + 1, k>>
        /\ connected /\ wire = <<>> => Len(handled) = Len(client_msgs)
        /\ ~ connected =>
             LET m == client_msgs[Len(handled) + 1]
             IN  m.kind = "malformed" \/ TooLong(m.len)
    /\ \A j, k \in DOMAIN handled :
         j < k /\ handled[j] > 0 /\ handled[k] > 0 => handled[j] < handled[k]
    /\ \A j \in DOMAIN handled :
         handled[j] > 0 => client_msgs[handled[j]].kind # "malformed"
    /\ \A k \in DOMAIN req_buf : k > 1 /\ req_buf[1] # Junk =>
         \/ req_buf[k] = <<req_buf[k - 1][1], req_buf[k - 1][2] + 1>>
         \/ /\ req_buf[k - 1][2] = client_msgs[req_buf[k - 1][1]].len
            /\ req_buf[k] = <<req_buf[k - 1][1] + 1, 1>>

=============================================================================
