------------------------- MODULE ConnBuffersProofs -------------------------
(***************************************************************************)
(* The buffers of a TCP connection.  The send ring implements the byte     *)
(* stream, for every size of the ring and every set of messages; and what  *)
(* a client sends is handed on whole and in order however TCP cuts it, for *)
(* every size of req_buf and every length and number of messages, plain or *)
(* base64.                                                                 *)
(***************************************************************************)
EXTENDS SendRing, Requests, SequenceTheorems, WellFoundedInduction, TLAPS

(***************************************************************************)
(* The send ring.                                                          *)
(***************************************************************************)
(* conn_write only runs for a connection. *)
Inv == TypeOK /\ (writing => up)

-----------------------------------------------------------------------------
(* Positions stay inside send_buf. *)
LEMMA Positions ==
    ASSUME NEW p \in Place, NEW q \in Place
    PROVE  ahead(p, q) \in Place /\ wrap(p + ahead(p, q)) = q
BY SendRingAssumption DEF Place, ahead, wrap

(* Going n places on from the end, while there is room. *)
LEMMA EndMoves ==
    ASSUME NEW p \in Place, NEW q \in Place, NEW n \in Nat, ahead(p, q) + n < Size
    PROVE  /\ wrap(q + n) \in Place
           /\ ahead(p, wrap(q + n)) = ahead(p, q) + n
BY SendRingAssumption DEF Place, ahead, wrap

(* Going n places on from the start, at most up to the end and not beyond  *)
(* the last place.                                                         *)
LEMMA StartMoves ==
    ASSUME NEW p \in Place, NEW q \in Place,
           NEW n \in 1..(IF q < p THEN Size - p ELSE q - p)
    PROVE  /\ n \in 1..ahead(p, q) /\ ahead(p, q) \in Place
           /\ wrap(p + n) \in Place /\ ahead(wrap(p + n), q) = ahead(p, q) - n
           /\ \A i \in 1..(ahead(p, q) - n) :
                 wrap(wrap(p + n) + i - 1) = wrap(p + (n + i) - 1)
BY SendRingAssumption DEF Place, ahead, wrap

(* Where the i-th place after p lies as seen from q. *)
LEMMA SeenFrom ==
    ASSUME NEW p \in Place, NEW q \in Place, NEW i \in 1..(Size - 1)
    PROVE  /\ wrap(p + i - 1) \in Place
           /\ ahead(q, wrap(p + i - 1)) =
                IF i <= ahead(p, q) THEN Size - ahead(p, q) + i - 1
                                    ELSE i - ahead(p, q) - 1
BY SendRingAssumption DEF Place, ahead, wrap

(* avail_send_buf leaves one place free. *)
LEMMA Room ==
    ASSUME NEW r \in Ring
    PROVE  /\ used(r) \in Place
           /\ avail_send_buf(r) = Size - 1 - used(r)
BY SendRingAssumption DEF Ring, Place, used, ahead, wrap, avail_send_buf

(* What is waiting is a sequence of bytes. *)
LEMMA UnsentType ==
    ASSUME NEW r \in Ring
    PROVE  Unsent(r) \in Seq(Byte) /\ Len(Unsent(r)) = used(r)
<1>1. used(r) \in Nat
  BY Room, SendRingAssumption DEF Place
<1>2. ASSUME NEW i \in 1..used(r)
      PROVE  wrap(r.send_buf_r + i - 1) \in Place
  BY Room, SendRingAssumption DEF Ring, Place, wrap
<1>3. ASSUME NEW i \in 1..used(r)
      PROVE  r.send_buf[wrap(r.send_buf_r + i - 1)] \in Byte
  BY <1>2 DEF Ring
<1> QED
  BY <1>1, <1>3 DEF Unsent

(* A send_data that finds room appends its bytes to those waiting. *)
LEMMA SendAppends ==
    ASSUME NEW r \in Ring, NEW d \in Seq(Byte), Len(d) <= avail_send_buf(r)
    PROVE  /\ send_data(r, d) \in Ring
           /\ used(send_data(r, d)) = used(r) + Len(d)
           /\ Unsent(send_data(r, d)) = Unsent(r) \o d
<1> DEFINE s == send_data(r, d)
           R == r.send_buf_r
           W == r.send_buf_w
<1>0. /\ Size \in Nat \ {0} /\ R \in Place /\ W \in Place
      /\ r.send_buf \in [Place -> Byte]
      /\ Len(d) \in Nat /\ Len(d) < Size
  BY Room, SendRingAssumption DEF Ring, Place
<1>1. s = [r EXCEPT
            !.send_buf = [p \in Place |->
                IF ahead(W, p) < Len(d) THEN d[ahead(W, p) + 1] ELSE r.send_buf[p]],
            !.send_buf_w = wrap(W + Len(d))]
  BY <1>0, Room, ~(avail_send_buf(r) < Len(d)) DEF send_data, Place
<1>2. ASSUME NEW p \in Place
      PROVE  (IF ahead(W, p) < Len(d) THEN d[ahead(W, p) + 1] ELSE r.send_buf[p]) \in Byte
  <2>1. ahead(W, p) \in Nat
    <3>1. ahead(W, p) \in Place
      BY <1>0, Positions
    <3> QED BY <1>0, <3>1 DEF Place
  <2>2. CASE ahead(W, p) < Len(d)
    <3>1. ahead(W, p) + 1 \in 1..Len(d)
      BY <1>0, <2>1, <2>2
    <3> QED BY <2>2, <3>1
  <2>3. CASE ~(ahead(W, p) < Len(d))
    BY <1>0, <2>3
  <2> QED BY <2>2, <2>3
<1>3. used(r) = ahead(R, W) /\ used(r) \in Nat /\ used(r) + Len(d) < Size
  BY <1>0, Room DEF used, Place
<1>4. wrap(W + Len(d)) \in Place /\ ahead(R, wrap(W + Len(d))) = used(r) + Len(d)
  BY <1>0, <1>3, EndMoves
<1>5. s \in Ring
  BY <1>1, <1>2, <1>4 DEF Ring
<1>6. /\ s.send_buf_r = R /\ s.send_buf_w = wrap(W + Len(d))
      /\ \A p \in Place : s.send_buf[p] =
            IF ahead(W, p) < Len(d) THEN d[ahead(W, p) + 1] ELSE r.send_buf[p]
  BY <1>1 DEF Ring
<1>7. used(s) = used(r) + Len(d)
  BY <1>4, <1>6 DEF used
<1> HIDE DEF s, R, W
<1>8. ASSUME NEW i \in 1..used(s)
      PROVE  s.send_buf[wrap(R + i - 1)]
               = IF i <= used(r) THEN r.send_buf[wrap(R + i - 1)] ELSE d[i - used(r)]
  <2>1. /\ wrap(R + i - 1) \in Place
        /\ ahead(W, wrap(R + i - 1)) = IF i <= used(r) THEN Size - used(r) + i - 1
                                                      ELSE i - used(r) - 1
    BY <1>0, <1>3, <1>7, SeenFrom
  <2>2. CASE i <= used(r)
    <3>1. ~(ahead(W, wrap(R + i - 1)) < Len(d))
      BY <1>0, <1>3, <2>1, <2>2
    <3> QED BY <1>6, <2>1, <2>2, <3>1
  <2>3. CASE ~(i <= used(r))
    <3>1. /\ ahead(W, wrap(R + i - 1)) < Len(d)
          /\ ahead(W, wrap(R + i - 1)) + 1 = i - used(r)
      BY <1>0, <1>3, <1>7, <2>1, <2>3
    <3> QED BY <1>6, <2>1, <2>3, <3>1
  <2> QED BY <2>2, <2>3
<1>9. Unsent(s) = Unsent(r) \o d
  <2> DEFINE U == Unsent(r)
  <2>1. U \in Seq(Byte) /\ Len(U) = used(r)
    BY UnsentType
  <2>2. \A i \in 1..used(r) : U[i] = r.send_buf[wrap(R + i - 1)]
    BY DEF Unsent, R
  <2>3. Unsent(s) = [i \in 1..used(s) |-> s.send_buf[wrap(R + i - 1)]]
    BY <1>6 DEF Unsent
  <2> HIDE DEF U
  <2>4. /\ U \o d \in Seq(Byte) /\ Len(U \o d) = Len(U) + Len(d)
        /\ \A i \in 1..(Len(U) + Len(d)) :
              (U \o d)[i] = IF i <= Len(U) THEN U[i] ELSE d[i - Len(U)]
    BY <2>1, ConcatProperties
  <2>5. Unsent(s) \in Seq(Byte) /\ Len(Unsent(s)) = used(s)
    BY <1>5, UnsentType
  <2>6. ASSUME NEW i \in 1..used(s)
        PROVE  Unsent(s)[i] = (U \o d)[i]
    <3>1. i <= used(r) => i \in 1..used(r)
      BY <1>0, <1>3, <1>7
    <3>2. s.send_buf[wrap(R + i - 1)] = IF i <= Len(U) THEN U[i] ELSE d[i - Len(U)]
      BY <1>8, <2>1, <2>2, <3>1
    <3>3. (U \o d)[i] = IF i <= Len(U) THEN U[i] ELSE d[i - Len(U)]
      BY <1>7, <2>1, <2>4
    <3> QED BY <2>3, <3>2, <3>3
  <2>7. Unsent(s) = U \o d
    BY <1>7, <2>1, <2>4, <2>5, <2>6, SeqEqual
  <2> QED BY <2>7 DEF U
<1>10. s \in Ring /\ used(s) = used(r) + Len(d) /\ Unsent(s) = Unsent(r) \o d
  BY <1>5, <1>7, <1>9
<1> QED BY <1>10 DEF s

(* A write() of n bytes of the piece at send_buf_r takes the first n. *)
LEMMA WriteTakes ==
    ASSUME NEW r \in Ring, NEW n \in 1..chunk(r)
    PROVE  LET s == [r EXCEPT !.send_buf_r = wrap(r.send_buf_r + n)]
           IN  /\ s \in Ring /\ n <= used(r)
               /\ Unsent(s) = SubSeq(Unsent(r), n + 1, Len(Unsent(r)))
<1> DEFINE s == [r EXCEPT !.send_buf_r = wrap(r.send_buf_r + n)]
           R == r.send_buf_r
           W == r.send_buf_w
           U == Unsent(r)
<1>0. Size \in Nat \ {0} /\ R \in Place /\ W \in Place /\ n \in Nat
  BY SendRingAssumption DEF Ring, Place, chunk
<1>1. /\ n \in 1..ahead(R, W) /\ ahead(R, W) \in Place
      /\ wrap(R + n) \in Place /\ ahead(wrap(R + n), W) = ahead(R, W) - n
      /\ \A i \in 1..(ahead(R, W) - n) : wrap(wrap(R + n) + i - 1) = wrap(R + (n + i) - 1)
  BY <1>0, StartMoves DEF chunk
<1>2. /\ s \in Ring /\ s.send_buf_r = wrap(R + n)
      /\ s.send_buf_w = W /\ s.send_buf = r.send_buf
  BY <1>1 DEF Ring
<1>3. used(r) = ahead(R, W) /\ used(s) = used(r) - n /\ used(r) \in Nat /\ n <= used(r)
  BY <1>0, <1>1, <1>2 DEF used, Place
<1>4. /\ U \in Seq(Byte) /\ Len(U) = used(r)
      /\ Unsent(s) \in Seq(Byte) /\ Len(Unsent(s)) = used(s)
  BY <1>2, UnsentType
<1>5. /\ Unsent(s) = [i \in 1..used(s) |-> r.send_buf[wrap(wrap(R + n) + i - 1)]]
      /\ U = [i \in 1..used(r) |-> r.send_buf[wrap(R + i - 1)]]
  BY <1>2 DEF Unsent
<1> HIDE DEF s, R, W, U
<1>6. /\ SubSeq(U, n + 1, Len(U)) \in Seq(Byte)
      /\ Len(SubSeq(U, n + 1, Len(U))) = Len(U) - n
      /\ \A i \in 1..(Len(U) - n) : SubSeq(U, n + 1, Len(U))[i] = U[n + i]
  BY <1>0, <1>3, <1>4
<1>7. ASSUME NEW i \in 1..used(s)
      PROVE  Unsent(s)[i] = SubSeq(U, n + 1, Len(U))[i]
  <2>1. n + i \in 1..used(r) /\ i \in 1..(Len(U) - n)
    BY <1>0, <1>3, <1>4
  <2>2. Unsent(s)[i] = r.send_buf[wrap(R + (n + i) - 1)]
    BY <1>1, <1>3, <1>5
  <2>3. U[n + i] = r.send_buf[wrap(R + (n + i) - 1)]
    BY <1>5, <2>1
  <2> QED BY <1>6, <2>1, <2>2, <2>3
<1>8. Unsent(s) = SubSeq(U, n + 1, Len(U))
  BY <1>3, <1>4, <1>6, <1>7, SeqEqual
<1>9. s \in Ring /\ n <= used(r) /\ Unsent(s) = SubSeq(U, n + 1, Len(U))
  BY <1>2, <1>3, <1>8
<1> QED BY <1>9 DEF s, U

-----------------------------------------------------------------------------
(* Head and body, sent one after the other into a ring with room for both, *)
(* are appended as one message.                                            *)
LEMMA MessageAppends ==
    ASSUME NEW r \in Ring, NEW h \in Seq(Byte), NEW b \in Seq(Byte),
           ~(avail_send_buf(r) < Len(h) + Len(b))
    PROVE  LET s == send_data(send_data(r, h), b)
           IN  /\ s \in Ring
               /\ Unsent(s) = Unsent(r) \o (h \o b)
               /\ Len(Unsent(r)) + Len(h \o b) <= Size - 1
<1> DEFINE t == send_data(r, h)
           s == send_data(t, b)
<1>2. Len(h) \in Nat /\ Len(b) \in Nat
  OBVIOUS
<1>3. used(r) \in Nat /\ avail_send_buf(r) = Size - 1 - used(r) /\ Size \in Nat
  BY Room, SendRingAssumption DEF Place
<1>4. Len(h) <= avail_send_buf(r)
  BY <1>2, <1>3
<1>5. t \in Ring /\ used(t) = used(r) + Len(h) /\ Unsent(t) = Unsent(r) \o h
  BY <1>4, SendAppends
<1> HIDE DEF t
<1>6. Len(b) <= avail_send_buf(t)
  <2>1. avail_send_buf(t) = Size - 1 - used(t)
    BY <1>5, Room
  <2> QED BY <1>2, <1>3, <1>5, <2>1
<1>7. s \in Ring /\ Unsent(s) = Unsent(t) \o b
  BY <1>5, <1>6, SendAppends
<1> HIDE DEF s
<1>8. Unsent(r) \in Seq(Byte) /\ Len(Unsent(r)) = used(r)
  BY UnsentType
<1>9. Unsent(s) = Unsent(r) \o (h \o b)
  BY <1>5, <1>7, <1>8, ConcatAssociative
<1>10. Len(Unsent(r)) + Len(h \o b) <= Size - 1
  <2>1. Len(h \o b) = Len(h) + Len(b)
    BY ConcatProperties
  <2> QED BY <1>2, <1>3, <1>8, <2>1
<1> QED BY <1>7, <1>9, <1>10 DEF s, t

-----------------------------------------------------------------------------
(* send_buf has a first place. *)
LEMMA FirstPlace == 0 \in Place
BY SendRingAssumption DEF Place

(* The parts of a message are sequences of bytes. *)
LEMMA MessageParts ==
    ASSUME NEW m \in Messages
    PROVE  m.head \in Seq(Byte) /\ m.body \in Seq(Byte)
BY SendRingAssumption

(* Inv holds at the start. *)
LEMMA InitInv == Init => Inv
BY FirstPlace DEF Init, Inv, TypeOK, Ring

(* Every step keeps Inv. *)
LEMMA NextInv == Inv /\ [Next]_vars => Inv'
<1> SUFFICES ASSUME Inv, [Next]_vars PROVE Inv'
  OBVIOUS
<1>0. ring \in Ring /\ up \in BOOLEAN /\ write_event \in BOOLEAN /\ writing \in BOOLEAN
  BY DEF Inv, TypeOK
<1>1. CASE do_accept
  <2>1. ring' \in Ring
    BY <1>0, <1>1, FirstPlace DEF do_accept, Ring
  <2> QED BY <1>0, <1>1, <2>1 DEF do_accept, Inv, TypeOK
<1>2. CASE drop_conn
  BY <1>0, <1>2 DEF drop_conn, Inv, TypeOK
<1>3. ASSUME NEW m \in Messages, send_message(m) PROVE Inv'
  <2>1. ring' \in Ring
    BY <1>0, <1>3, MessageAppends, MessageParts DEF send_message
  <2> QED BY <1>0, <1>3, <2>1 DEF send_message, Inv, TypeOK
<1>4. CASE conn_write
  BY <1>0, <1>4 DEF conn_write, Inv, TypeOK
<1>5. CASE conn_write_fails
  BY <1>0, <1>5 DEF conn_write_fails, Inv, TypeOK
<1>6. CASE conn_write_done
  BY <1>0, <1>6 DEF conn_write_done, Inv, TypeOK
<1>7. ASSUME NEW n \in 1..Size, conn_write_some(n) PROVE Inv'
  <2>1. ring' \in Ring
    BY <1>0, <1>7, WriteTakes DEF conn_write_some
  <2> QED BY <1>0, <1>7, <2>1 DEF conn_write_some, Inv, TypeOK
<1>8. CASE UNCHANGED vars
  BY <1>8 DEF vars, Inv, TypeOK
<1> QED
  BY <1>1, <1>2, <1>3, <1>4, <1>5, <1>6, <1>7, <1>8 DEF Next

(* The ring keeps its types, and both positions stay inside send_buf, for  *)
(* every size and all messages.                                            *)
THEOREM TypeCorrect == Spec => []TypeOK
<1>1. Inv => TypeOK
  BY DEF Inv
<1> QED BY InitInv, NextInv, <1>1, PTL DEF Spec

-----------------------------------------------------------------------------
(* Every step of the ring is a step of the byte stream or leaves it alone. *)
LEMMA StepSimulates == Inv /\ [Next]_vars => [B!Next]_(B!streamVars)
<1> SUFFICES ASSUME Inv, [Next]_vars PROVE [B!Next]_(B!streamVars)
  OBVIOUS
<1>0. /\ ring \in Ring /\ up \in BOOLEAN /\ (writing => up)
      /\ Unsent(ring) \in Seq(Byte) /\ Len(Unsent(ring)) = used(ring)
      /\ used(ring) \in Place
  BY UnsentType, Room DEF Inv, TypeOK
<1>1. CASE do_accept
  <2>1. Unsent(ring') = <<>>
    BY <1>0, <1>1, SendRingAssumption DEF do_accept, Unsent, used, ahead, wrap, Ring
  <2>2. B!Open
    BY <1>1, <2>1 DEF do_accept, B!Open
  <2> QED BY <2>2 DEF B!Next
<1>2. CASE drop_conn
  <2>1. B!Drop
    BY <1>2 DEF drop_conn, B!Drop
  <2> QED BY <2>1 DEF B!Next
<1>3. ASSUME NEW m \in Messages, send_message(m) PROVE [B!Next]_(B!streamVars)
  <2>1. CASE avail_send_buf(ring) < Len(m.head) + Len(m.body)
    BY <1>3, <2>1 DEF send_message, B!streamVars
  <2>2. CASE ~(avail_send_buf(ring) < Len(m.head) + Len(m.body))
    <3>1. /\ Unsent(ring') = Unsent(ring) \o (m.head \o m.body)
          /\ Len(Unsent(ring)) + Len(m.head \o m.body) <= Size - 1
      <4>1. ring' = send_data(send_data(ring, m.head), m.body)
        BY <1>3, <2>2 DEF send_message
      <4> QED BY <1>0, <2>2, <4>1, MessageAppends, MessageParts
    <3>2. B!Put(m.head \o m.body)
      BY <1>3, <3>1 DEF send_message, B!Put
    <3> QED BY <3>2 DEF B!Next
  <2> QED BY <2>1, <2>2
<1>4. CASE conn_write
  BY <1>4 DEF conn_write, B!streamVars
<1>5. CASE conn_write_fails
  <2>1. B!Drop
    BY <1>0, <1>5 DEF conn_write_fails, B!Drop
  <2> QED BY <2>1 DEF B!Next
<1>6. CASE conn_write_done
  <2>1. CASE UNCHANGED up
    BY <1>6, <2>1 DEF conn_write_done, B!streamVars
  <2>2. CASE up' = FALSE
    <3>1. B!Drop
      BY <1>0, <1>6, <2>2 DEF conn_write_done, B!Drop
    <3> QED BY <3>1 DEF B!Next
  <2> QED BY <1>6, <2>1, <2>2 DEF conn_write_done
<1>7. ASSUME NEW n \in 1..Size, conn_write_some(n) PROVE [B!Next]_(B!streamVars)
  <2>1. /\ n <= used(ring)
        /\ Unsent(ring') = SubSeq(Unsent(ring), n + 1, Len(Unsent(ring)))
    BY <1>0, <1>7, WriteTakes DEF conn_write_some
  <2>2. n \in 1..Len(Unsent(ring)) /\ n \in 1..(Size - 1)
    BY <1>0, <2>1, SendRingAssumption DEF Place
  <2>3. B!Take(n)
    BY <1>0, <1>7, <2>1, <2>2 DEF conn_write_some, B!Take
  <2> QED BY <2>2, <2>3 DEF B!Next
<1>8. CASE UNCHANGED vars
  BY <1>8 DEF vars, B!streamVars
<1> QED
  BY <1>1, <1>2, <1>3, <1>4, <1>5, <1>6, <1>7, <1>8 DEF Next

(* The ring of a connection implements the byte stream its senders rely    *)
(* on, for every size of the ring and all messages: no byte is lost,       *)
(* repeated or reordered and no message is torn.                           *)
THEOREM RingIsByteStream == Spec => ImplementsByteStream
<1>1. Init => B!Init
  BY DEF Init, B!Init
<1> QED
  BY InitInv, NextInv, StepSimulates, <1>1, PTL
  DEF Spec, ImplementsByteStream, B!Spec

-----------------------------------------------------------------------------
\* Induction on a set of numbers, from the well-founded order of Nat.
LEMMA Induction ==
    ASSUME NEW P, 0 \in P, \A n \in Nat : n \in P => n + 1 \in P
    PROVE  \A n \in Nat : n \in P
<1> SUFFICES ASSUME Nat \ P # {} PROVE FALSE
  OBVIOUS
<1>2. PICK x \in Nat \ P : \A y \in Nat \ P : ~ (<<y, x>> \in OpToRel(<, Nat))
  BY NatLessThanWellFounded, WFMin
<1>3. \A y \in Nat \ P : ~ (y < x)
  BY <1>2 DEF OpToRel
<1>4. x # 0 /\ x - 1 \in Nat
  OBVIOUS
<1>5. x - 1 \in P
  BY <1>3, <1>4
<1> QED
  BY <1>4, <1>5

(***************************************************************************)
(* Bytes and characters in the order the client sends them.                *)
(***************************************************************************)
(* The byte behind all that was sent, and the byte behind a byte. *)
End(msgs) == <<Len(msgs) + 1, 1>>
IsSent(msgs, b) == b[1] \in 1..Len(msgs) /\ b[2] \in 1..msgs[b[1]].len
After(msgs, b) == IF b[2] = msgs[b[1]].len THEN <<b[1] + 1, 1>> ELSE <<b[1], b[2] + 1>>

(* The same for the characters of the tunnel. *)
IsChar(msgs, c) == c[1] \in 1..Len(msgs) /\ c[2] \in 0..CharsOf(msgs[c[1]].len)
Behind(msgs, c) ==
    IF c[2] = 0 THEN <<c[1] + 1, 1>>
    ELSE IF c[2] = CharsOf(msgs[c[1]].len) THEN <<c[1], 0>>
    ELSE <<c[1], c[2] + 1>>

Pairs == Nat \X Nat
Msgs == Seq([kind : {"request", "packet", "malformed"}, len : {n \in Nat : n >= 4}])

(* Element k of s with b at its end. *)
Elem(s, b, k) == IF k <= Len(s) THEN s[k] ELSE b

(* Each element of s is linked to the next, and the last to b. *)
Linked(R, s, b) ==
    /\ s \in Seq(Pairs) /\ b \in Pairs
    /\ \A k \in 1..Len(s) : <<s[k], Elem(s, b, k + 1)>> \in R

(* The bytes of s are those that were sent before b, without a gap; and so *)
(* the characters of s.                                                    *)
NextByte(msgs) ==
    {p \in Pairs \X Pairs : IsSent(msgs, p[1]) /\ p[2] = After(msgs, p[1])}
NextChar(msgs) ==
    {p \in Pairs \X Pairs : IsChar(msgs, p[1]) /\ p[2] = Behind(msgs, p[1])}
Upto(msgs, s, b) == Linked(NextByte(msgs), s, b)
UptoChar(msgs, s, c) == Linked(NextChar(msgs), s, c)

(* Where to go on: byte b is the next; of its group the characters of rest *)
(* have been read, and c is the next character.                            *)
At(msgs, b, rest, c) ==
    \E m \in 1..(Len(msgs) + 1), q \in Nat :
      /\ b = <<m, 3 * q + 1>> /\ Len(rest) < 4
      /\ \A i \in 1..Len(rest) : rest[i] = <<m, 4 * q + i>>
      /\ m <= Len(msgs) => 3 * q < msgs[m].len
      /\ m = Len(msgs) + 1 => q = 0 /\ rest = <<>>
      /\ \/ c = <<m, 4 * q + Len(rest) + 1>>
         \/ c = <<m - 1, 0>> /\ m > 1 /\ q = 0 /\ rest = <<>>

-----------------------------------------------------------------------------
(* Two pieces that follow each other. *)
LEMMA Join ==
    ASSUME NEW R, NEW s, NEW t, NEW b, Linked(R, t, b), Linked(R, s, Elem(t, b, 1))
    PROVE  Linked(R, s \o t, b) /\ Elem(s \o t, b, 1) = Elem(s, Elem(t, b, 1), 1)
<1>1. s \in Seq(Pairs) /\ t \in Seq(Pairs) /\ b \in Pairs
  BY DEF Linked
<1> DEFINE u == s \o t
<1>2. /\ u \in Seq(Pairs) /\ Len(u) = Len(s) + Len(t) /\ Len(s) \in Nat /\ Len(t) \in Nat
      /\ \A k \in 1..Len(s) : u[k] = s[k]
      /\ \A k \in 1..Len(t) : u[Len(s) + k] = t[k]
  BY <1>1
<1> HIDE DEF u
<1>3. ASSUME NEW k \in 1..Len(u) PROVE <<u[k], Elem(u, b, k + 1)>> \in R
  <2>1. CASE k < Len(s)
    <3>1. k \in 1..Len(s) /\ k + 1 \in 1..Len(s)
      BY <2>1, <1>2
    <3>2. <<s[k], s[k + 1]>> \in R
      BY <3>1, <1>2 DEF Linked, Elem
    <3>3. Elem(u, b, k + 1) = s[k + 1]
      BY <3>1, <1>2 DEF Elem
    <3> QED BY <3>1, <3>2, <3>3, <1>2
  <2>2. CASE k = Len(s)
    <3>1. k \in 1..Len(s) /\ ~ (k + 1 <= Len(s))
      BY <2>2, <1>2
    <3>2. <<s[k], Elem(t, b, 1)>> \in R
      BY <3>1, <1>2 DEF Linked, Elem
    <3>3. Elem(u, b, k + 1) = Elem(t, b, 1)
      BY <2>2, <1>2 DEF Elem
    <3> QED BY <3>1, <3>2, <3>3, <1>2
  <2>3. CASE k > Len(s)
    <3> DEFINE j == k - Len(s)
    <3>1. j \in 1..Len(t) /\ Len(s) + j = k /\ Len(s) + (j + 1) = k + 1
      BY <2>3, <1>2
    <3> HIDE DEF j
    <3>2. <<t[j], Elem(t, b, j + 1)>> \in R
      BY <3>1 DEF Linked
    <3>3. Elem(u, b, k + 1) = Elem(t, b, j + 1)
      <4>1. CASE j + 1 <= Len(t)
        <5>1. j + 1 \in 1..Len(t) /\ k + 1 <= Len(u)
          BY <4>1, <3>1, <1>2
        <5> QED BY <5>1, <4>1, <3>1, <1>2 DEF Elem
      <4>2. CASE ~ (j + 1 <= Len(t))
        <5>1. ~ (k + 1 <= Len(u))
          BY <4>2, <3>1, <1>2
        <5> QED BY <5>1, <4>2 DEF Elem
      <4> QED BY <4>1, <4>2
    <3>4. u[k] = t[j]
      BY <3>1, <1>2
    <3> QED BY <3>2, <3>3, <3>4
  <2> QED BY <2>1, <2>2, <2>3, <1>2
<1>4. Elem(u, b, 1) = Elem(s, Elem(t, b, 1), 1)
  <2>1. CASE Len(s) >= 1
    <3>1. 1 \in 1..Len(s) /\ 1 <= Len(u)
      BY <2>1, <1>2
    <3> QED BY <3>1, <1>2 DEF Elem
  <2>2. CASE Len(s) = 0 /\ Len(t) >= 1
    <3>1. 1 \in 1..Len(t) /\ 1 <= Len(u) /\ Len(s) + 1 = 1 /\ ~ (1 <= Len(s))
      BY <2>2, <1>2
    <3>2. u[1] = t[1]
      BY <3>1, <1>2
    <3> QED BY <3>1, <3>2, <2>2 DEF Elem
  <2>3. CASE Len(s) = 0 /\ Len(t) = 0
    BY <2>3, <1>2 DEF Elem
  <2> QED BY <2>1, <2>2, <2>3, <1>2
<1>5. Linked(R, u, b)
  BY <1>1, <1>2, <1>3 DEF Linked
<1> QED
  BY <1>4, <1>5 DEF u

(* The first n elements, and the others. *)
LEMMA Split ==
    ASSUME NEW R, NEW s, NEW b, Linked(R, s, b), NEW n \in 0..Len(s)
    PROVE  /\ Linked(R, SubSeq(s, 1, n), Elem(s, b, n + 1))
           /\ Linked(R, SubSeq(s, n + 1, Len(s)), b)
           /\ Elem(SubSeq(s, n + 1, Len(s)), b, 1) = Elem(s, b, n + 1)
<1> DEFINE L == Len(s)
           t == SubSeq(s, 1, n)
           u == SubSeq(s, n + 1, L)
<1>1. s \in Seq(Pairs) /\ b \in Pairs /\ L \in Nat /\ \A k \in 1..L : <<s[k], Elem(s, b, k + 1)>> \in R
  BY LenProperties DEF Linked
<1>2. t \in Seq(Pairs) /\ Len(t) = n /\ \A k \in 1..n : t[k] = s[k]
  BY <1>1
<1>3. u \in Seq(Pairs) /\ Len(u) = L - n /\ \A k \in 1..(L - n) : u[k] = s[n + k]
  BY <1>1
<1>4. Elem(s, b, n + 1) \in Pairs
  BY <1>1 DEF Elem
<1> HIDE DEF t, u
<1>5. ASSUME NEW k \in 1..n PROVE <<t[k], Elem(t, Elem(s, b, n + 1), k + 1)>> \in R
  <2>1. k \in 1..L /\ t[k] = s[k]
    BY <1>1, <1>2
  <2>2. Elem(t, Elem(s, b, n + 1), k + 1) = Elem(s, b, k + 1)
    <3>1. CASE k < n
      <4>1. k + 1 \in 1..n /\ k + 1 <= L /\ k + 1 <= n
        BY <3>1, <1>1
      <4> QED BY <4>1, <1>2 DEF Elem
    <3>2. CASE k = n
      <4>1. ~ (k + 1 <= n)
        BY <3>2
      <4> QED BY <3>2, <4>1, <1>2 DEF Elem
    <3> QED BY <3>1, <3>2
  <2> QED BY <2>1, <2>2, <1>1
<1>6. ASSUME NEW k \in 1..(L - n + 1) PROVE Elem(u, b, k) = Elem(s, b, n + k)
  <2>1. CASE k <= L - n
    <3>1. k \in 1..(L - n) /\ n + k <= L
      BY <2>1, <1>1
    <3> QED BY <3>1, <2>1, <1>3 DEF Elem
  <2>2. CASE k = L - n + 1
    <3>1. ~ (k <= L - n) /\ ~ (n + k <= L)
      BY <2>2, <1>1
    <3> QED BY <3>1, <1>3 DEF Elem
  <2> QED BY <2>1, <2>2, <1>1
<1>7. ASSUME NEW k \in 1..(L - n) PROVE <<u[k], Elem(u, b, k + 1)>> \in R
  <2>1. n + k \in 1..L /\ u[k] = s[n + k] /\ k + 1 \in 1..(L - n + 1) /\ n + (k + 1) = (n + k) + 1
    BY <1>1, <1>3
  <2>2. Elem(u, b, k + 1) = Elem(s, b, n + (k + 1))
    BY <2>1, <1>6
  <2>3. <<s[n + k], Elem(s, b, (n + k) + 1)>> \in R
    BY <2>1, <1>1
  <2> QED BY <2>1, <2>2, <2>3, Zenon
<1>8. Linked(R, t, Elem(s, b, n + 1)) /\ Linked(R, u, b)
  BY <1>1, <1>2, <1>3, <1>4, <1>5, <1>7 DEF Linked
<1>9. Elem(u, b, 1) = Elem(s, b, n + 1)
  <2>1. 1 \in 1..(L - n + 1)
    BY <1>1
  <2> QED BY <2>1, <1>6
<1> QED
  BY <1>8, <1>9 DEF t, u

\* What a stretch of bytes up to b is, element by element ...
LEMMA UptoOf ==
    ASSUME NEW msgs, NEW s, NEW b, Upto(msgs, s, b)
    PROVE  /\ s \in Seq(Pairs) /\ b \in Pairs
           /\ \A k \in 1..Len(s) : IsSent(msgs, s[k]) /\ After(msgs, s[k]) = Elem(s, b, k + 1)
BY DEF Upto, Linked, NextByte

\* ... and what makes one.
LEMMA UptoBy ==
    ASSUME NEW msgs, NEW s \in Seq(Pairs), NEW b \in Pairs,
           \A k \in 1..Len(s) : IsSent(msgs, s[k]) /\ After(msgs, s[k]) = Elem(s, b, k + 1)
    PROVE  Upto(msgs, s, b)
<1>1. ASSUME NEW k \in 1..Len(s) PROVE <<s[k], Elem(s, b, k + 1)>> \in NextByte(msgs)
  <2>1. s[k] \in Pairs /\ Elem(s, b, k + 1) \in Pairs
    BY LenProperties DEF Elem
  <2> QED BY <2>1 DEF NextByte
<1> QED
  BY <1>1 DEF Upto, Linked

\* The same of the characters of the tunnel ...
LEMMA UptoCharOf ==
    ASSUME NEW msgs, NEW s, NEW c, UptoChar(msgs, s, c)
    PROVE  /\ s \in Seq(Pairs) /\ c \in Pairs
           /\ \A k \in 1..Len(s) : IsChar(msgs, s[k]) /\ Behind(msgs, s[k]) = Elem(s, c, k + 1)
BY DEF UptoChar, Linked, NextChar

\* ... both ways.
LEMMA UptoCharBy ==
    ASSUME NEW msgs, NEW s \in Seq(Pairs), NEW c \in Pairs,
           \A k \in 1..Len(s) : IsChar(msgs, s[k]) /\ Behind(msgs, s[k]) = Elem(s, c, k + 1)
    PROVE  UptoChar(msgs, s, c)
<1>1. ASSUME NEW k \in 1..Len(s) PROVE <<s[k], Elem(s, c, k + 1)>> \in NextChar(msgs)
  <2>1. s[k] \in Pairs /\ Elem(s, c, k + 1) \in Pairs
    BY LenProperties DEF Elem
  <2> QED BY <2>1 DEF NextChar
<1> QED
  BY <1>1 DEF UptoChar, Linked

(* Bytes follow the first in its message, or lie in a later one. *)
LEMMA Along ==
    ASSUME NEW msgs, NEW s, NEW b, Upto(msgs, s, b), s # <<>>
    PROVE  /\ \A k \in 1..Len(s) : \/ s[k] = <<s[1][1], s[1][2] + (k - 1)>>
                                   \/ s[k][1] > s[1][1]
           /\ \/ b = <<s[1][1], s[1][2] + Len(s)>>
              \/ b[1] > s[1][1]
<1> DEFINE m == s[1][1]
           j == s[1][2]
           L == Len(s)
           Later(c, k) == c = <<m, j + (k - 1)>> \/ c[1] > m
           P == {n \in Nat : n < L => Later(s[n + 1], n + 1)}
<1>1. s \in Seq(Pairs) /\ b \in Pairs /\ L \in Nat /\ L > 0
  BY UptoOf, LenProperties, EmptySeq
<1>2. \A k \in 1..L : s[k] \in Pairs
  BY <1>1
<1>3. m \in Nat /\ j \in Nat /\ s[1] = <<m, j>>
  BY <1>1, <1>2 DEF Pairs
<1> HIDE DEF m, j
<1>4. ASSUME NEW k \in 1..L, Later(s[k], k) PROVE Later(After(msgs, s[k]), k + 1)
  <2>1. s[k][1] \in Nat /\ s[k][2] \in Nat
    BY <1>2 DEF Pairs
  <2>2. k \in Nat /\ (k + 1) - 1 = k
    BY <1>1
  <2>3. CASE s[k] = <<m, j + (k - 1)>>
    <3>1. s[k][1] = m /\ s[k][2] = j + (k - 1) /\ (j + (k - 1)) + 1 = j + k
      BY <2>3, <1>3
    <3>2. After(msgs, s[k]) = <<m + 1, 1>> \/ After(msgs, s[k]) = <<m, j + k>>
      BY <3>1 DEF After
    <3> QED BY <3>2, <2>2, <1>3
  <2>4. CASE s[k][1] > m
    <3>1. After(msgs, s[k])[1] = s[k][1] + 1 \/ After(msgs, s[k])[1] = s[k][1]
      BY DEF After
    <3> QED BY <3>1, <2>1, <2>4, <1>3
  <2> QED BY <1>4, <2>3, <2>4
<1>5. \A k \in 1..L : After(msgs, s[k]) = Elem(s, b, k + 1)
  BY UptoOf
<1>6. \A n \in Nat : n \in P
  <2>1. 0 \in P
    BY <1>3
  <2>2. ASSUME NEW n \in Nat, n \in P PROVE n + 1 \in P
    <3> SUFFICES ASSUME n + 1 < L PROVE Later(s[(n + 1) + 1], (n + 1) + 1)
      OBVIOUS
    <3>1. n + 1 \in 1..L /\ n < L /\ (n + 1) + 1 <= L
      BY <1>1
    <3>2. Later(s[n + 1], n + 1)
      BY <2>2, <3>1
    <3>3. Later(After(msgs, s[n + 1]), (n + 1) + 1)
      BY <3>1, <3>2, <1>4, Zenon
    <3>4. After(msgs, s[n + 1]) = s[(n + 1) + 1]
      BY <3>1, <1>5 DEF Elem
    <3> QED BY <3>3, <3>4, Zenon
  <2> HIDE DEF P
  <2> QED BY <2>1, <2>2, Induction
<1>7. ASSUME NEW k \in 1..L PROVE Later(s[k], k)
  <2>1. k - 1 \in Nat /\ k - 1 < L /\ (k - 1) + 1 = k
    BY <1>1
  <2> QED BY <2>1, <1>6
<1>8. Later(b, L + 1)
  <2>1. L \in 1..L /\ ~ (L + 1 <= L)
    BY <1>1
  <2>2. After(msgs, s[L]) = b
    BY <2>1, <1>5 DEF Elem
  <2>3. Later(s[L], L)
    BY <2>1, <1>7
  <2>4. Later(After(msgs, s[L]), L + 1)
    BY <2>1, <2>3, <1>4, Zenon
  <2> QED BY <2>2, <2>4, Zenon
<1>9. (L + 1) - 1 = L
  BY <1>1
<1> QED
  BY <1>7, <1>8, <1>9 DEF m, j

(***************************************************************************)
(* Decoding base64.                                                        *)
(***************************************************************************)
(* The loop of unbase64, character by character. *)
LEMMA Loop ==
    ASSUME NEW chars, NEW m \in Nat
    PROVE  \E f : f = [k \in 0..m |-> IF k = 0 THEN [bytes |-> <<>>, rest |-> <<>>]
                                               ELSE Taken(f[k - 1], chars[k])]
<1> DEFINE F(n, f) == [k \in 0..n |-> IF k = 0 THEN [bytes |-> <<>>, rest |-> <<>>]
                                               ELSE Taken(f[k - 1], chars[k])]
           P == {n \in Nat : \E f : f = F(n, f)}
<1>1. 0 \in P
  <2> DEFINE f == [k \in 0..0 |-> [bytes |-> <<>>, rest |-> <<>>]]
  <2>1. f = F(0, f)
    OBVIOUS
  <2> QED BY <2>1
<1>2. ASSUME NEW n \in Nat, n \in P PROVE n + 1 \in P
  <2>1. PICK f : f = F(n, f)
    BY <1>2
  <2> DEFINE h == [k \in 0..(n + 1) |-> IF k = n + 1 THEN Taken(f[n], chars[n + 1]) ELSE f[k]]
  <2>2. h[n + 1] = Taken(f[n], chars[n + 1]) /\ \A k \in 0..n : h[k] = f[k]
    OBVIOUS
  <2>3. \A k \in 0..n : f[k] = IF k = 0 THEN [bytes |-> <<>>, rest |-> <<>>]
                                        ELSE Taken(f[k - 1], chars[k])
    BY <2>1, Zenon
  <2>4. ASSUME NEW k \in 0..(n + 1)
        PROVE  h[k] = IF k = 0 THEN [bytes |-> <<>>, rest |-> <<>>]
                               ELSE Taken(h[k - 1], chars[k])
    <3> HIDE DEF h
    <3>1. CASE k = n + 1
      <4>1. k # 0 /\ k - 1 = n /\ n \in 0..n
        BY <3>1
      <4> QED BY <4>1, <3>1, <2>2, Zenon
    <3>2. CASE k = 0
      BY <3>2, <2>2, <2>3
    <3>3. CASE k # n + 1 /\ k # 0
      <4>1. k \in 0..n /\ k - 1 \in 0..n
        BY <3>3
      <4> QED BY <4>1, <3>3, <2>2, <2>3, Zenon
    <3> QED BY <3>1, <3>2, <3>3
  <2>5. h = F(n + 1, h)
    BY <2>4, Zenon
  <2>6. n + 1 \in Nat
    OBVIOUS
  <2> HIDE DEF h, F
  <2> QED BY <2>5, <2>6, Zenon
<1> HIDE DEF P
<1>3. m \in P
  BY <1>1, <1>2, Induction
<1> QED
  BY <1>3 DEF P

\* The loop of unbase64, character by character.
LEMMA Unbase64Steps ==
    ASSUME NEW chars, Len(chars) \in Nat
    PROVE  \E f : /\ f[0] = [bytes |-> <<>>, rest |-> <<>>]
                  /\ \A k \in 1..Len(chars) : f[k] = Taken(f[k - 1], chars[k])
                  /\ unbase64(chars) = f[Len(chars)]
<1> DEFINE F(f) == [k \in 0..Len(chars) |-> IF k = 0 THEN [bytes |-> <<>>, rest |-> <<>>]
                                               ELSE Taken(f[k - 1], chars[k])]
           f == CHOOSE h : h = F(h)
<1>1. f = F(f)
  <2>1. \E h : h = F(h)
    BY Loop
  <2> HIDE DEF F
  <2> QED BY <2>1
<1>2. unbase64(chars) = f[Len(chars)]
  BY DEF unbase64
<1> HIDE DEF f
<1>3. \A k \in 0..Len(chars) : f[k] = IF k = 0 THEN [bytes |-> <<>>, rest |-> <<>>]
                                               ELSE Taken(f[k - 1], chars[k])
  <2>1. ASSUME NEW k \in 0..Len(chars)
        PROVE  F(f)[k] = IF k = 0 THEN [bytes |-> <<>>, rest |-> <<>>]
                                  ELSE Taken(f[k - 1], chars[k])
    BY Zenon
  <2> HIDE DEF F
  <2> QED BY <2>1, <1>1, Zenon
<1>4. 0 \in 0..Len(chars) /\ \A k \in 1..Len(chars) : k \in 0..Len(chars) /\ k # 0
  OBVIOUS
<1> QED
  BY <1>2, <1>3, <1>4, Zenon

(* One message and its characters. *)
LEMMA MsgOf ==
    ASSUME NEW msgs \in Msgs, NEW m \in 1..Len(msgs)
    PROVE  Len(msgs) \in Nat /\ msgs[m].len \in Nat /\ msgs[m].len >= 4
           /\ CharsOf(msgs[m].len) \in Nat
<1>1. msgs[m] \in [kind : {"request", "packet", "malformed"}, len : {n \in Nat : n >= 4}]
  BY ElementOfSeq DEF Msgs
<1>2. Len(msgs) \in Nat
  BY LenProperties DEF Msgs
<1>3. \A n \in Nat : 4 * ((n + 2) \div 3) \in Nat
  OBVIOUS
<1> QED
  BY <1>1, <1>2, <1>3 DEF CharsOf

(* The three bytes, or fewer, of a group. *)
LEMMA GroupBytes ==
    ASSUME client_msgs \in Msgs, NEW m \in 1..Len(client_msgs), NEW q \in Nat,
           3 * q < client_msgs[m].len,
           NEW g, \A i \in 1..4 : g[i] = <<m, 4 * q + i>>
    PROVE  \E b : /\ Upto(client_msgs, Group(g), b)
                  /\ Elem(Group(g), b, 1) = <<m, 3 * q + 1>>
                  /\ At(client_msgs, b, <<>>, Behind(client_msgs, <<m, 4 * q + 4>>))
<1> DEFINE len == client_msgs[m].len
           n == IF 3 * q + 3 > len THEN len - 3 * q ELSE 3
           t == [k \in 1..n |-> <<m, 3 * q + k>>]
           b == IF 3 * q + n = len THEN <<m + 1, 1>> ELSE <<m, 3 * (q + 1) + 1>>
<1>1. len \in Nat /\ len >= 4 /\ Len(client_msgs) \in Nat
  BY MsgOf
<1>2. Group(g) = t
  <2>1. g[1][1] = m /\ (g[1][2] - 1) \div 4 = q
    <3>1. g[1] = <<m, 4 * q + 1>> /\ (4 * q + 1) - 1 = 4 * q /\ (4 * q) \div 4 = q
      OBVIOUS
    <3> QED BY <3>1
  <2> QED BY <2>1 DEF Group
<1>3. n \in Nat /\ n >= 1 /\ n <= 3 /\ 3 * q + n <= len /\ (3 * q + n # len => n = 3 /\ 3 * q + 3 < len)
  BY <1>1
<1>4. m \in Nat /\ m >= 1 /\ m <= Len(client_msgs)
  BY <1>1
<1>5. b \in Pairs
  BY <1>1, <1>4 DEF Pairs
<1> HIDE DEF n, len
<1>6. t \in Seq(Pairs) /\ Len(t) = n /\ \A k \in 1..n : t[k] = <<m, 3 * q + k>>
  <2>1. ASSUME NEW k \in 1..n PROVE <<m, 3 * q + k>> \in Pairs
    <3>1. 3 * q + k \in Nat
      BY <1>3
    <3> QED BY <3>1, <1>4 DEF Pairs
  <2> DEFINE e(k) == <<m, 3 * q + k>>
  <2>2. \A k \in 1..n : e(k) \in Pairs
    BY <2>1
  <2> HIDE DEF e
  <2>3. /\ [k \in 1..n |-> e(k)] \in Seq(Pairs) /\ Len([k \in 1..n |-> e(k)]) = n
        /\ \A k \in 1..n : [j \in 1..n |-> e(j)][k] = e(k)
    BY <2>2, <1>3
  <2> QED BY <2>3, Zenon DEF e
<1> HIDE DEF t
<1>7. ASSUME NEW k \in 1..n
      PROVE  IsSent(client_msgs, t[k]) /\ After(client_msgs, t[k]) = Elem(t, b, k + 1)
  <2>1. t[k] = <<m, 3 * q + k>> /\ 3 * q + k \in 1..len
    <3>1. t[k] = <<m, 3 * q + k>>
      BY <1>6
    <3>2. 3 * q + k \in 1..len
      BY <1>1, <1>3
    <3> QED BY <3>1, <3>2
  <2>2. IsSent(client_msgs, t[k])
    BY <2>1 DEF IsSent, len
  <2>3. CASE k < n
    <3>1. k + 1 \in 1..n /\ 3 * q + k # len /\ (3 * q + k) + 1 = 3 * q + (k + 1) /\ k + 1 <= n
      BY <2>3, <1>1, <1>3
    <3>2. After(client_msgs, t[k]) = <<m, (3 * q + k) + 1>>
      BY <2>1, <3>1 DEF After, len
    <3>3. Elem(t, b, k + 1) = <<m, 3 * q + (k + 1)>>
      BY <3>1, <1>6 DEF Elem
    <3> QED BY <2>2, <3>1, <3>2, <3>3
  <2>4. CASE k = n
    <3>1. Elem(t, b, k + 1) = b
      BY <2>4, <1>3, <1>6 DEF Elem
    <3>2. CASE 3 * q + n = len
      BY <2>1, <2>2, <2>4, <3>1, <3>2 DEF After, len
    <3>3. CASE 3 * q + n # len
      <4>1. b = <<m, 3 * (q + 1) + 1>> /\ (3 * q + k) + 1 = 3 * (q + 1) + 1
        BY <2>4, <3>3, <1>3
      <4>2. After(client_msgs, t[k]) = <<m, (3 * q + k) + 1>>
        BY <2>1, <2>4, <3>3 DEF After, len
      <4> QED BY <2>2, <3>1, <4>1, <4>2
    <3> QED BY <3>2, <3>3
  <2> QED BY <2>3, <2>4, <1>3
<1>8. Upto(client_msgs, t, b)
  BY <1>5, <1>6, <1>7, UptoBy
<1>9. Elem(t, b, 1) = <<m, 3 * q + 1>>
  BY <1>3, <1>6 DEF Elem
<1> DEFINE c == Behind(client_msgs, <<m, 4 * q + 4>>)
<1>10. At(client_msgs, b, <<>>, c)
  <2>1. Len(<<>>) = 0 /\ 4 * q + 4 # 0
    OBVIOUS
  <2>2. CASE 3 * q + n = len
    <3>1. CharsOf(len) = 4 * q + 4
      <4>1. \A i \in 1..3 : ((3 * q + i) + 2) \div 3 = q + 1
        OBVIOUS
      <4>2. n \in 1..3
        BY <1>3
      <4>3. (len + 2) \div 3 = q + 1
        BY <2>2, <4>1, <4>2, Zenon
      <4> QED BY <4>3 DEF CharsOf
    <3>2. c = <<(m + 1) - 1, 0>>
      BY <2>1, <3>1, <1>4 DEF Behind, len
    <3>3. m + 1 \in 1..(Len(client_msgs) + 1) /\ m + 1 > 1 /\ 0 \in Nat /\ 3 * 0 + 1 = 1
      BY <1>1, <1>4
    <3>4. m + 1 <= Len(client_msgs) => 3 * 0 < client_msgs[m + 1].len
      <4> SUFFICES ASSUME m + 1 <= Len(client_msgs) PROVE 3 * 0 < client_msgs[m + 1].len
        OBVIOUS
      <4>1. m + 1 \in 1..Len(client_msgs)
        BY <1>4
      <4>2. client_msgs[m + 1].len \in Nat /\ client_msgs[m + 1].len >= 4
        BY <4>1, MsgOf
      <4> QED BY <4>2
    <3>5. b = <<m + 1, 3 * 0 + 1>>
      BY <2>2, <3>3
    <3> HIDE DEF b, c
    <3>6. Len(<<>>) < 4 /\ \A i \in 1..Len(<<>>) : FALSE
      OBVIOUS
    <3> QED BY <2>1, <3>2, <3>3, <3>4, <3>5, <3>6 DEF At
  <2>3. CASE 3 * q + n # len
    <3>1. CharsOf(len) # 4 * q + 4
      BY <2>3, <1>1, <1>3 DEF CharsOf
    <3>2. c = <<m, 4 * (q + 1) + 0 + 1>>
      <4>1. c = <<m, (4 * q + 4) + 1>>
        BY <2>1, <3>1 DEF Behind, len
      <4> QED BY <4>1
    <3>3. m \in 1..(Len(client_msgs) + 1) /\ q + 1 \in Nat /\ 3 * (q + 1) < len /\ m # Len(client_msgs) + 1
      BY <1>1, <1>3, <1>4, <2>3
    <3>5. b = <<m, 3 * (q + 1) + 1>>
      BY <2>3
    <3> HIDE DEF b, c
    <3>6. Len(<<>>) < 4 /\ \A i \in 1..Len(<<>>) : FALSE
      OBVIOUS
    <3> QED BY <2>1, <3>2, <3>3, <3>5, <3>6 DEF At, len
  <2> QED BY <2>2, <2>3
<1> QED
  BY <1>2, <1>8, <1>9, <1>10

(* One more character. *)
LEMMA Takes ==
    ASSUME client_msgs \in Msgs,
           NEW was \in [bytes : Seq(Pairs), rest : Seq(Pairs)],
           NEW b, NEW b0, Upto(client_msgs, was.bytes, b), Elem(was.bytes, b, 1) = b0,
           NEW c \in Pairs, IsChar(client_msgs, c), At(client_msgs, b, was.rest, c)
    PROVE  /\ Taken(was, c) \in [bytes : Seq(Pairs), rest : Seq(Pairs)]
           /\ \E b2 : /\ Upto(client_msgs, Taken(was, c).bytes, b2)
                      /\ Elem(Taken(was, c).bytes, b2, 1) = b0
                      /\ At(client_msgs, b2, Taken(was, c).rest, Behind(client_msgs, c))
<1> DEFINE M == Len(client_msgs)
           r == Len(was.rest)
           group == Append(was.rest, c)
<1>1. PICK m \in 1..(M + 1), q \in Nat :
        /\ b = <<m, 3 * q + 1>> /\ r < 4
        /\ \A i \in 1..r : was.rest[i] = <<m, 4 * q + i>>
        /\ m <= M => 3 * q < client_msgs[m].len
        /\ m = M + 1 => q = 0 /\ was.rest = <<>>
        /\ \/ c = <<m, 4 * q + r + 1>>
           \/ c = <<m - 1, 0>> /\ m > 1 /\ q = 0 /\ was.rest = <<>>
  BY DEF At
<1>2. M \in Nat /\ r \in Nat /\ was.rest \in Seq(Pairs) /\ was.bytes \in Seq(Pairs)
  BY LenProperties DEF Msgs
<1> HIDE DEF M, r
<1>3. CASE c[2] = 0
  <2>1. c = <<m - 1, 0>> /\ m > 1 /\ q = 0 /\ was.rest = <<>>
    BY <1>1, <1>2, <1>3
  <2>2. Taken(was, c) = was
    BY <1>3 DEF Taken, IsBreak
  <2>3. Behind(client_msgs, c) = <<m, 4 * q + r + 1>>
    <3>1. r = 0 /\ (m - 1) + 1 = m
      BY <2>1, <1>2 DEF r
    <3> QED BY <2>1, <3>1, <1>3 DEF Behind
  <2>4. At(client_msgs, b, was.rest, Behind(client_msgs, c))
    BY <1>1, <2>3 DEF At, M, r
  <2> QED BY <2>2, <2>4
<1>4. CASE c[2] # 0
  <2>1. c = <<m, 4 * q + r + 1>> /\ c[1] = m /\ c[2] = 4 * q + r + 1
    BY <1>1, <1>4
  <2>2. m \in 1..M /\ m <= M /\ 3 * q < client_msgs[m].len /\ c[2] <= CharsOf(client_msgs[m].len)
    BY <1>1, <1>2, <2>1 DEF IsChar, M
  <2>3. client_msgs[m].len \in Nat
    BY <2>2, MsgOf DEF M
  <2>4. group \in Seq(Pairs) /\ Len(group) = r + 1 /\ \A i \in 1..(r + 1) : group[i] = <<m, 4 * q + i>>
    <3>1. /\ group \in Seq(Pairs) /\ Len(group) = r + 1
          /\ group[r + 1] = c /\ \A i \in 1..r : group[i] = was.rest[i]
      BY <1>2 DEF r
    <3> HIDE DEF group
    <3>2. ASSUME NEW i \in 1..(r + 1) PROVE group[i] = <<m, 4 * q + i>>
      <4>1. CASE i = r + 1
        <5>1. 4 * q + r + 1 = 4 * q + i
          BY <4>1, <1>2
        <5> QED BY <4>1, <5>1, <3>1, <2>1, Zenon
      <4>2. CASE i \in 1..r
        BY <4>2, <3>1, <1>1
      <4> QED BY <4>1, <4>2, <1>2
    <3> QED BY <3>1, <3>2
  <2> HIDE DEF group
  <2>5. CASE r + 1 < 4
    <3>1. Taken(was, c) = [was EXCEPT !.rest = group]
      BY <1>4, <2>4, <2>5 DEF Taken, IsBreak, group
    <3>2. /\ Taken(was, c) \in [bytes : Seq(Pairs), rest : Seq(Pairs)]
          /\ Taken(was, c).bytes = was.bytes /\ Taken(was, c).rest = group
      BY <3>1, <2>4
    <3>3. Behind(client_msgs, c) = <<m, 4 * q + (r + 1) + 1>>
      <4>1. CharsOf(client_msgs[m].len) # c[2]
        <5>1. \A x \in Nat, i \in 1..3 : 4 * x # 4 * q + i
          OBVIOUS
        <5>2. r + 1 \in 1..3 /\ (client_msgs[m].len + 2) \div 3 \in Nat /\ c[2] = 4 * q + (r + 1)
          BY <2>1, <2>3, <2>5, <1>2
        <5> QED BY <5>1, <5>2 DEF CharsOf
      <4>2. Behind(client_msgs, c) = <<m, (4 * q + r + 1) + 1>>
        BY <1>4, <2>1, <4>1 DEF Behind
      <4>3. (4 * q + r + 1) + 1 = 4 * q + (r + 1) + 1
        BY <1>2
      <4> QED BY <4>2, <4>3
    <3>4. At(client_msgs, b, group, Behind(client_msgs, c))
      <4>1. m \in 1..(Len(client_msgs) + 1) /\ m # Len(client_msgs) + 1
        BY <1>2, <2>2 DEF M
      <4>2. Len(group) < 4
        BY <2>4, <2>5
      <4>3. Behind(client_msgs, c) = <<m, 4 * q + Len(group) + 1>>
        BY <2>4, <3>3
      <4>4. \A i \in 1..Len(group) : group[i] = <<m, 4 * q + i>>
        BY <2>4
      <4>5. b = <<m, 3 * q + 1>>
        BY <1>1
      <4> QED BY <2>2, <4>1, <4>2, <4>3, <4>4, <4>5 DEF At
    <3> QED BY <3>2, <3>4
  <2>6. CASE r = 3
    <3>1. Taken(was, c) = [bytes |-> was.bytes \o Group(group), rest |-> <<>>]
      BY <1>4, <2>4, <2>6 DEF Taken, IsBreak, group
    <3>2. \A i \in 1..4 : group[i] = <<m, 4 * q + i>>
      BY <2>4, <2>6
    <3>3. PICK b2 : /\ Upto(client_msgs, Group(group), b2)
                    /\ Elem(Group(group), b2, 1) = <<m, 3 * q + 1>>
                    /\ At(client_msgs, b2, <<>>, Behind(client_msgs, <<m, 4 * q + 4>>))
      BY <2>2, <3>2, GroupBytes DEF M
    <3>4. c = <<m, 4 * q + 4>>
      BY <2>1, <2>6
    <3>5. Elem(Group(group), b2, 1) = b
      BY <1>1, <3>3
    <3>6. Upto(client_msgs, was.bytes \o Group(group), b2)
          /\ Elem(was.bytes \o Group(group), b2, 1) = b0
      <4>1. Linked(NextByte(client_msgs), was.bytes, Elem(Group(group), b2, 1))
        BY <3>5 DEF Upto
      <4>2. Linked(NextByte(client_msgs), Group(group), b2)
        BY <3>3 DEF Upto
      <4>3. /\ Linked(NextByte(client_msgs), was.bytes \o Group(group), b2)
            /\ Elem(was.bytes \o Group(group), b2, 1) = Elem(was.bytes, Elem(Group(group), b2, 1), 1)
        BY <4>1, <4>2, Join
      <4> QED BY <3>5, <4>3 DEF Upto
    <3>7. was.bytes \o Group(group) \in Seq(Pairs) /\ <<>> \in Seq(Pairs)
      <4>1. was.bytes \o Group(group) \in Seq(Pairs)
        BY <3>6, UptoOf, Zenon
      <4> QED BY <4>1
    <3> QED BY <3>1, <3>3, <3>4, <3>6, <3>7
  <2> QED BY <2>5, <2>6, <1>1, <1>2
<1> QED
  BY <1>3, <1>4

(* All characters of a read. *)
LEMMA Decodes ==
    ASSUME client_msgs \in Msgs, NEW chars, NEW e, UptoChar(client_msgs, chars, e),
           NEW b0 \in Pairs, At(client_msgs, b0, <<>>, Elem(chars, e, 1))
    PROVE  /\ unbase64(chars) \in [bytes : Seq(Pairs), rest : Seq(Pairs)]
           /\ \E b : /\ Upto(client_msgs, unbase64(chars).bytes, b)
                     /\ Elem(unbase64(chars).bytes, b, 1) = b0
                     /\ At(client_msgs, b, unbase64(chars).rest, e)
<1> DEFINE L == Len(chars)
<1>1. /\ chars \in Seq(Pairs) /\ e \in Pairs /\ L \in Nat
      /\ \A k \in 1..L : /\ chars[k] \in Pairs /\ IsChar(client_msgs, chars[k])
                         /\ Behind(client_msgs, chars[k]) = Elem(chars, e, k + 1)
  <2>1. /\ chars \in Seq(Pairs) /\ e \in Pairs
        /\ \A k \in 1..L : /\ IsChar(client_msgs, chars[k])
                           /\ Behind(client_msgs, chars[k]) = Elem(chars, e, k + 1)
    BY UptoCharOf
  <2> QED BY <2>1, LenProperties, ElementOfSeq
<1>2. PICK f : /\ f[0] = [bytes |-> <<>>, rest |-> <<>>]
               /\ \A k \in 1..L : f[k] = Taken(f[k - 1], chars[k])
               /\ unbase64(chars) = f[L]
  BY <1>1, Unbase64Steps
<1> HIDE DEF L
<1> DEFINE Good(k) ==
             /\ f[k] \in [bytes : Seq(Pairs), rest : Seq(Pairs)]
             /\ \E b : /\ Upto(client_msgs, f[k].bytes, b) /\ Elem(f[k].bytes, b, 1) = b0
                       /\ At(client_msgs, b, f[k].rest, Elem(chars, e, k + 1))
           P == {k \in Nat : k <= L => Good(k)}
<1>3. 0 \in P
  <2>1. <<>> \in Seq(Pairs) /\ Len(<<>>) = 0
    OBVIOUS
  <2>2. f[0].bytes = <<>> /\ f[0].rest = <<>> /\ f[0] \in [bytes : Seq(Pairs), rest : Seq(Pairs)]
    BY <1>2, <2>1
  <2>3. Upto(client_msgs, <<>>, b0) /\ Elem(<<>>, b0, 1) = b0
    <3>1. \A k \in 1..Len(<<>>) : FALSE
      BY <2>1
    <3>2. Upto(client_msgs, <<>>, b0)
      BY <2>1, <3>1, UptoBy, Zenon
    <3>3. Elem(<<>>, b0, 1) = b0
      BY <2>1 DEF Elem
    <3> QED BY <3>2, <3>3
  <2>4. At(client_msgs, b0, <<>>, Elem(chars, e, 0 + 1))
    OBVIOUS
  <2>5. Good(0)
    BY <2>2, <2>3, <2>4
  <2> QED BY <2>5
<1>4. ASSUME NEW k \in Nat, k \in P PROVE k + 1 \in P
  <2> SUFFICES ASSUME k + 1 <= L PROVE Good(k + 1)
    OBVIOUS
  <2>1. k + 1 \in 1..L /\ k <= L /\ (k + 1) - 1 = k
    BY <1>1
  <2>2. Good(k)
    BY <2>1, <1>4
  <2>3. PICK b : /\ Upto(client_msgs, f[k].bytes, b) /\ Elem(f[k].bytes, b, 1) = b0
                 /\ At(client_msgs, b, f[k].rest, Elem(chars, e, k + 1))
    BY <2>2
  <2>4. Elem(chars, e, k + 1) = chars[k + 1]
    BY <2>1 DEF Elem, L
  <2>5. f[k + 1] = Taken(f[k], chars[k + 1])
    BY <1>2, <2>1, Zenon
  <2>6. Behind(client_msgs, chars[k + 1]) = Elem(chars, e, (k + 1) + 1)
    BY <1>1, <2>1
  <2>7. chars[k + 1] \in Pairs /\ IsChar(client_msgs, chars[k + 1])
    BY <1>1, <2>1
  <2>8. /\ Taken(f[k], chars[k + 1]) \in [bytes : Seq(Pairs), rest : Seq(Pairs)]
        /\ \E b2 : /\ Upto(client_msgs, Taken(f[k], chars[k + 1]).bytes, b2)
                   /\ Elem(Taken(f[k], chars[k + 1]).bytes, b2, 1) = b0
                   /\ At(client_msgs, b2, Taken(f[k], chars[k + 1]).rest,
                         Behind(client_msgs, chars[k + 1]))
    <3> DEFINE was == f[k]
               c == chars[k + 1]
    <3>1. /\ was \in [bytes : Seq(Pairs), rest : Seq(Pairs)]
          /\ Upto(client_msgs, was.bytes, b) /\ Elem(was.bytes, b, 1) = b0
          /\ c \in Pairs /\ IsChar(client_msgs, c) /\ At(client_msgs, b, was.rest, c)
      BY <2>2, <2>3, <2>4, <2>7
    <3> HIDE DEF was, c
    <3>2. /\ Taken(was, c) \in [bytes : Seq(Pairs), rest : Seq(Pairs)]
          /\ \E b2 : /\ Upto(client_msgs, Taken(was, c).bytes, b2)
                     /\ Elem(Taken(was, c).bytes, b2, 1) = b0
                     /\ At(client_msgs, b2, Taken(was, c).rest, Behind(client_msgs, c))
      BY <3>1, Takes
    <3> QED BY <3>2 DEF was, c
  <2> QED BY <2>5, <2>6, <2>8
<1> HIDE DEF P
<1>5. L \in P
  BY <1>1, <1>3, <1>4, Induction
<1>6. Good(L)
  BY <1>1, <1>5 DEF P
<1>7. Elem(chars, e, L + 1) = e
  BY <1>1 DEF Elem, L
<1> QED
  BY <1>2, <1>6, <1>7

(* The characters kept from the last read go before those to come. *)
LEMMA KeptChars ==
    ASSUME NEW msgs \in Msgs, NEW b, NEW rest \in Seq(Pairs), NEW w, NEW e, UptoChar(msgs, w, e),
           At(msgs, b, rest, Elem(w, e, 1))
    PROVE  UptoChar(msgs, rest \o w, e) /\ At(msgs, b, <<>>, Elem(rest \o w, e, 1))
<1> DEFINE M == Len(msgs)
           r == Len(rest)
           c == Elem(w, e, 1)
<1>1. PICK m \in 1..(M + 1), q \in Nat :
        /\ b = <<m, 3 * q + 1>> /\ r < 4
        /\ \A i \in 1..r : rest[i] = <<m, 4 * q + i>>
        /\ m <= M => 3 * q < msgs[m].len
        /\ m = M + 1 => q = 0 /\ rest = <<>>
        /\ \/ c = <<m, 4 * q + r + 1>>
           \/ c = <<m - 1, 0>> /\ m > 1 /\ q = 0 /\ rest = <<>>
  BY DEF At
<1>2. M \in Nat /\ r \in Nat /\ w \in Seq(Pairs) /\ e \in Pairs /\ c \in Pairs
  <2>1. w \in Seq(Pairs) /\ e \in Pairs
    BY UptoCharOf
  <2>2. Len(w) \in Nat /\ \A k \in 1..Len(w) : w[k] \in Pairs
    BY <2>1, LenProperties, ElementOfSeq
  <2>3. c \in Pairs
    BY <2>1, <2>2 DEF Elem
  <2> QED BY <2>1, <2>3, LenProperties DEF Msgs
<1> HIDE DEF M, r, c
<1>3. UptoChar(msgs, rest, c)
  <2> SUFFICES ASSUME NEW k \in 1..r
               PROVE  IsChar(msgs, rest[k]) /\ Behind(msgs, rest[k]) = Elem(rest, c, k + 1)
    BY <1>2, UptoCharBy DEF r
  <2>1. rest # <<>>
    BY DEF r
  <2>2. c = <<m, 4 * q + r + 1>> /\ m \in 1..M /\ 3 * q < msgs[m].len
    BY <1>1, <1>2, <2>1
  <2>3. msgs[m].len \in Nat
    BY <2>2, MsgOf DEF M
  <2>4. rest[k] = <<m, 4 * q + k>> /\ k \in 1..3
    <3>1. k \in 1..3
      BY <1>1, <1>2
    <3> QED BY <3>1, <1>1
  <2>5. 4 * q + k <= CharsOf(msgs[m].len) /\ 4 * q + k # CharsOf(msgs[m].len) /\ 4 * q + k \in Nat /\ 4 * q + k # 0
    BY <2>2, <2>3, <2>4 DEF CharsOf
  <2>6. IsChar(msgs, rest[k])
    BY <2>2, <2>4, <2>5 DEF IsChar, M
  <2>7. Behind(msgs, rest[k]) = <<m, 4 * q + k + 1>>
    BY <2>4, <2>5 DEF Behind
  <2>8. CASE k < r
    <3>1. k + 1 \in 1..r /\ k + 1 <= r /\ 4 * q + (k + 1) = 4 * q + k + 1
      BY <2>8, <1>2
    <3>2. Elem(rest, c, k + 1) = <<m, 4 * q + (k + 1)>>
      BY <3>1, <1>1 DEF Elem, r
    <3> QED BY <3>1, <3>2, <2>6, <2>7
  <2>9. CASE k = r
    <3>1. Elem(rest, c, k + 1) = c
      BY <2>9, <1>2 DEF Elem, r
    <3> QED BY <3>1, <2>2, <2>6, <2>7, <2>9
  <2> QED BY <2>8, <2>9, <1>2
<1>4. UptoChar(msgs, rest \o w, e) /\ Elem(rest \o w, e, 1) = Elem(rest, c, 1)
  <2>1. Linked(NextChar(msgs), rest, Elem(w, e, 1)) /\ Linked(NextChar(msgs), w, e)
    BY <1>3 DEF UptoChar, c
  <2>2. /\ Linked(NextChar(msgs), rest \o w, e)
        /\ Elem(rest \o w, e, 1) = Elem(rest, Elem(w, e, 1), 1)
    BY <2>1, Join
  <2> QED BY <2>2 DEF UptoChar, c
<1>5. At(msgs, b, <<>>, Elem(rest, c, 1))
  <2>1. Len(<<>>) = 0 /\ Len(<<>>) < 4 /\ \A i \in 1..Len(<<>>) : FALSE
    OBVIOUS
  <2>2. CASE r = 0
    <3>1. Elem(rest, c, 1) = c /\ rest = <<>>
      BY <2>2 DEF Elem, r
    <3>2. At(msgs, b, rest, c)
      BY DEF c
    <3> QED BY <3>1, <3>2
  <2>3. CASE r > 0
    <3>1. 1 \in 1..r /\ 1 <= r
      BY <2>3, <1>2
    <3>2. Elem(rest, c, 1) = <<m, 4 * q + 0 + 1>>
      <4>1. rest[1] = <<m, 4 * q + 1>>
        BY <3>1, <1>1
      <4> QED BY <3>1, <4>1 DEF Elem, r
    <3> HIDE DEF c
    <3> QED BY <1>1, <2>1, <3>2 DEF At, M
  <2> QED BY <2>2, <2>3, <1>2
<1> QED
  BY <1>4, <1>5

(***************************************************************************)
(* The invariant of a connection that is read.                             *)
(***************************************************************************)
ReqTypes ==
    /\ client_msgs \in Msgs /\ handled \in Seq(Nat) /\ enc \in Seq(Pairs)
    /\ proto \in {"START", "RTSP"}
    /\ tunnel \in BOOLEAN /\ connected \in BOOLEAN /\ clean \in BOOLEAN
    /\ handled # <<>> => proto = "RTSP"
    /\ client_msgs # <<>> => client_msgs[1].kind # "packet"

(* Requests are handled in order, and none that is malformed. *)
HandledInv ==
    /\ \A j \in 1..Len(handled) : handled[j] > 0 =>
         handled[j] <= Len(client_msgs) /\ client_msgs[handled[j]].kind # "malformed"
    /\ \A j, k \in 1..Len(handled) :
         j < k /\ handled[j] > 0 /\ handled[k] > 0 => handled[j] < handled[k]
    /\ clean => \A j \in 1..Len(handled) : handled[j] = j

(* The first byte of message m was sent before byte b. *)
Before(m, b) == m < b[1] \/ (m = b[1] /\ b[2] > 1)
Passed(b) == \A j \in 1..Len(handled) : handled[j] > 0 => Before(handled[j], b)

(* The bytes of the message that comes next. *)
Partly(s) == \A k \in 1..Len(s) : s[k] = <<Len(handled) + 1, k>>

(* Byte b is the next to be read or decoded.  What was handled lies before *)
(* the buffer, the buffer before b, and b before what is on the wire; and  *)
(* as long as no message was lost the buffer is part of the message that   *)
(* comes next, but not all of it.                                          *)
OnWire(b) ==
    IF tunnel THEN /\ UptoChar(client_msgs, wire, End(client_msgs))
                   /\ At(client_msgs, b, enc, Elem(wire, End(client_msgs), 1))
    ELSE /\ Upto(client_msgs, wire, End(client_msgs))
         /\ enc = <<>> /\ b = Elem(wire, End(client_msgs), 1)

Reading(b) ==
    /\ Upto(client_msgs, req_buf, b)
    /\ Passed(Elem(req_buf, b, 1))
    /\ OnWire(b)
    /\ clean => Partly(req_buf) /\ b = <<Len(handled) + 1, Len(req_buf) + 1>>

Ended ==
    /\ \E b : Upto(client_msgs, req_buf, b)
    /\ clean => /\ Partly(req_buf)
                /\ LET m == client_msgs[Len(handled) + 1]
                   IN  m.kind = "malformed" \/ TooLong(m.len)

ReqInv ==
    /\ ReqTypes /\ HandledInv
    /\ connected => \E b : Reading(b)
    /\ ~ connected => Ended

-----------------------------------------------------------------------------
(* One message more leaves the others as they are. *)
LEMMA Grows ==
    ASSUME NEW msgs \in Msgs,
           NEW msg \in [kind : {"request", "packet", "malformed"}, len : {n \in Nat : n >= 4}]
    PROVE  /\ Append(msgs, msg) \in Msgs /\ Len(Append(msgs, msg)) = Len(msgs) + 1
           /\ \A j \in 1..Len(msgs) : Append(msgs, msg)[j] = msgs[j]
           /\ Append(msgs, msg)[Len(msgs) + 1] = msg
           /\ \A s, b : Upto(msgs, s, b) => Upto(Append(msgs, msg), s, b)
           /\ \A s, b : UptoChar(msgs, s, b) => UptoChar(Append(msgs, msg), s, b)
           /\ \A b, rest, c : At(msgs, b, rest, c) => At(Append(msgs, msg), b, rest, c)
<1> DEFINE ms == Append(msgs, msg)
           M == Len(msgs)
<1>1. /\ ms \in Msgs /\ Len(ms) = M + 1 /\ M \in Nat
      /\ (\A j \in 1..M : ms[j] = msgs[j]) /\ ms[M + 1] = msg
  BY DEF Msgs
<1> HIDE DEF ms
<1>2. NextByte(msgs) \subseteq NextByte(ms)
  BY <1>1 DEF NextByte, IsSent, After
<1>3. NextChar(msgs) \subseteq NextChar(ms)
  BY <1>1 DEF NextChar, IsChar, Behind
<1>4. ASSUME NEW s, NEW b, Upto(msgs, s, b) PROVE Upto(ms, s, b)
  BY <1>2, <1>4 DEF Upto, Linked
<1>5. ASSUME NEW s, NEW b, UptoChar(msgs, s, b) PROVE UptoChar(ms, s, b)
  BY <1>3, <1>5 DEF UptoChar, Linked
<1>6. ASSUME NEW b, NEW rest, NEW c, At(msgs, b, rest, c) PROVE At(ms, b, rest, c)
  <2>1. PICK m \in 1..(M + 1), q \in Nat :
      /\ b = <<m, 3 * q + 1>> /\ Len(rest) < 4
      /\ \A i \in 1..Len(rest) : rest[i] = <<m, 4 * q + i>>
      /\ m <= M => 3 * q < msgs[m].len
      /\ m = M + 1 => q = 0 /\ rest = <<>>
      /\ \/ c = <<m, 4 * q + Len(rest) + 1>>
         \/ c = <<m - 1, 0>> /\ m > 1 /\ q = 0 /\ rest = <<>>
    BY <1>6 DEF At
  <2>2. m \in 1..(Len(ms) + 1) /\ m # Len(ms) + 1
    BY <1>1
  <2>3. 3 * q < ms[m].len
    <3>1. CASE m <= M
      <4>1. m \in 1..M
        BY <3>1
      <4> QED BY <3>1, <4>1, <1>1, <2>1
    <3>2. CASE m = M + 1
      <4>1. msg.len \in Nat /\ msg.len >= 4
        OBVIOUS
      <4> QED BY <3>2, <4>1, <1>1, <2>1
    <3> QED BY <3>1, <3>2, <1>1
  <2> QED BY <2>1, <2>2, <2>3 DEF At
<1> QED
  BY <1>1, <1>4, <1>5, <1>6 DEF ms

(* The bytes of the message sent last, and its characters. *)
LEMMA NewBytes ==
    ASSUME NEW msgs \in Msgs, NEW m, m = Len(msgs), m > 0, NEW len, len = msgs[m].len
    PROVE  /\ Upto(msgs, BytesOf(m, len), End(msgs))
           /\ Elem(BytesOf(m, len), End(msgs), 1) = <<m, 1>>
           /\ UptoChar(msgs, Base64Of(m, len), End(msgs))
           /\ Elem(Base64Of(m, len), End(msgs), 1) = <<m, 1>>
<1> DEFINE e == End(msgs)
           t == BytesOf(m, len)
           c == CharsOf(len)
           u == Base64Of(m, len)
           w == [k \in 1..c |-> <<m, k>>]
<1>1. /\ m \in 1..Len(msgs) /\ m \in Nat /\ len \in Nat /\ len >= 4 /\ Len(msgs) \in Nat
  <2>1. m \in Nat
    BY LenProperties DEF Msgs
  <2>2. m \in 1..Len(msgs)
    BY <2>1
  <2> QED BY <2>1, <2>2, MsgOf
<1>2. c \in Nat /\ c >= 4
  BY <1>1 DEF CharsOf
<1>3. e = <<m + 1, 1>> /\ e \in Pairs
  BY <1>1 DEF End, Pairs
<1>4. \A k \in Nat : <<m, k>> \in Pairs
  BY <1>1 DEF Pairs
<1> HIDE DEF e
<1>5. t \in Seq(Pairs) /\ Len(t) = len /\ \A k \in 1..len : t[k] = <<m, k>>
  BY <1>1, <1>4 DEF BytesOf
<1> HIDE DEF t
<1>6. Upto(msgs, t, e)
  <2> SUFFICES ASSUME NEW k \in 1..len
               PROVE  IsSent(msgs, t[k]) /\ After(msgs, t[k]) = Elem(t, e, k + 1)
    BY <1>3, <1>5, UptoBy
  <2>1. t[k] = <<m, k>> /\ IsSent(msgs, t[k])
    BY <1>1, <1>5 DEF IsSent
  <2>2. CASE k < len
    <3>1. k + 1 \in 1..len /\ k + 1 <= len /\ k # len
      BY <2>2, <1>1
    <3>2. Elem(t, e, k + 1) = <<m, k + 1>>
      BY <3>1, <1>5 DEF Elem
    <3> QED BY <2>1, <3>1, <3>2 DEF After
  <2>3. CASE k = len
    <3>1. ~ (k + 1 <= len)
      BY <2>3, <1>1
    <3>2. Elem(t, e, k + 1) = <<m + 1, 1>>
      BY <3>1, <1>3, <1>5 DEF Elem
    <3> QED BY <2>1, <2>3, <3>2 DEF After
  <2> QED BY <2>2, <2>3, <1>1
<1>7. Elem(t, e, 1) = <<m, 1>>
  BY <1>1, <1>5 DEF Elem
<1> HIDE DEF c
<1>8. w \in Seq(Pairs) /\ Len(w) = c /\ \A k \in 1..c : w[k] = <<m, k>>
  BY <1>2, <1>4
<1> HIDE DEF w
<1>9. /\ u \in Seq(Pairs) /\ Len(u) = c + 1 /\ u[c + 1] = <<m, 0>>
      /\ \A k \in 1..c : u[k] = <<m, k>>
  <2>1. u = Append(w, <<m, 0>>)
    BY DEF Base64Of, w, c
  <2>2. <<m, 0>> \in Pairs
    BY <1>4
  <2> HIDE DEF u
  <2> QED BY <2>1, <2>2, <1>8, <1>2, AppendProperties
<1> HIDE DEF u
<1>10. UptoChar(msgs, u, e)
  <2> SUFFICES ASSUME NEW k \in 1..(c + 1)
               PROVE  IsChar(msgs, u[k]) /\ Behind(msgs, u[k]) = Elem(u, e, k + 1)
    BY <1>3, <1>9, UptoCharBy
  <2>1. CASE k < c
    <3>1. k + 1 \in 1..c /\ k + 1 <= c + 1 /\ k # c /\ k # 0 /\ k \in 0..c /\ k \in 1..c
      BY <2>1, <1>2
    <3>2. Elem(u, e, k + 1) = <<m, k + 1>> /\ u[k] = <<m, k>>
      BY <3>1, <1>9 DEF Elem
    <3>3. IsChar(msgs, u[k])
      BY <1>1, <3>1, <3>2 DEF IsChar, c
    <3> QED BY <3>1, <3>2, <3>3 DEF Behind, c
  <2>2. CASE k = c
    <3>1. k + 1 <= c + 1 /\ k + 1 = c + 1 /\ k # 0 /\ k \in 0..c /\ k \in 1..c
      BY <2>2, <1>2
    <3>2. Elem(u, e, k + 1) = <<m, 0>> /\ u[k] = <<m, k>>
      BY <3>1, <1>9 DEF Elem
    <3>3. IsChar(msgs, u[k])
      BY <1>1, <3>1, <3>2 DEF IsChar, c
    <3> QED BY <2>2, <3>1, <3>2, <3>3 DEF Behind, c
  <2>3. CASE k = c + 1
    <3>1. ~ (k + 1 <= c + 1) /\ 0 \in 0..c
      BY <2>3, <1>2
    <3>2. Elem(u, e, k + 1) = <<m + 1, 1>> /\ u[k] = <<m, 0>>
      BY <2>3, <3>1, <1>3, <1>9 DEF Elem
    <3>3. IsChar(msgs, u[k])
      BY <1>1, <3>1, <3>2 DEF IsChar, c
    <3> QED BY <3>2, <3>3 DEF Behind
  <2> QED BY <2>1, <2>2, <2>3, <1>2
<1>11. Elem(u, e, 1) = <<m, 1>>
  <2>1. 1 \in 1..c /\ 1 <= c + 1
    BY <1>2
  <2> QED BY <2>1, <1>9 DEF Elem
<1> QED
  BY <1>6, <1>7, <1>10, <1>11 DEF e, t, u

(* The client sends. *)
LEMMA SendsKeeps ==
    ASSUME ReqInv, NEW msg \in Requested, ClientSends(msg)
    PROVE  ReqInv'
<1> DEFINE M == Len(client_msgs)
           ms == Append(client_msgs, msg)
           new == IF tunnel THEN Base64Of(M + 1, msg.len) ELSE BytesOf(M + 1, msg.len)
<1>1. /\ connected /\ client_msgs' = ms /\ wire' = wire \o new
      /\ msg.kind = "packet" => M + 1 > 1
      /\ UNCHANGED <<proto, req_buf, enc, tunnel, connected, handled, clean>>
  BY DEF ClientSends
<1>2. msg \in [kind : {"request", "packet", "malformed"}, len : {n \in Nat : n >= 4}]
  BY RequestsAssumption
<1>3. ReqTypes /\ HandledInv /\ client_msgs \in Msgs /\ M \in Nat
  <2>1. ReqTypes /\ HandledInv
    BY DEF ReqInv
  <2> QED BY <2>1, LenProperties DEF ReqTypes, Msgs
<1>4. /\ ms \in Msgs /\ Len(ms) = M + 1 /\ ms[M + 1] = msg
      /\ \A j \in 1..M : ms[j] = client_msgs[j]
      /\ \A s, b : Upto(client_msgs, s, b) => Upto(ms, s, b)
      /\ \A s, b : UptoChar(client_msgs, s, b) => UptoChar(ms, s, b)
      /\ \A b, rest, c : At(client_msgs, b, rest, c) => At(ms, b, rest, c)
  BY <1>2, <1>3, Grows
<1>5. PICK b : Reading(b)
  BY <1>1 DEF ReqInv
<1> HIDE DEF ms, M
<1>6. ReqTypes'
  <2>1. ms # <<>> => ms[1].kind # "packet"
    <3>1. CASE M = 0
      <4>1. M + 1 = 1 /\ ~ (M + 1 > 1)
        BY <3>1
      <4> QED BY <4>1, <1>1, <1>4
    <3>2. CASE M # 0
      <4>1. 1 \in 1..M /\ client_msgs # <<>>
        BY <3>2, <1>3 DEF M
      <4> QED BY <4>1, <1>3, <1>4 DEF ReqTypes
    <3> QED BY <3>1, <3>2
  <2> QED BY <1>1, <1>3, <1>4, <2>1 DEF ReqTypes
<1>7. HandledInv'
  <2>1. handled' = handled /\ clean' = clean /\ client_msgs' = ms
    BY <1>1
  <2>2. ASSUME NEW j \in 1..Len(handled), handled[j] > 0
        PROVE  handled[j] <= M + 1 /\ ms[handled[j]].kind # "malformed"
    <3>1. handled[j] \in Nat
      BY <1>3 DEF ReqTypes
    <3>2. handled[j] <= M /\ client_msgs[handled[j]].kind # "malformed"
      BY <1>3, <2>2 DEF HandledInv, M
    <3>3. handled[j] \in 1..M
      BY <3>1, <3>2, <2>2, <1>3
    <3> QED BY <3>2, <3>3, <1>3, <1>4
  <2> QED BY <1>3, <1>4, <2>1, <2>2 DEF HandledInv
<1>8. /\ Upto(ms, BytesOf(M + 1, msg.len), End(ms))
      /\ Elem(BytesOf(M + 1, msg.len), End(ms), 1) = <<M + 1, 1>>
      /\ UptoChar(ms, Base64Of(M + 1, msg.len), End(ms))
      /\ Elem(Base64Of(M + 1, msg.len), End(ms), 1) = <<M + 1, 1>>
  BY <1>3, <1>4, NewBytes
<1>9. End(client_msgs) = <<M + 1, 1>>
  BY DEF End, M
<1>10. Reading(b)'
  <2>1. OnWire(b)'
    <3>1. CASE tunnel
      <4>1. UptoChar(ms, wire, End(client_msgs)) /\ At(ms, b, enc, Elem(wire, End(client_msgs), 1))
        BY <3>1, <1>4, <1>5 DEF Reading, OnWire
      <4>2. new = Base64Of(M + 1, msg.len)
        BY <3>1
      <4> HIDE DEF new
      <4>3. UptoChar(ms, new, End(ms)) /\ Elem(new, End(ms), 1) = End(client_msgs)
        BY <4>2, <1>8, <1>9
      <4>4. /\ Linked(NextChar(ms), new, End(ms))
            /\ Linked(NextChar(ms), wire, Elem(new, End(ms), 1))
        BY <4>1, <4>3 DEF UptoChar
      <4>5. /\ Linked(NextChar(ms), wire \o new, End(ms))
            /\ Elem(wire \o new, End(ms), 1) = Elem(wire, Elem(new, End(ms), 1), 1)
        BY <4>4, Join
      <4>6. UptoChar(ms, wire \o new, End(ms)) /\ At(ms, b, enc, Elem(wire \o new, End(ms), 1))
        BY <4>1, <4>3, <4>5 DEF UptoChar
      <4> QED BY <3>1, <4>6, <1>1 DEF OnWire
    <3>2. CASE ~ tunnel
      <4>1. Upto(ms, wire, End(client_msgs)) /\ enc = <<>> /\ b = Elem(wire, End(client_msgs), 1)
        BY <3>2, <1>4, <1>5 DEF Reading, OnWire
      <4>2. new = BytesOf(M + 1, msg.len)
        BY <3>2
      <4> HIDE DEF new
      <4>3. Upto(ms, new, End(ms)) /\ Elem(new, End(ms), 1) = End(client_msgs)
        BY <4>2, <1>8, <1>9
      <4>4. /\ Linked(NextByte(ms), new, End(ms))
            /\ Linked(NextByte(ms), wire, Elem(new, End(ms), 1))
        BY <4>1, <4>3 DEF Upto
      <4>5. /\ Linked(NextByte(ms), wire \o new, End(ms))
            /\ Elem(wire \o new, End(ms), 1) = Elem(wire, Elem(new, End(ms), 1), 1)
        BY <4>4, Join
      <4>6. Upto(ms, wire \o new, End(ms)) /\ b = Elem(wire \o new, End(ms), 1)
        BY <4>1, <4>3, <4>5 DEF Upto
      <4> QED BY <3>2, <4>1, <4>6, <1>1 DEF OnWire
    <3> QED BY <3>1, <3>2
  <2>2. Upto(ms, req_buf, b)
    BY <1>4, <1>5 DEF Reading
  <2> QED BY <1>1, <1>5, <2>1, <2>2 DEF Reading, Passed, Partly
<1> QED
  BY <1>1, <1>6, <1>7, <1>10 DEF ReqInv

-----------------------------------------------------------------------------
(* What comes out of a read. *)
Read(n) ==
    IF tunnel THEN unbase64(enc \o SubSeq(wire, 1, n))
              ELSE [bytes |-> SubSeq(wire, 1, n), rest |-> <<>>]

(* Its bytes follow what is in the buffer. *)
LEMMA ReadFollows ==
    ASSUME ReqTypes, NEW b, Reading(b), NEW n \in 1..Len(wire),
           NEW w, w = SubSeq(wire, n + 1, Len(wire))
    PROVE  LET e == End(client_msgs)
               buf == req_buf \o Read(n).bytes
           IN  /\ Read(n).rest \in Seq(Pairs) /\ buf \in Seq(Pairs)
               /\ \E b2 : /\ Upto(client_msgs, buf, b2)
                          /\ Elem(buf, b2, 1) = Elem(req_buf, b, 1)
                          /\ IF tunnel THEN /\ UptoChar(client_msgs, w, e)
                                            /\ At(client_msgs, b2, Read(n).rest, Elem(w, e, 1))
                             ELSE /\ Upto(client_msgs, w, e)
                                  /\ Read(n).rest = <<>> /\ b2 = Elem(w, e, 1)
<1> DEFINE e == End(client_msgs)
           new == SubSeq(wire, 1, n)
           x == Read(n).bytes
           rest == Read(n).rest
           buf == req_buf \o x
           follows == Elem(wire, e, n + 1)
<1>1. client_msgs \in Msgs /\ enc \in Seq(Pairs) /\ Upto(client_msgs, req_buf, b) /\ OnWire(b)
  BY DEF ReqTypes, Reading
<1>2. wire \in Seq(Pairs) /\ e \in Pairs /\ Len(wire) \in Nat /\ n \in 0..Len(wire)
  <2>1. wire \in Seq(Pairs) /\ e \in Pairs
    BY <1>1, UptoOf, UptoCharOf DEF OnWire
  <2> QED BY <2>1, LenProperties
<1> HIDE DEF e
<1>3. Len(new) = n /\ 1 \in 1..n /\ new[1] = wire[1] /\ new \in Seq(Pairs)
  BY <1>2
<1>4. Elem(new, follows, 1) = Elem(wire, e, 1)
  <2>1. 1 <= n /\ 1 <= Len(wire)
    BY <1>2, <1>3
  <2> HIDE DEF follows, new
  <2> QED BY <2>1, <1>3 DEF Elem
<1>5. CASE tunnel
  <2>1. Linked(NextChar(client_msgs), wire, e) /\ At(client_msgs, b, enc, Elem(wire, e, 1))
    BY <1>1, <1>5 DEF OnWire, UptoChar, e
  <2>2. /\ Linked(NextChar(client_msgs), new, follows)
        /\ Linked(NextChar(client_msgs), w, e) /\ Elem(w, e, 1) = follows
    BY <2>1, <1>2, Split
  <2> HIDE DEF follows, new
  <2>3. UptoChar(client_msgs, new, follows) /\ UptoChar(client_msgs, w, e)
        /\ At(client_msgs, b, enc, Elem(new, follows, 1))
    BY <2>1, <2>2, <1>4 DEF UptoChar
  <2>4. UptoChar(client_msgs, enc \o new, follows)
        /\ At(client_msgs, b, <<>>, Elem(enc \o new, follows, 1))
    BY <2>3, <1>1, KeptChars
  <2>5. b \in Pairs
    BY <1>1, UptoOf
  <2>6. Read(n) = unbase64(enc \o new)
    BY <1>5 DEF Read, new
  <2>7. /\ Read(n) \in [bytes : Seq(Pairs), rest : Seq(Pairs)]
        /\ \E b2 : /\ Upto(client_msgs, x, b2) /\ Elem(x, b2, 1) = b
                   /\ At(client_msgs, b2, rest, follows)
    BY <2>4, <2>5, <2>6, <1>1, Decodes
  <2>8. PICK b2 : /\ Upto(client_msgs, x, b2) /\ Elem(x, b2, 1) = b
                  /\ At(client_msgs, b2, rest, follows)
    BY <2>7
  <2>9. rest \in Seq(Pairs)
    BY <2>7
  <2> HIDE DEF x, rest
  <2>10. /\ Linked(NextByte(client_msgs), x, b2)
         /\ Linked(NextByte(client_msgs), req_buf, Elem(x, b2, 1))
    BY <1>1, <2>8 DEF Upto
  <2>11. Linked(NextByte(client_msgs), buf, b2) /\ Elem(buf, b2, 1) = Elem(req_buf, Elem(x, b2, 1), 1)
    BY <2>10, Join
  <2>12. Upto(client_msgs, buf, b2) /\ Elem(buf, b2, 1) = Elem(req_buf, b, 1) /\ buf \in Seq(Pairs)
    BY <2>8, <2>11 DEF Upto, Linked
  <2> HIDE DEF buf
  <2> QED BY <1>5, <2>2, <2>3, <2>8, <2>9, <2>12 DEF buf, x, rest, e
<1>6. CASE ~ tunnel
  <2>1. Linked(NextByte(client_msgs), wire, e) /\ b = Elem(wire, e, 1) /\ enc = <<>>
    BY <1>1, <1>6 DEF OnWire, Upto, e
  <2>2. /\ Linked(NextByte(client_msgs), new, follows)
        /\ Linked(NextByte(client_msgs), w, e) /\ Elem(w, e, 1) = follows
    BY <2>1, <1>2, Split
  <2>3. Read(n).bytes = new /\ Read(n).rest = <<>>
    BY <1>6 DEF Read
  <2> HIDE DEF follows, new
  <2>4. Linked(NextByte(client_msgs), req_buf, Elem(new, follows, 1))
    BY <1>1, <1>4, <2>1 DEF Upto
  <2>5. /\ Linked(NextByte(client_msgs), req_buf \o new, follows)
        /\ Elem(req_buf \o new, follows, 1) = Elem(req_buf, Elem(new, follows, 1), 1)
    BY <2>2, <2>4, Join
  <2>6. Upto(client_msgs, buf, follows) /\ Elem(buf, follows, 1) = Elem(req_buf, b, 1) /\ buf \in Seq(Pairs)
    BY <1>4, <2>1, <2>3, <2>5 DEF Upto, Linked
  <2>7. rest = <<>> /\ rest \in Seq(Pairs)
    BY <2>3
  <2>8. Upto(client_msgs, w, e)
    BY <2>2 DEF Upto
  <2> HIDE DEF buf, rest
  <2> QED BY <1>6, <2>2, <2>6, <2>7, <2>8 DEF buf, rest, e
<1> QED
  BY <1>5, <1>6

(* Bytes of one message from its first on. *)
LEMMA OneMessageBytes ==
    ASSUME NEW msgs \in Msgs, NEW s, NEW b, Upto(msgs, s, b), NEW m \in Nat,
           Elem(s, b, 1) = <<m, 1>>, \A j, k \in 1..Len(s) : s[j][1] = s[k][1]
    PROVE  /\ \A k \in 1..Len(s) : s[k] = <<m, k>>
           /\ s = <<>> => b = <<m, 1>>
           /\ s # <<>> => /\ m \in 1..Len(msgs) /\ Len(s) <= msgs[m].len
                          /\ b = IF Len(s) = msgs[m].len THEN <<m + 1, 1>>
                                                         ELSE <<m, Len(s) + 1>>
<1>1. s \in Seq(Pairs) /\ b \in Pairs /\ Len(s) \in Nat
  BY UptoOf, LenProperties
<1>2. CASE s = <<>>
  BY <1>2 DEF Elem
<1>3. CASE s # <<>>
  <2>1. Len(s) > 0 /\ 1 \in 1..Len(s) /\ Len(s) \in 1..Len(s)
    BY <1>1, <1>3, EmptySeq
  <2>2. s[1] = <<m, 1>>
    BY <2>1 DEF Elem
  <2>3. ASSUME NEW k \in 1..Len(s) PROVE s[k] = <<m, k>>
    <3>1. s[k] = <<m, 1 + (k - 1)>> \/ s[k][1] > m
      BY <1>3, <2>2, Along
    <3>2. s[k][1] = m
      BY <2>1, <2>2
    <3>3. 1 + (k - 1) = k
      BY <1>1
    <3> QED BY <3>1, <3>2, <3>3
  <2>4. s[Len(s)] = <<m, Len(s)>>
    BY <2>1, <2>3
  <2>5. IsSent(msgs, s[Len(s)]) /\ After(msgs, s[Len(s)]) = Elem(s, b, Len(s) + 1)
    BY <2>1, UptoOf
  <2>6. m \in 1..Len(msgs) /\ Len(s) <= msgs[m].len
    BY <2>4, <2>5 DEF IsSent
  <2>7. Elem(s, b, Len(s) + 1) = b
    BY <1>1 DEF Elem
  <2> QED BY <1>3, <2>3, <2>4, <2>5, <2>6, <2>7 DEF After
<1> QED
  BY <1>2, <1>3

(* What has been handled lies before what comes behind the buffer, too. *)
LEMMA PassedBuffer ==
    ASSUME ReqTypes, NEW s, NEW b, Upto(client_msgs, s, b), Passed(Elem(s, b, 1))
    PROVE  Passed(b)
<1>1. CASE s = <<>>
  BY <1>1 DEF Elem
<1>2. CASE s # <<>>
  <2>1. s \in Seq(Pairs) /\ b \in Pairs /\ Len(s) \in Nat /\ Len(s) > 0 /\ 1 \in 1..Len(s)
    <3>1. s \in Seq(Pairs) /\ b \in Pairs
      BY UptoOf
    <3> QED BY <3>1, <1>2, LenProperties, EmptySeq
  <2>2. s[1] \in Pairs /\ Elem(s, b, 1) = s[1]
    BY <2>1 DEF Elem
  <2>3. b = <<s[1][1], s[1][2] + Len(s)>> \/ b[1] > s[1][1]
    BY <1>2, Along
  <2>4. ASSUME NEW j \in 1..Len(handled), handled[j] > 0 PROVE Before(handled[j], b)
    <3>1. handled[j] \in Nat
      BY DEF ReqTypes
    <3>2. Before(handled[j], s[1])
      BY <2>2, <2>4 DEF Passed
    <3>3. s[1][1] \in Nat /\ s[1][2] \in Nat /\ b[1] \in Nat /\ b[2] \in Nat
      BY <2>1, <2>2 DEF Pairs
    <3>4. (b[1] = s[1][1] /\ b[2] = s[1][2] + Len(s)) \/ b[1] > s[1][1]
      BY <2>3
    <3> QED BY <2>1, <3>1, <3>2, <3>3, <3>4 DEF Before
  <2> QED BY <2>4 DEF Passed
<1> QED
  BY <1>1, <1>2

(* What was read is kept in the buffer, and nothing else is done. *)
LEMMA StillReading ==
    ASSUME NEW s, NEW b, Upto(client_msgs, s, b), Passed(Elem(s, b, 1)), OnWire(b)',
           req_buf' = s, UNCHANGED <<handled, client_msgs>>,
           clean' => Partly(s) /\ b = <<Len(handled) + 1, Len(s) + 1>>
    PROVE  Reading(b)'
<1>1. Upto(client_msgs, req_buf, b)'
  OBVIOUS
<1>2. Passed(Elem(req_buf, b, 1))'
  <2>1. \A x : Passed(x) => Passed(x)'
    BY DEF Passed
  <2>2. Elem(req_buf, b, 1)' = Elem(s, b, 1)
    BY DEF Elem
  <2> QED BY <2>1, <2>2
<1>3. clean' => Partly(req_buf)' /\ b = <<Len(handled) + 1, Len(req_buf) + 1>>'
  BY DEF Partly
<1> QED
  BY <1>1, <1>2, <1>3 DEF Reading

(* A round of do_read. *)
LEMMA ReadKeeps ==
    ASSUME ReqInv, NEW n \in DOMAIN wire, do_read(n)
    PROVE  ReqInv'
<1> DEFINE rest == Read(n).rest
           buf == req_buf \o Read(n).bytes
           w == SubSeq(wire, n + 1, Len(wire))
           e == End(client_msgs)
           h == Len(handled)
           M == Len(client_msgs)
           full == Len(buf) + Len(rest) = BufSize - 1
<1>1. connected /\ ReqTypes /\ HandledInv
  BY DEF do_read, ReqInv
<1>2. /\ wire' = w /\ enc' = rest /\ clean' = (clean /\ OneMessage(buf \o rest))
      /\ IF full
         THEN req_buf' = buf /\ connected' = FALSE /\ UNCHANGED <<proto, handled>>
         ELSE IF rest # <<>>
         THEN req_buf' = buf /\ UNCHANGED <<proto, connected, handled>>
         ELSE parse_client_data(buf)
      /\ UNCHANGED <<tunnel, client_msgs>>
  BY DEF do_read, Read
<1>3. PICK b : Reading(b)
  BY <1>1 DEF ReqInv
<1>4. client_msgs \in Msgs /\ M \in Nat /\ h \in Nat /\ handled \in Seq(Nat) /\ clean \in BOOLEAN
  <2>1. client_msgs \in Msgs /\ handled \in Seq(Nat) /\ clean \in BOOLEAN
    BY <1>1 DEF ReqTypes
  <2> QED BY <2>1, LenProperties DEF Msgs
<1>5. n \in 1..Len(wire)
  <2>1. wire \in Seq(Pairs)
    BY <1>3, UptoOf, UptoCharOf DEF Reading, OnWire
  <2> QED BY <2>1
<1>6. /\ rest \in Seq(Pairs) /\ buf \in Seq(Pairs)
      /\ \E b2 : /\ Upto(client_msgs, buf, b2)
                 /\ Elem(buf, b2, 1) = Elem(req_buf, b, 1)
                 /\ IF tunnel THEN /\ UptoChar(client_msgs, w, e)
                                   /\ At(client_msgs, b2, rest, Elem(w, e, 1))
                    ELSE /\ Upto(client_msgs, w, e)
                         /\ rest = <<>> /\ b2 = Elem(w, e, 1)
  BY <1>1, <1>3, <1>5, ReadFollows
<1>7. PICK b2 : /\ Upto(client_msgs, buf, b2)
                /\ Elem(buf, b2, 1) = Elem(req_buf, b, 1)
                /\ IF tunnel THEN /\ UptoChar(client_msgs, w, e)
                                  /\ At(client_msgs, b2, rest, Elem(w, e, 1))
                   ELSE /\ Upto(client_msgs, w, e)
                        /\ rest = <<>> /\ b2 = Elem(w, e, 1)
  BY <1>6
<1> HIDE DEF rest, buf, w
<1>8. Passed(Elem(buf, b2, 1)) /\ Passed(b2)
  <2>1. Passed(Elem(buf, b2, 1))
    BY <1>3, <1>7 DEF Reading
  <2> QED BY <2>1, <1>1, <1>7, PassedBuffer
<1>9. OnWire(b2)'
  BY <1>2, <1>7 DEF OnWire, e
<1>10. buf \in Seq(Pairs) /\ rest \in Seq(Pairs) /\ Len(buf) \in Nat /\ Len(rest) \in Nat
  BY <1>6, LenProperties
<1>11. OneMessage(buf \o rest) =>
         /\ \A j, k \in 1..Len(buf) : buf[j][1] = buf[k][1]
         /\ \A j \in 1..Len(buf), k \in 1..Len(rest) : buf[j][1] = rest[k][1]
  <2> SUFFICES ASSUME OneMessage(buf \o rest)
               PROVE  /\ \A j, k \in 1..Len(buf) : buf[j][1] = buf[k][1]
                      /\ \A j \in 1..Len(buf), k \in 1..Len(rest) : buf[j][1] = rest[k][1]
    OBVIOUS
  <2> DEFINE all == buf \o rest
  <2>1. /\ DOMAIN all = 1..(Len(buf) + Len(rest))
        /\ \A k \in 1..Len(buf) : all[k] = buf[k]
        /\ \A k \in 1..Len(rest) : all[Len(buf) + k] = rest[k]
    BY <1>10
  <2> HIDE DEF all
  <2>2. \A j, k \in DOMAIN all : all[j][1] = all[k][1]
    BY DEF OneMessage, all
  <2>3. ASSUME NEW k \in 1..Len(buf) PROVE k \in DOMAIN all
    BY <1>10, <2>1
  <2>4. ASSUME NEW k \in 1..Len(rest) PROVE Len(buf) + k \in DOMAIN all
    BY <1>10, <2>1
  <2>5. ASSUME NEW j \in 1..Len(buf), NEW k \in 1..Len(buf) PROVE buf[j][1] = buf[k][1]
    <3>1. all[j][1] = all[k][1]
      BY <2>2, <2>3
    <3> QED BY <3>1, <2>1
  <2>6. ASSUME NEW j \in 1..Len(buf), NEW k \in 1..Len(rest) PROVE buf[j][1] = rest[k][1]
    <3>1. all[j][1] = all[Len(buf) + k][1]
      BY <2>2, <2>3, <2>4
    <3>2. all[j] = buf[j] /\ all[Len(buf) + k] = rest[k]
      BY <2>1
    <3> QED BY <3>1, <3>2
  <2> QED BY <2>5, <2>6
(* While no message was lost, the buffer belongs to the one that is next. *)
<1>12. ASSUME clean'
       PROVE  /\ clean /\ \A j \in 1..h : handled[j] = j
              /\ Partly(buf)
              /\ buf = <<>> => b2 = <<h + 1, 1>>
              /\ buf # <<>> =>
                   /\ h + 1 \in 1..M /\ Len(buf) <= client_msgs[h + 1].len
                   /\ b2 = IF Len(buf) = client_msgs[h + 1].len THEN <<(h + 1) + 1, 1>>
                                                                ELSE <<h + 1, Len(buf) + 1>>
  <2>1. clean /\ OneMessage(buf \o rest)
    BY <1>2, <1>12
  <2>2. Partly(req_buf) /\ b = <<h + 1, Len(req_buf) + 1>>
    BY <1>3, <2>1 DEF Reading
  <2>3. Elem(req_buf, b, 1) = <<h + 1, 1>>
    <3>1. req_buf \in Seq(Pairs) /\ Len(req_buf) \in Nat
      BY <1>3, UptoOf, LenProperties DEF Reading
    <3>2. CASE Len(req_buf) >= 1
      <4>1. 1 \in 1..Len(req_buf)
        BY <3>1, <3>2
      <4> QED BY <4>1, <2>2 DEF Elem, Partly
    <3>3. CASE Len(req_buf) = 0
      <4>1. b = <<h + 1, 1>>
        BY <2>2, <3>3
      <4> QED BY <3>3, <4>1 DEF Elem
    <3> QED BY <3>1, <3>2, <3>3
  <2>4. \A j, k \in 1..Len(buf) : buf[j][1] = buf[k][1]
    BY <1>11, <2>1
  <2>5. /\ \A k \in 1..Len(buf) : buf[k] = <<h + 1, k>>
        /\ buf = <<>> => b2 = <<h + 1, 1>>
        /\ buf # <<>> =>
             /\ h + 1 \in 1..M /\ Len(buf) <= client_msgs[h + 1].len
             /\ b2 = IF Len(buf) = client_msgs[h + 1].len THEN <<(h + 1) + 1, 1>>
                                                          ELSE <<h + 1, Len(buf) + 1>>
    <3>1. h + 1 \in Nat /\ Elem(buf, b2, 1) = <<h + 1, 1>>
      BY <1>4, <1>7, <2>3
    <3> HIDE DEF h, M
    <3> QED BY <3>1, <1>4, <1>7, <2>4, OneMessageBytes DEF M
  <2>6. \A j \in 1..h : handled[j] = j
    BY <1>1, <2>1 DEF HandledInv
  <2> QED BY <2>1, <2>5, <2>6 DEF Partly
<1> HIDE DEF h, M
<1>13. ASSUME clean', rest # <<>>
       PROVE  b2 = <<h + 1, Len(buf) + 1>>
  <2>1. CASE buf = <<>>
    <3>1. b2 = <<h + 1, 1>> /\ Len(buf) = 0
      BY <2>1, <1>12, <1>13
    <3> QED BY <3>1
  <2>2. CASE buf # <<>>
    <3>1. 1 \in 1..Len(buf) /\ 1 \in 1..Len(rest)
      BY <2>2, <1>10, <1>13, EmptySeq
    <3>2. buf[1] = <<h + 1, 1>>
      BY <1>12, <1>13, <3>1 DEF Partly, h
    <3>3. rest[1][1] = h + 1
      <4>1. OneMessage(buf \o rest)
        BY <1>2, <1>13
      <4>2. buf[1][1] = rest[1][1]
        BY <1>11, <3>1, <4>1
      <4> QED BY <3>2, <4>2
    <3>4. tunnel /\ At(client_msgs, b2, rest, Elem(w, e, 1))
      BY <1>7, <1>13
    <3>5. b2[1] = h + 1
      BY <3>1, <3>3, <3>4 DEF At
    <3> QED BY <1>4, <1>12, <1>13, <2>2, <3>5
  <2> QED BY <2>1, <2>2
<1>14. (ReqTypes' /\ HandledInv') \/ ~ (full \/ rest # <<>>)
  <2> SUFFICES ASSUME full \/ rest # <<>> PROVE ReqTypes' /\ HandledInv'
    OBVIOUS
  <2>1. UNCHANGED <<proto, handled, tunnel, client_msgs>> /\ connected' \in BOOLEAN /\ clean' \in BOOLEAN
        /\ enc' \in Seq(Pairs) /\ (clean' => clean)
    BY <1>1, <1>2, <1>4, <1>10 DEF ReqTypes
  <2> QED BY <1>1, <2>1 DEF ReqTypes, HandledInv
<1>15. CASE full
  <2>1. req_buf' = buf /\ connected' = FALSE /\ UNCHANGED <<proto, handled, tunnel, client_msgs>>
    BY <1>2, <1>15
  <2>2. \E x : Upto(client_msgs, req_buf, x)'
    BY <1>7, <2>1
  <2>3. ASSUME clean' PROVE TooLong(client_msgs[h + 1].len)
    <3>1. BufSize \in Nat /\ BufSize > 4
      BY RequestsAssumption
    <3> DEFINE len == client_msgs[h + 1].len
    <3>2. CASE rest = <<>>
      <4>1. Len(buf) = BufSize - 1 /\ buf # <<>>
        BY <1>10, <1>15, <3>1, <3>2
      <4>2. h + 1 \in 1..M /\ BufSize - 1 <= len
        BY <1>12, <2>3, <4>1
      <4>3. len \in Nat
        BY <1>4, <4>2, MsgOf DEF M
      <4> HIDE DEF len
      <4>4. len <= 3 * ((len - 1) \div 3) + 3 \/ len = 0
        BY <4>3
      <4>5. 3 * ((len - 1) \div 3) + 4 > BufSize - 1 /\ len >= BufSize - 1
        BY <3>1, <4>2, <4>3, <4>4
      <4> QED BY <4>5 DEF TooLong, len
    <3>3. CASE rest # <<>>
      <4>1. b2 = <<h + 1, Len(buf) + 1>>
        BY <1>13, <2>3, <3>3
      <4>2. tunnel /\ At(client_msgs, b2, rest, Elem(w, e, 1))
        BY <1>7, <3>3
      <4>3. PICK m \in 1..(M + 1), q \in Nat :
              /\ b2 = <<m, 3 * q + 1>> /\ Len(rest) < 4
              /\ m <= M => 3 * q < client_msgs[m].len
              /\ m = M + 1 => q = 0 /\ rest = <<>>
        BY <4>2 DEF At, M
      <4>4. m = h + 1 /\ Len(buf) = 3 * q /\ m \in 1..M /\ 3 * q < len
        BY <1>4, <1>10, <3>3, <4>1, <4>3
      <4>5. len \in Nat
        BY <1>4, <4>4, MsgOf DEF M
      <4> HIDE DEF len
      <4>6. (len - 1) \div 3 \in Nat /\ (len - 1) \div 3 >= q
        BY <4>3, <4>4, <4>5
      <4>7. 3 * q + Len(rest) = BufSize - 1
        BY <1>15, <4>4
      <4>8. 3 * ((len - 1) \div 3) + 4 > BufSize - 1
        BY <1>10, <4>3, <4>6, <4>7, <3>1
      <4> QED BY <4>2, <4>8 DEF TooLong, len
    <3> QED BY <3>2, <3>3
  <2>4. Ended'
    BY <1>2, <1>12, <2>1, <2>2, <2>3 DEF Ended, Partly, TooLong, h
  <2> QED BY <1>14, <1>15, <2>1, <2>4 DEF ReqInv
<1>16. CASE ~ full /\ rest # <<>>
  <2>1. req_buf' = buf /\ connected' = connected /\ UNCHANGED <<proto, handled, tunnel, client_msgs>>
    BY <1>2, <1>16
  <2>2. clean' => Partly(buf) /\ b2 = <<Len(handled) + 1, Len(buf) + 1>>
    BY <1>12, <1>13, <1>16 DEF h
  <2>4. Reading(b2)'
    BY <1>7, <1>8, <1>9, <2>1, <2>2, StillReading
  <2> QED BY <1>1, <1>14, <1>16, <2>1, <2>4 DEF ReqInv
<1>17. CASE ~ full /\ rest = <<>>
  <2>1. parse_client_data(buf)
    BY <1>2, <1>17
  <2>2. tunnel' \in BOOLEAN /\ client_msgs' = client_msgs /\ clean' \in BOOLEAN /\ enc' \in Seq(Pairs)
        /\ (clean' => clean)
    BY <1>1, <1>2, <1>4, <1>10 DEF ReqTypes
  <2>3. CASE /\ proto = "START" /\ HasLine(buf) /\ client_msgs[1].kind = "malformed"
             /\ connected' = FALSE /\ req_buf' = buf /\ UNCHANGED <<proto, handled>>
    <3>1. handled = <<>> /\ h = 0
      BY <1>1, <2>3 DEF ReqTypes, h
    <3>2. ReqTypes' /\ HandledInv'
      BY <1>1, <2>2, <2>3 DEF ReqTypes, HandledInv
    <3>3. Ended'
      BY <1>2, <1>7, <1>12, <2>3, <3>1 DEF Ended, Partly, h
    <3> QED BY <2>3, <3>2, <3>3 DEF ReqInv
  <2>4. CASE /\ proto' = IF HasLine(buf) THEN "RTSP" ELSE proto
             /\ proto' = "START" \/ ~ Whole(buf)
             /\ req_buf' = buf /\ UNCHANGED <<connected, handled>>
    <3>1. proto' \in {"START", "RTSP"} /\ (proto = "RTSP" => proto' = "RTSP")
      BY <1>1, <2>4 DEF ReqTypes
    <3>2. ReqTypes' /\ HandledInv'
      BY <1>1, <2>2, <2>4, <3>1 DEF ReqTypes, HandledInv
    <3>3. ASSUME clean' PROVE b2 = <<h + 1, Len(buf) + 1>>
      <4>1. CASE buf = <<>>
        <5>1. b2 = <<h + 1, 1>> /\ Len(buf) = 0
          BY <4>1, <1>12, <3>3
        <5> QED BY <5>1
      <4>2. CASE buf # <<>>
        <5> SUFFICES ASSUME Len(buf) = client_msgs[h + 1].len PROVE FALSE
          BY <4>2, <1>12, <3>3
        <5>1. h + 1 \in 1..M /\ \A k \in 1..Len(buf) : buf[k] = <<h + 1, k>>
          BY <4>2, <1>12, <3>3 DEF Partly, h
        <5>2. Len(buf) >= 4 /\ DOMAIN buf = 1..Len(buf)
          BY <1>4, <1>10, <5>1, MsgOf DEF M
        <5>3. 1 \in DOMAIN buf /\ 2 \in DOMAIN buf /\ Len(buf) \in DOMAIN buf /\ h + 1 > 0
          BY <1>4, <1>10, <5>2
        <5>4. buf[1] = <<h + 1, 1>> /\ buf[2] = <<h + 1, 2>> /\ buf[Len(buf)] = <<h + 1, Len(buf)>>
          BY <5>1, <5>2, <5>3
        <5>5. CASE client_msgs[h + 1].kind # "packet"
          <6>1. HasLine(buf)
            BY <5>3, <5>4, <5>5 DEF HasLine, IsText
          <6>2. HasEnd(buf)
            BY <5>3, <5>4, <5>5 DEF HasEnd, IsText
          <6>3. Whole(buf)
            BY <5>2, <5>4, <5>5, <6>2 DEF Whole, IsDollar
          <6> QED BY <2>4, <6>1, <6>3
        <5>6. CASE client_msgs[h + 1].kind = "packet"
          <6>1. h # 0
            BY <1>1, <1>4, <5>1, <5>6 DEF ReqTypes, M
          <6>2. proto' = "RTSP"
            BY <1>1, <3>1, <6>1 DEF ReqTypes, h
          <6>3. IsDollar(buf[1])
            BY <5>3, <5>4, <5>6 DEF IsDollar
          <6>4. Len(buf) >= client_msgs[buf[1][1]].len
            BY <1>10, <5>4
          <6> QED BY <2>4, <5>2, <6>2, <6>3, <6>4 DEF Whole
        <5> QED BY <5>5, <5>6
      <4> QED BY <4>1, <4>2
    <3>4. Reading(b2)'
      <4>1. clean' => Partly(buf) /\ b2 = <<Len(handled) + 1, Len(buf) + 1>>
        BY <1>12, <3>3 DEF h
      <4> QED BY <1>7, <1>8, <1>9, <2>2, <2>4, <4>1, StillReading
    <3> QED BY <1>1, <2>4, <3>2, <3>4 DEF ReqInv
  <2>5. CASE /\ proto' = IF HasLine(buf) THEN "RTSP" ELSE proto
             /\ proto' # "START" /\ Whole(buf)
             /\ \E ok \in Accepted(buf) :
                 /\ req_buf' = <<>>
                 /\ connected' = ok
                 /\ handled' = IF ok THEN Append(handled, Sent(buf)) ELSE handled
    <3>1. proto' = "RTSP"
      BY <1>1, <2>5 DEF ReqTypes
    <3>2. Len(buf) >= 4 /\ 1 \in 1..Len(buf) /\ buf # <<>> /\ Elem(buf, b2, 1) = buf[1] /\ DOMAIN buf = 1..Len(buf)
      <4>1. Len(buf) >= 4
        BY <2>5 DEF Whole
      <4>2. 1 \in 1..Len(buf) /\ buf # <<>> /\ 1 <= Len(buf)
        BY <4>1, <1>10
      <4> QED BY <4>1, <4>2, <1>10 DEF Elem
    <3>3. IsSent(client_msgs, buf[1]) /\ buf[1] \in Pairs
      BY <1>7, <1>10, <3>2, UptoOf, ElementOfSeq
    <3>4. buf[1][1] \in 1..M /\ buf[1] # Junk /\ buf[1][1] \in Nat
      BY <1>4, <3>3 DEF IsSent, Junk, M
    <3>5. PICK ok \in Accepted(buf) :
            /\ req_buf' = <<>> /\ connected' = ok
            /\ handled' = IF ok THEN Append(handled, Sent(buf)) ELSE handled
      BY <2>5
    <3>6. ok \in BOOLEAN
      BY DEF Accepted
    <3>7. Sent(buf) = IF buf[1][2] = 1 THEN buf[1][1] ELSE 0
      BY <3>4 DEF Sent
    <3>8. Upto(client_msgs, <<>>, b2) /\ Elem(<<>>, b2, 1) = b2 /\ Len(<<>>) = 0
      <4>1. b2 \in Pairs
        BY <1>7, UptoOf
      <4>2. <<>> \in Seq(Pairs) /\ Len(<<>>) = 0 /\ \A k \in 1..Len(<<>>) : FALSE
        OBVIOUS
      <4>3. Upto(client_msgs, <<>>, b2)
        BY <4>1, <4>2, UptoBy, Zenon
      <4> QED BY <4>2, <4>3 DEF Elem
    <3>9. clean' => buf[1] = <<h + 1, 1>> /\ Sent(buf) = h + 1 /\ h + 1 \in 1..M
      <4> SUFFICES ASSUME clean' PROVE buf[1] = <<h + 1, 1>> /\ Sent(buf) = h + 1 /\ h + 1 \in 1..M
        OBVIOUS
      <4>1. buf[1] = <<h + 1, 1>> /\ h + 1 \in 1..M
        BY <1>12, <3>2 DEF Partly, h
      <4> QED BY <4>1, <3>7
    <3>10. CASE ~ ok
      <4>1. connected' = FALSE /\ handled' = handled /\ req_buf' = <<>>
        BY <3>5, <3>6, <3>10
      <4>2. ReqTypes' /\ HandledInv'
        BY <1>1, <2>2, <3>1, <4>1 DEF ReqTypes, HandledInv
      <4>3. clean' => client_msgs[h + 1].kind = "malformed"
        <5> SUFFICES ASSUME clean' PROVE client_msgs[h + 1].kind = "malformed"
          OBVIOUS
        <5>1. Sent(buf) > 0
          BY <1>4, <3>9
        <5> QED BY <3>5, <3>9, <3>10, <5>1 DEF Accepted
      <4>4. Ended'
        <5>1. \E x : Upto(client_msgs, req_buf, x)'
          BY <2>2, <3>8, <4>1
        <5>2. Partly(req_buf)'
          BY <3>8, <4>1 DEF Partly
        <5>3. clean' => client_msgs'[Len(handled') + 1].kind = "malformed"
          BY <2>2, <4>1, <4>3 DEF h
        <5> QED BY <5>1, <5>2, <5>3 DEF Ended
      <4> QED BY <4>1, <4>2, <4>4 DEF ReqInv
    <3>11. CASE ok
      <4> DEFINE x == Sent(buf)
      <4>1. connected' = TRUE /\ handled' = Append(handled, x) /\ req_buf' = <<>>
        BY <3>5, <3>6, <3>11
      <4>2. x \in Nat /\ (x > 0 => x = buf[1][1] /\ buf[1][2] = 1 /\ x <= M)
        BY <3>4, <3>7
      <4>3. x > 0 => client_msgs[x].kind # "malformed"
        BY <3>5, <3>11 DEF Accepted
      <4> HIDE DEF x
      <4>4. /\ handled' \in Seq(Nat) /\ Len(handled') = h + 1 /\ handled'[h + 1] = x
            /\ (\A j \in 1..h : handled'[j] = handled[j])
        BY <1>4, <4>1, <4>2 DEF h
      <4>5. ReqTypes'
        BY <1>1, <2>2, <3>1, <4>1, <4>4 DEF ReqTypes
      <4>6. ASSUME NEW j \in 1..h, handled[j] > 0, x > 0 PROVE handled[j] < x
        <5>1. Before(handled[j], buf[1])
          BY <1>8, <3>2, <4>6 DEF Passed, h
        <5> QED BY <1>4, <4>2, <4>6, <5>1 DEF Before
      <4>7. HandledInv'
        <5>1. ASSUME NEW j \in 1..(h + 1), handled'[j] > 0
              PROVE handled'[j] <= M /\ client_msgs[handled'[j]].kind # "malformed"
          <6>1. CASE j = h + 1
            BY <4>2, <4>3, <4>4, <5>1, <6>1
          <6>2. CASE j # h + 1
            <7>1. j \in 1..h
              BY <6>2, <1>4
            <7> QED BY <1>1, <4>4, <5>1, <7>1 DEF HandledInv, h, M
          <6> QED BY <6>1, <6>2
        <5>2. ASSUME NEW j \in 1..(h + 1), NEW k \in 1..(h + 1), j < k, handled'[j] > 0, handled'[k] > 0
              PROVE handled'[j] < handled'[k]
          <6>1. j \in 1..h
            BY <1>4, <5>2
          <6>2. CASE k = h + 1
            BY <4>4, <4>6, <5>2, <6>1, <6>2
          <6>3. CASE k # h + 1
            <7>1. k \in 1..h
              BY <6>3, <1>4
            <7> QED BY <1>1, <4>4, <5>2, <6>1, <7>1 DEF HandledInv, h
          <6> QED BY <6>2, <6>3
        <5>3. ASSUME clean', NEW j \in 1..(h + 1) PROVE handled'[j] = j
          <6>1. CASE j = h + 1
            BY <3>9, <4>4, <5>3, <6>1 DEF x
          <6>2. CASE j # h + 1
            <7>1. j \in 1..h
              BY <6>2, <1>4
            <7> QED BY <1>12, <4>4, <5>3, <7>1
          <6> QED BY <6>1, <6>2
        <5> QED BY <2>2, <4>4, <5>1, <5>2, <5>3 DEF HandledInv, M
      <4>8. Passed(b2)'
        <5> SUFFICES ASSUME NEW j \in 1..(h + 1), handled'[j] > 0 PROVE Before(handled'[j], b2)
          BY <4>4 DEF Passed
        <5>1. CASE j = h + 1
          <6>1. x > 0 /\ handled'[j] = x
            BY <4>4, <5>1
          <6>2. b2 = <<buf[1][1], buf[1][2] + Len(buf)>> \/ b2[1] > buf[1][1]
            BY <1>7, <3>2, Along
          <6> QED BY <1>10, <3>2, <4>2, <6>1, <6>2 DEF Before
        <5>2. CASE j # h + 1
          <6>1. j \in 1..h
            BY <5>2, <1>4
          <6> QED BY <1>8, <4>4, <6>1 DEF Passed, h
        <5> QED BY <5>1, <5>2
      <4>9. ASSUME clean' PROVE b2 = <<(h + 1) + 1, 1>>
        <5>1. buf[1] = <<h + 1, 1>> /\ Partly(buf) /\ Len(buf) <= client_msgs[h + 1].len
          BY <1>12, <3>2, <3>9, <4>9
        <5>2. Len(buf) >= client_msgs[h + 1].len
          <6>1. CASE IsDollar(buf[1])
            <7>1. Len(buf) >= client_msgs[buf[1][1]].len
              BY <2>5, <6>1 DEF Whole
            <7> QED BY <5>1, <7>1
          <6>2. CASE ~ IsDollar(buf[1])
            <7>1. PICK k \in DOMAIN buf : buf[k][2] = client_msgs[buf[k][1]].len
              BY <2>5, <6>2 DEF Whole, HasEnd
            <7>2. k \in 1..Len(buf) /\ buf[k] = <<h + 1, k>>
              BY <3>2, <5>1, <7>1 DEF Partly, h
            <7>3. k = client_msgs[h + 1].len
              BY <7>1, <7>2
            <7> QED BY <1>10, <7>2, <7>3
          <6> QED BY <6>1, <6>2
        <5>3. client_msgs[h + 1].len \in Nat
          BY <1>4, <3>9, <4>9, MsgOf DEF M
        <5>4. Len(buf) = client_msgs[h + 1].len
          BY <1>10, <5>1, <5>2, <5>3
        <5> QED BY <1>12, <3>2, <4>9, <5>4
      <4>10. Reading(b2)'
        <5>1. Upto(client_msgs, req_buf, b2)'
          BY <2>2, <3>8, <4>1
        <5>2. Passed(Elem(req_buf, b2, 1))'
          BY <3>8, <4>1, <4>8
        <5>3. clean' => Partly(req_buf)' /\ b2 = <<Len(handled') + 1, Len(req_buf') + 1>>
          <6>1. Partly(req_buf)'
            BY <3>8, <4>1 DEF Partly
          <6>2. Len(req_buf') + 1 = 1
            BY <3>8, <4>1
          <6> QED BY <4>4, <4>9, <6>1, <6>2
        <5> QED BY <1>9, <5>1, <5>2, <5>3 DEF Reading
      <4> QED BY <4>1, <4>5, <4>7, <4>10 DEF ReqInv
    <3> QED BY <3>10, <3>11
  <2> QED BY <2>1, <2>3, <2>4, <2>5 DEF parse_client_data
<1> QED
  BY <1>15, <1>16, <1>17

\* Every step of client, network and do_read keeps the invariant.
LEMMA ReqNextKeeps == ReqInv /\ [ReqNext]_reqVars => ReqInv'
<1> SUFFICES ASSUME ReqInv, [ReqNext]_reqVars PROVE ReqInv'
  OBVIOUS
<1>1. CASE \E msg \in Requested : ClientSends(msg)
  BY <1>1, SendsKeeps
<1>2. CASE \E n \in DOMAIN wire : do_read(n)
  BY <1>2, ReadKeeps
<1>3. CASE UNCHANGED reqVars
  <2>1. UNCHANGED <<proto, req_buf, enc, tunnel, connected, client_msgs, wire, handled, clean>>
    BY <1>3 DEF reqVars
  <2>2. ReqTypes' /\ HandledInv'
    BY <2>1 DEF ReqInv, ReqTypes, HandledInv
  <2>3. \A b : Reading(b) => Reading(b)'
    BY <2>1 DEF Reading, Passed, OnWire, Partly
  <2>4. Ended => Ended'
    BY <2>1 DEF Ended, Partly, TooLong
  <2> QED BY <2>1, <2>2, <2>3, <2>4 DEF ReqInv
<1> QED
  BY <1>1, <1>2, <1>3 DEF ReqNext

\* It holds of a connection on which nothing was sent.
LEMMA ReqInitInv == ReqInit => ReqInv
<1> SUFFICES ASSUME ReqInit PROVE ReqInv
  OBVIOUS
<1>1. /\ tunnel \in BOOLEAN /\ proto \in {"START", "RTSP"} /\ connected = TRUE /\ clean = TRUE
      /\ req_buf = <<>> /\ enc = <<>> /\ client_msgs = <<>> /\ wire = <<>> /\ handled = <<>>
  BY DEF ReqInit
<1>2. <<>> \in Msgs /\ <<>> \in Seq(Pairs) /\ <<>> \in Seq(Nat) /\ Len(<<>>) = 0
  BY DEF Msgs
<1>3. ReqTypes /\ HandledInv
  BY <1>1, <1>2 DEF ReqTypes, HandledInv
<1> DEFINE b == <<1, 1>>
<1>4. b \in Pairs /\ End(client_msgs) = b
  BY <1>1, <1>2 DEF Pairs, End
<1> HIDE DEF b
<1>5. \A k \in 1..Len(<<>>) : FALSE
  BY <1>2
<1>6. Upto(client_msgs, <<>>, b) /\ UptoChar(client_msgs, <<>>, b)
  BY <1>2, <1>4, <1>5, UptoBy, UptoCharBy, Zenon
<1>7. Elem(<<>>, b, 1) = b
  BY <1>2 DEF Elem
<1>8. At(client_msgs, b, <<>>, b)
  <2>1. 1 \in 1..(Len(client_msgs) + 1) /\ 0 \in Nat /\ ~ (1 <= Len(client_msgs))
    BY <1>1, <1>2
  <2>2. b = <<1, 3 * 0 + 1>> /\ b = <<1, 4 * 0 + Len(<<>>) + 1>>
    BY <1>2 DEF b
  <2> QED BY <1>2, <1>5, <2>1, <2>2 DEF At
<1>9. OnWire(b)
  BY <1>1, <1>4, <1>6, <1>7, <1>8 DEF OnWire
<1>10. Reading(b)
  <2>1. b = <<Len(handled) + 1, Len(req_buf) + 1>>
    BY <1>1, <1>2 DEF b
  <2> QED BY <1>1, <1>2, <1>6, <1>9, <2>1 DEF Reading, Passed, Partly
<1> QED
  BY <1>1, <1>3, <1>10 DEF ReqInv

\* Buffer, unfinished group and wire are one stretch of the client's stream
\* (do_read, parse_client_data).
THEOREM ReqInvHolds == ReqSpec => []ReqInv
BY ReqInitInv, ReqNextKeeps, PTL DEF ReqSpec

(* However TCP cuts the stream, and base64 or not, for every buffer size,  *)
(* every length of messages and every number of them: messages are handed  *)
(* on whole and in order, all of them while no read brings the bytes of    *)
(* two, and a connection is dropped only for a malformed or too long one.  *)
THEOREM RequestsSurviveCutsHolds == ReqSpec => []RequestsSurviveCuts
<1>1. ReqInv => RequestsSurviveCuts
  <2> SUFFICES ASSUME ReqInv PROVE RequestsSurviveCuts
    OBVIOUS
  <2>1. ReqTypes /\ HandledInv
    BY DEF ReqInv
  <2>2. PICK b : /\ Upto(client_msgs, req_buf, b)
                 /\ connected => Reading(b)
    BY DEF ReqInv, Ended, Reading
  <2>3. /\ req_buf \in Seq(Pairs) /\ handled \in Seq(Nat) /\ client_msgs \in Msgs
        /\ Len(req_buf) \in Nat /\ Len(handled) \in Nat /\ Len(client_msgs) \in Nat
        /\ DOMAIN req_buf = 1..Len(req_buf) /\ DOMAIN handled = 1..Len(handled)
        /\ tunnel \in BOOLEAN /\ connected \in BOOLEAN /\ enc \in Seq(Pairs)
    <3>1. req_buf \in Seq(Pairs) /\ handled \in Seq(Nat) /\ client_msgs \in Msgs
          /\ tunnel \in BOOLEAN /\ connected \in BOOLEAN /\ enc \in Seq(Pairs)
      BY <2>1, <2>2, UptoOf DEF ReqTypes
    <3> QED BY <3>1, LenProperties DEF Msgs
  <2>4. ASSUME clean
        PROVE  /\ handled = [m \in 1..Len(handled) |-> m]
               /\ \A k \in DOMAIN req_buf : req_buf[k] = <<Len(handled) + 1, k>>
               /\ connected /\ wire = <<>> => Len(handled) = Len(client_msgs)
               /\ ~ connected =>
                    LET m == client_msgs[Len(handled) + 1]
                    IN  m.kind = "malformed" \/ TooLong(m.len)
    <3>1. handled = [m \in 1..Len(handled) |-> m]
      <4>1. \A j \in 1..Len(handled) : handled[j] = j
        BY <2>1, <2>4 DEF HandledInv
      <4>2. handled = [m \in 1..Len(handled) |-> handled[m]]
        BY <2>3
      <4> QED BY <4>1, <4>2
    <3>2. Partly(req_buf)
      BY <2>2, <2>4 DEF ReqInv, Reading, Ended
    <3>3. ASSUME connected, wire = <<>> PROVE Len(handled) = Len(client_msgs)
      <4>1. OnWire(b) /\ b = <<Len(handled) + 1, Len(req_buf) + 1>>
        BY <2>2, <2>4, <3>3 DEF Reading
      <4>2. Elem(wire, End(client_msgs), 1) = <<Len(client_msgs) + 1, 1>>
        BY <3>3 DEF Elem, End
      <4>3. CASE tunnel
        <5>1. At(client_msgs, b, enc, <<Len(client_msgs) + 1, 1>>)
          BY <4>1, <4>2, <4>3 DEF OnWire
        <5>2. PICK m \in 1..(Len(client_msgs) + 1), q \in Nat :
                /\ b = <<m, 3 * q + 1>>
                /\ \/ <<Len(client_msgs) + 1, 1>> = <<m, 4 * q + Len(enc) + 1>>
                   \/ <<Len(client_msgs) + 1, 1>> = <<m - 1, 0>>
          BY <5>1 DEF At
        <5>3. m = Len(client_msgs) + 1
          BY <5>2
        <5> QED BY <2>3, <4>1, <5>2, <5>3
      <4>4. CASE ~ tunnel
        <5>1. b = <<Len(client_msgs) + 1, 1>>
          BY <4>1, <4>2, <4>4 DEF OnWire
        <5> QED BY <2>3, <4>1, <5>1
      <4> QED BY <4>3, <4>4, <2>3
    <3>4. ~ connected => LET m == client_msgs[Len(handled) + 1]
                         IN  m.kind = "malformed" \/ TooLong(m.len)
      BY <2>4 DEF ReqInv, Ended
    <3> QED BY <2>3, <3>1, <3>2, <3>3, <3>4 DEF Partly
  <2>5. /\ \A j, k \in DOMAIN handled :
             j < k /\ handled[j] > 0 /\ handled[k] > 0 => handled[j] < handled[k]
        /\ \A j \in DOMAIN handled :
             handled[j] > 0 => client_msgs[handled[j]].kind # "malformed"
    BY <2>1, <2>3 DEF HandledInv
  <2>6. ASSUME NEW k \in DOMAIN req_buf, k > 1
        PROVE  \/ req_buf[k] = <<req_buf[k - 1][1], req_buf[k - 1][2] + 1>>
               \/ /\ req_buf[k - 1][2] = client_msgs[req_buf[k - 1][1]].len
                  /\ req_buf[k] = <<req_buf[k - 1][1] + 1, 1>>
    <3>1. k - 1 \in 1..Len(req_buf) /\ (k - 1) + 1 = k /\ k <= Len(req_buf)
      BY <2>3, <2>6
    <3>2. After(client_msgs, req_buf[k - 1]) = Elem(req_buf, b, (k - 1) + 1)
      BY <2>2, <3>1, UptoOf
    <3>3. After(client_msgs, req_buf[k - 1]) = req_buf[k]
      BY <3>1, <3>2 DEF Elem
    <3> QED BY <3>3 DEF After
  <2> QED BY <2>4, <2>5, <2>6 DEF RequestsSurviveCuts
<1> QED
  BY <1>1, ReqInvHolds, PTL

=============================================================================
