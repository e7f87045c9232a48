-------------------------- MODULE SoftQueueProofs --------------------------
(***************************************************************************)
(* The soft queue keeps its promises for any number of cells, producers,   *)
(* listeners and items.  What makes the invariant inductive is who holds   *)
(* sq->mutex: a producer holds it exactly between taking a cell and        *)
(* writing the byte for it, so at most one item has no byte yet.           *)
(***************************************************************************)
EXTENDS SoftQueue, TLAPS, FiniteSetTheorems, SequenceTheorems

(* The mutex belongs to the producer at its write() or to sq_run.          *)
Ownership ==
    /\ \A p \in Producers : ppc[p] = "write" <=> mutex = p
    /\ pc \in {"read", "scan"} <=> mutex = Main

(* Bytes and items agree but for the item whose byte is being written.     *)
Balance ==
    IF fd_event THEN Len(se_list) = fds + (IF mutex \in Producers THEN 1 ELSE 0)
                ELSE fds = 0 /\ mutex \notin Producers

(* What the places of the event loop thread imply. *)
Places ==
    /\ pc = "config" => se_list = <<>>
    /\ pc \in {"lock", "read"} => fds > 0
    /\ pc \in {"lock", "read", "scan", "callback", "relock"} => fd_event
    /\ IF pc \in {"scan", "callback", "relock"} THEN data \in Data ELSE data = NoData

(* Queued cells carry items. *)
Filled == \A i \in DOMAIN se_list : event_data[se_list[i]] \in Data

(* No cell is in two places of two lists. *)
Apart(a, b) ==
    /\ \A i, j \in DOMAIN a : a[i] = a[j] => i = j
    /\ \A i, j \in DOMAIN b : b[i] = b[j] => i = j
    /\ \A i \in DOMAIN a, j \in DOMAIN b : a[i] # b[j]
NoSharing == Apart(empty_se_list, se_list)

(* A oneshot listener that has been called is not called again before      *)
(* strip_events takes it off the list.                                     *)
Retired ==
    /\ todo \cap removed = {}
    /\ pc \notin {"scan", "callback", "relock"} => ev_list \cap removed = {}

(* The inductive invariant of the soft queue. *)
IInv == /\ TypeOK /\ CellsConserved
        /\ Ownership /\ Balance /\ Places
        /\ Filled /\ NoSharing /\ Retired

-----------------------------------------------------------------------------
(* What the two list operations of event.c do: add_to_list appends,        *)
(* remove_from_list (always of the head) drops the first.                  *)
LEMMA AppendElements ==
    ASSUME NEW S, NEW s \in Seq(S), NEW x \in S
    PROVE  /\ Append(s, x) \in Seq(S)
           /\ Len(Append(s, x)) = Len(s) + 1
           /\ DOMAIN Append(s, x) = 1..(Len(s) + 1)
           /\ \A i \in 1..Len(s) : Append(s, x)[i] = s[i]
           /\ Append(s, x)[Len(s) + 1] = x
           /\ Range(Append(s, x)) = Range(s) \cup {x}
  <1>1. /\ Append(s, x) \in Seq(S)
        /\ Len(Append(s, x)) = Len(s) + 1
        /\ DOMAIN Append(s, x) = 1..(Len(s) + 1)
        /\ \A i \in 1..Len(s) : Append(s, x)[i] = s[i]
        /\ Append(s, x)[Len(s) + 1] = x
    BY AppendProperties, LenProperties
  <1>2. DOMAIN s = 1..Len(s) /\ Len(s) \in Nat
    BY LenProperties
  <1>3. 1..(Len(s) + 1) = 1..Len(s) \cup {Len(s) + 1}
    BY <1>2
  <1>4. Range(Append(s, x)) = Range(s) \cup {x}
    BY <1>1, <1>2, <1>3 DEF Range
  <1> QED BY <1>1, <1>4

(* Without its head a list of cells keeps the others, one place earlier. *)
LEMMA TailElements ==
    ASSUME NEW S, NEW s \in Seq(S), s # <<>>
    PROVE  /\ Head(s) \in S /\ Head(s) = s[1]
           /\ Tail(s) \in Seq(S)
           /\ Len(s) > 0 /\ Len(Tail(s)) = Len(s) - 1
           /\ DOMAIN s = 1..Len(s)
           /\ DOMAIN Tail(s) = 1..(Len(s) - 1)
           /\ \A i \in 1..(Len(s) - 1) : Tail(s)[i] = s[i + 1]
           /\ Range(s) = Range(Tail(s)) \cup {Head(s)}
  <1>1. /\ Head(s) \in S /\ Head(s) = s[1]
        /\ Tail(s) \in Seq(S)
        /\ Len(Tail(s)) = Len(s) - 1
        /\ \A i \in 1..(Len(s) - 1) : Tail(s)[i] = s[i + 1]
    BY HeadTailProperties
  <1>2. /\ DOMAIN s = 1..Len(s) /\ Len(s) \in Nat /\ Len(s) > 0
        /\ DOMAIN Tail(s) = 1..(Len(s) - 1)
    BY <1>1, LenProperties, EmptySeq
  <1>3. Range(s) = Range(Tail(s)) \cup {Head(s)}
    <2>1. ASSUME NEW y \in Range(s) PROVE y \in Range(Tail(s)) \cup {Head(s)}
      <3>1. PICK i \in 1..Len(s) : y = s[i]
        BY <1>2 DEF Range
      <3>2. CASE i = 1
        BY <3>1, <3>2, <1>1
      <3>3. CASE i # 1
        <4>1. i - 1 \in 1..(Len(s) - 1) /\ (i - 1) + 1 = i
          BY <3>3, <1>2
        <4>2. Tail(s)[i - 1] = y
          BY <4>1, <3>1, <1>1
        <4> QED BY <4>1, <4>2, <1>2 DEF Range
      <3> QED BY <3>2, <3>3
    <2>2. ASSUME NEW y \in Range(Tail(s)) PROVE y \in Range(s)
      <3>1. PICK i \in 1..(Len(s) - 1) : y = Tail(s)[i]
        BY <1>2 DEF Range
      <3>2. i + 1 \in 1..Len(s) /\ y = s[i + 1]
        BY <3>1, <1>1, <1>2
      <3> QED BY <3>2, <1>2 DEF Range
    <2>3. Head(s) \in Range(s)
      BY <1>1, <1>2 DEF Range
    <2> QED BY <2>1, <2>2, <2>3
  <1> QED BY <1>1, <1>2, <1>3

(* A cell that moves from the head of one list to the tail of the other is *)
(* neither lost nor shared.                                                *)
LEMMA MoveCell ==
    ASSUME NEW a \in Seq(Cell), NEW b \in Seq(Cell), a # <<>>, Apart(a, b)
    PROVE  /\ Tail(a) \in Seq(Cell) /\ Append(b, Head(a)) \in Seq(Cell)
           /\ Len(Tail(a)) + Len(Append(b, Head(a))) = Len(a) + Len(b)
           /\ Range(Tail(a)) \cup Range(Append(b, Head(a))) = Range(a) \cup Range(b)
           /\ Apart(Tail(a), Append(b, Head(a)))
  <1> DEFINE c == Head(a)
             a2 == Tail(a)
             b2 == Append(b, c)
  <1>1. /\ c \in Cell /\ c = a[1] /\ a2 \in Seq(Cell)
        /\ Len(a) > 0 /\ Len(a2) = Len(a) - 1
        /\ DOMAIN a = 1..Len(a) /\ DOMAIN a2 = 1..(Len(a) - 1)
        /\ \A i \in 1..(Len(a) - 1) : a2[i] = a[i + 1]
        /\ Range(a) = Range(a2) \cup {c}
    BY TailElements
  <1>2. /\ b2 \in Seq(Cell) /\ Len(b2) = Len(b) + 1
        /\ DOMAIN b2 = 1..(Len(b) + 1)
        /\ \A i \in 1..Len(b) : b2[i] = b[i]
        /\ b2[Len(b) + 1] = c
        /\ Range(b2) = Range(b) \cup {c}
    BY <1>1, AppendElements
  <1>3. Len(a) \in Nat /\ Len(b) \in Nat /\ DOMAIN b = 1..Len(b)
    BY LenProperties
  <1> HIDE DEF a2, b2, c
  <1>4. \A i, j \in DOMAIN a2 : a2[i] = a2[j] => i = j
    <2> SUFFICES ASSUME NEW i \in 1..(Len(a) - 1), NEW j \in 1..(Len(a) - 1), a2[i] = a2[j]
                 PROVE  i = j
      BY <1>1
    <2>1. i + 1 \in DOMAIN a /\ j + 1 \in DOMAIN a /\ a[i + 1] = a[j + 1]
      BY <1>1, <1>3
    <2>2. i + 1 = j + 1
      BY <2>1 DEF Apart
    <2> QED BY <2>2, <1>3
  <1>5. \A i \in DOMAIN b : b[i] # c
    BY <1>1, <1>3 DEF Apart
  <1>6. \A i, j \in DOMAIN b2 : b2[i] = b2[j] => i = j
    <2> SUFFICES ASSUME NEW i \in 1..(Len(b) + 1), NEW j \in 1..(Len(b) + 1), b2[i] = b2[j]
                 PROVE  i = j
      BY <1>2
    <2>1. CASE i \in 1..Len(b) /\ j \in 1..Len(b)
      BY <2>1, <1>2, <1>3 DEF Apart
    <2>2. CASE i = Len(b) + 1 \/ j = Len(b) + 1
      BY <2>2, <1>2, <1>3, <1>5
    <2> QED BY <2>1, <2>2, <1>3
  <1>7. \A i \in DOMAIN a2, j \in DOMAIN b2 : a2[i] # b2[j]
    <2> SUFFICES ASSUME NEW i \in 1..(Len(a) - 1), NEW j \in 1..(Len(b) + 1), a2[i] = b2[j]
                 PROVE  FALSE
      BY <1>1, <1>2
    <2>1. i + 1 \in DOMAIN a /\ 1 \in DOMAIN a /\ i + 1 # 1 /\ a2[i] = a[i + 1]
      BY <1>1, <1>3
    <2>2. CASE j = Len(b) + 1
      BY <2>1, <2>2, <1>1, <1>2 DEF Apart
    <2>3. CASE j \in 1..Len(b)
      BY <2>1, <2>3, <1>2, <1>3 DEF Apart
    <2> QED BY <2>2, <2>3, <1>3
  <1>8. Apart(a2, b2)
    BY <1>4, <1>6, <1>7 DEF Apart
  <1>9. Len(a2) + Len(b2) = Len(a) + Len(b) /\ Range(a2) \cup Range(b2) = Range(a) \cup Range(b)
    BY <1>1, <1>2, <1>3
  <1> QED BY <1>1, <1>2, <1>8, <1>9 DEF a2, b2, c

(* It does not matter which of the two lists is named first. *)
LEMMA ApartSymmetric ==
    ASSUME NEW a, NEW b, Apart(a, b) PROVE Apart(b, a)
  BY DEF Apart

-----------------------------------------------------------------------------
(* new_soft_queue establishes the invariant. *)
LEMMA InitIInv == Init => IInv
  <1> SUFFICES ASSUME Init PROVE IInv
    OBVIOUS
  <1> USE QueueAssumption, ThreadAssumption
  <1>1. /\ empty_se_list \in [1..Length -> Cell]
        /\ empty_se_list \in Seq(Cell) /\ Len(empty_se_list) = Length
        /\ \A i \in 1..Length : empty_se_list[i] = i
        /\ DOMAIN empty_se_list = 1..Length
    BY IsASeq DEF Init, Cell
  <1>2. se_list \in Seq(Cell) /\ Len(se_list) = 0 /\ DOMAIN se_list = {}
    BY DEF Init
  <1>3. TypeOK
    BY <1>1, <1>2 DEF Init, TypeOK, Cell
  <1>4. CellsConserved
    BY <1>1, <1>2 DEF CellsConserved, Range, Cell
  <1>5. Ownership /\ Balance /\ Places /\ Retired
    BY <1>2 DEF Init, Ownership, Balance, Places, Retired
  <1>6. Filled /\ NoSharing
    BY <1>1, <1>2 DEF Filled, NoSharing, Apart
  <1> QED BY <1>3, <1>4, <1>5, <1>6 DEF IInv

(* The conjuncts about the two lists only change with the lists. *)
LEMMA QueueUnchanged ==
    ASSUME IInv, UNCHANGED queue
    PROVE  CellsConserved' /\ Filled' /\ NoSharing'
  BY DEF IInv, queue, CellsConserved, Filled, NoSharing, Apart, Range

(* soft_queue_add takes a cell and queues it. *)
LEMMA AddIInv ==
    ASSUME IInv, NEW p \in Producers, NEW d \in Data, soft_queue_add(p, d)
    PROVE  IInv'
  <1> USE QueueAssumption, ThreadAssumption
  <1> DEFINE se == Head(empty_se_list)
  <1>1. /\ TypeOK /\ CellsConserved /\ Ownership /\ Balance /\ Places /\ Filled
        /\ NoSharing /\ Retired
    BY DEF IInv
  <1>2. /\ empty_se_list \in Seq(Cell) /\ se_list \in Seq(Cell) /\ empty_se_list # <<>>
        /\ empty_se_list' = Tail(empty_se_list)
        /\ se_list' = Append(se_list, se)
        /\ event_data' = [event_data EXCEPT ![se] = d]
        /\ event_data \in [Cell -> Data \cup {NoData}]
    BY <1>1 DEF soft_queue_add, TypeOK
  <1>3. /\ empty_se_list' \in Seq(Cell) /\ se_list' \in Seq(Cell)
        /\ CellsConserved' /\ NoSharing'
    BY <1>1, <1>2, MoveCell DEF CellsConserved, NoSharing
  <1>4. /\ se \in Cell /\ DOMAIN se_list = 1..Len(se_list) /\ Len(se_list) \in Nat
        /\ Len(se_list') = Len(se_list) + 1
        /\ DOMAIN se_list' = 1..(Len(se_list) + 1)
        /\ \A i \in 1..Len(se_list) : se_list'[i] = se_list[i] /\ se_list[i] \in Cell
        /\ se_list'[Len(se_list) + 1] = se
    BY <1>2, TailElements, AppendElements, LenProperties, ElementOfSeq
  <1>5. Filled'
    <2> SUFFICES ASSUME NEW i \in 1..(Len(se_list) + 1)
                 PROVE  event_data'[se_list'[i]] \in Data
      BY <1>4 DEF Filled
    <2>1. CASE i = Len(se_list) + 1
      BY <2>1, <1>2, <1>4
    <2>2. CASE i \in 1..Len(se_list)
      BY <2>2, <1>1, <1>2, <1>4 DEF Filled
    <2> QED BY <2>1, <2>2, <1>4
  <1>6. event_data' \in [Cell -> Data \cup {NoData}]
    BY <1>2, <1>4
  <1>7. TypeOK'
    BY <1>1, <1>3, <1>6 DEF soft_queue_add, TypeOK, listeners
  <1>8. Ownership'
    BY <1>1 DEF soft_queue_add, TypeOK, Ownership
  <1>9. Balance'
    <2>1. mutex = Nobody /\ mutex \notin Producers /\ UNCHANGED <<fds, fd_event>> /\ fds \in Nat
      BY <1>1 DEF soft_queue_add, TypeOK, listeners
    <2>2. CASE fd_event
      <3>1. mutex' = p
        BY <2>2 DEF soft_queue_add
      <3> QED BY <1>1, <1>4, <2>1, <2>2, <3>1 DEF Balance
    <2>3. CASE ~ fd_event
      <3>1. mutex' = mutex
        BY <2>3 DEF soft_queue_add
      <3> QED BY <1>1, <2>1, <2>3, <3>1 DEF Balance
    <2> QED BY <2>2, <2>3
  <1>10. Places' /\ Retired'
    BY <1>1 DEF soft_queue_add, Places, Retired, listeners
  <1> QED BY <1>3, <1>5, <1>7, <1>8, <1>9, <1>10 DEF IInv

(* sq_run takes the byte and the item it stands for. *)
LEMMA ReadIInv == ASSUME IInv, sq_run_read PROVE IInv'
  <1> USE QueueAssumption, ThreadAssumption
  <1> DEFINE se == Head(se_list)
  <1>1. /\ TypeOK /\ CellsConserved /\ Ownership /\ Balance /\ Places /\ Filled
        /\ NoSharing /\ Retired
    BY DEF IInv
  <1>2. mutex = Main /\ fd_event /\ fds \in Nat /\ fds > 0 /\ Len(se_list) = fds
    BY <1>1 DEF sq_run_read, TypeOK, Ownership, Places, Balance
  <1>3. /\ empty_se_list \in Seq(Cell) /\ se_list \in Seq(Cell) /\ se_list # <<>>
    BY <1>1, <1>2, EmptySeq DEF TypeOK
  <1>4. /\ se_list' = Tail(se_list) /\ empty_se_list' = Append(empty_se_list, se)
        /\ data' = event_data[se] /\ event_data' = event_data
    BY <1>3 DEF sq_run_read, locked_get_next_event
  <1>5. /\ empty_se_list' \in Seq(Cell) /\ se_list' \in Seq(Cell)
        /\ CellsConserved' /\ NoSharing'
    <2>1. Apart(se_list, empty_se_list)
      BY <1>1, ApartSymmetric DEF NoSharing
    <2>2. /\ empty_se_list' \in Seq(Cell) /\ se_list' \in Seq(Cell)
          /\ Len(se_list') + Len(empty_se_list') = Len(se_list) + Len(empty_se_list)
          /\ Range(se_list') \cup Range(empty_se_list') = Range(se_list) \cup Range(empty_se_list)
          /\ Apart(se_list', empty_se_list')
      BY <2>1, <1>3, <1>4, MoveCell
    <2>3. NoSharing'
      BY <2>2, ApartSymmetric DEF NoSharing
    <2>4. CellsConserved'
      BY <2>2, <1>1, <1>3, LenProperties DEF CellsConserved
    <2> QED BY <2>2, <2>3, <2>4
  <1>6. /\ se = se_list[1] /\ 1 \in DOMAIN se_list
        /\ DOMAIN se_list = 1..Len(se_list) /\ Len(se_list') = Len(se_list) - 1
        /\ DOMAIN se_list' = 1..(Len(se_list) - 1)
        /\ \A i \in 1..(Len(se_list) - 1) : se_list'[i] = se_list[i + 1]
    BY <1>2, <1>3, <1>4, TailElements
  <1>7. data' \in Data
    BY <1>1, <1>4, <1>6 DEF Filled
  <1>8. Filled'
    <2> SUFFICES ASSUME NEW i \in 1..(Len(se_list) - 1)
                 PROVE  event_data[se_list[i + 1]] \in Data
      BY <1>4, <1>6 DEF Filled
    <2>1. i + 1 \in DOMAIN se_list
      BY <1>2, <1>6
    <2> QED BY <2>1, <1>1 DEF Filled
  <1>9. TypeOK'
    BY <1>1, <1>2, <1>4, <1>5, <1>7 DEF sq_run_read, TypeOK, listeners
  <1>10. Ownership' /\ Retired'
    BY <1>1 DEF sq_run_read, Ownership, Retired, listeners
  <1>11. Balance'
    BY <1>2, <1>6 DEF sq_run_read, Balance, listeners
  <1>12. Places'
    BY <1>2, <1>7 DEF sq_run_read, Places, listeners
  <1> QED BY <1>5, <1>8, <1>9, <1>10, <1>11, <1>12 DEF IInv

(* Every other step leaves the lists alone. *)
LEMMA NextIInv == IInv /\ [Next]_vars => IInv'
  <1> USE QueueAssumption, ThreadAssumption
  <1> SUFFICES ASSUME IInv, [Next]_vars PROVE IInv'
    OBVIOUS
  <1>1. /\ TypeOK /\ Ownership /\ Balance /\ Places /\ Retired
    BY DEF IInv
  <1>2. ASSUME UNCHANGED queue, TypeOK', Ownership', Balance', Places', Retired' PROVE IInv'
    BY <1>2, QueueUnchanged DEF IInv
  <1>3. CASE \E l \in Listeners : add_softqueue_event(l)
    <2> PICK l \in Listeners : add_softqueue_event(l)
      BY <1>3
    <2>0. UNCHANGED queue /\ UNCHANGED <<removed, fds, mutex, pc, todo, data, ppc>>
      BY DEF add_softqueue_event
    <2>1. TypeOK'
      BY <1>1, <2>0 DEF add_softqueue_event, TypeOK, queue
    <2>4. Ownership'
      BY <1>1, <2>0 DEF Ownership
    <2>5. Retired'
      BY <1>1, <2>0 DEF add_softqueue_event, Retired
    <2>2. Balance'
      BY <1>1, EmptySeq DEF add_softqueue_event, TypeOK, Balance, Places, queue
    <2>3. Places'
      BY <1>1 DEF add_softqueue_event, Places, queue
    <2> QED BY <2>0, <2>1, <2>2, <2>3, <2>4, <2>5, <1>2
  <1>4. CASE start_threads
    BY <1>1, <1>4, <1>2 DEF start_threads, TypeOK, Ownership, Balance, Places, Retired, queue, listeners
  <1>5. CASE \E p \in Producers, d \in Data : soft_queue_add(p, d)
    BY <1>5, AddIInv
  <1>6. CASE \E p \in Producers : write_byte(p)
    <2> PICK p \in Producers : write_byte(p)
      BY <1>6
    <2>1. mutex = p /\ UNCHANGED queue
      BY <1>1 DEF Ownership, write_byte, queue
    <2>2. TypeOK' /\ Ownership' /\ Retired'
      BY <1>1, <2>1 DEF write_byte, TypeOK, Ownership, Retired, queue, listeners
    <2>3. Balance' /\ Places'
      BY <1>1, <2>1 DEF write_byte, TypeOK, Balance, Places, queue, listeners
    <2> QED BY <2>1, <2>2, <2>3, <1>2
  <1>7. CASE select
    BY <1>1, <1>7, <1>2 DEF select, TypeOK, Ownership, Balance, Places, Retired, queue, listeners
  <1>8. CASE sq_run_lock
    BY <1>1, <1>8, <1>2 DEF sq_run_lock, TypeOK, Ownership, Balance, Places, Retired, queue, listeners
  <1>9. CASE sq_run_read
    BY <1>9, ReadIInv
  <1>10. CASE sq_run_read_error
    BY <1>1, <1>10, <1>2 DEF sq_run_read_error, TypeOK, Ownership, Balance, Places, Retired, queue
  <1>11. CASE \E l \in Listeners : sq_run_call(l)
    <2> PICK l \in Listeners : sq_run_call(l)
      BY <1>11
    <2>1. UNCHANGED queue /\ mutex = Main
      BY <1>1 DEF sq_run_call, Ownership
    <2>2. TypeOK' /\ Ownership'
      BY <1>1, <2>1 DEF sq_run_call, TypeOK, Ownership, queue
    <2>3. Balance' /\ Places'
      BY <1>1, <2>1 DEF sq_run_call, TypeOK, Balance, Places, queue
    <2>4. Retired'
      BY <1>1 DEF sq_run_call, Retired
    <2> QED BY <2>1, <2>2, <2>3, <2>4, <1>2
  <1>12. CASE sq_run_return
    BY <1>1, <1>12, <1>2 DEF sq_run_return, TypeOK, Ownership, Balance, Places, Retired, queue, listeners
  <1>13. CASE sq_run_relock
    BY <1>1, <1>13, <1>2 DEF sq_run_relock, TypeOK, Ownership, Balance, Places, Retired, queue, listeners
  <1>14. CASE sq_run_strip
    BY <1>1, <1>14, <1>2 DEF sq_run_strip, strip_events, TypeOK, Ownership, Balance, Places, Retired, queue
  <1>15. CASE UNCHANGED vars
    BY <1>1, <1>15, <1>2 DEF vars, TypeOK, Ownership, Balance, Places, Retired, queue
  <1> QED BY <1>3, <1>4, <1>5, <1>6, <1>7, <1>8, <1>9, <1>10, <1>11, <1>12,
             <1>13, <1>14, <1>15 DEF Next

-----------------------------------------------------------------------------
(* At most one producer is between its cell and its byte. *)
LEMMA WritingCount ==
    ASSUME IInv
    PROVE  Cardinality(Writing) = IF mutex \in Producers THEN 1 ELSE 0
  <1>1. CASE mutex \in Producers
    <2>1. Writing = {mutex}
      BY <1>1 DEF IInv, Ownership, Writing
    <2> QED BY <2>1, <1>1, FS_Singleton
  <1>2. CASE mutex \notin Producers
    <2>1. Writing = {}
      BY <1>2 DEF IInv, Ownership, Writing
    <2> QED BY <2>1, <1>2, FS_EmptySet
  <1> QED BY <1>1, <1>2

(* The invariant holds throughout: the argument all theorems below use. *)
THEOREM Invariance == Spec => []IInv
  BY InitIInv, NextIInv, PTL DEF Spec

(* The variables of the soft queue keep their types (event.c). *)
THEOREM TypeCorrect == Spec => []TypeOK
  <1>1. IInv => TypeOK
    BY DEF IInv
  <1> QED BY <1>1, Invariance, PTL

(* No cell of the queue is ever lost or used twice, whatever the order in  *)
(* which producers and sq_run move them (remove_from_list, add_to_list).   *)
THEOREM CellsNeverLost == Spec => []CellsConserved
  <1>1. IInv => CellsConserved
    BY DEF IInv
  <1> QED BY <1>1, Invariance, PTL

(* One byte per queued item: soft_queue_add and sq_run never let items and *)
(* wake-ups drift apart, with any number of producer threads.              *)
THEOREM WakeupsMatch == Spec => []WakeupPerItem
  <1>1. IInv => WakeupPerItem
    BY WritingCount DEF IInv, Balance, WakeupPerItem
  <1> QED BY <1>1, Invariance, PTL

(* The read() of sq_run and the write() of soft_queue_add, both made with  *)
(* sq->mutex held, never block if the pipe takes Length bytes.             *)
THEOREM SystemCallsNeverBlock == Spec => []NeverBlocksInMutex
  <1>1. IInv => NeverBlocksInMutex
    <2> SUFFICES ASSUME IInv PROVE NeverBlocksInMutex
      OBVIOUS
    <2>1. pc \in {"lock", "read"} => fds > 0
      BY DEF IInv, Places
    <2>2. ASSUME Writing # {} PROVE fds < PipeCap
      <3>1. mutex \in Producers
        BY <2>2 DEF IInv, Ownership, Writing
      <3>2. Len(se_list) = fds + 1 /\ fds \in Nat
        BY <3>1 DEF IInv, Balance, TypeOK
      <3>3. /\ Len(se_list) \in Nat /\ Len(empty_se_list) \in Nat
            /\ Len(empty_se_list) + Len(se_list) = Length
        BY LenProperties DEF IInv, TypeOK, CellsConserved
      <3> QED BY <3>2, <3>3, QueueAssumption
    <2> QED BY <2>1, <2>2 DEF NeverBlocksInMutex
  <1> QED BY <1>1, Invariance, PTL

(* sq_run never calls a listener with NULL for an item. *)
THEOREM ItemsNeverNull == Spec => []NoNullItem
  <1>1. IInv => NoNullItem
    BY ThreadAssumption DEF IInv, Places, NoNullItem
  <1> QED BY <1>1, Invariance, PTL

(* A listener added with EVENT_F_ONESHOT is called for one item only.      *)
THEOREM OneshotCalledOnce == Spec => OneshotOnce
  <1>1. IInv /\ [Next]_vars =>
            [\A l \in Listeners : sq_run_call(l) => l \notin removed]_vars
    BY DEF IInv, Retired, sq_run_call
  <1> QED BY <1>1, Invariance, PTL DEF Spec, OneshotOnce

-----------------------------------------------------------------------------
(* The queue as BoundedFifo sees it. *)
Queued == [i \in 1..Len(se_list) |-> event_data[se_list[i]]]

(* A step that leaves lists, cells and the item in hand alone is a stutter. *)
LEMMA FifoStutter ==
    ASSUME UNCHANGED <<queue, data>> PROVE UNCHANGED Fifo!vars
  BY DEF queue, Fifo!vars

(* The refinement mapping gives a sequence of items, one per queued cell. *)
LEMMA QueuedType == IInv => Queued \in Seq(Data) /\ Len(Queued) = Len(se_list)
  <1> SUFFICES ASSUME IInv PROVE Queued \in Seq(Data) /\ Len(Queued) = Len(se_list)
    OBVIOUS
  <1>1. Len(se_list) \in Nat /\ DOMAIN se_list = 1..Len(se_list)
    BY LenProperties DEF IInv, TypeOK
  <1>2. \A i \in 1..Len(se_list) : event_data[se_list[i]] \in Data
    BY <1>1 DEF IInv, Filled
  <1> QED BY <1>1, <1>2, IsASeq DEF Queued

(* The same in the next state, where the steps are compared. *)
LEMMA QueuedTypeNext == IInv' => (Queued \in Seq(Data) /\ Len(Queued) = Len(se_list))'
  BY QueuedType, PTL

(* soft_queue_add is a Put: overwriting the cell it took changes no queued *)
(* item, because that cell is not in se_list.                              *)
LEMMA AddIsPut ==
    ASSUME IInv, NEW p \in Producers, NEW d \in Data, soft_queue_add(p, d)
    PROVE  Fifo!Put(d)
  <1> DEFINE se == Head(empty_se_list)
  <1>1. /\ empty_se_list \in Seq(Cell) /\ se_list \in Seq(Cell) /\ empty_se_list # <<>>
        /\ se_list' = Append(se_list, se)
        /\ event_data' = [event_data EXCEPT ![se] = d]
        /\ event_data \in [Cell -> Data \cup {NoData}]
        /\ data' = data
    BY DEF IInv, TypeOK, soft_queue_add
  <1>2. /\ se \in Cell /\ se = empty_se_list[1] /\ Len(empty_se_list) > 0
        /\ 1 \in DOMAIN empty_se_list
    BY <1>1, TailElements
  <1>3. /\ Len(se_list) \in Nat /\ DOMAIN se_list = 1..Len(se_list)
        /\ Len(se_list') = Len(se_list) + 1
        /\ \A i \in 1..Len(se_list) : se_list'[i] = se_list[i] /\ se_list[i] \in Cell
        /\ se_list'[Len(se_list) + 1] = se
    BY <1>1, <1>2, AppendElements, LenProperties, ElementOfSeq
  <1>4. Len(se_list) < Length
    BY <1>1, <1>2, <1>3, LenProperties DEF IInv, CellsConserved
  <1>5. \A i \in 1..Len(se_list) : se_list[i] # se
    BY <1>2, <1>3 DEF IInv, NoSharing, Apart
  <1>6. Queued' = Append(Queued, d)
    <2>1. Queued \in Seq(Data) /\ Len(Queued) = Len(se_list)
      BY QueuedType
    <2>2. /\ Append(Queued, d) \in Seq(Data) /\ Len(Append(Queued, d)) = Len(se_list) + 1
          /\ \A i \in 1..Len(se_list) : Append(Queued, d)[i] = Queued[i]
          /\ Append(Queued, d)[Len(se_list) + 1] = d
      BY <2>1, AppendElements
    <2>3. Queued' \in Seq(Data) /\ Len(Queued') = Len(se_list')
      BY AddIInv, QueuedTypeNext
    <2>4. \A i \in 1..(Len(se_list) + 1) : Queued'[i] = Append(Queued, d)[i]
      <3> SUFFICES ASSUME NEW i \in 1..(Len(se_list) + 1)
                   PROVE  event_data'[se_list'[i]] = Append(Queued, d)[i]
        BY <1>3 DEF Queued
      <3>1. CASE i = Len(se_list) + 1
        <4>1. se_list'[i] = se /\ event_data'[se] = d /\ Append(Queued, d)[i] = d
          BY <3>1, <2>2, <1>1, <1>2, <1>3
        <4> QED BY <4>1
      <3>2. CASE i \in 1..Len(se_list)
        BY <3>2, <2>2, <1>1, <1>2, <1>3, <1>5 DEF Queued
      <3>3. Len(se_list) \in Nat
        BY <1>3
      <3>4. i = Len(se_list) + 1 \/ i \in 1..Len(se_list)
        BY <3>3
      <3> QED BY <3>1, <3>2, <3>4
    <2> QED BY <2>2, <2>3, <2>4, <1>3, SeqEqual
  <1> QED BY <1>1, <1>4, <1>6, QueuedType DEF Fifo!Put, Queued

(* The read of sq_run is a Get. *)
LEMMA ReadIsGet == ASSUME IInv, sq_run_read PROVE Fifo!Get
  <1> USE QueueAssumption, ThreadAssumption
  <1>1. data = NoData
    BY DEF IInv, Places, sq_run_read
  <1>2. Len(se_list) = fds /\ fds > 0 /\ se_list \in Seq(Cell) /\ se_list # <<>>
    <2>1. mutex = Main /\ fd_event /\ fds \in Nat /\ fds > 0
      BY DEF sq_run_read, IInv, TypeOK, Ownership, Places
    <2> QED BY <2>1, EmptySeq DEF IInv, TypeOK, Balance
  <1>3. /\ se_list' = Tail(se_list) /\ data' = event_data[Head(se_list)]
        /\ event_data' = event_data
    BY <1>2 DEF sq_run_read, locked_get_next_event
  <1>4. /\ Len(se_list) \in Nat /\ Len(se_list') = Len(se_list) - 1
        /\ Head(se_list) = se_list[1]
        /\ \A i \in 1..(Len(se_list) - 1) : se_list'[i] = se_list[i + 1]
    BY <1>2, <1>3, TailElements, LenProperties
  <1>5. Queued \in Seq(Data) /\ Len(Queued) = Len(se_list) /\ Queued # <<>>
    BY <1>2, QueuedType, EmptySeq
  <1>6. /\ Head(Queued) = Queued[1] /\ Tail(Queued) \in Seq(Data)
        /\ Len(Tail(Queued)) = Len(se_list) - 1
        /\ \A i \in 1..(Len(se_list) - 1) : Tail(Queued)[i] = Queued[i + 1]
    BY <1>5, TailElements
  <1>7. Queued' \in Seq(Data) /\ Len(Queued') = Len(se_list')
    BY ReadIInv, QueuedTypeNext
  <1>8. \A i \in 1..(Len(se_list) - 1) : Queued'[i] = Tail(Queued)[i]
    BY <1>3, <1>4, <1>6 DEF Queued
  <1>9. Queued' = Tail(Queued)
    BY <1>4, <1>6, <1>7, <1>8, SeqEqual
  <1>10. data' = Head(Queued)
    BY <1>2, <1>3, <1>4, <1>6 DEF Queued
  <1> QED BY <1>1, <1>5, <1>9, <1>10 DEF Fifo!Get, Queued

(* Every step of the soft queue is a step of BoundedFifo or leaves it      *)
(* unchanged: producers and the event loop see a bounded FIFO queue.       *)
THEOREM FifoStepSimulation == Spec => Fifo!Init /\ [][Fifo!Next]_Fifo!vars
  <1>1. Init => Fifo!Init
    <2> SUFFICES ASSUME Init PROVE Fifo!Init
      OBVIOUS
    <2>1. Len(se_list) = 0
      BY DEF Init
    <2>2. Queued = <<>>
      BY <2>1, InitIInv, QueuedType, EmptySeq
    <2> QED BY <2>2 DEF Init, Fifo!Init, Queued
  <1>2. IInv /\ [Next]_vars => [Fifo!Next]_Fifo!vars
    <2> SUFFICES ASSUME IInv, [Next]_vars PROVE Fifo!Next \/ UNCHANGED Fifo!vars
      OBVIOUS
    <2>1. CASE \E p \in Producers, d \in Data : soft_queue_add(p, d)
      BY <2>1, AddIsPut DEF Fifo!Next
    <2>2. CASE sq_run_read
      BY <2>2, ReadIsGet DEF Fifo!Next
    <2>3. CASE sq_run_strip
      BY <2>3, ThreadAssumption
         DEF IInv, Places, sq_run_strip, queue, Fifo!Next, Fifo!Done
    <2>4. CASE \/ \E l \in Listeners : add_softqueue_event(l)
               \/ start_threads
               \/ \E p \in Producers : write_byte(p)
               \/ select \/ sq_run_lock \/ sq_run_read_error
               \/ \E l \in Listeners : sq_run_call(l)
               \/ sq_run_return \/ sq_run_relock
               \/ UNCHANGED vars
      <3>1. UNCHANGED <<queue, data>>
        BY <2>4 DEF add_softqueue_event, start_threads, write_byte, select,
             sq_run_lock, sq_run_read_error, sq_run_call, sq_run_return,
             sq_run_relock, vars, queue
      <3> QED BY <3>1, FifoStutter
    <2> QED BY <2>1, <2>2, <2>3, <2>4 DEF Next
  <1> QED BY <1>1, <1>2, Invariance, PTL DEF Spec

=============================================================================
