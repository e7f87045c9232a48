--------------------------- MODULE TcpConnProofs ---------------------------
(***************************************************************************)
(* Connections, descriptors and events stay consistent, for every number   *)
(* of connections, descriptors and event addresses and every order of the  *)
(* callbacks of a pass.                                                    *)
(***************************************************************************)
EXTENDS TcpConn, TLAPS

(* The event e is on the list, is not to be removed and is about           *)
(* descriptor f of connection c.                                           *)
Watches(e, f, c) == /\ e \in Listed \ remove
                    /\ fd_event_list[e].fd = f /\ fd_event_list[e].data = c

(* The events of a connection say what the connection says. *)
WiredConn(c) ==
    LET k == conn[c] IN
    /\ Watches(k.read_event, k.fd, c) /\ Watches(k.write_event, k.fd, c)
    /\ k.second_read_event = NULL <=> k.second_fd = NULL
    /\ k.second_read_event # NULL => Watches(k.second_read_event, k.second_fd, c)

Wired == \A c \in Live : WiredConn(c)

(* PendingWritesWatched for one connection. *)
WatchedConn(c) == /\ conn[c].unsent <=> conn[c].write_event \in enabled
                  /\ conn[c].drop_after => conn[c].unsent

(* The part of DescriptorsOwned that is about connections. *)
Owned == /\ open \subseteq Fds
         /\ open = UNION {FdsOf(conn[c]) : c \in Live}
         /\ \A c, k \in Live : c # k => FdsOf(conn[c]) \cap FdsOf(conn[k]) = {}
         /\ \A c \in Live : conn[c].fd # NULL /\ conn[c].fd # conn[c].second_fd

(* Every other event on the list is about to be removed. *)
Known ==
    /\ Watches(ListenEvent, ListenFd, NULL)
    /\ \A e \in (Listed \ remove) \ {ListenEvent} :
          Owner(e) \in Live /\ e \in EventsOf(conn[Owner(e)])

(* An event that is to be removed is neither enabled nor called. *)
Removed ==
    /\ enabled \cap remove = {} /\ running \cap remove = {}
    /\ pc = "callback" => cur \in Listed \ remove

Inv == DescriptorsOwned /\ PendingWritesWatched /\ Wired /\ Known /\ Removed

-----------------------------------------------------------------------------
(* Kinds of values that are never confused. *)
LEMMA Distinct ==
    /\ NULL \notin Conns /\ NULL \notin Fds /\ NULL \notin Events
    /\ NULL \notin Conn /\ NULL \notin Event
    /\ ListenEvent \in Events
BY TcpAssumption, NullAssumption

(* The fields of a connection. *)
LEMMA ConnParts ==
    ASSUME NEW k \in Conn
    PROVE  /\ k.fd \in Fds \cup {NULL} /\ k.second_fd \in Fds \cup {NULL}
           /\ k.read_event \in Events /\ k.write_event \in Events
           /\ k.second_read_event \in Events \cup {NULL}
           /\ k.unsent \in BOOLEAN /\ k.drop_after \in BOOLEAN
           /\ k.proto \in {"START", "HTTP", "RTSP"}
           /\ k.cookie \in Cookies \cup {NoCookie}
BY DEF Conn

(* What Inv says of a live connection. *)
LEMMA LiveConn ==
    ASSUME Inv, NEW c \in Live
    PROVE  LET k == conn[c] IN
           /\ c \in Conns /\ k \in Conn
           /\ k.fd \in Fds /\ k.fd # k.second_fd /\ FdsOf(k) \subseteq open
           /\ k.read_event \in EventsOf(k) /\ k.write_event \in EventsOf(k)
           /\ EventsOf(k) \subseteq Listed \ remove
           /\ \A e \in EventsOf(k) : Owner(e) = c /\ e # ListenEvent
                                     /\ fd_event_list[e].fd \in FdsOf(k)
<1> DEFINE k == conn[c]
<1>1. c \in Conns /\ k \in Conn /\ TypeOK
  BY DEF Live, Inv, DescriptorsOwned, TypeOK
<1>2. k.fd \in Fds /\ k.fd # k.second_fd /\ FdsOf(k) \subseteq open
  BY <1>1, ConnParts DEF Inv, DescriptorsOwned
<1>3. /\ k.read_event \in Events /\ k.write_event \in Events
      /\ k.second_read_event \in Events \cup {NULL}
      /\ k.second_fd \in Fds \cup {NULL}
  BY <1>1, ConnParts
<1>4. /\ Watches(k.read_event, k.fd, c) /\ Watches(k.write_event, k.fd, c)
      /\ k.second_read_event = NULL <=> k.second_fd = NULL
      /\ k.second_read_event # NULL => Watches(k.second_read_event, k.second_fd, c)
  BY DEF Inv, Wired, WiredConn
<1>5. Owner(ListenEvent) = NULL
  BY DEF Inv, Known, Watches, Owner
<1> HIDE DEF k
<1>6. \A e \in EventsOf(k) : \E f \in FdsOf(k) : Watches(e, f, c)
  BY <1>2, <1>3, <1>4, Distinct DEF EventsOf, FdsOf
<1>7. k.read_event \in EventsOf(k) /\ k.write_event \in EventsOf(k)
  BY <1>3, Distinct DEF EventsOf
<1> QED
  BY <1>1, <1>2, <1>5, <1>6, <1>7, Distinct DEF Watches, Owner, k

(* A callback for connection c runs only while c is live. *)
LEMMA CalledLive ==
    ASSUME Inv, NEW c \in Conns, NEW write, pc = "callback", Called(c, write)
    PROVE  c \in Live /\ cur \in EventsOf(conn[c])
<1>1. cur \in Listed \ remove /\ Owner(cur) = c
  BY DEF Inv, Removed, Called
<1>2. cur # ListenEvent
  BY <1>1, Distinct DEF Inv, Known, Owner, Watches
<1> QED
  BY <1>1, <1>2 DEF Inv, Known

(* The events of two connections are different events. *)
LEMMA OthersEvents ==
    ASSUME Inv, NEW c \in Live, NEW d \in Live, c # d
    PROVE  EventsOf(conn[c]) \cap EventsOf(conn[d]) = {}
BY LiveConn

-----------------------------------------------------------------------------
(* tcp_listen: one event, no connection. *)
LEMMA InitInv == Init => Inv
<1> SUFFICES ASSUME Init PROVE Inv
  OBVIOUS
<1> DEFINE listen == [fd |-> ListenFd, write |-> FALSE, data |-> NULL]
<1>1. listen \in Event /\ listen # NULL
  <2>1. listen \in Event
    BY DEF Event
  <2> QED BY <2>1, Distinct
<1>2. \A e \in Events : fd_event_list[e] = IF e = ListenEvent THEN listen ELSE NULL
  BY DEF Init
<1>3. fd_event_list \in [Events -> Event \cup {NULL}]
  BY <1>1 DEF Init
<1>4. Listed = {ListenEvent} /\ Live = {}
  BY <1>1, <1>2, Distinct DEF Listed, Live, Init
<1>5. TypeOK
  BY <1>3, <1>4 DEF Init, TypeOK
<1>6. DescriptorsOwned
  BY <1>4, <1>5 DEF Init, DescriptorsOwned
<1>7. Known /\ Removed
  BY <1>2, <1>4, Distinct DEF Known, Removed, Init, Watches
<1> QED
  BY <1>4, <1>6, <1>7 DEF Inv, PendingWritesWatched, Wired

(* A step that leaves connections, descriptors and the list alone: select, *)
(* a call, the return of a callback that did nothing more.                 *)
LEMMA LoopStep ==
    ASSUME Inv, UNCHANGED <<conn, open, fd_event_list, enabled, remove>>,
           running' \subseteq running \cup enabled,
           pc' \in {"select", "dispatch", "callback"}, cur' \in Events \cup {NULL},
           pc' = "callback" => cur' \in running \/ (pc = "callback" /\ cur' = cur)
    PROVE  Inv'
<1>1. TypeOK
  BY DEF Inv, DescriptorsOwned
<1>2. Live' = Live /\ Listed' = Listed
  BY DEF Live, Listed
<1>3. TypeOK'
  BY <1>1, <1>2 DEF TypeOK
<1>4. DescriptorsOwned'
  BY <1>2, <1>3 DEF Inv, DescriptorsOwned, Owner
<1>5. Wired' /\ Known'
  BY <1>2 DEF Inv, Wired, WiredConn, Known, Watches, Owner
<1>6. Removed'
  BY <1>1, <1>2 DEF Inv, Removed, TypeOK
<1> QED
  BY <1>2, <1>4, <1>5, <1>6 DEF Inv, PendingWritesWatched

(* The end of a pass. *)
LEMMA StripStep == ASSUME Inv, strip_events, UNCHANGED <<conn, open>> PROVE Inv'
<1>1. TypeOK
  BY DEF Inv, DescriptorsOwned
<1>2. /\ running = {} /\ running' = running /\ enabled' = enabled /\ remove' = {}
      /\ pc' = "select" /\ cur' = cur
      /\ \A e \in Events : fd_event_list'[e] = IF e \in remove THEN NULL ELSE fd_event_list[e]
      /\ fd_event_list' \in [Events -> Event \cup {NULL}]
  BY <1>1 DEF strip_events, TypeOK
<1>3. Live' = Live /\ Listed' = Listed \ remove
  BY <1>2 DEF Live, Listed
<1>4. \A e \in Listed' : fd_event_list'[e] = fd_event_list[e]
  BY <1>2, <1>3 DEF Listed
<1>5. enabled \subseteq Listed'
  BY <1>1, <1>3 DEF Inv, Removed, TypeOK
<1>6. TypeOK'
  BY <1>1, <1>2, <1>3, <1>5 DEF TypeOK
<1>7. \A e, f, c : Watches(e, f, c) => Watches(e, f, c)'
  BY <1>2, <1>3, <1>4 DEF Watches
<1>8. Wired' /\ Known'
  <2>1. Wired'
    BY <1>3, <1>7 DEF Inv, Wired, WiredConn
  <2> QED
    BY <1>2, <1>3, <1>4, <1>7, <2>1 DEF Inv, Known, Owner
<1>9. DescriptorsOwned'
  BY <1>2, <1>3, <1>4, <1>5, <1>6 DEF Inv, DescriptorsOwned, Owner
<1>10. Removed'
  BY <1>2 DEF Removed
<1> QED
  BY <1>2, <1>3, <1>8, <1>9, <1>10 DEF Inv, PendingWritesWatched

-----------------------------------------------------------------------------
(* What a callback may do to a connection that stays: its protocol, cookie *)
(* and send buffer, with its write event enabled as the buffer demands.    *)
LEMMA BufferStep ==
    ASSUME Inv, NEW c \in Live, NEW k \in Conn,
           k.fd = conn[c].fd, k.second_fd = conn[c].second_fd,
           k.read_event = conn[c].read_event, k.write_event = conn[c].write_event,
           k.second_read_event = conn[c].second_read_event,
           conn' = [conn EXCEPT ![c] = k],
           UNCHANGED <<fd_event_list, running, remove, open>>,
           \A e : e # k.write_event => (e \in enabled' <=> e \in enabled),
           k.unsent <=> k.write_event \in enabled',
           k.drop_after => k.unsent,
           (pc' = pc /\ cur' = cur) \/ (pc' = "dispatch" /\ cur' = NULL)
    PROVE  Inv'
<1>1. TypeOK /\ c \in Conns /\ k # NULL
  BY Distinct DEF Inv, DescriptorsOwned, Live
<1>2. \A d \in Conns : conn'[d] = IF d = c THEN k ELSE conn[d]
  BY <1>1 DEF TypeOK
<1>3. Live' = Live /\ Listed' = Listed
  BY <1>1, <1>2 DEF Live, Listed
<1>4. \A d \in Live : /\ EventsOf(conn'[d]) = EventsOf(conn[d])
                       /\ FdsOf(conn'[d]) = FdsOf(conn[d])
                       /\ conn'[d].fd = conn[d].fd /\ conn'[d].second_fd = conn[d].second_fd
                       /\ conn'[d].read_event = conn[d].read_event
                       /\ conn'[d].write_event = conn[d].write_event
                       /\ conn'[d].second_read_event = conn[d].second_read_event
  BY <1>2 DEF Live, EventsOf, FdsOf
<1>5. k.write_event \in Listed \ remove /\ Owner(k.write_event) = c
      /\ fd_event_list[k.write_event].fd \in FdsOf(conn[c])
      /\ k.write_event # ListenEvent
  BY LiveConn
<1>6. enabled' \subseteq enabled \cup {k.write_event}
  OBVIOUS
<1>7. TypeOK'
  <2>1. conn' \in [Conns -> Conn \cup {NULL}]
    BY <1>1 DEF TypeOK
  <2> QED
    BY <1>1, <1>3, <1>5, <1>6, <2>1 DEF TypeOK
<1>8. DescriptorsOwned'
  <2>1. open' = UNION {FdsOf(conn'[d]) : d \in Live'}
    BY <1>3, <1>4 DEF Inv, DescriptorsOwned
  <2>2. \A d, g \in Live' : d # g => FdsOf(conn'[d]) \cap FdsOf(conn'[g]) = {}
    BY <1>3, <1>4 DEF Inv, DescriptorsOwned
  <2>3. \A d \in Live' : conn'[d].fd # NULL /\ conn'[d].fd # conn'[d].second_fd
    BY <1>3, <1>4 DEF Inv, DescriptorsOwned
  <2>4. \A e \in enabled' \ {ListenEvent} :
           Owner(e)' \in Live' /\ fd_event_list'[e].fd \in FdsOf(conn'[Owner(e)'])
    BY <1>3, <1>4, <1>5, <1>6 DEF Inv, DescriptorsOwned, Owner
  <2> QED
    BY <1>7, <2>1, <2>2, <2>3, <2>4 DEF DescriptorsOwned
<1>9. Wired' /\ Known'
  <2>1. \A e, f, d : Watches(e, f, d)' <=> Watches(e, f, d)
    BY <1>3 DEF Watches
  <2>2. Wired'
    BY <1>3, <1>4, <2>1 DEF Inv, Wired, WiredConn
  <2> QED
    BY <1>3, <1>4, <2>1, <2>2 DEF Inv, Known, Owner
<1>10. Removed'
  BY <1>3, <1>5, <1>6 DEF Inv, Removed
<1>11. PendingWritesWatched'
  <2> SUFFICES ASSUME NEW d \in Live
               PROVE  /\ conn'[d].unsent <=> conn'[d].write_event \in enabled'
                      /\ conn'[d].drop_after => conn'[d].unsent
    BY <1>3 DEF PendingWritesWatched
  <2>1. CASE d = c
    BY <1>1, <1>2, <2>1
  <2>2. CASE d # c
    <3>1. conn'[d] = conn[d]
      BY <1>2, <2>2 DEF Live
    <3>2. conn[d].write_event # k.write_event
      BY <1>5, <2>2, LiveConn
    <3> QED
      BY <3>1, <3>2 DEF Inv, PendingWritesWatched
  <2> QED BY <2>1, <2>2
<1> QED
  BY <1>8, <1>9, <1>10, <1>11 DEF Inv

-----------------------------------------------------------------------------
(* A callback that changes the connections X, adds the events A, which     *)
(* were not on the list, and removes the events R, none of them of another *)
(* connection, and then returns.                                           *)
Rewire(X, A, R) ==
    /\ X \subseteq Conns /\ A \subseteq Events /\ A \cap Listed = {}
    /\ R \subseteq Listed \cup A /\ ListenEvent \notin R
    /\ conn' \in [Conns -> Conn \cup {NULL}]
    /\ \A d \in Conns \ X : conn'[d] = conn[d]
    /\ fd_event_list' \in [Events -> Event \cup {NULL}]
    /\ \A e \in A : fd_event_list'[e] # NULL
    /\ \A e \in Events \ A : fd_event_list'[e] = fd_event_list[e]
    /\ remove' = remove \cup R /\ running' = running \ R
    /\ enabled' \subseteq (enabled \cup A) \ R
    /\ \A d \in Live \ X : /\ EventsOf(conn[d]) \cap R = {}
                           /\ conn[d].write_event \in enabled =>
                                 conn[d].write_event \in enabled'
    /\ pc' = "dispatch" /\ cur' = NULL
    /\ Owned'
    /\ \A e \in ((Listed \ remove) \cup A) \ R :
          e # ListenEvent /\ (e \in A \/ Owner(e) \in X) =>
             Owner(e)' \in Live' /\ e \in EventsOf(conn'[Owner(e)'])
    /\ \A c \in X \cap Live' : WiredConn(c)' /\ WatchedConn(c)'

(* Such a callback keeps Inv. *)
LEMMA RewireStep == ASSUME Inv, NEW X, NEW A, NEW R, Rewire(X, A, R) PROVE Inv'
<1> USE DEF Rewire
<1>1. TypeOK
  BY DEF Inv, DescriptorsOwned
<1>2. Listed' = Listed \cup A /\ remove \subseteq Listed /\ enabled \subseteq Listed
      /\ running \subseteq Listed
  BY <1>1 DEF Listed, TypeOK
<1>3. \A d \in Conns \ X : d \in Live' <=> d \in Live
  BY DEF Live
<1>4. TypeOK'
  BY <1>1, <1>2 DEF TypeOK, Owned
<1>5. \A e \in Listed : fd_event_list'[e] = fd_event_list[e] /\ e \in Events
  BY DEF Listed
<1>6. ASSUME NEW d \in Live', d \notin X
      PROVE  WiredConn(d)' /\ WatchedConn(d)'
  <2>1. d \in Live /\ conn'[d] = conn[d]
    BY <1>3, <1>6 DEF Live
  <2>2. \A e \in EventsOf(conn[d]) : e \in Listed' \ remove' /\ fd_event_list'[e] = fd_event_list[e]
    BY <1>2, <1>5, <1>6, <2>1, LiveConn
  <2>3. WiredConn(d)'
    BY <2>1, <2>2, LiveConn DEF Inv, Wired, WiredConn, Watches, EventsOf
  <2>4. conn[d].write_event \in enabled' <=> conn[d].write_event \in enabled
    BY <1>2, <1>6, <2>1, LiveConn
  <2> QED
    BY <2>1, <2>3, <2>4 DEF Inv, PendingWritesWatched, WatchedConn
<1>7. Wired' /\ PendingWritesWatched'
  BY <1>6 DEF Wired, PendingWritesWatched, WatchedConn
<1>8. Known'
  <2>1. Watches(ListenEvent, ListenFd, NULL)'
    BY <1>2, <1>5 DEF Inv, Known, Watches
  <2>2. ASSUME NEW e \in Listed' \ remove', e # ListenEvent
        PROVE  Owner(e)' \in Live' /\ e \in EventsOf(conn'[Owner(e)'])
    <3>1. e \in ((Listed \ remove) \cup A) \ R
      BY <1>2, <2>2
    <3>2. CASE e \in A \/ Owner(e) \in X
      BY <2>2, <3>1, <3>2
    <3>3. CASE e \notin A /\ Owner(e) \notin X
      <4>1. Owner(e)' = Owner(e) /\ Owner(e) \in Live /\ e \in EventsOf(conn[Owner(e)])
        BY <1>5, <2>2, <3>1, <3>3 DEF Inv, Known, Owner
      <4>2. Owner(e) \in Live' /\ conn'[Owner(e)] = conn[Owner(e)]
        BY <1>3, <3>3, <4>1 DEF Live
      <4> QED BY <4>1, <4>2
    <3> QED BY <3>2, <3>3
  <2> QED BY <2>1, <2>2 DEF Known
<1>9. Removed'
  <2>1. enabled' \cap remove' = {}
    BY <1>2 DEF Inv, Removed
  <2>2. running' \cap remove' = {}
    BY <1>2 DEF Inv, Removed
  <2> QED BY <2>1, <2>2 DEF Removed
<1>10. DescriptorsOwned'
  <2>1. ASSUME NEW e \in enabled' \ {ListenEvent}
        PROVE  Owner(e)' \in Live' /\ fd_event_list'[e].fd \in FdsOf(conn'[Owner(e)'])
    <3>1. e \in Listed' \ remove'
      BY <1>4, <1>9 DEF Removed, TypeOK
    <3>2. Owner(e)' \in Live' /\ e \in EventsOf(conn'[Owner(e)'])
      BY <1>8, <2>1, <3>1 DEF Known
    <3> DEFINE k == conn'[Owner(e)']
    <3>3. WiredConn(Owner(e))'
      BY <1>7, <3>2 DEF Wired
    <3>4. /\ k.fd # NULL
          /\ e = k.read_event => fd_event_list'[e].fd = k.fd
          /\ e = k.write_event => fd_event_list'[e].fd = k.fd
          /\ e # NULL /\ e = k.second_read_event =>
                fd_event_list'[e].fd = k.second_fd /\ k.second_fd # NULL
      BY <3>2, <3>3 DEF WiredConn, Watches, Owned
    <3> HIDE DEF k
    <3>5. fd_event_list'[e].fd \in FdsOf(k)
      BY <3>2, <3>4 DEF EventsOf, FdsOf, k
    <3> QED BY <3>2, <3>5 DEF k
  <2> QED BY <1>4, <2>1 DEF DescriptorsOwned, Owned
<1> QED
  BY <1>7, <1>8, <1>9, <1>10 DEF Inv

-----------------------------------------------------------------------------
(* change_events without a new event leaves the list alone. *)
LEMMA NoneAdded ==
    ASSUME TypeOK, NEW R, NEW on, NEW off, change_events(<<>>, R, on, off)
    PROVE  /\ fd_event_list' = fd_event_list
           /\ enabled' = ((enabled \cup on) \ off) \ R
           /\ running' = running \ R /\ remove' = remove \cup R
<1>1. DOMAIN <<>> = {}
  OBVIOUS
<1>2. /\ fd_event_list' = [e \in Events |-> fd_event_list[e]]
      /\ enabled' = ((enabled \cup {} \cup on) \ off) \ R
      /\ running' = running \ R /\ remove' = remove \cup R
  BY <1>1 DEF change_events
<1> QED
  BY <1>2 DEF TypeOK

(* Enabling and disabling events changes nothing else. *)
LEMMA NothingRemoved ==
    ASSUME TypeOK, NEW on, NEW off, change_events(<<>>, {}, on, off)
    PROVE  /\ fd_event_list' = fd_event_list
           /\ enabled' = (enabled \cup on) \ off
           /\ running' = running /\ remove' = remove
<1>1. /\ fd_event_list' = fd_event_list
      /\ enabled' = ((enabled \cup on) \ off) \ {}
      /\ running' = running \ {} /\ remove' = remove \cup {}
  BY NoneAdded, Zenon
<1> QED
  BY <1>1

(* The address of a new event is not that of an event on the list. *)
LEMMA NewEventFree ==
    ASSUME NEW c \in Conns, NEW role \in {"read", "write", "second"}, HasName(c, role)
    PROVE  NewEvent(c, role) \in Events /\ NewEvent(c, role) \notin Listed
<1> DEFINE i == CHOOSE i \in Names : <<c, role, i>> \notin Listed
<1>1. i \in Names /\ <<c, role, i>> \notin Listed
  BY DEF HasName
<1> HIDE DEF i
<1>2. <<c, role, i>> \in Events
  BY <1>1, TcpAssumption
<1> QED
  BY <1>1, <1>2 DEF NewEvent, i

(* drop_conn of the connection whose event was called. *)
LEMMA DropStep ==
    ASSUME Inv, NEW c \in Live, drop_conn(conn, c), Return
    PROVE  Inv'
<1> DEFINE R == EventsOf(conn[c])
<1>1. TypeOK /\ c \in Conns
  BY LiveConn DEF Inv, DescriptorsOwned
<1>2. /\ conn' = [conn EXCEPT ![c] = NULL] /\ open' = open \ FdsOf(conn[c])
      /\ pc' = "dispatch" /\ cur' = NULL
      /\ fd_event_list' = fd_event_list /\ enabled' = enabled \ R
      /\ running' = running \ R /\ remove' = remove \cup R
  BY <1>1, NoneAdded DEF drop_conn, Return
<1>3. \A d \in Conns : conn'[d] = IF d = c THEN NULL ELSE conn[d]
  BY <1>1, <1>2 DEF TypeOK
<1>4. Live' = Live \ {c}
  BY <1>3 DEF Live
<1>5. conn' \in [Conns -> Conn \cup {NULL}]
  BY <1>1, <1>2 DEF TypeOK
<1>6. Owned'
  <2>1. \A d \in Live' : conn'[d] = conn[d]
    BY <1>3, <1>4 DEF Live
  <2>2. \A d \in Live' : FdsOf(conn[d]) \cap FdsOf(conn[c]) = {}
    BY <1>4 DEF Inv, DescriptorsOwned
  <2>3. open' = UNION {FdsOf(conn'[d]) : d \in Live'}
    BY <1>2, <1>4, <2>1, <2>2 DEF Inv, DescriptorsOwned
  <2> QED
    BY <1>1, <1>2, <1>4, <2>1, <2>3 DEF Inv, DescriptorsOwned, Owned, TypeOK
<1>7. R \in SUBSET (Listed \cup {}) /\ ListenEvent \notin R
  BY LiveConn
<1>8. \A d \in Live \ {c} : /\ EventsOf(conn[d]) \cap R = {}
                            /\ conn[d].write_event \in enabled =>
                                  conn[d].write_event \in enabled'
  BY <1>2, OthersEvents, LiveConn
<1>9. \A e \in (Listed \ remove) \ R : e # ListenEvent => Owner(e) # c
  BY DEF Inv, Known
<1> HIDE DEF R
<1> DEFINE X == {c}
           A == {}
<1>10. /\ X \in SUBSET Conns /\ A \in SUBSET Events /\ A \cap Listed = {}
       /\ R \in SUBSET (Listed \cup A)
       /\ \A d \in Conns \ X : conn'[d] = conn[d]
       /\ fd_event_list' \in [Events -> Event \cup {NULL}]
       /\ \A e \in A : fd_event_list'[e] # NULL
       /\ \A e \in Events \ A : fd_event_list'[e] = fd_event_list[e]
       /\ enabled' \subseteq (enabled \cup A) \ R
  BY <1>1, <1>2, <1>3, <1>7 DEF TypeOK
<1>11. \A d \in Live \ X : /\ EventsOf(conn[d]) \cap R = {}
                           /\ conn[d].write_event \in enabled =>
                                 conn[d].write_event \in enabled'
  BY <1>8
<1>12. \A e \in ((Listed \ remove) \cup A) \ R :
          e # ListenEvent /\ (e \in A \/ Owner(e) \in X) =>
             Owner(e)' \in Live' /\ e \in EventsOf(conn'[Owner(e)'])
  BY <1>9
<1>13. \A d \in X \cap Live' : WiredConn(d)' /\ WatchedConn(d)'
  BY <1>4
<1> HIDE DEF X, A
<1>14. Rewire(X, A, R)
  BY <1>2, <1>5, <1>6, <1>7, <1>10, <1>11, <1>12, <1>13 DEF Rewire
<1> QED
  BY <1>14, RewireStep

(* The POST side of a tunnel ends: its descriptor and event go. *)
LEMMA SecondClosedStep ==
    ASSUME Inv, NEW c \in Live, cur = conn[c].second_read_event, cur \in EventsOf(conn[c]),
           conn' = [conn EXCEPT ![c].second_fd = NULL, ![c].second_read_event = NULL],
           change_events(<<>>, {cur}, {}, {}), open' = open \ {conn[c].second_fd}, Return
    PROVE  Inv'
<1> DEFINE k == [conn[c] EXCEPT !.second_fd = NULL, !.second_read_event = NULL]
<1>1. TypeOK /\ c \in Conns /\ conn[c] \in Conn
  BY LiveConn DEF Inv, DescriptorsOwned
<1>2. /\ pc' = "dispatch" /\ cur' = NULL
      /\ fd_event_list' = fd_event_list /\ enabled' = enabled \ {cur}
      /\ running' = running \ {cur} /\ remove' = remove \cup {cur}
  BY <1>1, NoneAdded DEF Return
<1>3. /\ k \in Conn /\ k.fd = conn[c].fd /\ k.second_fd = NULL
      /\ k.read_event = conn[c].read_event /\ k.write_event = conn[c].write_event
      /\ k.second_read_event = NULL /\ k.unsent = conn[c].unsent
      /\ k.drop_after = conn[c].drop_after
  BY <1>1 DEF Conn
<1>4. conn' = [conn EXCEPT ![c] = k]
  BY <1>1 DEF TypeOK
<1> HIDE DEF k
<1>5. k # NULL /\ cur # NULL /\ cur \in Listed \ remove /\ cur # ListenEvent /\ Owner(cur) = c
  BY <1>3, Distinct, LiveConn DEF EventsOf
<1>6. \A d \in Conns : conn'[d] = IF d = c THEN k ELSE conn[d]
  BY <1>1, <1>4 DEF TypeOK
<1>7. Live' = Live /\ conn' \in [Conns -> Conn \cup {NULL}]
  BY <1>1, <1>3, <1>4, <1>5, <1>6 DEF Live, TypeOK
<1>8. WiredConn(c) /\ WatchedConn(c)
  BY DEF Inv, Wired, PendingWritesWatched, WatchedConn
<1>9. conn[c].read_event # cur /\ conn[c].write_event # cur /\ conn[c].second_fd # NULL
  BY <1>5, <1>8, LiveConn DEF WiredConn, Watches
<1>10. Listed' = Listed
  BY <1>2 DEF Listed
<1>11. WiredConn(c)' /\ WatchedConn(c)'
  <2>1. conn'[c] = k
    BY <1>1, <1>6
  <2> QED
    BY <1>2, <1>3, <1>8, <1>9, <1>10, <2>1 DEF WiredConn, WatchedConn, Watches
<1>12. FdsOf(k) = FdsOf(conn[c]) \ {conn[c].second_fd}
  BY <1>1, <1>3, LiveConn DEF FdsOf
<1>13. Owned'
  <2>1. \A d \in Live : d # c => conn'[d] = conn[d]
    BY <1>6 DEF Live
  <2>2. conn'[c] = k
    BY <1>1, <1>6
  <2>3. \A d \in Live : d # c => conn[c].second_fd \notin FdsOf(conn[d])
    <3>1. conn[c].second_fd \in FdsOf(conn[c])
      BY <1>9 DEF FdsOf
    <3> QED BY <3>1 DEF Inv, DescriptorsOwned
  <2>4. \A d \in Live : FdsOf(conn'[d]) = FdsOf(conn[d]) \ {conn[c].second_fd}
    BY <1>12, <2>1, <2>2, <2>3
  <2>5. open' = UNION {FdsOf(conn'[d]) : d \in Live'}
    <3>1. open = UNION {FdsOf(conn[d]) : d \in Live}
      BY DEF Inv, DescriptorsOwned
    <3>2. \A f : f \in open' <=> \E d \in Live : f \in FdsOf(conn'[d])
      BY <2>4, <3>1
    <3>3. \A f : f \in UNION {FdsOf(conn'[d]) : d \in Live'} <=>
                    \E d \in Live' : f \in FdsOf(conn'[d])
      OBVIOUS
    <3> QED BY <1>7, <3>2, <3>3
  <2>6. \A d, g \in Live' : d # g => FdsOf(conn'[d]) \cap FdsOf(conn'[g]) = {}
    BY <1>7, <2>4 DEF Inv, DescriptorsOwned
  <2>7. \A d \in Live' : conn'[d].fd # NULL /\ conn'[d].fd # conn'[d].second_fd
    <3>1. \A d \in Live : conn[d].fd # NULL /\ conn[d].fd # conn[d].second_fd
      BY DEF Inv, DescriptorsOwned
    <3>2. k.fd # NULL /\ k.fd # k.second_fd
      BY <1>3, <3>1, LiveConn
    <3> QED BY <1>7, <2>1, <2>2, <3>1, <3>2
  <2> QED
    BY <1>1, <2>5, <2>6, <2>7 DEF Owned, TypeOK
<1>14. ASSUME NEW d \in Live, d # c
       PROVE  cur \notin EventsOf(conn[d]) /\ conn[d].write_event # cur
  BY <1>5, <1>14, LiveConn
<1>15. ASSUME NEW e \in (Listed \ remove) \ {cur}, e # ListenEvent, Owner(e) = c
       PROVE  Owner(e)' \in Live' /\ e \in EventsOf(conn'[Owner(e)'])
  <2>1. e \in EventsOf(conn[c]) /\ Owner(e)' = c
    BY <1>2, <1>15 DEF Inv, Known, Owner
  <2>2. e \in EventsOf(k)
    BY <1>3, <1>15, <2>1 DEF EventsOf
  <2> QED BY <1>1, <1>6, <1>7, <2>1, <2>2
<1> DEFINE X == {c}
           A == {}
           R == {cur}
<1>16. /\ X \in SUBSET Conns /\ A \in SUBSET Events /\ A \cap Listed = {}
       /\ R \in SUBSET (Listed \cup A) /\ ListenEvent \notin R
       /\ \A d \in Conns \ X : conn'[d] = conn[d]
       /\ fd_event_list' \in [Events -> Event \cup {NULL}]
       /\ \A e \in A : fd_event_list'[e] # NULL
       /\ \A e \in Events \ A : fd_event_list'[e] = fd_event_list[e]
       /\ remove' = remove \cup R /\ running' = running \ R
       /\ enabled' \subseteq (enabled \cup A) \ R
  BY <1>1, <1>2, <1>5, <1>6 DEF TypeOK
<1>17. \A d \in Live \ X : /\ EventsOf(conn[d]) \cap R = {}
                           /\ conn[d].write_event \in enabled =>
                                 conn[d].write_event \in enabled'
  BY <1>2, <1>14
<1>18. \A e \in ((Listed \ remove) \cup A) \ R :
          e # ListenEvent /\ (e \in A \/ Owner(e) \in X) =>
             Owner(e)' \in Live' /\ e \in EventsOf(conn'[Owner(e)'])
  BY <1>15
<1>19. \A d \in X \cap Live' : WiredConn(d)' /\ WatchedConn(d)'
  BY <1>11
<1> HIDE DEF X, A, R
<1>20. Rewire(X, A, R)
  BY <1>2, <1>7, <1>13, <1>16, <1>17, <1>18, <1>19 DEF Rewire
<1> QED
  BY <1>20, RewireStep

(* accept: a new connection with two new events. *)
LEMMA AcceptStep == ASSUME Inv, do_accept PROVE Inv'
<1>1. PICK c \in Conns \ Live, f \in Fds \ open :
       LET r == NewEvent(c, "read")
           w == NewEvent(c, "write")
       IN  /\ HasName(c, "read") /\ HasName(c, "write")
           /\ conn' = [conn EXCEPT ![c] =
                [fd |-> f, second_fd |-> NULL, read_event |-> r,
                 write_event |-> w, second_read_event |-> NULL,
                 proto |-> "START", cookie |-> NoCookie,
                 unsent |-> FALSE, drop_after |-> FALSE]]
           /\ change_events([e \in {r, w} |->
                              [fd |-> f, write |-> e = w, data |-> c]], {}, {}, {w})
           /\ open' = open \cup {f}
  BY DEF do_accept
<1>0. PICK r, w : r = NewEvent(c, "read") /\ w = NewEvent(c, "write")
  OBVIOUS
<1> DEFINE X == {c}
           A == {r, w}
           R == {}
           k == [fd |-> f, second_fd |-> NULL, read_event |-> r,
                 write_event |-> w, second_read_event |-> NULL,
                 proto |-> "START", cookie |-> NoCookie,
                 unsent |-> FALSE, drop_after |-> FALSE]
           new == [e \in A |-> [fd |-> f, write |-> e = w, data |-> c]]
<1>2. TypeOK /\ c \in Conns /\ f \in Fds
  BY DEF Inv, DescriptorsOwned
<1>3. r \in Events /\ r \notin Listed /\ w \in Events /\ w \notin Listed
  BY <1>0, <1>1, NewEventFree
<1>4. r # w
  BY <1>0 DEF NewEvent
<1>5. ListenEvent \in Listed
  BY DEF Inv, Known, Watches
<1>6. /\ conn' = [conn EXCEPT ![c] = k] /\ open' = open \cup {f}
      /\ change_events(new, {}, {}, {w}) /\ pc' = "dispatch" /\ cur' = NULL
  BY <1>0, <1>1 DEF do_accept, Return
<1>7. DOMAIN new = A /\ \A e \in A : new[e] \in Event /\ new[e] # NULL
                                     /\ new[e].fd = f /\ new[e].data = c
  <2>1. \A e \in A : new[e] = [fd |-> f, write |-> e = w, data |-> c]
    OBVIOUS
  <2>2. \A e \in A : (e = w) \in BOOLEAN
    OBVIOUS
  <2>3. \A e \in A : new[e] \in Event
    BY <1>2, <2>1, <2>2 DEF Event
  <2> QED BY <2>1, <2>3, Distinct
<1> HIDE DEF new
<1>8. /\ \A e \in Events : fd_event_list'[e] = IF e \in A THEN new[e] ELSE fd_event_list[e]
      /\ fd_event_list' \in [Events -> Event \cup {NULL}]
      /\ enabled' = ((enabled \cup A) \ {w}) /\ running' = running /\ remove' = remove
  BY <1>2, <1>6, <1>7 DEF change_events, TypeOK
<1>9. k \in Conn /\ k # NULL /\ FdsOf(k) = {f} /\ EventsOf(k) = {r, w}
  <2>1. k \in Conn
    BY <1>2, <1>3 DEF Conn
  <2> QED BY <1>2, <1>3, <2>1, Distinct DEF FdsOf, EventsOf
<1>10. /\ k.fd = f /\ k.second_fd = NULL /\ k.read_event = r /\ k.write_event = w
       /\ k.second_read_event = NULL /\ ~ k.unsent /\ ~ k.drop_after
  OBVIOUS
<1> HIDE DEF k
<1>11. /\ \A d \in Conns : conn'[d] = IF d = c THEN k ELSE conn[d]
       /\ conn' \in [Conns -> Conn \cup {NULL}]
  BY <1>2, <1>6, <1>9 DEF TypeOK
<1>12. Live' = Live \cup {c} /\ c \notin Live /\ conn'[c] = k
       /\ \A d \in Live : conn'[d] = conn[d]
  BY <1>2, <1>9, <1>11 DEF Live
<1>13. Owned'
  <2>1. /\ open = UNION {FdsOf(conn[d]) : d \in Live}
        /\ \A d, g \in Live : d # g => FdsOf(conn[d]) \cap FdsOf(conn[g]) = {}
        /\ \A d \in Live : conn[d].fd # NULL /\ conn[d].fd # conn[d].second_fd
    BY DEF Inv, DescriptorsOwned
  <2>2. \A d \in Live : f \notin FdsOf(conn[d])
    BY <2>1
  <2>3. \A x : x \in open' <=> \E d \in Live' : x \in FdsOf(conn'[d])
    BY <1>6, <1>9, <1>12, <2>1
  <2>4. \A x : x \in UNION {FdsOf(conn'[d]) : d \in Live'} <=>
                  \E d \in Live' : x \in FdsOf(conn'[d])
    OBVIOUS
  <2>5. open' = UNION {FdsOf(conn'[d]) : d \in Live'}
    BY <2>3, <2>4
  <2>6. \A d, g \in Live' : d # g => FdsOf(conn'[d]) \cap FdsOf(conn'[g]) = {}
    BY <1>9, <1>12, <2>1, <2>2
  <2>7. \A d \in Live' : conn'[d].fd # NULL /\ conn'[d].fd # conn'[d].second_fd
    BY <1>2, <1>10, <1>12, <2>1, Distinct
  <2> QED
    BY <1>2, <1>6, <2>5, <2>6, <2>7 DEF Owned, TypeOK
<1>14. Listed' = Listed \cup A
  BY <1>3, <1>7, <1>8 DEF Listed
<1>15. /\ X \subseteq Conns /\ A \subseteq Events /\ A \cap Listed = {}
       /\ R \subseteq Listed \cup A /\ ListenEvent \notin R
       /\ \A d \in Conns \ X : conn'[d] = conn[d]
       /\ \A e \in A : fd_event_list'[e] # NULL
       /\ \A e \in Events \ A : fd_event_list'[e] = fd_event_list[e]
       /\ remove' = remove \cup R /\ running' = running \ R
       /\ enabled' \subseteq (enabled \cup A) \ R
  BY <1>2, <1>3, <1>7, <1>8, <1>11
<1>16. \A d \in Live \ X : /\ EventsOf(conn[d]) \cap R = {}
                           /\ conn[d].write_event \in enabled =>
                                 conn[d].write_event \in enabled'
  BY <1>2, <1>3, <1>8 DEF TypeOK
<1>17. \A e \in ((Listed \ remove) \cup A) \ R :
          e # ListenEvent /\ (e \in A \/ Owner(e) \in X) =>
             Owner(e)' \in Live' /\ e \in EventsOf(conn'[Owner(e)'])
  <2> SUFFICES ASSUME NEW e \in (Listed \ remove) \cup A, e # ListenEvent,
                      e \in A \/ Owner(e) = c
               PROVE  Owner(e)' \in Live' /\ e \in EventsOf(conn'[Owner(e)'])
    OBVIOUS
  <2>1. e \in A
    BY <1>12 DEF Inv, Known
  <2>2. Owner(e)' = c
    BY <1>3, <1>7, <1>8, <2>1 DEF Owner
  <2> QED BY <1>9, <1>12, <2>1, <2>2
<1>18. WiredConn(c)' /\ WatchedConn(c)'
  <2>1. Watches(r, f, c)' /\ Watches(w, f, c)'
    BY <1>2, <1>3, <1>7, <1>8, <1>14 DEF Watches, TypeOK
  <2>2. w \notin enabled'
    BY <1>8
  <2>3. WiredConn(c)'
    BY <1>10, <1>12, <2>1 DEF WiredConn
  <2> QED BY <1>10, <1>12, <2>2, <2>3 DEF WatchedConn
<1>19. \A d \in X \cap Live' : WiredConn(d)' /\ WatchedConn(d)'
  BY <1>18
<1> HIDE DEF X, A, R
<1>20. Rewire(X, A, R)
  BY <1>6, <1>8, <1>11, <1>13, <1>15, <1>16, <1>17, <1>19 DEF Rewire
<1> QED
  BY <1>20, RewireStep

(* POST of a tunnel.  First, the connection finds itself: it gives its     *)
(* descriptor to itself and goes with all it has.                          *)
LEMMA PostSelfStep ==
    ASSUME Inv, NEW c \in Live, NEW t, handle_QT_tunnel_POST(c, c, t)
    PROVE  Inv'
<1>0. PICK x : x = NewEvent(c, "second")
  OBVIOUS
<1> DEFINE X == {c}
           A == {x}
           old == {conn[c].second_read_event} \ {NULL}
           R == {conn[c].read_event, conn[c].write_event, x} \cup old
           new == [e \in A |-> [fd |-> conn[c].fd, write |-> FALSE, data |-> c]]
           k == [[conn EXCEPT ![c].second_fd = conn[c].fd,
                              ![c].second_read_event = x]
                      EXCEPT ![c].fd = NULL]
<1>1. TypeOK /\ c \in Conns /\ conn[c] \in Conn /\ conn[c].fd \in Fds
  BY LiveConn DEF Inv, DescriptorsOwned
<1>2. HasName(c, "second") /\ x \in Events /\ x \notin Listed /\ x # NULL
  BY <1>0, <1>1, NewEventFree, Distinct DEF handle_QT_tunnel_POST
<1>3. k[c] = [conn[c] EXCEPT !.second_fd = conn[c].fd, !.second_read_event = x, !.fd = NULL]
  BY <1>1 DEF TypeOK
<1>4. EventsOf(k[c]) = {conn[c].read_event, conn[c].write_event, x}
      /\ FdsOf(k[c]) = {conn[c].fd}
  <2>1. /\ k[c].read_event = conn[c].read_event /\ k[c].write_event = conn[c].write_event
        /\ k[c].second_read_event = x /\ k[c].second_fd = conn[c].fd /\ k[c].fd = NULL
    <3> DEFINE m == [conn[c] EXCEPT !.second_fd = conn[c].fd, !.second_read_event = x,
                                    !.fd = NULL]
    <3>1. /\ m.read_event = conn[c].read_event /\ m.write_event = conn[c].write_event
          /\ m.second_read_event = x /\ m.second_fd = conn[c].fd /\ m.fd = NULL
      BY <1>1 DEF Conn
    <3> HIDE DEF k, m
    <3>2. k[c] = m
      BY <1>3 DEF m
    <3> QED BY <3>1, <3>2
  <2>2. conn[c].read_event # NULL /\ conn[c].write_event # NULL
    BY <1>1, ConnParts, Distinct
  <2> QED BY <1>1, <1>2, <2>1, <2>2, Distinct DEF EventsOf, FdsOf
<1>5. /\ conn' = [k EXCEPT ![c] = NULL]
      /\ change_events(new, EventsOf(k[c]) \cup old, {}, {})
      /\ open' = open \ (FdsOf(k[c]) \cup {conn[c].second_fd})
      /\ pc' = "dispatch" /\ cur' = NULL
  BY <1>0 DEF handle_QT_tunnel_POST, Return
<1>6. conn' = [conn EXCEPT ![c] = NULL]
  BY <1>1, <1>5 DEF TypeOK
<1>7. DOMAIN new = A /\ new[x] \in Event /\ new[x] # NULL
  <2>1. new[x] \in Event
    BY <1>1 DEF Event
  <2> QED BY <2>1, Distinct
<1> HIDE DEF new, k
<1>8. /\ change_events(new, R, {}, {}) /\ open' = open \ FdsOf(conn[c])
  <2>1. EventsOf(k[c]) \cup old = R
    BY <1>4
  <2>2. open' = open \ {conn[c].fd, conn[c].second_fd}
    BY <1>4, <1>5
  <2>3. NULL \notin open
    BY <1>1, Distinct DEF TypeOK
  <2> QED BY <1>5, <2>1, <2>2, <2>3 DEF FdsOf
<1>9. /\ \A e \in Events : fd_event_list'[e] = IF e \in A THEN new[e] ELSE fd_event_list[e]
      /\ fd_event_list' \in [Events -> Event \cup {NULL}]
      /\ enabled' = (enabled \cup A) \ R /\ running' = running \ R
      /\ remove' = remove \cup R
  BY <1>1, <1>7, <1>8 DEF change_events, TypeOK
<1>10. /\ \A d \in Conns : conn'[d] = IF d = c THEN NULL ELSE conn[d]
       /\ conn' \in [Conns -> Conn \cup {NULL}]
  BY <1>1, <1>6 DEF TypeOK
<1>11. Live' = Live \ {c} /\ \A d \in Live' : conn'[d] = conn[d]
  BY <1>10 DEF Live
<1>12. Owned'
  <2>1. /\ open = UNION {FdsOf(conn[d]) : d \in Live}
        /\ \A d, g \in Live : d # g => FdsOf(conn[d]) \cap FdsOf(conn[g]) = {}
        /\ \A d \in Live : conn[d].fd # NULL /\ conn[d].fd # conn[d].second_fd
    BY DEF Inv, DescriptorsOwned
  <2>2. open' = UNION {FdsOf(conn'[d]) : d \in Live'}
    BY <1>8, <1>11, <2>1
  <2> QED
    BY <1>1, <1>8, <1>11, <2>1, <2>2 DEF Owned, TypeOK
<1>13. R = EventsOf(conn[c]) \cup A
  BY <1>1, ConnParts, Distinct DEF EventsOf
<1> HIDE DEF R
<1>14. EventsOf(conn[c]) \subseteq Listed /\ ListenEvent \notin R /\ ListenEvent \in Listed
  BY <1>2, <1>13, LiveConn DEF Inv, Known, Watches
<1>15. \A d \in Live \ X : /\ EventsOf(conn[d]) \cap R = {}
                           /\ conn[d].write_event \in enabled =>
                                 conn[d].write_event \in enabled'
  <2> SUFFICES ASSUME NEW d \in Live, d # c
               PROVE  /\ EventsOf(conn[d]) \cap R = {}
                      /\ conn[d].write_event \in enabled => conn[d].write_event \in enabled'
    OBVIOUS
  <2>1. EventsOf(conn[d]) \cap R = {}
    BY <1>2, <1>13, OthersEvents, LiveConn
  <2>2. conn[d].write_event \in EventsOf(conn[d])
    BY LiveConn
  <2> QED BY <1>9, <2>1, <2>2
<1>16. /\ X \subseteq Conns /\ A \subseteq Events /\ A \cap Listed = {}
       /\ R \subseteq Listed \cup A
       /\ \A d \in Conns \ X : conn'[d] = conn[d]
       /\ \A e \in A : fd_event_list'[e] # NULL
       /\ \A e \in Events \ A : fd_event_list'[e] = fd_event_list[e]
       /\ enabled' \subseteq (enabled \cup A) \ R
  BY <1>1, <1>2, <1>7, <1>9, <1>10, <1>13, <1>14
<1>17. \A e \in ((Listed \ remove) \cup A) \ R :
          e # ListenEvent /\ (e \in A \/ Owner(e) \in X) =>
             Owner(e)' \in Live' /\ e \in EventsOf(conn'[Owner(e)'])
  BY <1>13 DEF Inv, Known
<1>18. \A d \in X \cap Live' : WiredConn(d)' /\ WatchedConn(d)'
  BY <1>11
<1> HIDE DEF X, A
<1>19. Rewire(X, A, R)
  BY <1>5, <1>9, <1>10, <1>12, <1>14, <1>15, <1>16, <1>17, <1>18 DEF Rewire
<1> QED
  BY <1>19, RewireStep

(* Else another connection, g, takes the descriptor over, under a new      *)
(* event, and gives up the second one it had.                              *)
LEMMA PostOtherStep ==
    ASSUME Inv, NEW c \in Live, NEW g \in Live, c # g, NEW t, handle_QT_tunnel_POST(c, g, t)
    PROVE  Inv'
<1>0. PICK x, f : x = NewEvent(g, "second") /\ f = conn[c].fd
  OBVIOUS
<1> DEFINE X == {c, g}
           A == {x}
           old == {conn[g].second_read_event} \ {NULL}
           R == EventsOf(conn[c]) \cup old
           new == [e \in A |-> [fd |-> f, write |-> FALSE, data |-> g]]
           h == [conn[g] EXCEPT !.second_fd = f, !.second_read_event = x]
           k == [[conn EXCEPT ![g].second_fd = f,
                              ![g].second_read_event = x]
                      EXCEPT ![c].fd = NULL]
<1>1. /\ TypeOK /\ c \in Conns /\ g \in Conns /\ conn[c] \in Conn /\ conn[g] \in Conn
      /\ f \in Fds /\ f # NULL
  BY <1>0, LiveConn, Distinct DEF Inv, DescriptorsOwned
<1>2. x \in Events /\ x \notin Listed /\ x # NULL
  BY <1>0, <1>1, NewEventFree, Distinct DEF handle_QT_tunnel_POST
<1>3. /\ conn' = [k EXCEPT ![c] = NULL]
      /\ change_events(new, EventsOf(k[c]) \cup old, {}, {})
      /\ open' = open \ (FdsOf(k[c]) \cup {conn[g].second_fd})
      /\ pc' = "dispatch" /\ cur' = NULL
  BY <1>0 DEF handle_QT_tunnel_POST, Return
<1>4. k[c] = [conn[c] EXCEPT !.fd = NULL]
  BY <1>1 DEF TypeOK
<1>5. EventsOf(k[c]) = EventsOf(conn[c]) /\ FdsOf(k[c]) = {conn[c].second_fd} \ {NULL}
  <2> DEFINE m == [conn[c] EXCEPT !.fd = NULL]
  <2>1. /\ m.read_event = conn[c].read_event /\ m.write_event = conn[c].write_event
        /\ m.second_read_event = conn[c].second_read_event
        /\ m.second_fd = conn[c].second_fd /\ m.fd = NULL
    BY <1>1 DEF Conn
  <2> HIDE DEF k, m
  <2>2. k[c] = m
    BY <1>4 DEF m
  <2> QED BY <2>1, <2>2 DEF EventsOf, FdsOf
<1>6. /\ conn' \in [Conns -> Conn \cup {NULL}] /\ h \in Conn
      /\ \A d \in Conns : conn'[d] = IF d = c THEN NULL ELSE IF d = g THEN h ELSE conn[d]
  <2>1. h \in Conn
    BY <1>1, <1>2 DEF Conn
  <2>2. \A d \in Conns : conn'[d] = IF d = c THEN NULL ELSE IF d = g THEN h ELSE conn[d]
    BY <1>1, <1>3 DEF TypeOK
  <2>3. conn' = [d \in Conns |-> IF d = c THEN NULL ELSE IF d = g THEN h ELSE conn[d]]
    BY <1>1, <1>3 DEF TypeOK
  <2> HIDE DEF h
  <2>4. \A d \in Conns : conn[d] \in Conn \cup {NULL}
    BY <1>1 DEF TypeOK
  <2> QED BY <2>1, <2>2, <2>3, <2>4
<1>7. /\ h.fd = conn[g].fd /\ h.second_fd = f /\ h.read_event = conn[g].read_event
      /\ h.write_event = conn[g].write_event /\ h.second_read_event = x
      /\ h.unsent = conn[g].unsent /\ h.drop_after = conn[g].drop_after
  BY <1>1 DEF Conn
<1>8. DOMAIN new = A /\ new[x] \in Event /\ new[x] # NULL
      /\ new[x].fd = f /\ new[x].data = g
  <2>1. new[x] \in Event
    BY <1>1 DEF Event
  <2> QED BY <2>1, Distinct
<1> HIDE DEF new, k, h
<1>9. /\ \A e \in Events : fd_event_list'[e] = IF e \in A THEN new[e] ELSE fd_event_list[e]
      /\ fd_event_list' \in [Events -> Event \cup {NULL}]
      /\ enabled' = (enabled \cup A) \ R /\ running' = running \ R
      /\ remove' = remove \cup R
  BY <1>1, <1>3, <1>5, <1>8 DEF change_events, TypeOK
<1>10. Live' = Live \ {c} /\ g \in Live' /\ conn'[g] = h
       /\ \A d \in Live' : d # g => conn'[d] = conn[d]
  BY <1>1, <1>6, Distinct DEF Live
<1>11. /\ old \subseteq EventsOf(conn[g]) /\ EventsOf(conn[c]) \cap EventsOf(conn[g]) = {}
       /\ EventsOf(conn[c]) \subseteq Listed /\ EventsOf(conn[g]) \subseteq Listed
       /\ ListenEvent \notin R /\ ListenEvent \in Listed
  <2>1. old \subseteq EventsOf(conn[g])
    BY DEF EventsOf
  <2> QED BY <2>1, OthersEvents, LiveConn DEF Inv, Known, Watches
<1>12. WiredConn(g) /\ WatchedConn(g)
  BY DEF Inv, Wired, PendingWritesWatched, WatchedConn
<1>13. /\ conn[g].read_event \in EventsOf(conn[g]) \ old
       /\ conn[g].write_event \in EventsOf(conn[g]) \ old
  BY <1>12, LiveConn DEF WiredConn, Watches
<1>14. EventsOf(h) = (EventsOf(conn[g]) \ old) \cup {x}
  BY <1>1, <1>2, <1>7, <1>13, ConnParts, Distinct DEF EventsOf
<1>15. FdsOf(h) = {conn[g].fd, f} /\ FdsOf(conn[g]) = {conn[g].fd, conn[g].second_fd} \ {NULL}
       /\ FdsOf(conn[c]) = {f, conn[c].second_fd} \ {NULL}
  BY <1>0, <1>1, <1>7, LiveConn, Distinct DEF FdsOf
<1> HIDE DEF R, old
<1>16. Owned'
  <2>1. /\ open = UNION {FdsOf(conn[d]) : d \in Live}
        /\ \A d, m \in Live : d # m => FdsOf(conn[d]) \cap FdsOf(conn[m]) = {}
        /\ \A d \in Live : conn[d].fd # NULL /\ conn[d].fd # conn[d].second_fd
    BY DEF Inv, DescriptorsOwned
  <2>2. open' = (open \ {conn[c].second_fd, conn[g].second_fd})
    <3>1. NULL \notin open
      BY <1>1, Distinct DEF TypeOK
    <3> QED BY <1>3, <1>5, <3>1
  <2>3. conn[g].fd # NULL /\ conn[g].fd # f /\ conn[g].fd # conn[c].second_fd
        /\ conn[g].fd # conn[g].second_fd /\ f # conn[c].second_fd
    <3>1. conn[g].fd # NULL /\ conn[g].fd # conn[g].second_fd /\ f # conn[c].second_fd
      BY <1>0, <2>1
    <3>2. conn[g].fd \in FdsOf(conn[g]) /\ conn[g].fd \notin FdsOf(conn[c])
      BY <1>15, <2>1, <3>1
    <3> QED BY <1>1, <1>15, <3>1, <3>2
  <2>4. f # conn[g].second_fd
    <3>1. f \in FdsOf(conn[c]) /\ f \notin FdsOf(conn[g])
      BY <1>1, <1>15, <2>1
    <3> QED BY <1>1, <1>15, <3>1
  <2>5. \A y : y \in open' <=> \E d \in Live' : y \in FdsOf(conn'[d])
    <3>1. ASSUME NEW y \in open'
          PROVE  \E d \in Live' : y \in FdsOf(conn'[d])
      <4>1. PICK d \in Live : y \in FdsOf(conn[d])
        BY <2>1, <2>2, <3>1
      <4>2. CASE d \in {c, g}
        <5>1. y \in FdsOf(h)
          BY <1>15, <2>2, <3>1, <4>1, <4>2
        <5> QED BY <1>10, <5>1
      <4>3. CASE d \notin {c, g}
        BY <1>10, <4>1, <4>3
      <4> QED BY <4>2, <4>3
    <3>2. ASSUME NEW y, NEW d \in Live', y \in FdsOf(conn'[d])
          PROVE  y \in open'
      <4>1. CASE d = g
        <5>1. y = conn[g].fd \/ y = f
          BY <1>10, <1>15, <3>2, <4>1
        <5>2. conn[g].fd \in FdsOf(conn[g]) /\ f \in FdsOf(conn[c])
          BY <1>1, <1>15, <2>3
        <5>3. FdsOf(conn[g]) \subseteq open /\ FdsOf(conn[c]) \subseteq open
          BY LiveConn
        <5> QED BY <2>2, <2>3, <2>4, <5>1, <5>2, <5>3
      <4>2. CASE d # g
        <5>1. d \in Live /\ d # c /\ y \in FdsOf(conn[d])
          BY <1>10, <3>2, <4>2
        <5>2. y \notin FdsOf(conn[c]) /\ y \notin FdsOf(conn[g]) /\ y \in open /\ y # NULL
          BY <2>1, <4>2, <5>1 DEF FdsOf
        <5> QED BY <1>15, <2>2, <5>2
      <4> QED BY <4>1, <4>2
    <3> QED BY <3>1, <3>2
  <2>6. \A y : y \in UNION {FdsOf(conn'[d]) : d \in Live'} <=>
                  \E d \in Live' : y \in FdsOf(conn'[d])
    OBVIOUS
  <2>7. open' = UNION {FdsOf(conn'[d]) : d \in Live'}
    BY <2>5, <2>6
  <2>8. ASSUME NEW d \in Live', NEW m \in Live', d # m
        PROVE  FdsOf(conn'[d]) \cap FdsOf(conn'[m]) = {}
    <3>1. ASSUME NEW n \in Live', n # g
          PROVE  FdsOf(h) \cap FdsOf(conn'[n]) = {}
      <4>1. n \in Live /\ n # c /\ conn'[n] = conn[n]
        BY <1>10, <3>1
      <4>2. FdsOf(conn[n]) \cap FdsOf(conn[c]) = {} /\ FdsOf(conn[n]) \cap FdsOf(conn[g]) = {}
        BY <2>1, <3>1, <4>1
      <4>3. f \in FdsOf(conn[c]) /\ conn[g].fd \in FdsOf(conn[g])
        BY <1>1, <1>15, <2>3
      <4> QED BY <1>15, <4>1, <4>2, <4>3
    <3> QED BY <1>10, <2>1, <2>8, <3>1
  <2>9. \A d \in Live' : conn'[d].fd # NULL /\ conn'[d].fd # conn'[d].second_fd
    BY <1>7, <1>10, <2>1, <2>3
  <2> QED
    BY <1>1, <2>2, <2>7, <2>8, <2>9 DEF Owned, TypeOK
<1>17. Listed' = Listed \cup A
  BY <1>2, <1>8, <1>9 DEF Listed
<1>18. R = EventsOf(conn[c]) \cup old
  BY DEF R
<1>19. \A d \in Live \ X : /\ EventsOf(conn[d]) \cap R = {}
                           /\ conn[d].write_event \in enabled =>
                                 conn[d].write_event \in enabled'
  <2> SUFFICES ASSUME NEW d \in Live, d # c, d # g
               PROVE  /\ EventsOf(conn[d]) \cap R = {}
                      /\ conn[d].write_event \in enabled => conn[d].write_event \in enabled'
    OBVIOUS
  <2>1. EventsOf(conn[d]) \cap R = {}
    <3>1. EventsOf(conn[d]) \cap EventsOf(conn[c]) = {}
      BY OthersEvents
    <3>2. EventsOf(conn[d]) \cap EventsOf(conn[g]) = {}
      BY OthersEvents
    <3> QED BY <1>11, <1>18, <3>1, <3>2
  <2>2. conn[d].write_event \in EventsOf(conn[d])
    BY LiveConn
  <2> QED BY <1>9, <2>1, <2>2
<1>20. /\ X \subseteq Conns /\ A \subseteq Events /\ A \cap Listed = {}
       /\ R \subseteq Listed \cup A
       /\ \A d \in Conns \ X : conn'[d] = conn[d]
       /\ \A e \in A : fd_event_list'[e] # NULL
       /\ \A e \in Events \ A : fd_event_list'[e] = fd_event_list[e]
       /\ enabled' \subseteq (enabled \cup A) \ R
  BY <1>1, <1>2, <1>6, <1>8, <1>9, <1>11, <1>18
<1>21. ASSUME NEW e \in ((Listed \ remove) \cup A) \ R, e # ListenEvent,
              e \in A \/ Owner(e) \in X
       PROVE  Owner(e)' \in Live' /\ e \in EventsOf(conn'[Owner(e)'])
  <2>1. CASE e \in A
    <3>1. Owner(e)' = g
      BY <1>2, <1>8, <1>9, <2>1 DEF Owner
    <3> QED BY <1>10, <1>14, <2>1, <3>1
  <2>2. CASE e \notin A
    <3>1. e \in Listed /\ e \in Events /\ Owner(e) \in X /\ e \in EventsOf(conn[Owner(e)])
      BY <1>21, <2>2 DEF Inv, Known, Listed
    <3>2. Owner(e) = g /\ Owner(e)' = g
      BY <1>9, <1>18, <1>21, <2>2, <3>1 DEF Owner
    <3> QED BY <1>10, <1>14, <1>18, <1>21, <3>1, <3>2
  <2> QED BY <2>1, <2>2
<1>22. WiredConn(g)' /\ WatchedConn(g)'
  <2>1. \A e \in EventsOf(conn[g]) \ old : /\ e \in Listed' \ remove'
                                           /\ fd_event_list'[e] = fd_event_list[e]
                                           /\ e \in enabled' <=> e \in enabled
    <3>1. \A e \in EventsOf(conn[g]) \ old : e \in Events /\ e \in Listed \ remove
                                            /\ e \notin R /\ e \notin A
      BY <1>2, <1>11, <1>18, LiveConn DEF Listed
    <3> QED BY <1>9, <1>17, <3>1
  <2>2. x \in Listed' \ remove'
    BY <1>1, <1>2, <1>9, <1>11, <1>17, <1>18 DEF TypeOK
  <2>3. Watches(x, f, g)'
    BY <1>2, <1>8, <1>9, <2>2 DEF Watches
  <2>4. /\ conn[g].read_event \in Listed' \ remove'
        /\ conn[g].write_event \in Listed' \ remove'
        /\ fd_event_list'[conn[g].read_event].fd = conn[g].fd
        /\ fd_event_list'[conn[g].read_event].data = g
        /\ fd_event_list'[conn[g].write_event].fd = conn[g].fd
        /\ fd_event_list'[conn[g].write_event].data = g
    BY <1>12, <1>13, <2>1 DEF WiredConn, Watches
  <2>5. WiredConn(g)'
    BY <1>1, <1>2, <1>7, <1>10, <2>3, <2>4 DEF WiredConn, Watches
  <2>6. WatchedConn(g)'
    BY <1>7, <1>10, <1>12, <1>13, <2>1 DEF WatchedConn
  <2> QED BY <2>5, <2>6
<1>23. \A d \in X \cap Live' : WiredConn(d)' /\ WatchedConn(d)'
  BY <1>10, <1>22
<1> HIDE DEF X, A
<1>24. Rewire(X, A, R)
  BY <1>3, <1>6, <1>9, <1>11, <1>16, <1>19, <1>20, <1>21, <1>23 DEF Rewire
<1> QED
  BY <1>24, RewireStep

-----------------------------------------------------------------------------
(* send_data to c, whose record the caller may have changed to m: the      *)
(* write event is enabled if it was not, or other bytes are waiting.       *)
LEMMA SendStep ==
    ASSUME Inv, NEW c \in Live, NEW m \in Conn, NEW k,
           m.fd = conn[c].fd, m.second_fd = conn[c].second_fd,
           m.read_event = conn[c].read_event, m.write_event = conn[c].write_event,
           m.second_read_event = conn[c].second_read_event,
           m.unsent = conn[c].unsent,
           k = [conn EXCEPT ![c] = m], send_data(k, c), Again
    PROVE  Inv'
<1> DEFINE n == [m EXCEPT !.unsent = TRUE]
<1>1. TypeOK /\ c \in Conns
  BY LiveConn DEF Inv, DescriptorsOwned
<1>2. k[c] = m
  BY <1>1 DEF TypeOK
<1>3. pc' = pc /\ cur' = cur /\ open' = open
  BY DEF Again, send_data
<1>4. CASE /\ conn' = [k EXCEPT ![c].unsent = TRUE]
           /\ change_events(<<>>, {}, {k[c].write_event}, {})
  <2>1. /\ n \in Conn /\ n.fd = m.fd /\ n.second_fd = m.second_fd
        /\ n.read_event = m.read_event /\ n.write_event = m.write_event
        /\ n.second_read_event = m.second_read_event /\ n.unsent
        /\ n.drop_after = m.drop_after
    BY DEF Conn
  <2>2. conn' = [conn EXCEPT ![c] = n]
    BY <1>1, <1>4 DEF TypeOK
  <2>3. /\ fd_event_list' = fd_event_list /\ enabled' = enabled \cup {m.write_event}
        /\ running' = running /\ remove' = remove
    BY <1>1, <1>2, <1>4, NothingRemoved
  <2> HIDE DEF n
  <2> QED
    BY <1>3, <2>1, <2>2, <2>3, BufferStep
<1>5. CASE k[c].unsent /\ conn' = k /\ change_events(<<>>, {}, {}, {})
  <2>1. /\ fd_event_list' = fd_event_list /\ enabled' = enabled
        /\ running' = running /\ remove' = remove
    <3>1. /\ fd_event_list' = fd_event_list /\ enabled' = (enabled \cup {}) \ {}
          /\ running' = running /\ remove' = remove
      BY <1>1, <1>5, NothingRemoved, Zenon
    <3> QED BY <3>1
  <2>2. m.unsent /\ m.write_event \in enabled
    BY <1>2, <1>5 DEF Inv, PendingWritesWatched
  <2> QED
    BY <1>3, <1>5, <2>1, <2>2, BufferStep
<1> QED
  BY <1>4, <1>5 DEF send_data

(* conn_write: all is sent, or the connection is dropped. *)
LEMMA WriteStep == ASSUME Inv, NEW c \in Conns, conn_write(c) PROVE Inv'
<1> DEFINE m == [conn[c] EXCEPT !.unsent = FALSE]
<1>1. c \in Live
  BY CalledLive DEF conn_write
<1>2. TypeOK /\ conn[c] \in Conn
  BY <1>1, LiveConn DEF Inv, DescriptorsOwned
<1>3. CASE drop_conn(conn, c)
  BY <1>1, <1>3, DropStep DEF conn_write
<1>4. CASE /\ ~ conn[c].drop_after
           /\ conn' = [conn EXCEPT ![c].unsent = FALSE]
           /\ change_events(<<>>, {}, {}, {conn[c].write_event})
           /\ UNCHANGED open
  <2>1. /\ m \in Conn /\ m.fd = conn[c].fd /\ m.second_fd = conn[c].second_fd
        /\ m.read_event = conn[c].read_event /\ m.write_event = conn[c].write_event
        /\ m.second_read_event = conn[c].second_read_event /\ ~ m.unsent
        /\ m.drop_after = conn[c].drop_after
    BY <1>2 DEF Conn
  <2>2. conn' = [conn EXCEPT ![c] = m]
    BY <1>2, <1>4 DEF TypeOK
  <2>3. /\ fd_event_list' = fd_event_list /\ enabled' = enabled \ {conn[c].write_event}
        /\ running' = running /\ remove' = remove
    BY <1>2, <1>4, NothingRemoved
  <2>4. pc' = "dispatch" /\ cur' = NULL
    BY DEF conn_write, Return
  <2> HIDE DEF m
  <2> QED
    BY <1>1, <1>4, <2>1, <2>2, <2>3, <2>4, BufferStep
<1> QED
  BY <1>3, <1>4 DEF conn_write

(* One turn of do_read's loop. *)
LEMMA ReadStep == ASSUME Inv, NEW c \in Conns, do_read(c) PROVE Inv'
<1>0. Reading(c)
  BY DEF do_read, do_read_done, do_read_closed, do_read_malformed,
         parse_client_data_start, rtsp_handle_msg, http_send_error,
         handle_QT_tunnel_GET, handle_QT_tunnel_POST
<1>1. c \in Live /\ cur \in EventsOf(conn[c])
  BY <1>0, CalledLive DEF Reading
<1>2. TypeOK /\ conn[c] \in Conn
  BY <1>1, LiveConn DEF Inv, DescriptorsOwned
<1>3. CASE do_read_done(c)
  BY <1>3, LoopStep DEF do_read_done, Return, flags
<1>4. CASE do_read_closed(c)
  <2>1. CASE cur = conn[c].second_read_event
    BY <1>1, <1>4, <2>1, SecondClosedStep DEF do_read_closed
  <2>2. CASE cur # conn[c].second_read_event
    BY <1>1, <1>4, <2>2, DropStep DEF do_read_closed
  <2> QED BY <2>1, <2>2
<1>5. CASE do_read_malformed(c)
  BY <1>1, <1>5, DropStep DEF do_read_malformed
<1>6. ASSUME NEW p \in {"HTTP", "RTSP"}, parse_client_data_start(c, p)
      PROVE  Inv'
  <2> DEFINE m == [conn[c] EXCEPT !.proto = p]
  <2>1. /\ m \in Conn /\ m.fd = conn[c].fd /\ m.second_fd = conn[c].second_fd
        /\ m.read_event = conn[c].read_event /\ m.write_event = conn[c].write_event
        /\ m.second_read_event = conn[c].second_read_event
        /\ m.unsent = conn[c].unsent /\ m.drop_after = conn[c].drop_after
    BY <1>2 DEF Conn
  <2>2. conn' = [conn EXCEPT ![c] = m]
    BY <1>2, <1>6 DEF parse_client_data_start, TypeOK
  <2>3. /\ fd_event_list' = fd_event_list /\ enabled' = enabled /\ open' = open
        /\ running' = running /\ remove' = remove /\ pc' = pc /\ cur' = cur
    BY <1>6 DEF parse_client_data_start, flags, Again
  <2>4. /\ conn[c].unsent <=> conn[c].write_event \in enabled
        /\ conn[c].drop_after => conn[c].unsent
    BY <1>1 DEF Inv, PendingWritesWatched
  <2> HIDE DEF m
  <2> QED
    BY <1>1, <2>1, <2>2, <2>3, <2>4, BufferStep
<1>7. CASE rtsp_handle_msg(c)
  <2>1. conn = [conn EXCEPT ![c] = conn[c]]
    BY <1>2 DEF TypeOK
  <2> QED
    BY <1>1, <1>2, <1>7, <2>1, SendStep DEF rtsp_handle_msg
<1>8. CASE http_send_error(c)
  <2> DEFINE m == [conn[c] EXCEPT !.drop_after = TRUE]
             k == [conn EXCEPT ![c].drop_after = TRUE]
  <2>1. /\ m \in Conn /\ m.fd = conn[c].fd /\ m.second_fd = conn[c].second_fd
        /\ m.read_event = conn[c].read_event /\ m.write_event = conn[c].write_event
        /\ m.second_read_event = conn[c].second_read_event
        /\ m.unsent = conn[c].unsent
    BY <1>2 DEF Conn
  <2>2. k = [conn EXCEPT ![c] = m]
    BY <1>2 DEF TypeOK
  <2>3. send_data(k, c) /\ Again
    BY <1>8 DEF http_send_error
  <2> HIDE DEF m, k
  <2> QED
    BY <1>1, <2>1, <2>2, <2>3, SendStep
<1>9. ASSUME NEW t \in Cookies \cup {NoCookie}, handle_QT_tunnel_GET(c, t)
      PROVE  Inv'
  <2> DEFINE m == [conn[c] EXCEPT !.cookie = t, !.proto = "RTSP"]
             k == [conn EXCEPT ![c].cookie = t, ![c].proto = "RTSP"]
  <2>1. /\ m \in Conn /\ m.fd = conn[c].fd /\ m.second_fd = conn[c].second_fd
        /\ m.read_event = conn[c].read_event /\ m.write_event = conn[c].write_event
        /\ m.second_read_event = conn[c].second_read_event
        /\ m.unsent = conn[c].unsent
    BY <1>2 DEF Conn
  <2>2. k = [conn EXCEPT ![c] = m]
    BY <1>2 DEF TypeOK
  <2>3. send_data(k, c) /\ Again
    BY <1>9 DEF handle_QT_tunnel_GET
  <2> HIDE DEF m, k
  <2> QED
    BY <1>1, <2>1, <2>2, <2>3, SendStep
<1>10. ASSUME NEW t \in Cookies \cup {NoCookie}, NEW g \in Conns,
              handle_QT_tunnel_POST(c, g, t)
       PROVE  Inv'
  <2>1. g \in Live
    BY <1>10 DEF handle_QT_tunnel_POST
  <2>2. CASE g = c
    BY <1>1, <1>10, <2>2, PostSelfStep
  <2>3. CASE g # c
    BY <1>1, <1>10, <2>1, <2>3, PostOtherStep
  <2> QED BY <2>2, <2>3
<1> QED
  BY <1>3, <1>4, <1>5, <1>6, <1>7, <1>8, <1>9, <1>10 DEF do_read

(* Every step keeps Inv. *)
LEMMA StepInv == Inv /\ [Next]_vars => Inv'
<1> SUFFICES ASSUME Inv, [Next]_vars PROVE Inv'
  OBVIOUS
<1>0. TypeOK
  BY DEF Inv, DescriptorsOwned
<1>1. CASE Loop
  <2>1. ASSUME NEW R, select(R), UNCHANGED <<conn, open>>
        PROVE  Inv'
    BY <1>0, <2>1, LoopStep DEF select, TypeOK
  <2>2. ASSUME NEW e \in Events, call(e), UNCHANGED <<conn, open>>
        PROVE  Inv'
    BY <2>2, LoopStep DEF call
  <2>3. CASE strip_events /\ UNCHANGED <<conn, open>>
    BY <2>3, StripStep
  <2> QED
    BY <1>1, <2>1, <2>2, <2>3 DEF Loop
<1>2. CASE do_accept
  BY <1>2, AcceptStep
<1>3. CASE do_accept_fails
  BY <1>3, LoopStep DEF do_accept_fails, Return, flags
<1>4. ASSUME NEW c \in Conns, do_read(c)
      PROVE  Inv'
  BY <1>4, ReadStep
<1>5. ASSUME NEW c \in Conns, conn_write(c)
      PROVE  Inv'
  BY <1>5, WriteStep
<1>6. ASSUME NEW c \in Conns, interleave_send(c)
      PROVE  Inv'
  <2>1. c \in Live /\ send_data(conn, c) /\ Again
    BY <1>6 DEF interleave_send
  <2>2. conn[c] \in Conn /\ conn = [conn EXCEPT ![c] = conn[c]]
    BY <1>0, <2>1, LiveConn DEF TypeOK
  <2> QED
    BY <2>1, <2>2, SendStep
<1>7. CASE UNCHANGED vars
  BY <1>0, <1>7, LoopStep DEF vars, loopVars, TypeOK
<1> QED
  BY <1>1, <1>2, <1>3, <1>4, <1>5, <1>6, <1>7 DEF Next

-----------------------------------------------------------------------------
(* Connections, descriptors and events agree in every reachable state.     *)
THEOREM InvHolds == Spec => []Inv
<1> QED
  BY InitInv, StepInv, PTL DEF Spec

(* The callbacks of a pass never meet a freed struct conn or an event the  *)
(* connection has replaced, whatever earlier callbacks of the pass dropped *)
(* or handed over.                                                         *)
THEOREM CallbacksFindTheirConnHolds == Spec => []CallbacksFindTheirConn
<1>1. Inv => CallbacksFindTheirConn
  BY DEF Inv, DescriptorsOwned, TypeOK, Known, Removed, CallbacksFindTheirConn
<1> QED
  BY <1>1, InvHolds, PTL

(* No descriptor is leaked, closed twice or watched after it was closed,   *)
(* also when it moves from a POST connection to that of the GET.           *)
THEOREM DescriptorsOwnedHolds == Spec => []DescriptorsOwned
<1>1. Inv => DescriptorsOwned
  BY DEF Inv
<1> QED
  BY <1>1, InvHolds, PTL

(* Buffered bytes have their write event enabled, and a connection that is *)
(* to be dropped after its last reply is waiting to send that reply.       *)
THEOREM PendingWritesWatchedHolds == Spec => []PendingWritesWatched
<1>1. Inv => PendingWritesWatched
  BY DEF Inv
<1> QED
  BY <1>1, InvHolds, PTL
=============================================================================
