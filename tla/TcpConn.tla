------------------------------ MODULE TcpConn ------------------------------
(***************************************************************************)
(* TCP connections of src/spook/tcp.c on the event loop: accepting,        *)
(* reading requests, sending, dropping, and the RTSP-over-HTTP tunnel, in  *)
(* which a POST connection hands its descriptor over to the connection of  *)
(* the GET with the same cookie.  The kernel gives out closed descriptors  *)
(* and malloc memory that was freed, so numbers and addresses are used     *)
(* again, also within a pass of the event loop.                            *)
(*                                                                         *)
(* Requests are abstracted to what they do to the connection.  What RTSP   *)
(* requests do to sessions is module RtspLive; the server as built has no  *)
(* HTTP location, so plain HTTP requests are answered with an error.       *)
(***************************************************************************)
EXTENDS EventLoop

CONSTANTS Conns,     \* addresses for a struct conn
          Fds,       \* descriptors
          ListenFd,  \* that of the listening socket
          Cookies,   \* x-sessioncookie values
          NoCookie,  \* the empty one
          Names      \* bound: addresses for the events of a connection

\* The event of the listening socket.
ListenEvent == <<ListenFd, "listen", 0>>

ASSUME TcpAssumption == /\ ListenFd \notin Fds
                        /\ Events = {ListenEvent} \cup
                             (Conns \X {"read", "write", "second"} \X Names)
                        /\ NoCookie \notin Cookies
                        /\ NULL \notin Conns \cup Fds \cup Events

VARIABLES
    conn,     \* conn[c]: the struct conn at address c, NULL when free
    open      \* open descriptors

vars == <<loopVars, conn, open>>

Conn == [fd : Fds \cup {NULL}, second_fd : Fds \cup {NULL},
         read_event : Events, write_event : Events,
         second_read_event : Events \cup {NULL},
         proto : {"START", "HTTP", "RTSP"},
         cookie : Cookies \cup {NoCookie},
         unsent : BOOLEAN,       \* send_buf_r # send_buf_w
         drop_after : BOOLEAN]

\* e->ev.fd and e->data, the connection the event was added for
Event == [fd : Fds \cup {ListenFd}, write : BOOLEAN, data : Conns \cup {NULL}]

ASSUME NullAssumption == NULL \notin Conn \cup Event

Live == {c \in Conns : conn[c] # NULL}
Owner(e) == fd_event_list[e].data
EventsOf(k) == {k.read_event, k.write_event, k.second_read_event} \ {NULL}
FdsOf(k) == {k.fd, k.second_fd} \ {NULL}

TypeOK ==
    /\ conn \in [Conns -> Conn \cup {NULL}]
    /\ open \subseteq Fds
    /\ fd_event_list \in [Events -> Event \cup {NULL}]
    /\ enabled \subseteq Listed /\ running \subseteq Listed
    /\ remove \subseteq Listed
    /\ cur \in Events \cup {NULL}
    /\ pc \in {"select", "dispatch", "callback"}

(* tcp_listen *)
Init ==
    /\ conn = [c \in Conns |-> NULL]
    /\ open = {}
    /\ fd_event_list = [e \in Events |-> IF e = ListenEvent
                           THEN [fd |-> ListenFd, write |-> FALSE, data |-> NULL]
                           ELSE NULL]
    /\ enabled = {ListenEvent}
    /\ running = {} /\ remove = {}
    /\ cur = NULL
    /\ pc = "select"

-----------------------------------------------------------------------------
(* The callback goes on with its loop, or returns. *)
Again == UNCHANGED <<pc, cur>>
Return == pc' = "dispatch" /\ cur' = NULL

(* The event that was called is about c. *)
Called(c, write) == Owner(cur) = c /\ fd_event_list[cur].write = write

(* The address malloc gives for an event of c: one that is not on the      *)
(* list.  Names bounds them; three suffice for two connections, because    *)
(* within a pass an address is used again once and its tunnel replaced by  *)
(* each connection once.                                                   *)
HasName(c, role) == \E i \in Names : <<c, role, i>> \notin Listed
NewEvent(c, role) ==
    <<c, role, CHOOSE i \in Names : <<c, role, i>> \notin Listed>>

(* do_accept: accept() fails, or there is a new connection. *)
do_accept_fails ==
    /\ pc = "callback" /\ cur = ListenEvent
    /\ Return
    /\ UNCHANGED <<flags, conn, open>>

do_accept ==
    /\ pc = "callback" /\ cur = ListenEvent
    /\ \E c \in Conns \ Live, f \in Fds \ open :
       LET r == NewEvent(c, "read")
           w == NewEvent(c, "write")
       IN  /\ HasName(c, "read") /\ HasName(c, "write")
           /\ conn' = [conn EXCEPT ![c] =
                [fd |-> f, second_fd |-> NULL, read_event |-> r,
                 write_event |-> w, second_read_event |-> NULL,
                 proto |-> "START", cookie |-> NoCookie,
                 unsent |-> FALSE, drop_after |-> FALSE]]
           /\ change_events([e \in {r, w} |->
                              [fd |-> f, write |-> e = w, data |-> c]], {}, {}, {w})
           /\ open' = open \cup {f}
    /\ Return

-----------------------------------------------------------------------------
(* drop_conn( c ) when the connections are k: the events are removed, the  *)
(* descriptors closed and the memory is free.                              *)
drop_conn(k, c) ==
    /\ conn' = [k EXCEPT ![c] = NULL]
    /\ change_events(<<>>, EventsOf(k[c]), {}, {})
    /\ open' = open \ FdsOf(k[c])

(* Slip: the write event is not enabled. *)
send_data_silent(k, c) ==
    /\ conn' = [k EXCEPT ![c].unsent = TRUE]
    /\ change_events(<<>>, {}, {}, {})
    /\ UNCHANGED open

(* send_data to c, when the connections are k: the bytes are buffered, or  *)
(* - with other bytes in it - the buffer is too full and they are lost.    *)
send_data(k, c) ==
    /\ \/ /\ conn' = [k EXCEPT ![c].unsent = TRUE]
          /\ change_events(<<>>, {}, {k[c].write_event}, {})
       \/ /\ k[c].unsent /\ conn' = k
          /\ change_events(<<>>, {}, {}, {})
    /\ UNCHANGED open

(* conn_write sends all there is - it waits in a loop while the socket is  *)
(* full - or drops the connection when write() fails.                      *)
conn_write(c) ==
    /\ pc = "callback" /\ Called(c, TRUE)
    /\ \/ drop_conn(conn, c)
       \/ /\ ~ conn[c].drop_after
          /\ conn' = [conn EXCEPT ![c].unsent = FALSE]
          /\ change_events(<<>>, {}, {}, {conn[c].write_event})
          /\ UNCHANGED open
    /\ Return

-----------------------------------------------------------------------------
(* do_read reads until there is no more, from the second descriptor if     *)
(* that is the one whose event is called.                                  *)
Reading(c) ==
    pc = "callback" /\ Called(c, FALSE)

do_read_done(c) ==
    /\ Reading(c) /\ Return
    /\ UNCHANGED <<flags, conn, open>>

(* The client closed or read() failed.  Of a tunnel, only the descriptor   *)
(* that came from the POST is closed when that one ends.                   *)
do_read_closed(c) ==
    /\ Reading(c) /\ Return
    /\ IF cur = conn[c].second_read_event
       THEN /\ conn' = [conn EXCEPT ![c].second_fd = NULL,
                                    ![c].second_read_event = NULL]
            /\ change_events(<<>>, {cur}, {}, {})
            /\ open' = open \ {conn[c].second_fd}
       ELSE drop_conn(conn, c)

(* A request that is too long, or that parse_client_data or handle_request *)
(* refuse.                                                                 *)
do_read_malformed(c) == Reading(c) /\ Return /\ drop_conn(conn, c)

(* The first line tells the protocol. *)
parse_client_data_start(c, p) ==
    /\ Reading(c) /\ Again
    /\ conn[c].proto = "START"
    /\ conn' = [conn EXCEPT ![c].proto = p]
    /\ UNCHANGED <<flags, open>>

(* An RTSP request is answered. *)
rtsp_handle_msg(c) ==
    /\ Reading(c) /\ Again
    /\ conn[c].proto = "RTSP"
    /\ send_data(conn, c)

(* A plain HTTP request, or a tunnel request that is refused, is answered  *)
(* with an error, after which the connection is to be dropped.             *)
http_send_error(c) ==
    /\ Reading(c) /\ Again
    /\ conn[c].proto = "HTTP"
    /\ send_data([conn EXCEPT ![c].drop_after = TRUE], c)

(* GET of a tunnel: the connection speaks RTSP from now on. *)
handle_QT_tunnel_GET(c, t) ==
    /\ Reading(c) /\ Again
    /\ conn[c].proto = "HTTP"
    /\ send_data([conn EXCEPT ![c].cookie = t, ![c].proto = "RTSP"], c)

(* Slip: the POST connection keeps its descriptor and closes it. *)
handle_QT_tunnel_POST_keeps(c, cg, t) ==
    /\ Reading(c) /\ Return
    /\ conn[c].proto = "HTTP"
    /\ cg \in Live /\ conn[cg].cookie = t /\ HasName(cg, "second")
    /\ LET e == NewEvent(cg, "second")
           k == [conn EXCEPT ![cg].second_fd = conn[c].fd,
                             ![cg].second_read_event = e]
       IN  /\ conn' = [k EXCEPT ![c] = NULL]
           /\ change_events([x \in {e} |->
                             [fd |-> conn[c].fd, write |-> FALSE, data |-> cg]],
                  EventsOf(k[c])
                    \cup ({conn[cg].second_read_event} \ {NULL}), {}, {})
           /\ open' = open \ (FdsOf(k[c]) \cup {conn[cg].second_fd})

(* POST of a tunnel: the connection cg with the same cookie takes over the *)
(* descriptor of c, in place of the one it may have; then c is dropped.    *)
(* Of several connections with the cookie the code takes the first on its  *)
(* list, here any.  With an empty cookie cg may be a connection that is    *)
(* not a tunnel, c itself included.                                        *)
handle_QT_tunnel_POST(c, cg, t) ==
    /\ Reading(c) /\ Return
    /\ conn[c].proto = "HTTP"
    /\ cg \in Live /\ conn[cg].cookie = t /\ HasName(cg, "second")
    /\ LET e == NewEvent(cg, "second")
           k == [[conn EXCEPT ![cg].second_fd = conn[c].fd,
                              ![cg].second_read_event = e]
                      EXCEPT ![c].fd = NULL]
       IN  /\ conn' = [k EXCEPT ![c] = NULL]
           /\ change_events([x \in {e} |->
                             [fd |-> conn[c].fd, write |-> FALSE, data |-> cg]],
                  EventsOf(k[c])
                    \cup ({conn[cg].second_read_event} \ {NULL}), {}, {})
           /\ open' = open \ (FdsOf(k[c]) \cup {conn[cg].second_fd})

(* interleave_send, from the callback that delivers a frame. *)
interleave_send(c) ==
    /\ pc = "dispatch" /\ c \in Live /\ conn[c].proto = "RTSP"
    /\ send_data(conn, c)
    /\ Again

(* One turn of do_read's loop.  Interleaved packets from the client change *)
(* nothing here.                                                           *)
do_read(c) ==
    \/ do_read_done(c) \/ do_read_closed(c) \/ do_read_malformed(c)
    \/ \E p \in {"HTTP", "RTSP"} : parse_client_data_start(c, p)
    \/ rtsp_handle_msg(c) \/ http_send_error(c)
    \/ \E t \in Cookies \cup {NoCookie} :
          \/ handle_QT_tunnel_GET(c, t)
          \/ \E cg \in Conns : handle_QT_tunnel_POST(c, cg, t)

Loop == /\ \/ \E R \in SUBSET {Watch(e) : e \in enabled} : select(R)
           \/ \E e \in Events : call(e)
           \/ strip_events
        /\ UNCHANGED <<conn, open>>

Next == \/ Loop \/ do_accept \/ do_accept_fails
        \/ \E c \in Conns : do_read(c) \/ conn_write(c) \/ interleave_send(c)

Spec == Init /\ [][Next]_vars

-----------------------------------------------------------------------------
(* An event that this pass may still call belongs to a live connection     *)
(* that knows it, although callbacks of the same pass free connections and *)
(* their memory and descriptor numbers are used again: neither do_read nor *)
(* conn_write is called for a freed struct conn or with an event that the  *)
(* connection has replaced (do_read tells its two descriptors apart by it). *)
CallbacksFindTheirConn ==
    \A e \in running \ {ListenEvent} :
        /\ Owner(e) \in Live
        /\ e \in EventsOf(conn[Owner(e)])

(* Every open descriptor belongs to one connection, in one role, and what  *)
(* a connection calls its own is open: none is leaked, none closed twice,  *)
(* also when it moves from a POST connection to the GET's.  And select()   *)
(* is only asked about open descriptors, each watched on behalf of the     *)
(* connection that owns it: one closed descriptor would make it fail with  *)
(* EBADF, and nobody would be served again.                                *)
DescriptorsOwned ==
    /\ TypeOK
    /\ open = UNION {FdsOf(conn[c]) : c \in Live}
    /\ \A c, k \in Live : c # k => FdsOf(conn[c]) \cap FdsOf(conn[k]) = {}
    /\ \A c \in Live : conn[c].fd # NULL /\ conn[c].fd # conn[c].second_fd
    /\ \A e \in enabled \ {ListenEvent} :
          Owner(e) \in Live /\ fd_event_list[e].fd \in FdsOf(conn[Owner(e)])

(* What has been buffered is going to be sent, and a connection that is to *)
(* be dropped after its last reply is waiting for exactly that: drop_after *)
(* is looked at by conn_write only.                                        *)
PendingWritesWatched ==
    \A c \in Live : LET k == conn[c] IN
        /\ k.unsent <=> k.write_event \in enabled
        /\ k.drop_after => k.unsent

=============================================================================
