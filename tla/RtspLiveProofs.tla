--------------------------- MODULE RtspLiveProofs ---------------------------
(***************************************************************************)
(* Sessions, endpoints, connections and tracks stay consistent, for every  *)
(* number of connections, sessions, tracks and interleave channels.        *)
(***************************************************************************)
EXTENDS RtspLive, TLAPS

(* The channels of an interleaved endpoint lie inside the connection's     *)
(* table, which EndpointsConnected takes for granted.                      *)
Paired == \A e \in Endpoints : ep[e].type = "inter" => ep[e].chan + 1 \in Chan

(* Who was told to play a ready track is an endpoint of a playing session. *)
ArmedPlay == \A e \in armed : /\ e \in Endpoints /\ Session(e) \in playing
                              /\ ready[Track(e)]

Inv == /\ EndpointsConnected /\ Paired
       /\ SessionsHaveEndpoints
       /\ PlayedTracksFlow /\ ArmedPlay
       /\ UnreadyTracksWait

-----------------------------------------------------------------------------
(* An endpoint is named by its session and its track. *)
LEMMA EpParts ==
    ASSUME NEW e \in Ep
    PROVE  Session(e) \in Sessions /\ Track(e) \in Tracks
           /\ e = <<Session(e), Track(e)>>
BY DEF Ep, Session, Track

(* What the transport of an endpoint says. *)
LEMMA TransportParts ==
    ASSUME NEW x \in Transport
    PROVE  /\ x.type \in {"none", "udp", "inter"}
           /\ x.type = "inter" => x.conn \in Conns /\ x.chan \in Chan
BY DEF Transport

(* The ways of sending that the requests choose are transports. *)
LEMMA SomeTransports ==
    /\ NoTransport \in Transport /\ NoTransport.type = "none"
    /\ Udp \in Transport /\ Udp.type = "udp"
    /\ \A c \in Conns, i \in Chan :
          [type |-> "inter", conn |-> c, chan |-> i] \in Transport
BY DEF Transport, NoTransport, Udp

(* Before the first request nothing is set up and every track waits. *)
LEMMA InitInv == Init => Inv
<1> SUFFICES ASSUME Init PROVE Inv
  OBVIOUS
<1>1. TypeOK
  BY SomeTransports DEF Init, TypeOK
<1>2. Endpoints = {}
  BY SomeTransports DEF Init, Endpoints
<1>3. EndpointsConnected
  BY <1>1, <1>2 DEF EndpointsConnected, Init
<1>4. SessionsHaveEndpoints
  BY <1>2 DEF SessionsHaveEndpoints, Init
<1>5. PlayedTracksFlow /\ ArmedPlay /\ UnreadyTracksWait
  BY DEF PlayedTracksFlow, ArmedPlay, UnreadyTracksWait, Init
<1> QED
  BY <1>2, <1>3, <1>4, <1>5 DEF Inv, Paired

-----------------------------------------------------------------------------
(* live_teardown takes the endpoints E away and no other. *)
LEMMA TeardownEndpoints ==
    ASSUME TypeOK, NEW E \in SUBSET Ep, NEW w, live_teardown(E, w)
    PROVE  /\ Endpoints' = Endpoints \ E
           /\ \A e \in Endpoints' : ep'[e] = ep[e]
           /\ ep' \in [Ep -> Transport]
<1>1. ep' = [e \in Ep |-> IF e \in E THEN NoTransport ELSE ep[e]]
  BY DEF live_teardown
<1>2. \A e \in Ep : ep'[e] = IF e \in E THEN NoTransport ELSE ep[e]
  BY <1>1
<1>3. Endpoints' = Endpoints \ E
  BY <1>2, SomeTransports DEF Endpoints
<1>4. ep' \in [Ep -> Transport]
  BY <1>1, SomeTransports DEF TypeOK
<1> QED
  BY <1>2, <1>3, <1>4 DEF Endpoints

(* live_teardown keeps the types, given what its caller does. *)
LEMMA TeardownType ==
    ASSUME TypeOK, NEW E \in SUBSET Ep, NEW w \in [Tracks -> BOOLEAN],
           live_teardown(E, w),
           open' \subseteq Conns, ready' \in [Tracks -> BOOLEAN]
    PROVE  TypeOK'
<1>1. ep' \in [Ep -> Transport]
  BY TeardownEndpoints
<1>2. ichan' \in [Conns -> [Chan -> (Ep \X BOOLEAN) \cup {NULL}]]
  <2>1. \A c \in Conns, i \in Chan : ichan[c][i] \in (Ep \X BOOLEAN) \cup {NULL}
    BY DEF TypeOK
  <2> QED
    BY <2>1 DEF live_teardown, del_rtp_endpoint
<1>3. status' \in [Sessions -> {"free", "known", "leaked"}]
  BY DEF live_teardown, TypeOK
<1>4. waiting' \in [Tracks -> BOOLEAN]
  BY Zenon DEF live_teardown, track_check_running
<1>5. playing' \subseteq Sessions /\ armed' \subseteq Ep
  BY DEF live_teardown, TypeOK
<1>6. early' \subseteq Tracks
  BY EpParts DEF live_teardown, TypeOK
<1> QED
  BY <1>1, <1>2, <1>3, <1>4, <1>5, <1>6 DEF TypeOK

(* It leaves the other endpoints connected, if those that stay keep their  *)
(* connection open.                                                        *)
LEMMA TeardownConnected ==
    ASSUME EndpointsConnected, Paired, NEW E \in SUBSET Ep, NEW w,
           live_teardown(E, w), TypeOK',
           \A e \in Endpoints \ E : ep[e].type = "inter" => ep[e].conn \in open'
    PROVE  EndpointsConnected' /\ Paired'
<1> DEFINE cleared(c, i) == \E e \in E : /\ ep[e].type = "inter" /\ ep[e].conn = c
                                         /\ i \in {ep[e].chan, ep[e].chan + 1}
<1>1. TypeOK
  BY DEF EndpointsConnected
<1>2. Endpoints' = Endpoints \ E /\ \A e \in Endpoints' : ep'[e] = ep[e]
  BY <1>1, TeardownEndpoints
<1>3. \A c \in Conns, i \in Chan :
        ichan'[c][i] = IF cleared(c, i) THEN NULL ELSE ichan[c][i]
  BY DEF live_teardown, del_rtp_endpoint
<1>4. Paired'
  BY <1>2 DEF Paired
<1> HIDE DEF cleared
<1>5. ASSUME NEW e \in Endpoints', ep'[e].type = "inter"
      PROVE  /\ ep'[e].conn \in open'
             /\ ichan'[ep'[e].conn][ep'[e].chan] = <<e, FALSE>>
             /\ ichan'[ep'[e].conn][ep'[e].chan + 1] = <<e, TRUE>>
  <2> DEFINE c == ep[e].conn
             i == ep[e].chan
  <2>1. /\ e \in Endpoints /\ e \in Ep /\ e \notin E /\ ep'[e] = ep[e] /\ ep[e].type = "inter"
        /\ c \in Conns /\ i \in Chan /\ i + 1 \in Chan
        /\ ichan[c][i] = <<e, FALSE>> /\ ichan[c][i + 1] = <<e, TRUE>>
    BY <1>1, <1>2, <1>5, TransportParts DEF EndpointsConnected, Paired, Endpoints, TypeOK
  <2>2. ASSUME NEW g \in E, ep[g].type = "inter", ep[g].conn = c
        PROVE  i \notin {ep[g].chan, ep[g].chan + 1}
               /\ i + 1 \notin {ep[g].chan, ep[g].chan + 1}
    <3>1. /\ g \in Endpoints /\ g # e
          /\ ichan[c][ep[g].chan] = <<g, FALSE>>
          /\ ichan[c][ep[g].chan + 1] = <<g, TRUE>>
      BY <2>1, <2>2 DEF EndpointsConnected, Endpoints
    <3> QED
      BY <2>1, <3>1
  <2>3. ~ cleared(c, i) /\ ~ cleared(c, i + 1)
    BY <2>2 DEF cleared
  <2> QED
    BY <1>2, <1>3, <2>1, <2>3
<1>6. ASSUME NEW c \in Conns, NEW i \in Chan, ichan'[c][i] # NULL
      PROVE  /\ ep'[ichan'[c][i][1]].type = "inter" /\ ep'[ichan'[c][i][1]].conn = c
             /\ i \in {ep'[ichan'[c][i][1]].chan, ep'[ichan'[c][i][1]].chan + 1}
  <2> DEFINE e == ichan[c][i][1]
  <2>1. ichan'[c][i] = ichan[c][i] /\ ~ cleared(c, i) /\ ichan[c][i] # NULL
    BY <1>3, <1>6
  <2>2. /\ ep[e].type = "inter" /\ ep[e].conn = c
        /\ i \in {ep[e].chan, ep[e].chan + 1}
    BY <2>1 DEF EndpointsConnected
  <2>3. e \in Ep
    BY <1>1, <2>1 DEF TypeOK
  <2>4. e \notin E
    BY <2>1, <2>2 DEF cleared
  <2>5. e \in Endpoints'
    BY <1>2, <2>2, <2>3, <2>4 DEF Endpoints
  <2> QED
    BY <1>2, <2>1, <2>2, <2>5
<1> QED
  BY <1>4, <1>5, <1>6 DEF EndpointsConnected

(* A session ends with its last endpoint, and then only. *)
LEMMA TeardownSessions ==
    ASSUME TypeOK, SessionsHaveEndpoints, NEW E \in SUBSET Ep, NEW w,
           live_teardown(E, w)
    PROVE  SessionsHaveEndpoints'
<1> DEFINE left == Endpoints \ E
           gone == SessionsGone(E, left)
<1>1. Endpoints' = left
  BY TeardownEndpoints
<1>2. /\ \A s \in Sessions : status'[s] = IF s \in gone THEN "free" ELSE status[s]
      /\ playing' = playing \ gone
  BY DEF live_teardown
<1>3. \A s \in gone : \A e \in left : Session(e) # s
  BY DEF SessionsGone
<1>4. \A e \in E : Session(e) \in gone \/ \E g \in left : Session(g) = Session(e)
  BY DEF SessionsGone
<1> HIDE DEF left, gone
<1> SUFFICES ASSUME NEW s \in Sessions
             PROVE  /\ status'[s] = "known" <=> \E e \in left : Session(e) = s
                    /\ s \in playing' => status'[s] = "known"
  BY <1>1 DEF SessionsHaveEndpoints
<1>5. CASE s \in gone
  BY <1>2, <1>3, <1>5
<1>6. CASE s \notin gone
  <2>1. (\E e \in Endpoints : Session(e) = s) <=> \E e \in left : Session(e) = s
    BY <1>4, <1>6 DEF left
  <2> QED
    BY <1>2, <1>6, <2>1 DEF SessionsHaveEndpoints
<1> QED BY <1>5, <1>6

(* A session that plays on keeps its tracks waiting; a track nobody plays  *)
(* any more stops.  The caller has set ready and the waiting flags w, from *)
(* which live_teardown starts.                                             *)
LEMMA TeardownFlow ==
    ASSUME TypeOK, PlayedTracksFlow, ArmedPlay,
           NEW E \in SUBSET Ep, NEW w \in [Tracks -> BOOLEAN], live_teardown(E, w),
           \A t \in Tracks : ready[t] => ready'[t] /\ w[t] = waiting[t],
           \A t \in Tracks : w[t] => ready'[t] = ready[t]
    PROVE  PlayedTracksFlow' /\ ArmedPlay'
<1> DEFINE left == Endpoints \ E
           gone == SessionsGone(E, left)
           of(t) == t \in {Track(e) : e \in E}
           played(t) == \E e \in left : Track(e) = t /\ Session(e) \in playing
<1>1. Endpoints' = left
  BY TeardownEndpoints
<1>2. /\ playing' = playing \ gone
      /\ armed' = armed \ E
      /\ \A t \in Tracks : waiting'[t] = (w[t] /\ (of(t) => played(t)))
  BY DEF live_teardown, track_check_running
<1>3. \A e \in left : Session(e) \notin gone
  BY DEF SessionsGone
<1>4. \A e \in left : e \in Endpoints /\ e \in Ep /\ e \notin E
  BY DEF Endpoints
<1>5. \A e \in Endpoints : e \in E \/ e \in left
  OBVIOUS
<1>6. \A e \in E : of(Track(e))
  OBVIOUS
<1> HIDE DEF left, gone, of
<1>7. ASSUME NEW e \in armed'
      PROVE  /\ e \in Endpoints' /\ Session(e) \in playing'
             /\ ready'[Track(e)] /\ waiting'[Track(e)]
  <2>1. e \in armed /\ e \notin E
    BY <1>2, <1>7
  <2>2. e \in left /\ Session(e) \in playing /\ ready[Track(e)] /\ Track(e) \in Tracks
    BY <1>4, <1>5, <2>1, EpParts DEF ArmedPlay
  <2>3. waiting[Track(e)]
    BY <2>1 DEF PlayedTracksFlow
  <2>4. played(Track(e))
    BY <2>2
  <2> QED
    BY <1>1, <1>2, <1>3, <2>2, <2>3, <2>4
<1>8. ASSUME NEW t \in Tracks, ready'[t], waiting'[t]
      PROVE  \E e \in Endpoints' : Track(e) = t /\ Session(e) \in playing'
  <2>1. w[t] /\ (of(t) => played(t)) /\ ready[t] /\ waiting[t]
    BY <1>2, <1>8
  <2>2. \E e \in Endpoints : Track(e) = t /\ Session(e) \in playing
    BY <2>1 DEF PlayedTracksFlow
  <2>3. played(t)
    BY <1>5, <1>6, <2>1, <2>2
  <2> QED
    BY <1>1, <1>2, <1>3, <2>3
<1> QED
  BY <1>7, <1>8 DEF PlayedTracksFlow, ArmedPlay

(* A track that is turned off before its first frame has lost an endpoint. *)
LEMMA TeardownWaits ==
    ASSUME UnreadyTracksWait, NEW E \in SUBSET Ep, NEW w \in [Tracks -> BOOLEAN],
           live_teardown(E, w),
           \A t \in Tracks : ~ ready'[t] => ~ ready[t] /\ w[t] = waiting[t]
    PROVE  UnreadyTracksWait'
<1> SUFFICES ASSUME NEW t \in Tracks, ~ ready'[t], t \notin early'
             PROVE  waiting'[t]
  BY DEF UnreadyTracksWait
<1>1. ~ ready[t] /\ w[t] = waiting[t]
  OBVIOUS
<1>2. t \notin early /\ t \notin {Track(e) : e \in E}
  BY <1>1 DEF live_teardown
<1>3. w[t]
  BY <1>1, <1>2 DEF UnreadyTracksWait
<1> QED
  BY <1>2, <1>3 DEF live_teardown, track_check_running

(* Together: what any teardown in a callback keeps. *)
LEMMA TeardownInv ==
    ASSUME Inv, NEW E \in SUBSET Ep, live_teardown(E, waiting), ready' = ready,
           open' \subseteq Conns,
           \A e \in Endpoints \ E : ep[e].type = "inter" => ep[e].conn \in open'
    PROVE  Inv'
<1>1. TypeOK /\ waiting \in [Tracks -> BOOLEAN] /\ ready \in [Tracks -> BOOLEAN]
  BY DEF Inv, EndpointsConnected, TypeOK
<1>2. TypeOK'
  BY <1>1, TeardownType
<1>3. EndpointsConnected' /\ Paired'
  BY <1>2, TeardownConnected DEF Inv
<1>4. SessionsHaveEndpoints'
  BY <1>1, TeardownSessions DEF Inv
<1>5. PlayedTracksFlow' /\ ArmedPlay'
  BY <1>1, TeardownFlow DEF Inv
<1>6. UnreadyTracksWait'
  BY <1>1, TeardownWaits DEF Inv
<1> QED
  BY <1>3, <1>4, <1>5, <1>6 DEF Inv

-----------------------------------------------------------------------------
(* With the connection go the endpoints that send in it. *)
LEMMA DropInv == ASSUME Inv, NEW c \in Conns, drop_conn(c) PROVE Inv'
<1> DEFINE E == rtsp_conn_disconnect(c)
<1>1. TypeOK
  BY DEF Inv, EndpointsConnected
<1>2. E \in SUBSET Ep
  BY DEF rtsp_conn_disconnect
<1>3. ASSUME NEW e \in Endpoints \ E, ep[e].type = "inter"
      PROVE  ep[e].conn \in open'
  <2>1. e \in Endpoints /\ e \in Ep /\ ep[e].chan \in Chan
    BY <1>1, <1>3, TransportParts DEF Endpoints, TypeOK
  <2>2. ep[e].conn \in open /\ ichan[ep[e].conn][ep[e].chan] = <<e, FALSE>>
    BY <1>3, <2>1 DEF Inv, EndpointsConnected
  <2>3. ep[e].conn # c
    BY <1>3, <2>1, <2>2 DEF rtsp_conn_disconnect
  <2> QED
    BY <2>2, <2>3 DEF drop_conn
<1>4. live_teardown(E, waiting) /\ ready' = ready /\ open' \subseteq Conns
  BY <1>1 DEF drop_conn, TypeOK
<1> HIDE DEF E
<1> QED
  BY <1>2, <1>3, <1>4, TeardownInv

(* Other teardowns leave the connections as they are. *)
LEMMA OpenTeardownInv ==
    ASSUME Inv, NEW E \in SUBSET Ep, live_teardown(E, waiting), UNCHANGED <<open, ready>>
    PROVE  Inv'
<1>1. TypeOK
  BY DEF Inv, EndpointsConnected
<1>2. \A e \in Endpoints \ E : ep[e].type = "inter" => ep[e].conn \in open'
  BY DEF Inv, EndpointsConnected
<1> QED
  BY <1>1, <1>2, TeardownInv DEF TypeOK

(* A frame makes its track ready and may end endpoints whose send fails. *)
LEMMA FrameInv ==
    ASSUME Inv, NEW t \in Tracks, NEW E \in SUBSET Ep, next_live_frame(t, E)
    PROVE  Inv'
<1> DEFINE w == [waiting EXCEPT ![t] = ready[t]]
<1>1. TypeOK /\ waiting \in [Tracks -> BOOLEAN] /\ ready \in [Tracks -> BOOLEAN]
  BY DEF Inv, EndpointsConnected, TypeOK
<1>2. /\ waiting[t] /\ open' = open /\ live_teardown(E, w)
      /\ ready' = [ready EXCEPT ![t] = TRUE]
  BY DEF next_live_frame
<1>3. w \in [Tracks -> BOOLEAN] /\ ready' \in [Tracks -> BOOLEAN]
  BY <1>1, <1>2
<1>4. /\ w[t] = ready[t] /\ ready'[t] = TRUE
      /\ \A x \in Tracks : x # t => w[x] = waiting[x] /\ ready'[x] = ready[x]
  BY <1>1, <1>2
<1> HIDE DEF w
<1>5. /\ \A x \in Tracks : ready[x] => ready'[x] /\ w[x] = waiting[x]
      /\ \A x \in Tracks : w[x] => ready'[x] = ready[x]
      /\ \A x \in Tracks : ~ ready'[x] => ~ ready[x] /\ w[x] = waiting[x]
  <2> SUFFICES ASSUME NEW x \in Tracks
               PROVE  /\ ready[x] => ready'[x] /\ w[x] = waiting[x]
                      /\ w[x] => ready'[x] = ready[x]
                      /\ ~ ready'[x] => ~ ready[x] /\ w[x] = waiting[x]
    OBVIOUS
  <2>0. ready[x] \in BOOLEAN /\ waiting[x] \in BOOLEAN
    BY <1>1
  <2>1. CASE x = t
    <3>1. w[x] = ready[x] /\ ready'[x] = TRUE
      BY <1>4, <2>1
    <3>2. waiting[x]
      BY <1>2, <2>1
    <3> QED BY <2>0, <3>1, <3>2
  <2>2. CASE x # t
    <3>1. w[x] = waiting[x] /\ ready'[x] = ready[x]
      BY <1>4, <2>2
    <3> QED BY <3>1
  <2> QED BY <2>1, <2>2
<1>6. \A e \in Endpoints \ E : ep[e].type = "inter" => ep[e].conn \in open'
  BY <1>2 DEF Inv, EndpointsConnected
<1>7. TypeOK'
  BY <1>1, <1>2, <1>3, TeardownType DEF TypeOK
<1>8. EndpointsConnected' /\ Paired'
  BY <1>2, <1>6, <1>7, TeardownConnected DEF Inv
<1>9. SessionsHaveEndpoints'
  BY <1>1, <1>2, TeardownSessions DEF Inv
<1>10. PlayedTracksFlow' /\ ArmedPlay'
  BY <1>1, <1>2, <1>3, <1>5, TeardownFlow DEF Inv
<1>11. UnreadyTracksWait'
  BY <1>1, <1>2, <1>3, <1>5, TeardownWaits DEF Inv
<1> QED
  BY <1>8, <1>9, <1>10, <1>11 DEF Inv

-----------------------------------------------------------------------------
(* A new endpoint of a track, over UDP or interleaved, disturbs neither    *)
(* the sessions nor the tracks.                                            *)
LEMMA SetupRest ==
    ASSUME Inv, NEW e \in Ep, status[Session(e)] \in {"free", "known"},
           NEW x \in Transport, x.type # "none", ep' = [ep EXCEPT ![e] = x],
           status' = [status EXCEPT ![Session(e)] = "known"],
           UNCHANGED <<playing, ready, waiting, armed, early>>
    PROVE  /\ Endpoints' = Endpoints \cup {e}
           /\ \A g \in Ep : ep'[g] = IF g = e THEN x ELSE ep[g]
           /\ ep' \in [Ep -> Transport]
           /\ status' \in [Sessions -> {"free", "known", "leaked"}]
           /\ SessionsHaveEndpoints'
           /\ PlayedTracksFlow' /\ ArmedPlay' /\ UnreadyTracksWait'
<1>1. TypeOK /\ Session(e) \in Sessions
  BY EpParts DEF Inv, EndpointsConnected
<1>2. \A g \in Ep : ep'[g] = IF g = e THEN x ELSE ep[g]
  BY <1>1 DEF TypeOK
<1>3. Endpoints' = Endpoints \cup {e}
  BY <1>2 DEF Endpoints
<1>4. ep' \in [Ep -> Transport] /\ status' \in [Sessions -> {"free", "known", "leaked"}]
  BY <1>1 DEF TypeOK
<1>5. SessionsHaveEndpoints'
  <2>1. \A s \in Sessions : status'[s] = IF s = Session(e) THEN "known" ELSE status[s]
    BY <1>1 DEF TypeOK
  <2>2. SessionsHaveEndpoints
    BY DEF Inv
  <2> QED
    BY <1>3, <2>1, <2>2 DEF SessionsHaveEndpoints
<1>6. PlayedTracksFlow' /\ ArmedPlay' /\ UnreadyTracksWait'
  BY <1>3 DEF Inv, PlayedTracksFlow, ArmedPlay, UnreadyTracksWait
<1> QED
  BY <1>2, <1>3, <1>4, <1>5, <1>6

(* SETUP over UDP. *)
LEMMA SetupUdpInv ==
    ASSUME Inv, NEW c \in Conns, NEW e \in Ep, handle_SETUP_udp(c, e)
    PROVE  Inv'
<1>1. /\ status[Session(e)] \in {"free", "known"} /\ e \notin Endpoints
      /\ ep' = [ep EXCEPT ![e] = Udp]
      /\ status' = [status EXCEPT ![Session(e)] = "known"]
      /\ UNCHANGED <<open, ichan, playing, ready, waiting, armed, early>>
  BY DEF handle_SETUP_udp, MaySetup, Endpoints
<1>2. /\ Endpoints' = Endpoints \cup {e}
      /\ \A g \in Ep : ep'[g] = IF g = e THEN Udp ELSE ep[g]
      /\ ep' \in [Ep -> Transport]
      /\ status' \in [Sessions -> {"free", "known", "leaked"}]
      /\ SessionsHaveEndpoints'
      /\ PlayedTracksFlow' /\ ArmedPlay' /\ UnreadyTracksWait'
  BY <1>1, SetupRest, SomeTransports
<1>3. TypeOK /\ TypeOK'
  BY <1>1, <1>2 DEF Inv, EndpointsConnected, TypeOK
<1>4. Paired' /\ EndpointsConnected'
  <2>1. \A g \in Endpoints' : ep'[g].type = "inter" => g \in Endpoints /\ ep'[g] = ep[g]
    BY <1>2, SomeTransports DEF Endpoints
  <2>2. ASSUME NEW d \in Conns, NEW i \in Chan, ichan[d][i] # NULL
        PROVE  ep'[ichan[d][i][1]] = ep[ichan[d][i][1]]
    <3>1. ichan[d][i][1] \in Ep /\ ep[ichan[d][i][1]].type = "inter"
      BY <1>3, <2>2 DEF Inv, EndpointsConnected, TypeOK
    <3> QED
      BY <1>1, <1>2, <3>1 DEF Endpoints
  <2>3. Paired'
    BY <2>1 DEF Inv, Paired
  <2>4. \A g \in Endpoints' : ep'[g].type = "inter" =>
          /\ ep'[g].conn \in open'
          /\ ichan'[ep'[g].conn][ep'[g].chan] = <<g, FALSE>>
          /\ ichan'[ep'[g].conn][ep'[g].chan + 1] = <<g, TRUE>>
    <3>1. ichan' = ichan /\ open' = open
      BY <1>1
    <3> QED BY <2>1, <3>1, Zenon DEF Inv, EndpointsConnected
  <2>5. \A d \in Conns, i \in Chan : ichan'[d][i] # NULL =>
          /\ ep'[ichan'[d][i][1]].type = "inter" /\ ep'[ichan'[d][i][1]].conn = d
          /\ i \in {ep'[ichan'[d][i][1]].chan, ep'[ichan'[d][i][1]].chan + 1}
    BY <1>1, <2>2 DEF Inv, EndpointsConnected
  <2> QED
    BY <1>3, <2>3, <2>4, <2>5 DEF EndpointsConnected
<1> QED
  BY <1>2, <1>4 DEF Inv

(* SETUP in two free channels of the connection. *)
LEMMA SetupInterleavedInv ==
    ASSUME Inv, NEW c \in Conns, NEW e \in Ep, NEW i \in Chan,
           handle_SETUP_interleaved(c, e, i)
    PROVE  Inv'
<1> DEFINE x == [type |-> "inter", conn |-> c, chan |-> i]
<1>1. /\ status[Session(e)] \in {"free", "known"} /\ e \notin Endpoints /\ c \in open
      /\ i + 1 \in Chan /\ ichan[c][i] = NULL /\ ichan[c][i + 1] = NULL
      /\ ichan' = [ichan EXCEPT ![c][i] = <<e, FALSE>>, ![c][i + 1] = <<e, TRUE>>]
      /\ ep' = [ep EXCEPT ![e] = x]
      /\ status' = [status EXCEPT ![Session(e)] = "known"]
      /\ UNCHANGED <<open, playing, ready, waiting, armed, early>>
  BY DEF handle_SETUP_interleaved, MaySetup, ChannelsFree, Endpoints
<1>2. x \in Transport /\ x.type = "inter" /\ x.conn = c /\ x.chan = i
  BY SomeTransports
<1>3. TypeOK /\ i # i + 1
  BY DEF Inv, EndpointsConnected, Chan
<1> HIDE DEF x
<1>4. /\ Endpoints' = Endpoints \cup {e}
      /\ \A g \in Ep : ep'[g] = IF g = e THEN x ELSE ep[g]
      /\ ep' \in [Ep -> Transport]
      /\ status' \in [Sessions -> {"free", "known", "leaked"}]
      /\ SessionsHaveEndpoints'
      /\ PlayedTracksFlow' /\ ArmedPlay' /\ UnreadyTracksWait'
  BY <1>1, <1>2, SetupRest
<1>5. \A d \in Conns, k \in Chan :
        ichan'[d][k] = IF d = c /\ k = i THEN <<e, FALSE>>
                       ELSE IF d = c /\ k = i + 1 THEN <<e, TRUE>>
                       ELSE ichan[d][k]
  BY <1>1, <1>3 DEF TypeOK
<1>6. ichan' \in [Conns -> [Chan -> (Ep \X BOOLEAN) \cup {NULL}]]
  BY <1>1, <1>3 DEF TypeOK
<1>7. TypeOK'
  BY <1>1, <1>3, <1>4, <1>6 DEF TypeOK
<1>8. Paired'
  BY <1>1, <1>2, <1>4 DEF Inv, Paired, Endpoints
<1>9. ASSUME NEW g \in Endpoints', ep'[g].type = "inter"
      PROVE  /\ ep'[g].conn \in open'
             /\ ichan'[ep'[g].conn][ep'[g].chan] = <<g, FALSE>>
             /\ ichan'[ep'[g].conn][ep'[g].chan + 1] = <<g, TRUE>>
  <2>1. CASE g = e
    BY <1>1, <1>2, <1>3, <1>4, <1>5, <2>1
  <2>2. CASE g # e
    <3>1. g \in Endpoints /\ g \in Ep /\ ep'[g] = ep[g]
      BY <1>4, <1>9, <2>2 DEF Endpoints
    <3>2. /\ ep[g].conn \in open /\ ep[g].conn \in Conns
          /\ ep[g].chan \in Chan /\ ep[g].chan + 1 \in Chan
          /\ ichan[ep[g].conn][ep[g].chan] = <<g, FALSE>>
          /\ ichan[ep[g].conn][ep[g].chan + 1] = <<g, TRUE>>
      BY <1>3, <1>9, <3>1, TransportParts DEF Inv, EndpointsConnected, Paired, TypeOK
    <3>3. <<g, FALSE>> # NULL /\ <<g, TRUE>> # NULL
      <4>1. <<g, FALSE>> \in Ep \X BOOLEAN /\ <<g, TRUE>> \in Ep \X BOOLEAN
        BY <3>1
      <4>2. NULL \notin Ep \X BOOLEAN
        BY RtspAssumption DEF Ep
      <4> QED BY <4>1, <4>2
    <3>4. /\ ichan'[ep[g].conn][ep[g].chan] = ichan[ep[g].conn][ep[g].chan]
          /\ ichan'[ep[g].conn][ep[g].chan + 1] = ichan[ep[g].conn][ep[g].chan + 1]
      <4>1. \A d \in Conns, k \in Chan : ichan[d][k] # NULL => ichan'[d][k] = ichan[d][k]
        <5> SUFFICES ASSUME NEW d \in Conns, NEW k \in Chan, ichan[d][k] # NULL
                     PROVE  ichan'[d][k] = ichan[d][k]
          OBVIOUS
        <5>1. ~ (d = c /\ k = i) /\ ~ (d = c /\ k = i + 1)
          BY <1>1
        <5> QED BY <1>5, <5>1
      <4> QED BY <3>2, <3>3, <4>1, Zenon
    <3>5. open' = open
      BY <1>1
    <3> QED
      BY <3>1, <3>2, <3>4, <3>5, Zenon
  <2> QED BY <2>1, <2>2
<1>10. ASSUME NEW d \in Conns, NEW k \in Chan, ichan'[d][k] # NULL
       PROVE  /\ ep'[ichan'[d][k][1]].type = "inter" /\ ep'[ichan'[d][k][1]].conn = d
              /\ k \in {ep'[ichan'[d][k][1]].chan, ep'[ichan'[d][k][1]].chan + 1}
  <2>1. CASE d = c /\ k \in {i, i + 1}
    <3>1. ichan'[d][k][1] = e
      BY <1>5, <2>1
    <3> QED
      BY <1>2, <1>4, <2>1, <3>1
  <2>2. CASE ~ (d = c /\ k \in {i, i + 1})
    <3>1. ichan'[d][k] = ichan[d][k]
      BY <1>5, <2>2
    <3>2. /\ ichan[d][k][1] \in Ep /\ ep[ichan[d][k][1]].type = "inter"
          /\ ep[ichan[d][k][1]].conn = d
          /\ k \in {ep[ichan[d][k][1]].chan, ep[ichan[d][k][1]].chan + 1}
      BY <1>3, <1>10, <3>1 DEF Inv, EndpointsConnected, TypeOK
    <3>3. ep'[ichan[d][k][1]] = ep[ichan[d][k][1]]
      BY <1>1, <1>4, <3>2 DEF Endpoints
    <3> QED BY <3>1, <3>2, <3>3
  <2> QED BY <2>1, <2>2
<1>11. EndpointsConnected'
  BY <1>7, <1>9, <1>10 DEF EndpointsConnected
<1> QED
  BY <1>4, <1>8, <1>11 DEF Inv

-----------------------------------------------------------------------------
(* PLAY starts the tracks of the session. *)
LEMMA PlayInv == ASSUME Inv, NEW s \in Sessions, handle_PLAY(s) PROVE Inv'
<1> DEFINE mine == {e \in Endpoints : Session(e) = s}
<1>1. /\ status[s] = "known" /\ playing' = playing \cup {s}
      /\ waiting' = [t \in Tracks |-> waiting[t] \/ <<s, t>> \in mine]
      /\ armed' = armed \cup {e \in mine : ready[Track(e)]}
      /\ open' = open /\ ichan' = ichan /\ status' = status /\ ep' = ep
      /\ ready' = ready /\ early' = early
  BY DEF handle_PLAY
<1>2. TypeOK /\ Endpoints' = Endpoints /\ Endpoints \subseteq Ep
  BY <1>1 DEF Inv, EndpointsConnected, Endpoints
<1>3. waiting' \in [Tracks -> BOOLEAN]
  BY <1>1, Zenon
<1>4. TypeOK'
  BY <1>1, <1>2, <1>3 DEF TypeOK
<1>5. EndpointsConnected' /\ Paired'
  BY <1>1, <1>2, <1>4 DEF Inv, EndpointsConnected, Paired
<1>6. SessionsHaveEndpoints'
  BY <1>1, <1>2 DEF Inv, SessionsHaveEndpoints
<1>7. \A t \in Tracks : waiting'[t] <=> (waiting[t] \/ <<s, t>> \in mine)
  BY <1>1
<1>8. \A e \in mine : e \in Endpoints /\ e = <<s, Track(e)>> /\ Track(e) \in Tracks
  BY <1>2, EpParts
<1>9. \A t \in Tracks : <<s, t>> \in mine =>
         \E e \in Endpoints : Track(e) = t /\ Session(e) = s
  BY DEF Track
<1>10. \A e \in mine : Session(e) = s
  OBVIOUS
<1> HIDE DEF mine
<1>11. ArmedPlay'
  BY <1>1, <1>2, <1>8, <1>10 DEF Inv, ArmedPlay
<1>12. \A e \in armed' : waiting'[Track(e)]
  <2> SUFFICES ASSUME NEW e \in armed' PROVE waiting'[Track(e)]
    OBVIOUS
  <2>1. CASE e \in armed
    <3>1. waiting[Track(e)] /\ Track(e) \in Tracks
      BY <1>2, <2>1, EpParts DEF Inv, PlayedTracksFlow, TypeOK
    <3> QED BY <1>7, <3>1
  <2>2. CASE e \in mine
    <3>1. <<s, Track(e)>> \in mine /\ Track(e) \in Tracks
      BY <1>8, <2>2
    <3> QED BY <1>7, <3>1
  <2> QED BY <1>1, <2>1, <2>2
<1>13. ASSUME NEW t \in Tracks, ready'[t], waiting'[t]
       PROVE  \E e \in Endpoints' : Track(e) = t /\ Session(e) \in playing'
  <2>1. CASE waiting[t]
    <3>1. \E e \in Endpoints : Track(e) = t /\ Session(e) \in playing
      BY <1>1, <1>13, <2>1 DEF Inv, PlayedTracksFlow
    <3> QED BY <1>1, <1>2, <3>1
  <2>2. CASE <<s, t>> \in mine
    BY <1>1, <1>2, <1>9, <2>2
  <2> QED BY <1>7, <1>13, <2>1, <2>2
<1>14. PlayedTracksFlow'
  BY <1>12, <1>13 DEF PlayedTracksFlow
<1>15. UnreadyTracksWait'
  BY <1>1, <1>7 DEF Inv, UnreadyTracksWait
<1> QED
  BY <1>5, <1>6, <1>11, <1>14, <1>15 DEF Inv

(* A refused DESCRIBE marks a free session as leaked; nothing else. *)
LEMMA DescribeInv ==
    ASSUME Inv, NEW s \in Sessions, handle_DESCRIBE_unauthorized(s)
    PROVE  Inv'
<1>1. /\ status[s] = "free" /\ status' = [status EXCEPT ![s] = "leaked"]
      /\ UNCHANGED <<open, ichan, ep, playing, ready, waiting, armed, early>>
  BY DEF handle_DESCRIBE_unauthorized
<1>2. TypeOK /\ TypeOK' /\ Endpoints' = Endpoints
  BY <1>1 DEF Inv, EndpointsConnected, TypeOK, Endpoints
<1>3. EndpointsConnected' /\ Paired'
  BY <1>1, <1>2 DEF Inv, EndpointsConnected, Paired
<1>4. SessionsHaveEndpoints'
  BY <1>1, <1>2 DEF Inv, SessionsHaveEndpoints, TypeOK
<1>5. PlayedTracksFlow' /\ ArmedPlay' /\ UnreadyTracksWait'
  BY <1>1, <1>2 DEF Inv, PlayedTracksFlow, ArmedPlay, UnreadyTracksWait
<1> QED
  BY <1>3, <1>4, <1>5 DEF Inv

(* A new connection, or no change. *)
LEMMA AcceptInv ==
    ASSUME Inv, open \subseteq open', open' \subseteq Conns,
           UNCHANGED <<ichan, status, ep, playing, ready, waiting, armed, early>>
    PROVE  Inv'
<1>1. TypeOK /\ TypeOK' /\ Endpoints' = Endpoints
  BY DEF Inv, EndpointsConnected, TypeOK, Endpoints
<1>2. EndpointsConnected' /\ Paired'
  BY <1>1 DEF Inv, EndpointsConnected, Paired
<1>3. SessionsHaveEndpoints'
  BY <1>1 DEF Inv, SessionsHaveEndpoints
<1>4. PlayedTracksFlow' /\ ArmedPlay' /\ UnreadyTracksWait'
  BY <1>1 DEF Inv, PlayedTracksFlow, ArmedPlay, UnreadyTracksWait
<1> QED
  BY <1>2, <1>3, <1>4 DEF Inv

-----------------------------------------------------------------------------
(* Every request, lost connection, endpoint error and frame keeps Inv. *)
LEMMA StepInv == Inv /\ [Next]_vars => Inv'
<1> SUFFICES ASSUME Inv, [Next]_vars PROVE Inv'
  OBVIOUS
<1>0. TypeOK
  BY DEF Inv, EndpointsConnected
<1>1. ASSUME NEW c \in Conns, do_accept(c) PROVE Inv'
  BY <1>0, <1>1, AcceptInv DEF do_accept, TypeOK
<1>2. ASSUME NEW c \in Conns, drop_conn(c) PROVE Inv'
  BY <1>2, DropInv
<1>3. ASSUME NEW c \in Conns, Request(c) PROVE Inv'
  <2>1. ASSUME NEW s \in Sessions, handle_DESCRIBE_unauthorized(s) PROVE Inv'
    BY <2>1, DescribeInv
  <2>2. ASSUME NEW s \in Sessions, handle_PLAY(s) PROVE Inv'
    BY <2>2, PlayInv
  <2>3. ASSUME NEW s \in Sessions, NEW T \in SUBSET Tracks, handle_TEARDOWN(s, T)
        PROVE  Inv'
    <3> DEFINE mine == {e \in Endpoints : Session(e) = s}
               named == {e \in mine : Track(e) \in T}
               E == IF named = {} THEN mine ELSE named
    <3>1. E \in SUBSET Ep /\ live_teardown(E, waiting) /\ UNCHANGED <<open, ready>>
      BY <2>3 DEF handle_TEARDOWN, Endpoints
    <3> HIDE DEF E
    <3> QED BY <3>1, OpenTeardownInv
  <2>4. ASSUME NEW e \in Ep, handle_SETUP_fails(c, e) PROVE Inv'
    BY <2>4, OpenTeardownInv DEF handle_SETUP_fails
  <2>5. ASSUME NEW e \in Ep, handle_SETUP_udp(c, e) PROVE Inv'
    BY <2>5, SetupUdpInv
  <2>6. ASSUME NEW e \in Ep, NEW i \in Chan, handle_SETUP_interleaved(c, e, i)
        PROVE  Inv'
    BY <2>6, SetupInterleavedInv
  <2> QED
    BY <1>3, <2>1, <2>2, <2>3, <2>4, <2>5, <2>6 DEF Request
<1>4. ASSUME NEW e \in Ep, udp_error(e) PROVE Inv'
  BY <1>4, OpenTeardownInv DEF udp_error
<1>5. ASSUME NEW t \in Tracks, NEW E \in SUBSET Ep, next_live_frame(t, E) PROVE Inv'
  BY <1>5, FrameInv
<1>6. CASE UNCHANGED vars
  BY <1>0, <1>6, AcceptInv DEF vars, TypeOK
<1> QED
  BY <1>1, <1>2, <1>3, <1>4, <1>5, <1>6 DEF Next

(* Inv holds in every reachable state. *)
THEOREM InvHolds == Spec => []Inv
BY InitInv, StepInv, PTL DEF Spec

(* No interleaved endpoint outlives its connection and no channel its      *)
(* endpoint, in whatever order requests, errors and disconnects come:      *)
(* interleave_send never writes to a freed struct conn.                    *)
THEOREM EndpointsConnectedHolds == Spec => []EndpointsConnected
<1>1. Inv => EndpointsConnected
  BY DEF Inv
<1> QED BY <1>1, InvHolds, PTL

(* A session is known to rtsp.c exactly as long as it has an endpoint, and *)
(* only known sessions play.                                               *)
THEOREM SessionsHaveEndpointsHolds == Spec => []SessionsHaveEndpoints
<1>1. Inv => SessionsHaveEndpoints
  BY DEF Inv
<1> QED BY <1>1, InvHolds, PTL

(* No teardown turns off a track under a session that plays it, and a      *)
(* ready track that waits for frames has somebody who plays it.            *)
THEOREM PlayedTracksFlowHolds == Spec => []PlayedTracksFlow
<1>1. Inv => PlayedTracksFlow
  BY DEF Inv
<1> QED BY <1>1, InvHolds, PTL

(* Only a teardown before the first frame turns off a track that is not    *)
(* ready.                                                                  *)
THEOREM UnreadyTracksWaitHolds == Spec => []UnreadyTracksWait
<1>1. Inv => UnreadyTracksWait
  BY DEF Inv
<1> QED BY <1>1, InvHolds, PTL
=============================================================================
