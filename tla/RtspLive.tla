------------------------------ MODULE RtspLive ------------------------------
(***************************************************************************)
(* RTSP sessions on a live source: src/spook/rtsp.c (request handlers),    *)
(* live.c (the source and its sessions), session.c, rtp.c (endpoints) and  *)
(* the part of stream.c and tcp.c they call.  All of it runs in callbacks  *)
(* of the event loop, so one request, one lost connection, one endpoint    *)
(* error or one frame is one step.                                         *)
(*                                                                         *)
(* A session has one endpoint per track it has set up; an endpoint sends   *)
(* over UDP or interleaved in the RTSP connection.  A source asks for      *)
(* frames of a track (waiting) until the first one has described the track *)
(* (ready), and from then on while a session plays it.                     *)
(***************************************************************************)
EXTENDS Naturals, FiniteSets

CONSTANTS Conns,      \* TCP connections (struct conn)
          Sessions,   \* sessions (struct session, live_session)
          Tracks,     \* tracks of the source
          MaxChan,    \* MAX_INTERLEAVE_CHANNELS
          MaxLeaked,  \* bound on leaked sessions, for a finite instance
          NULL

ASSUME RtspAssumption == /\ MaxChan \in Nat /\ MaxChan % 2 = 0 /\ MaxChan > 0
                         /\ MaxLeaked \in Nat
                         /\ NULL \notin Conns \cup ((Sessions \X Tracks) \X BOOLEAN)

Chan == 0..(MaxChan - 1)
Ep == Sessions \X Tracks    \* an endpoint, named by session and track

Transport == [type : {"none", "udp"}, conn : {NULL}, chan : {0}]
             \cup [type : {"inter"}, conn : Conns, chan : Chan]
NoTransport == [type |-> "none", conn |-> NULL, chan |-> 0]
Udp == [type |-> "udp", conn |-> NULL, chan |-> 0]

VARIABLES
    open,       \* the open TCP connections
    ichan,      \* ichan[c][i]: endpoint and rtcp flag of an interleave channel
    status,     \* "free", "known" (in rtsp.c's sess_list) or "leaked"
    ep,         \* ep[e]: how the endpoint sends; "none": there is no endpoint
    playing,    \* live_session.playing
    ready,      \* live_track.ready
    waiting,    \* the track's stream destination is waiting for frames
    armed,      \* (history) endpoints told to play when their track was ready
    early       \* (history) tracks that lost an endpoint before they were ready

vars == <<open, ichan, status, ep, playing, ready, waiting, armed, early>>

TypeOK ==
    /\ open \subseteq Conns
    /\ ichan \in [Conns -> [Chan -> (Ep \X BOOLEAN) \cup {NULL}]]
    /\ status \in [Sessions -> {"free", "known", "leaked"}]
    /\ ep \in [Ep -> Transport]
    /\ playing \subseteq Sessions
    /\ ready \in [Tracks -> BOOLEAN]
    /\ waiting \in [Tracks -> BOOLEAN]
    /\ armed \subseteq Ep
    /\ early \subseteq Tracks

Endpoints == {e \in Ep : ep[e].type # "none"}
Track(e) == e[2]
Session(e) == e[1]

(* start_block, set_track: every track asks for its first frame. *)
Init ==
    /\ open = {}
    /\ ichan = [c \in Conns |-> [i \in Chan |-> NULL]]
    /\ status = [s \in Sessions |-> "free"]
    /\ ep = [e \in Ep |-> NoTransport]
    /\ playing = {}
    /\ ready = [t \in Tracks |-> FALSE]
    /\ waiting = [t \in Tracks |-> TRUE]
    /\ armed = {} /\ early = {}

-----------------------------------------------------------------------------
(* Slip: the waiting flag of a track is cleared with any endpoint of it. *)
track_check_running_blind(E, left, plays, w) ==
    [t \in Tracks |-> w[t] /\ t \notin {Track(e) : e \in E}]

(* track_check_running for the tracks of the deleted endpoints E, of which *)
(* left remain: a track that no playing session has set up stops waiting.  *)
track_check_running(E, left, plays, w) ==
    [t \in Tracks |->
        w[t] /\ (t \in {Track(e) : e \in E} =>
                    \E e \in left : Track(e) = t /\ Session(e) \in plays)]

(* del_rtp_endpoint with interleave_disconnect: both channels of an        *)
(* interleaved endpoint are cleared in its connection.                     *)
del_rtp_endpoint(E) ==
    ichan' = [c \in Conns |-> [i \in Chan |->
        IF \E e \in E : /\ ep[e].type = "inter" /\ ep[e].conn = c
                        /\ i \in {ep[e].chan, ep[e].chan + 1}
        THEN NULL ELSE ichan[c][i]]]

(* Slip: a session is freed with any endpoint it loses. *)
SessionsGone_eager(E, left) == {Session(e) : e \in E}

(* The sessions live_teardown frees: those left without an endpoint. *)
SessionsGone(E, left) ==
    {s \in {Session(e) : e \in E} : \A e \in left : Session(e) # s}

(* live_teardown, for each endpoint of E, when w is the waiting flags it   *)
(* starts from: the endpoints go, and with the last one of a session the   *)
(* live_session, the session and its rtsp_session.                         *)
live_teardown(E, w) ==
    LET left == Endpoints \ E
        gone == SessionsGone(E, left)
    IN  /\ ep' = [e \in Ep |-> IF e \in E THEN NoTransport ELSE ep[e]]
        /\ status' = [s \in Sessions |-> IF s \in gone THEN "free" ELSE status[s]]
        /\ playing' = playing \ gone
        /\ waiting' = track_check_running(E, left, playing, w)
        /\ del_rtp_endpoint(E)
        /\ armed' = armed \ E
        /\ early' = early \cup {t \in {Track(e) : e \in E} : ~ ready[t]}

-----------------------------------------------------------------------------
do_accept(c) ==
    /\ c \notin open
    /\ open' = open \cup {c}
    /\ UNCHANGED <<ichan, status, ep, playing, ready, waiting, armed, early>>

(* Slip: rtsp_conn_disconnect looks at the even channels only. *)
rtsp_conn_disconnect_even(c) ==
    {e \in Ep : \E i \in Chan : ichan[c][i] = <<e, FALSE>> /\ i % 2 = 0}

(* rtsp_conn_disconnect tears down the endpoint of each RTP channel. *)
rtsp_conn_disconnect(c) ==
    {e \in Ep : \E i \in Chan : ichan[c][i] = <<e, FALSE>>}

(* drop_conn: the client closed, or reading or writing failed.  Endpoints  *)
(* that send over UDP stay.                                                *)
drop_conn(c) ==
    /\ c \in open
    /\ open' = open \ {c}
    /\ live_teardown(rtsp_conn_disconnect(c), waiting)
    /\ UNCHANGED ready

(* A DESCRIBE of a protected location without valid credentials: the       *)
(* session was opened before the check and nobody closes it.  Every other  *)
(* DESCRIBE closes the session it opened and changes nothing.              *)
handle_DESCRIBE_unauthorized(s) ==
    /\ open # {}
    /\ status[s] = "free"
    /\ Cardinality({x \in Sessions : status[x] = "leaked"}) < MaxLeaked
    /\ status' = [status EXCEPT ![s] = "leaked"]
    /\ UNCHANGED <<open, ichan, ep, playing, ready, waiting, armed, early>>

(* SETUP of track t, with the id of a known session or for a new one.  A   *)
(* track that is set up already is refused (461) without a change.         *)
MaySetup(c, e) == /\ c \in open
                  /\ status[Session(e)] \in {"free", "known"}
                  /\ ep[e].type = "none"

(* ... with a transport that is refused (461): unknown, malformed, no UDP  *)
(* port, channels in use.  The new endpoint is torn down again.            *)
handle_SETUP_fails(c, e) ==
    /\ MaySetup(c, e)
    /\ live_teardown({e}, waiting)
    /\ UNCHANGED <<open, ready>>

(* ... over UDP *)
handle_SETUP_udp(c, e) ==
    /\ MaySetup(c, e)
    /\ ep' = [ep EXCEPT ![e] = Udp]
    /\ status' = [status EXCEPT ![Session(e)] = "known"]
    /\ UNCHANGED <<open, ichan, playing, ready, waiting, armed, early>>

(* The channels i, i+1 exist and are free. *)
ChannelsFree(c, i) == i + 1 \in Chan /\ ichan[c][i] = NULL /\ ichan[c][i + 1] = NULL

(* ... interleaved, in the channels the client asks for; a client that     *)
(* asks for any gets the first free even pair, one of these.               *)
handle_SETUP_interleaved(c, e, i) ==
    /\ MaySetup(c, e)
    /\ ChannelsFree(c, i)
    /\ ichan' = [ichan EXCEPT ![c][i] = <<e, FALSE>>, ![c][i + 1] = <<e, TRUE>>]
    /\ ep' = [ep EXCEPT ![e] = [type |-> "inter", conn |-> c, chan |-> i]]
    /\ status' = [status EXCEPT ![Session(e)] = "known"]
    /\ UNCHANGED <<open, playing, ready, waiting, armed, early>>

(* PLAY: live_play wants frames of every track the session has set up. *)
handle_PLAY(s) ==
    LET mine == {e \in Endpoints : Session(e) = s} IN
    /\ open # {}
    /\ status[s] = "known"
    /\ playing' = playing \cup {s}
    /\ waiting' = [t \in Tracks |-> waiting[t] \/ <<s, t>> \in mine]
    /\ armed' = armed \cup {e \in mine : ready[Track(e)]}
    /\ UNCHANGED <<open, ichan, status, ep, ready, early>>

(* TEARDOWN of the session, or of one of its tracks.  Naming a track that  *)
(* is not set up passes a NULL endpoint and tears down the session.        *)
handle_TEARDOWN(s, T) ==
    LET mine == {e \in Endpoints : Session(e) = s}
        named == {e \in mine : Track(e) \in T}
    IN  /\ open # {}
        /\ status[s] = "known"
        /\ T = Tracks \/ Cardinality(T) = 1
        /\ live_teardown(IF named = {} THEN mine ELSE named, waiting)
        /\ UNCHANGED <<open, ready>>

(* udp_rtp_read, udp_rtcp_read or the RTCP timer's send reports an error. *)
udp_error(e) ==
    /\ ep[e].type = "udp"
    /\ live_teardown({e}, waiting)
    /\ UNCHANGED <<open, ready>>

(* Slip: the waiting ends with the first frame but the track is not ready. *)
next_live_frame_unready(t, E) ==
    /\ waiting[t]
    /\ E = {}
    /\ waiting' = [waiting EXCEPT ![t] = ready[t]]
    /\ UNCHANGED <<open, ichan, status, ep, playing, ready, armed, early>>

(* next_live_frame: a waiting track is given a frame.  The first makes the *)
(* track ready and ends its waiting; the frame is sent to every session    *)
(* that plays the track, and an endpoint whose UDP send fails is torn down *)
(* (send_rtp_packet).                                                      *)
next_live_frame(t, E) ==
    /\ waiting[t]
    /\ E \subseteq {e \in Endpoints : /\ Track(e) = t /\ Session(e) \in playing
                                      /\ ep[e].type = "udp"}
    /\ ready' = [ready EXCEPT ![t] = TRUE]
    /\ LET w == [waiting EXCEPT ![t] = ready[t]]
       IN  live_teardown(E, w)
    /\ UNCHANGED open

Request(c) ==
    \/ \E s \in Sessions : \/ handle_DESCRIBE_unauthorized(s)
                           \/ handle_PLAY(s)
                           \/ \E T \in SUBSET Tracks : handle_TEARDOWN(s, T)
    \/ \E e \in Ep : \/ handle_SETUP_fails(c, e)
                     \/ handle_SETUP_udp(c, e)
                     \/ \E i \in Chan : handle_SETUP_interleaved(c, e, i)

Next ==
    \/ \E c \in Conns : do_accept(c) \/ drop_conn(c) \/ Request(c)
    \/ \E e \in Ep : udp_error(e)
    \/ \E t \in Tracks, E \in SUBSET Ep : next_live_frame(t, E)

Spec == Init /\ [][Next]_vars

-----------------------------------------------------------------------------
(* An interleaved endpoint and its connection know each other: the         *)
(* connection is open (interleave_send and interleave_disconnect would use *)
(* a freed struct conn otherwise), its two channels name the endpoint, and *)
(* every channel in use names such an endpoint.                            *)
EndpointsConnected ==
    /\ TypeOK
    /\ \A e \in Endpoints : ep[e].type = "inter" =>
          LET c == ep[e].conn  i == ep[e].chan IN
          /\ c \in open
          /\ ichan[c][i] = <<e, FALSE>>
          /\ ichan[c][i + 1] = <<e, TRUE>>
    /\ \A c \in Conns, i \in Chan : ichan[c][i] # NULL =>
          LET e == ichan[c][i][1] IN
          /\ ep[e].type = "inter" /\ ep[e].conn = c
          /\ i \in {ep[e].chan, ep[e].chan + 1}

(* A session exists exactly as long as it has an endpoint, however its     *)
(* endpoints end (TEARDOWN, lost connection, UDP error, failed SETUP):     *)
(* no id outlives its session, no session its last endpoint.  The only     *)
(* sessions without an endpoint are those a refused DESCRIBE left behind.  *)
SessionsHaveEndpoints ==
    \A s \in Sessions :
        /\ status[s] = "known" <=> \E e \in Endpoints : Session(e) = s
        /\ s \in playing => status[s] = "known"

(* A session that was told to play a ready track gets its frames: no other *)
(* session's end and no lost endpoint turns the track off under it.  And a *)
(* ready track asks the encoder for frames only while somebody plays it.   *)
PlayedTracksFlow ==
    /\ \A e \in armed : waiting[Track(e)]
    /\ \A t \in Tracks : ready[t] /\ waiting[t] =>
          \E e \in Endpoints : Track(e) = t /\ Session(e) \in playing

(* A track waits for its first frame - without which DESCRIBE answers 404  *)
(* to everybody - unless an endpoint of it was torn down before that frame *)
(* came: track_check_running then turns the track off.                     *)
UnreadyTracksWait ==
    \A t \in Tracks : ~ ready[t] /\ t \notin early => waiting[t]

=============================================================================
