---------------------------- MODULE UdpEndpoints ----------------------------
(***************************************************************************)
(* RTP endpoints over UDP (src/spook/rtp.c): the search for a free pair of *)
(* ports while other processes take and release ports, the sockets an      *)
(* endpoint owns, the timer of its sender reports and how an endpoint ends *)
(* when its client has gone without a TEARDOWN.                            *)
(*                                                                         *)
(* The kernel is external: a socket that is connected to a port nobody     *)
(* listens to gets an error when the host answers a packet (ICMP), which   *)
(* the next send or read on it returns.  Answers may get lost.             *)
(*                                                                         *)
(* The event loop is single threaded.  A pass calls the timers that are    *)
(* due, then the descriptors select() reported; requests and frames, which *)
(* come in by descriptors too, are among the latter.                       *)
(***************************************************************************)
EXTENDS Integers, FiniteSets, FiniteSetsExt

CONSTANTS Eps,        \* addresses for a struct rtp_endpoint
          Fds,        \* descriptors the process may have for UDP
          Pairs,      \* pairs of ports between rtp_port_start and rtp_port_end
          Ival,       \* seconds between reports: 5
          MaxLate,    \* bound: seconds a timer is late
          NULL, Free, Other

ASSUME UdpAssumption == /\ Pairs \in Nat \ {0} /\ Ival \in Nat \ {0}
                        /\ MaxLate \in Nat /\ Fds \subseteq Nat
                        /\ {Free, Other, NULL} \cap Fds = {}
                        /\ Free # Other /\ NULL \notin Eps \cup {Free, Other}

VARIABLES
    ep,       \* ep[e]: the endpoint at address e, NULL when free
    open,     \* open descriptors
    bound,    \* who has a port: Free, Other (a process) or a descriptor
    pass,     \* events with EVENT_F_RUNNING that are due or were reported
    client,   \* client[e]: whether the client of e listens
    error,    \* sockets with a pending error: <<e, "rtp">> or <<e, "rtcp">>
    \* connect_udp_endpoint
    pc, me, port, i, rtpfd, rtcpfd,
    \* history: pairs free throughout the search, whether sockets were
    \* forgotten
    stayed, forgot

searchVars == <<pc, me, port, i, rtpfd, rtcpfd, stayed>>
netVars == <<client, error>>
vars == <<ep, open, bound, pass, netVars, searchVars, forgot>>

rtp_port_start == 0
rtp_port_end == 2 * Pairs - 1
Ports == rtp_port_start..rtp_port_end
PairStarts == {p \in Ports : p % 2 = 0}

Kinds == {"timer", "rtp", "rtcp"}
Live == {e \in Eps : ep[e] # NULL}
Udp == {e \in Live : ep[e].rtpfd # NULL}
FdsOf(e) == {ep[e].rtpfd, ep[e].rtcpfd} \ {NULL}
Without(who) == [p \in Ports |-> IF bound[p] \in who THEN Free ELSE bound[p]]

Endpoint ==
    [rtpfd : Fds \cup {NULL}, rtcpfd : Fds \cup {NULL}, port : Ports \cup {NULL},
     enabled : BOOLEAN, force_rtcp : BOOLEAN, due : -MaxLate..Ival]

ASSUME NullAssumption == NULL \notin Endpoint

TypeOK ==
    /\ ep \in [Eps -> {NULL} \cup Endpoint]
    /\ open \subseteq Fds
    /\ bound \in [Ports -> Fds \cup {Free, Other}]
    /\ pass \subseteq Eps \X Kinds
    /\ client \in [Eps -> BOOLEAN] /\ error \subseteq Eps \X {"rtp", "rtcp"}
    /\ pc \in {"idle", "try", "rtp", "rtcp", "connect"}
    /\ me \in Eps \cup {NULL} /\ port \in 0..(2 * Pairs) /\ i \in 0..Pairs
    /\ {rtpfd, rtcpfd} \subseteq Fds \cup {NULL}
    /\ stayed \subseteq PairStarts /\ forgot \in BOOLEAN

Init ==
    /\ ep = [e \in Eps |-> NULL] /\ open = {}
    /\ bound = [p \in Ports |-> Free]
    /\ pass = {} /\ client = [e \in Eps |-> TRUE] /\ error = {}
    /\ pc = "idle" /\ me = NULL /\ port = 0 /\ i = 0
    /\ rtpfd = NULL /\ rtcpfd = NULL /\ stayed = {} /\ forgot = FALSE

-----------------------------------------------------------------------------
(* The loop may handle requests and frames: no timer is still to be called *)
(* and no SETUP is in progress.                                            *)
AtRequest == pc = "idle" /\ \A ev \in pass : ev[2] # "timer"

(* Slip: the events of the sockets keep their flags. *)
del_rtp_endpoint_flags(e) ==
    /\ ep' = [ep EXCEPT ![e] = NULL]
    /\ pass' = pass \ {<<e, "timer">>}
    /\ open' = open \ FdsOf(e)
    /\ bound' = Without(FdsOf(e))
    /\ error' = error \ {<<e, "rtp">>, <<e, "rtcp">>}

(* del_rtp_endpoint, which every teardown of an endpoint ends in: its      *)
(* three events are removed and its sockets closed.                        *)
del_rtp_endpoint(e) ==
    /\ ep' = [ep EXCEPT ![e] = NULL]
    /\ pass' = pass \ ({e} \X Kinds)
    /\ open' = open \ FdsOf(e)
    /\ bound' = Without(FdsOf(e))
    /\ error' = error \ {<<e, "rtp">>, <<e, "rtcp">>}

(* new_rtp_endpoint and the beginning of connect_udp_endpoint: the timer   *)
(* is set to five seconds from now and disabled, the search begins at a    *)
(* random pair.  Other processes have any of the ports that the server has *)
(* not; between two searches it makes no difference which, and bound does  *)
(* not say.                                                                *)
Setup(e) ==
    /\ AtRequest /\ e \notin Live
    /\ ep' = [ep EXCEPT ![e] = [rtpfd |-> NULL, rtcpfd |-> NULL, port |-> NULL,
                                enabled |-> FALSE, force_rtcp |-> TRUE, due |-> Ival]]
    /\ client' = [client EXCEPT ![e] = TRUE]
    /\ pc' = "try" /\ me' = e /\ i' = 0
    /\ port' \in PairStarts
    /\ \E taken \in SUBSET {p \in Ports : bound[p] = Free} :
         bound' = [p \in Ports |-> IF p \in taken THEN Other ELSE bound[p]]
    /\ stayed' = {p \in PairStarts : bound'[p] = Free /\ bound'[p + 1] = Free}
    /\ UNCHANGED <<open, pass, error, rtpfd, rtcpfd, forgot>>

max_tries == (rtp_port_end - rtp_port_start + 1) \div 2

(* Slip: the search stays at the end of the range. *)
Wrapped_never(p) == IF p + 1 > rtp_port_end THEN rtp_port_end - 1 ELSE p

(* After the last pair comes the first. *)
Wrapped(p) == IF p + 1 > rtp_port_end THEN rtp_port_start ELSE p

(* The search is over and the endpoint is torn down: the sockets in fds    *)
(* are closed, kept ones are forgotten.                                    *)
SetupFails(fds, kept) ==
    /\ ep' = [ep EXCEPT ![me] = NULL]
    /\ open' = open \ fds
    /\ bound' = Without(fds \cup {Other})
    /\ forgot' = (forgot \/ kept # {})
    /\ pc' = "idle" /\ me' = NULL /\ port' = 0 /\ i' = 0
    /\ rtpfd' = NULL /\ rtcpfd' = NULL /\ stayed' = {}
    /\ UNCHANGED <<pass, netVars>>

(* No pair was free: the sockets the search still has are not closed. *)
RanOut ==
    /\ pc = "try" /\ i = max_tries
    /\ SetupFails({}, {rtpfd, rtcpfd} \ {NULL})

(* The sockets of a round are those of the round before, or new ones. *)
Sockets ==
    LET need == (IF rtpfd = NULL THEN 1 ELSE 0) + (IF rtcpfd = NULL THEN 1 ELSE 0)
        free == Fds \ open
        f1 == IF rtpfd = NULL THEN Min(free) ELSE rtpfd
        f2 == IF rtcpfd = NULL THEN Min(free \ {f1}) ELSE rtcpfd
    IN  /\ pc = "try" /\ i < max_tries
        /\ Cardinality(free) >= need
        /\ port' = Wrapped(port)
        /\ rtpfd' = f1 /\ rtcpfd' = f2
        /\ open' = open \cup {f1, f2}
        /\ pc' = "rtp"
        /\ UNCHANGED <<ep, bound, pass, netVars, me, i, stayed, forgot>>

(* socket() fails: the RTP socket's, in any round, or in the first round   *)
(* the RTCP socket's, and the new RTP socket is closed again.  A later     *)
(* round returns with the RTCP socket of the rounds before left open.      *)
NoSocket ==
    /\ pc = "try" /\ i < max_tries /\ rtpfd = NULL
    /\ SetupFails({}, {rtcpfd} \ {NULL})

NextPair == port' = port + 2 /\ i' = i + 1 /\ pc' = "try"

bind_rtp ==
    /\ pc = "rtp"
    /\ \/ /\ bound[port] = Free
          /\ bound' = [bound EXCEPT ![port] = rtpfd]
          /\ pc' = "rtcp" /\ UNCHANGED <<port, i>>
       \/ bound[port] # Free /\ NextPair /\ UNCHANGED bound
    /\ UNCHANGED <<ep, open, pass, netVars, me, rtpfd, rtcpfd, stayed, forgot>>

(* Slip: the RTP socket is forgotten before it is closed. *)
bind_rtcp_forgets ==
    /\ pc = "rtcp"
    /\ \/ /\ bound[port + 1] = Free
          /\ bound' = [bound EXCEPT ![port + 1] = rtcpfd]
          /\ pc' = "connect" /\ UNCHANGED <<port, i, rtpfd, open>>
       \/ /\ bound[port + 1] # Free
          /\ rtpfd' = NULL /\ NextPair /\ UNCHANGED <<open, bound>>
    /\ UNCHANGED <<ep, pass, netVars, me, rtcpfd, stayed, forgot>>

(* When the RTCP port is taken the RTP socket, which is bound, is closed   *)
(* and the other one is kept.                                              *)
bind_rtcp ==
    /\ pc = "rtcp"
    /\ \/ /\ bound[port + 1] = Free
          /\ bound' = [bound EXCEPT ![port + 1] = rtcpfd]
          /\ pc' = "connect" /\ UNCHANGED <<port, i, rtpfd, open>>
       \/ /\ bound[port + 1] # Free
          /\ open' = open \ {rtpfd} /\ bound' = Without({rtpfd})
          /\ rtpfd' = NULL /\ NextPair
    /\ UNCHANGED <<ep, pass, netVars, me, rtcpfd, stayed, forgot>>

(* bind fails for another reason, or connect or getsockname do. *)
StrangeError ==
    /\ pc \in {"rtp", "rtcp", "connect"}
    /\ SetupFails({rtpfd, rtcpfd}, {})

Connected ==
    /\ pc = "connect"
    /\ ep' = [ep EXCEPT ![me].rtpfd = rtpfd, ![me].rtcpfd = rtcpfd, ![me].port = port]
    /\ pc' = "idle" /\ me' = NULL /\ port' = 0 /\ i' = 0
    /\ rtpfd' = NULL /\ rtcpfd' = NULL /\ stayed' = {}
    /\ bound' = Without({Other})
    /\ UNCHANGED <<open, pass, netVars, forgot>>

connect_udp_endpoint == RanOut \/ Sockets \/ NoSocket \/ bind_rtp \/ bind_rtcp
                        \/ StrangeError \/ Connected

(* Another process binds or closes a port, at any time in a search. *)
OtherPort(p) ==
    /\ pc # "idle"
    /\ \/ bound[p] = Free /\ bound' = [bound EXCEPT ![p] = Other]
       \/ bound[p] = Other /\ bound' = [bound EXCEPT ![p] = Free]
    /\ stayed' = stayed \ {p, p - 1}
    /\ UNCHANGED <<ep, open, pass, netVars, pc, me, port, i, rtpfd, rtcpfd, forgot>>

-----------------------------------------------------------------------------
(* Sends on the sockets kinds of e that succeed: no error is pending on    *)
(* them; a client that has gone may answer.                                *)
SendOk(e, kinds, answered) ==
    /\ error \cap ({e} \X kinds) = {}
    /\ answered \subseteq kinds
    /\ answered # {} => ~ client[e]
    /\ error' = error \cup ({e} \X answered)

(* Slip: the timer is not enabled after the first packet. *)
send_rtp_packet_once(e, answered) ==
    /\ AtRequest /\ e \in Udp
    /\ SendOk(e, IF ep[e].force_rtcp THEN {"rtp", "rtcp"} ELSE {"rtp"}, answered)
    /\ ep' = [ep EXCEPT ![e].force_rtcp = FALSE]
    /\ UNCHANGED <<open, bound, pass, client, searchVars, forgot>>

(* send_rtp_packet: after the first packet rtcp_send, which clears         *)
(* force_rtcp, and the timer is enabled.                                   *)
send_rtp_packet(e, answered) ==
    /\ AtRequest /\ e \in Udp
    /\ SendOk(e, IF ep[e].force_rtcp THEN {"rtp", "rtcp"} ELSE {"rtp"}, answered)
    /\ ep' = [ep EXCEPT ![e].force_rtcp = FALSE, ![e].enabled = TRUE]
    /\ UNCHANGED <<open, bound, pass, client, searchVars, forgot>>

(* TEARDOWN, another end of the session, or a send_rtp_packet one of whose *)
(* sends fails, because of a pending error or any other.                   *)
Teardown(e) ==
    /\ AtRequest /\ e \in Udp
    /\ del_rtp_endpoint(e)
    /\ UNCHANGED <<client, searchVars, forgot>>

(* select: the timers that are due and the sockets with an error pending   *)
(* are to be called.  (Packets of the client change nothing but            *)
(* last_rtcp_recv, of which only a line in the log depends: a client that  *)
(* listens and sends nothing is served for ever.)                          *)
select ==
    LET timers == {e \in Live : ep[e].enabled /\ ep[e].due <= 0}
        fds == {ev \in error : ev[1] \in Udp}
    IN  /\ pc = "idle" /\ pass = {}
        /\ timers # {} \/ fds # {}
        /\ pass' = (timers \X {"timer"}) \cup fds
        /\ UNCHANGED <<ep, open, bound, netVars, searchVars, forgot>>

(* The timer of e: it is set forward from the time it was due, then        *)
(* rtcp_fire sends a report.                                               *)
rtcp_fire(e, answered) ==
    /\ pc = "idle" /\ <<e, "timer">> \in pass
    /\ SendOk(e, {"rtcp"}, answered)
    /\ ep' = [ep EXCEPT ![e].due = @ + Ival]
    /\ pass' = pass \ {<<e, "timer">>}
    /\ UNCHANGED <<open, bound, client, searchVars, forgot>>

rtcp_fire_fails(e) ==
    /\ pc = "idle" /\ <<e, "timer">> \in pass
    /\ del_rtp_endpoint(e)
    /\ UNCHANGED <<client, searchVars, forgot>>

(* udp_rtp_read, udp_rtcp_read: read() returns the error and the endpoint  *)
(* ends.                                                                   *)
udp_read(e, kind) ==
    /\ AtRequest /\ kind # "timer" /\ <<e, kind>> \in pass
    /\ del_rtp_endpoint(e)
    /\ UNCHANGED <<client, searchVars, forgot>>

(* A second passes.  A timer that is disabled gets late, and once enabled  *)
(* fires until it has caught up.                                           *)
Tick ==
    /\ pc = "idle" /\ pass = {}
    /\ \E e \in Live : ep[e].due > -MaxLate
    /\ ep' = [e \in Eps |-> IF e \in Live /\ ep[e].due > -MaxLate
                            THEN [ep[e] EXCEPT !.due = @ - 1] ELSE ep[e]]
    /\ UNCHANGED <<open, bound, pass, netVars, searchVars, forgot>>

(* The client of e goes, without a word. *)
ClientGoes(e) ==
    /\ pc = "idle" /\ e \in Live /\ client[e]
    /\ client' = [client EXCEPT ![e] = FALSE]
    /\ UNCHANGED <<ep, open, bound, pass, error, searchVars, forgot>>

Next ==
    \/ connect_udp_endpoint \/ select \/ Tick
    \/ \E p \in Ports : OtherPort(p)
    \/ \E e \in Eps :
         \/ Setup(e) \/ Teardown(e) \/ ClientGoes(e)
         \/ \E answered \in SUBSET {"rtp", "rtcp"} :
              send_rtp_packet(e, answered) \/ rtcp_fire(e, answered)
         \/ rtcp_fire_fails(e)
         \/ \E kind \in Kinds : udp_read(e, kind)

Spec == Init /\ [][Next]_vars

(* Fairness: the loop goes on with what it does.  A request or a frame is  *)
(* part of a pass, and a pass calls what is on its list once and ends in   *)
(* the next select(): however many there are, select and the callbacks of  *)
(* e get their turn (SF).  Time passes, and of the answers that can bring  *)
(* the error not every one is lost.                                        *)
FairSpec ==
    /\ Spec
    /\ WF_vars(connect_udp_endpoint) /\ SF_vars(select) /\ SF_vars(Tick)
    /\ \A e \in Eps :
         /\ WF_vars(rtcp_fire_fails(e) \/ rtcp_fire(e, {}) \/ rtcp_fire(e, {"rtcp"}))
         /\ SF_vars(rtcp_fire(e, {"rtcp"}))
         /\ SF_vars(udp_read(e, "rtp") \/ udp_read(e, "rtcp"))

-----------------------------------------------------------------------------
(* connect_udp_endpoint reports "ran out of UDP RTP ports!" only if no     *)
(* pair of the range was free all the time it searched: from a random      *)
(* start, over the end of the range, it tries every pair once.             *)
FreePairFound == pc = "try" /\ i = max_tries => stayed = {}

(* No port and no descriptor is lost or shared: the ports the server has   *)
(* are those of its endpoints, p for RTP and p + 1 for RTCP with p even,   *)
(* and of the search; a descriptor that belongs to nobody was left over    *)
(* when a search gave up, and holds no port.                               *)
SocketsAccounted ==
    LET mine == {rtpfd, rtcpfd} \ {NULL}
        owned == (UNION {FdsOf(e) : e \in Live}) \cup mine
    IN  /\ TypeOK
        /\ \A e \in Udp : /\ ep[e].port % 2 = 0
                          /\ bound[ep[e].port] = ep[e].rtpfd
                          /\ bound[ep[e].port + 1] = ep[e].rtcpfd
        /\ \A e, g \in Udp : e # g => FdsOf(e) \cap FdsOf(g) = {}
        /\ owned \subseteq open
        /\ (forgot \/ open = owned)
        /\ {bound[p] : p \in Ports} \subseteq owned \cup {Free, Other}

(* A callback of the pass belongs to an endpoint that exists, although     *)
(* timers and sockets earlier in the pass end endpoints.                   *)
CallbacksFindTheirEndpoint ==
    \A ev \in pass : ev[1] \in Udp

(* An endpoint that has sent its first packet and whose client has gone is *)
(* torn down, also when nothing else is sent to it (a paused track): the   *)
(* reports go on, and one of them brings the error.                        *)
GoneClientRemoved ==
    \A e \in Eps :
        (e \in Udp /\ ~ client[e] /\ ~ ep[e].force_rtcp) ~> (e \notin Live)

=============================================================================
