------------------------- MODULE UdpEndpointsProofs -------------------------
(***************************************************************************)
(* Ports and descriptors of UDP endpoints, for every range of ports, every *)
(* number of endpoints and descriptors and every interval of the reports,  *)
(* whatever other processes do to the ports during a search.               *)
(***************************************************************************)
EXTENDS UdpEndpoints, FiniteSetTheorems, WellFoundedInduction, TLAPS

(* The descriptors of the search, and who owns descriptor y. *)
mine == {rtpfd, rtcpfd} \ {NULL}
Owns(y) == y \in mine \/ \E e \in Live : y \in FdsOf(e)

(* SocketsAccounted, descriptor by descriptor and port by port. *)
Accounted ==
    /\ TypeOK
    /\ \A e \in Udp : /\ bound[ep[e].port] = ep[e].rtpfd
                      /\ bound[ep[e].port + 1] = ep[e].rtcpfd
    /\ \A e, g \in Udp : e # g => FdsOf(e) \cap FdsOf(g) = {}
    /\ \A y : Owns(y) => y \in open
    /\ \A y \in open : forgot \/ Owns(y)
    /\ \A p \in Ports : Owns(bound[p]) \/ bound[p] \in {Free, Other}

(* connect_udp_endpoint has both sockets from the moment it goes to bind   *)
(* them, and works on the port of a pair.                                  *)
Searching ==
    /\ pc = "idle" <=> me = NULL
    /\ pc = "idle" => rtpfd = NULL /\ rtcpfd = NULL
    /\ pc \in {"rtp", "rtcp", "connect"} =>
          rtpfd # NULL /\ rtcpfd # NULL /\ port \in PairStarts /\ i < Pairs
    /\ pc = "try" => port % 2 = 0
    /\ rtpfd # NULL => rtpfd # rtcpfd

(* An endpoint has no socket, while it is the one searched for, or two.    *)
Endpoints ==
    /\ me # NULL => me \in Live \ Udp
    /\ \A e \in Live \ {me} : /\ e \in Udp /\ ep[e].rtcpfd # NULL
                              /\ ep[e].rtpfd # ep[e].rtcpfd
                              /\ ep[e].port \in PairStarts
    /\ \A e \in Live \ Udp : ep[e].rtcpfd = NULL /\ ~ ep[e].enabled
    /\ \A e \in Udp : FdsOf(e) \cap mine = {}

(* The sockets of the search have ports only while their pair is tried.    *)
PortsOfSearch ==
    /\ \A p \in Ports : bound[p] = rtpfd => p = port /\ pc \in {"rtcp", "connect"}
    /\ \A p \in Ports : bound[p] = rtcpfd => p = port + 1 /\ pc = "connect"
    /\ pc \in {"rtcp", "connect"} => bound[port] = rtpfd
    /\ pc = "connect" => bound[port + 1] = rtcpfd

(* Timers that are to be called are due. *)
Due == \A e \in Eps : <<e, "timer">> \in pass => ep[e].due <= 0

(* How far ahead of port p the pair s is, and how far of the search. *)
From(p, s) == IF s >= p THEN s - p ELSE s - p + 2 * Pairs
Ahead(s) == From(Wrapped(port), s)

(* A pair that stayed free is still to be tried, or is being tried. *)
Untried == \A s \in stayed :
    /\ Ahead(s) + 2 * i < 2 * Pairs
    /\ bound[s] = Free \/ (pc \in {"rtcp", "connect"} /\ s = port)
    /\ bound[s + 1] = Free \/ (pc = "connect" /\ s = port)
    /\ pc # "idle"

SocketInv == Accounted /\ Searching /\ Endpoints /\ PortsOfSearch /\ Untried
Inv == SocketInv /\ CallbacksFindTheirEndpoint /\ Due

-----------------------------------------------------------------------------
(* Values that are never confused. *)
LEMMA Distinct == /\ Free \notin Fds /\ Other \notin Fds /\ NULL \notin Fds
                  /\ Free # Other /\ NULL # Free /\ NULL # Other
                  /\ NULL \notin Eps /\ NULL \notin Endpoint
BY UdpAssumption, NullAssumption

(* The ports of a pair, and how many pairs there are. *)
LEMMA PortFacts ==
    /\ Pairs \in Nat /\ Pairs > 0 /\ max_tries = Pairs
    /\ Ports = 0..(2 * Pairs - 1)
    /\ \A p \in PairStarts : /\ p \in Nat /\ p % 2 = 0 /\ p <= 2 * Pairs - 2
                             /\ p \in Ports /\ p + 1 \in Ports
    /\ \A p \in Nat : p % 2 = 0 /\ p < 2 * Pairs => p \in PairStarts
<1>1. Pairs \in Nat /\ Pairs > 0
  BY UdpAssumption
<1>2. Ports = 0..(2 * Pairs - 1)
  BY DEF Ports, rtp_port_start, rtp_port_end
<1>3. max_tries = Pairs
  BY <1>1 DEF max_tries, rtp_port_start, rtp_port_end
<1>4. \A p \in PairStarts : /\ p \in Nat /\ p % 2 = 0 /\ p <= 2 * Pairs - 2
                            /\ p \in Ports /\ p + 1 \in Ports
  BY <1>1, <1>2 DEF PairStarts
<1>5. \A p \in Nat : p % 2 = 0 /\ p < 2 * Pairs => p \in PairStarts
  BY <1>1, <1>2 DEF PairStarts
<1> QED
  BY <1>1, <1>2, <1>3, <1>4, <1>5

(* The kernel's choice of the lowest free descriptor is a free one. *)
LEMMA MinFree == ASSUME NEW S \in SUBSET Fds, S # {} PROVE Min(S) \in S
<1>1. Fds \subseteq Nat
  BY UdpAssumption
<1>2. PICK x \in S : \A y \in S : ~ (<<y, x>> \in OpToRel(<, Nat))
  BY <1>1, NatLessThanWellFounded, WFMin
<1>3. \A y \in S : ~ (y < x)
  BY <1>1, <1>2 DEF OpToRel
<1>4. \A y \in S : x <= y
  BY <1>1, <1>3
<1> QED
  BY <1>4 DEF Min

(* The parts of an endpoint. *)
LEMMA Fields ==
    ASSUME NEW r \in Endpoint
    PROVE  /\ r.rtpfd \in Fds \cup {NULL} /\ r.rtcpfd \in Fds \cup {NULL}
           /\ r.enabled \in BOOLEAN /\ r.force_rtcp \in BOOLEAN
           /\ r.due \in -MaxLate..Ival
BY DEF Endpoint

(* What the invariant says of an endpoint with sockets. *)
LEMMA UdpFacts ==
    ASSUME SocketInv, NEW e \in Udp
    PROVE  /\ e \in Eps /\ e \in Live /\ e # me /\ ep[e] \in Endpoint
           /\ ep[e].rtpfd \in Fds /\ ep[e].rtcpfd \in Fds
           /\ ep[e].rtpfd # ep[e].rtcpfd
           /\ FdsOf(e) = {ep[e].rtpfd, ep[e].rtcpfd} /\ FdsOf(e) \subseteq open
           /\ ep[e].port \in PairStarts /\ ep[e].port \in Ports /\ ep[e].port + 1 \in Ports
           /\ bound[ep[e].port] = ep[e].rtpfd /\ bound[ep[e].port + 1] = ep[e].rtcpfd
<1>1. e \in Eps /\ e \in Live /\ ep[e].rtpfd # NULL /\ ep[e] \in Endpoint
  BY DEF Udp, Live, SocketInv, Accounted, TypeOK
<1>2. e # me
  BY <1>1, Distinct DEF SocketInv, Endpoints
<1>3. ep[e].rtcpfd # NULL /\ ep[e].rtpfd # ep[e].rtcpfd /\ ep[e].port \in PairStarts
  BY <1>1, <1>2 DEF SocketInv, Endpoints
<1>4. ep[e].rtpfd \in Fds /\ ep[e].rtcpfd \in Fds
  BY <1>1, <1>3, Fields
<1>5. FdsOf(e) = {ep[e].rtpfd, ep[e].rtcpfd}
  BY <1>1, <1>3 DEF FdsOf
<1>6. FdsOf(e) \subseteq open
  BY <1>1 DEF SocketInv, Accounted, Owns
<1> QED
  BY <1>1, <1>2, <1>3, <1>4, <1>5, <1>6, PortFacts DEF SocketInv, Accounted

(* An endpoint without sockets owns no descriptor. *)
LEMMA OthersFds ==
    ASSUME SocketInv, NEW e \in Live, e \notin Udp
    PROVE  FdsOf(e) = {}
BY DEF SocketInv, Endpoints, Udp, FdsOf

(* The invariant speaks for the property. *)
LEMMA AccountedImplies == SocketInv => SocketsAccounted
<1> SUFFICES ASSUME SocketInv PROVE SocketsAccounted
  OBVIOUS
<1> DEFINE held == UNION {FdsOf(e) : e \in Live}
           owned == held \cup ({rtpfd, rtcpfd} \ {NULL})
<1>1. \A y : y \in owned <=> Owns(y)
  <2>1. \A y : y \in held <=> \E e \in Live : y \in FdsOf(e)
    OBVIOUS
  <2> HIDE DEF held
  <2>2. \A y : y \in owned <=> y \in held \/ y \in mine
    BY DEF mine
  <2> QED BY <2>1, <2>2, Zenon DEF Owns
<1>2. \A e \in Udp : ep[e].port % 2 = 0
  <2>1. \A e \in Udp : ep[e].port \in PairStarts
    BY UdpFacts
  <2> QED BY <2>1 DEF PairStarts
<1> HIDE DEF owned, held
<1>3. owned \subseteq open /\ (forgot \/ open = owned)
  BY <1>1 DEF SocketInv, Accounted
<1>4. {bound[p] : p \in Ports} \subseteq owned \cup {Free, Other}
  BY <1>1 DEF SocketInv, Accounted
<1>5. QED
  <2>1. /\ TypeOK
        /\ \A e \in Udp : /\ ep[e].port % 2 = 0
                          /\ bound[ep[e].port] = ep[e].rtpfd
                          /\ bound[ep[e].port + 1] = ep[e].rtcpfd
        /\ \A e, g \in Udp : e # g => FdsOf(e) \cap FdsOf(g) = {}
    BY <1>2 DEF SocketInv, Accounted
  <2> QED
    BY <1>3, <1>4, <2>1, Zenon DEF SocketsAccounted, owned, held

-----------------------------------------------------------------------------
(* No endpoint, no socket, and a search has not begun. *)
LEMMA InitInv == Init => Inv
<1> SUFFICES ASSUME Init PROVE Inv
  OBVIOUS
<1>1. Live = {} /\ Udp = {} /\ mine = {}
  BY DEF Init, Live, Udp, mine
<1>2. TypeOK
  <2>1. ep \in [Eps -> {NULL} \cup Endpoint] /\ bound \in [Ports -> Fds \cup {Free, Other}]
        /\ client \in [Eps -> BOOLEAN]
    BY DEF Init
  <2>2. port \in 0..(2 * Pairs) /\ i \in 0..Pairs
    BY PortFacts DEF Init
  <2> QED BY <2>1, <2>2 DEF Init, TypeOK
<1>3. \A y : ~ Owns(y)
  BY <1>1 DEF Owns
<1>4. Accounted
  BY <1>1, <1>2, <1>3 DEF Init, Accounted
<1>5. Searching /\ Endpoints /\ Untried
  BY <1>1, <1>2, Distinct DEF Init, Searching, Endpoints, Untried
<1>6. PortsOfSearch
  BY <1>2, Distinct DEF Init, PortsOfSearch, TypeOK
<1> QED
  BY <1>4, <1>5, <1>6 DEF Init, Inv, SocketInv, CallbacksFindTheirEndpoint, Due

(* A step that leaves sockets, ports and the search alone: packets,        *)
(* reports, time, clients that go.                                         *)
SameSockets ==
    /\ open' = open /\ bound' = bound /\ forgot' = forgot
    /\ pc' = pc /\ me' = me /\ port' = port /\ i' = i
    /\ rtpfd' = rtpfd /\ rtcpfd' = rtcpfd /\ stayed' = stayed
    /\ ep' \in [Eps -> {NULL} \cup Endpoint] /\ Live' = Live
    /\ \A e \in Live : /\ ep'[e].rtpfd = ep[e].rtpfd /\ ep'[e].rtcpfd = ep[e].rtcpfd
                       /\ ep'[e].port = ep[e].port
                       /\ ep'[e].enabled => ep[e].enabled \/ e \in Udp
    /\ pass' \subseteq Eps \X Kinds
    /\ client' \in [Eps -> BOOLEAN] /\ error' \subseteq Eps \X {"rtp", "rtcp"}

(* Such a step keeps the invariant of the sockets. *)
LEMMA SameSocketsStep ==
    ASSUME SocketInv, SameSockets
    PROVE  SocketInv' /\ Udp' = Udp
<1> USE DEF SameSockets
<1>1. Udp' = Udp
  BY DEF Udp
<1>2. \A e \in Live : FdsOf(e)' = FdsOf(e)
  BY DEF FdsOf
<1>3. mine' = mine
  BY DEF mine
<1>4. \A y : Owns(y)' <=> Owns(y)
  BY <1>2, <1>3 DEF Owns
<1>5. TypeOK'
  BY DEF SocketInv, Accounted, TypeOK
<1>6. Udp \subseteq Live
  BY DEF Udp
<1>7. Accounted'
  BY <1>1, <1>2, <1>4, <1>5, <1>6 DEF SocketInv, Accounted
<1>8. Searching'
  BY DEF SocketInv, Searching
<1>9. Endpoints'
  BY <1>1, <1>2, <1>3, <1>6 DEF SocketInv, Endpoints
<1>10. PortsOfSearch'
  BY DEF SocketInv, PortsOfSearch
<1>11. Untried'
  BY DEF SocketInv, Untried, Ahead
<1> QED
  BY <1>1, <1>7, <1>8, <1>9, <1>10, <1>11 DEF SocketInv

(* A packet, whose answer may leave an error. *)
LEMMA SendOkError ==
    ASSUME TypeOK, NEW e \in Eps, NEW kinds \in SUBSET {"rtp", "rtcp"}, NEW answered,
           SendOk(e, kinds, answered)
    PROVE  error' \subseteq Eps \X {"rtp", "rtcp"}
BY DEF SendOk, TypeOK

(* send_rtp_packet *)
LEMMA PacketStep ==
    ASSUME Inv, NEW e \in Eps, NEW answered, send_rtp_packet(e, answered)
    PROVE  Inv'
<1> DEFINE r == [ep[e] EXCEPT !.force_rtcp = FALSE, !.enabled = TRUE]
<1>1. TypeOK /\ SocketInv /\ e \in Udp /\ e \in Live /\ ep[e] \in Endpoint
  BY UdpFacts DEF Inv, SocketInv, Accounted, send_rtp_packet
<1>2. /\ ep' = [ep EXCEPT ![e] = r] /\ open' = open /\ bound' = bound /\ pass' = pass
      /\ client' = client /\ forgot' = forgot /\ pc' = pc /\ me' = me /\ port' = port
      /\ i' = i /\ rtpfd' = rtpfd /\ rtcpfd' = rtcpfd /\ stayed' = stayed
  BY <1>1 DEF send_rtp_packet, searchVars, TypeOK
<1>3. /\ r \in Endpoint /\ r.rtpfd = ep[e].rtpfd /\ r.rtcpfd = ep[e].rtcpfd
      /\ r.port = ep[e].port /\ r.due = ep[e].due
  BY <1>1 DEF Endpoint
<1> HIDE DEF r
<1>4. /\ \A g \in Eps : ep'[g] = IF g = e THEN r ELSE ep[g]
      /\ ep' \in [Eps -> {NULL} \cup Endpoint]
  BY <1>1, <1>2, <1>3 DEF TypeOK
<1>5. Live' = Live
  BY <1>1, <1>3, <1>4, Distinct DEF Live
<1>6. error' \subseteq Eps \X {"rtp", "rtcp"}
  BY <1>1, SendOkError DEF send_rtp_packet
<1>7. SameSockets
  BY <1>1, <1>2, <1>3, <1>4, <1>5, <1>6 DEF SameSockets, TypeOK, Live
<1>8. SocketInv' /\ Udp' = Udp
  BY <1>1, <1>7, SameSocketsStep
<1> QED
  BY <1>2, <1>3, <1>4, <1>8 DEF Inv, CallbacksFindTheirEndpoint, Due

(* The timer of a report *)
LEMMA FireStep ==
    ASSUME Inv, NEW e \in Eps, NEW answered, rtcp_fire(e, answered)
    PROVE  Inv'
<1> DEFINE r == [ep[e] EXCEPT !.due = @ + Ival]
<1>1. TypeOK /\ SocketInv /\ <<e, "timer">> \in pass /\ ep[e].due <= 0
  BY DEF Inv, SocketInv, Accounted, rtcp_fire, Due
<1>2. e \in Udp /\ e \in Live /\ ep[e] \in Endpoint
  <2>1. e \in Udp
    BY <1>1 DEF Inv, CallbacksFindTheirEndpoint
  <2> QED BY <1>1, <2>1, UdpFacts
<1>3. /\ ep' = [ep EXCEPT ![e] = r] /\ open' = open /\ bound' = bound
      /\ pass' = pass \ {<<e, "timer">>}
      /\ client' = client /\ forgot' = forgot /\ pc' = pc /\ me' = me /\ port' = port
      /\ i' = i /\ rtpfd' = rtpfd /\ rtcpfd' = rtcpfd /\ stayed' = stayed
  BY <1>1 DEF rtcp_fire, searchVars, TypeOK
<1>4. /\ r \in Endpoint /\ r.rtpfd = ep[e].rtpfd /\ r.rtcpfd = ep[e].rtcpfd
      /\ r.port = ep[e].port /\ r.enabled = ep[e].enabled
  <2>1. ep[e].due + Ival \in -MaxLate..Ival
    BY <1>1, <1>2, UdpAssumption, Fields
  <2> QED BY <1>2, <2>1 DEF Endpoint
<1> HIDE DEF r
<1>5. /\ \A g \in Eps : ep'[g] = IF g = e THEN r ELSE ep[g]
      /\ ep' \in [Eps -> {NULL} \cup Endpoint]
  BY <1>1, <1>2, <1>3, <1>4 DEF TypeOK
<1>6. Live' = Live
  BY <1>2, <1>4, <1>5, Distinct DEF Live
<1>7. error' \subseteq Eps \X {"rtp", "rtcp"}
  BY <1>1, SendOkError DEF rtcp_fire
<1>8. SameSockets
  BY <1>1, <1>2, <1>3, <1>4, <1>5, <1>6, <1>7 DEF SameSockets, TypeOK, Live
<1>9. SocketInv' /\ Udp' = Udp
  BY <1>1, <1>8, SameSocketsStep
<1> QED
  BY <1>3, <1>5, <1>9 DEF Inv, CallbacksFindTheirEndpoint, Due

(* A second passes. *)
LEMMA TickStep == ASSUME Inv, Tick PROVE Inv'
<1>1. TypeOK /\ SocketInv /\ pass = {}
  BY DEF Inv, SocketInv, Accounted, Tick
<1>2. /\ open' = open /\ bound' = bound /\ pass' = pass
      /\ client' = client /\ error' = error
      /\ forgot' = forgot /\ pc' = pc /\ me' = me /\ port' = port
      /\ i' = i /\ rtpfd' = rtpfd /\ rtcpfd' = rtcpfd /\ stayed' = stayed
  BY DEF Tick, searchVars, netVars
<1>3. \A e \in Eps : /\ e \notin Live => ep'[e] = ep[e]
                     /\ e \in Live => ep'[e] \in {ep[e], [ep[e] EXCEPT !.due = @ - 1]}
                     /\ e \in Live /\ ep'[e] # ep[e] => ep[e].due > -MaxLate
  BY DEF Tick
<1>4. ASSUME NEW e \in Live
      PROVE  /\ ep'[e] \in Endpoint /\ ep'[e].rtpfd = ep[e].rtpfd
             /\ ep'[e].rtcpfd = ep[e].rtcpfd /\ ep'[e].port = ep[e].port
             /\ ep'[e].enabled = ep[e].enabled
  <2> DEFINE r == [ep[e] EXCEPT !.due = @ - 1]
  <2>1. ep[e] \in Endpoint /\ e \in Eps
    BY <1>1 DEF Live, TypeOK
  <2>2. ep[e].due > -MaxLate =>
          /\ r \in Endpoint /\ r.rtpfd = ep[e].rtpfd /\ r.rtcpfd = ep[e].rtcpfd
          /\ r.port = ep[e].port /\ r.enabled = ep[e].enabled
    <3>1. ep[e].due > -MaxLate => ep[e].due - 1 \in -MaxLate..Ival
      BY <2>1, Fields, UdpAssumption
    <3> QED BY <2>1, <3>1 DEF Endpoint
  <2>3. ep'[e] = ep[e] \/ (ep'[e] = r /\ ep[e].due > -MaxLate)
    BY <1>3, <2>1
  <2> HIDE DEF r
  <2> QED BY <2>1, <2>2, <2>3
<1>5. ep' \in [Eps -> {NULL} \cup Endpoint] /\ Live' = Live
  <2>1. \A e \in Eps : ep'[e] \in {NULL} \cup Endpoint /\ (ep'[e] = NULL <=> ep[e] = NULL)
    BY <1>3, <1>4, Distinct DEF Live
  <2>2. ep' = [e \in Eps |-> ep'[e]]
    BY DEF Tick
  <2> QED BY <2>1, <2>2 DEF Live
<1>6. SameSockets
  BY <1>1, <1>2, <1>4, <1>5 DEF SameSockets, TypeOK
<1>7. SocketInv' /\ Udp' = Udp
  BY <1>1, <1>6, SameSocketsStep
<1> QED
  BY <1>1, <1>2, <1>7 DEF Inv, CallbacksFindTheirEndpoint, Due

(* A step in which at most a client goes or select() returns. *)
LEMMA QuietStep ==
    ASSUME Inv, ep' = ep, open' = open, bound' = bound, error' = error, forgot' = forgot,
           UNCHANGED searchVars,
           client' \in [Eps -> BOOLEAN], pass' \in SUBSET (Eps \X Kinds),
           \A ev \in pass' : ev[1] \in Udp,
           \A e \in Eps : <<e, "timer">> \in pass' => ep[e].due <= 0
    PROVE  Inv'
<1>1. TypeOK /\ SocketInv
  BY DEF Inv, SocketInv, Accounted
<1>2. Live' = Live
  BY DEF Live
<1>3. SameSockets
  BY <1>1, <1>2 DEF SameSockets, TypeOK, searchVars
<1>4. SocketInv' /\ Udp' = Udp
  BY <1>1, <1>3, SameSocketsStep
<1> QED
  BY <1>4 DEF Inv, CallbacksFindTheirEndpoint, Due

(* select: what is called belongs to endpoints with sockets. *)
LEMMA SelectStep == ASSUME Inv, select PROVE Inv'
<1> DEFINE timers == {e \in Live : ep[e].enabled /\ ep[e].due <= 0}
           fds == {ev \in error : ev[1] \in Udp}
<1>1. TypeOK /\ SocketInv
  BY DEF Inv, SocketInv, Accounted
<1>2. /\ pass' = (timers \X {"timer"}) \cup fds /\ ep' = ep /\ open' = open /\ bound' = bound
      /\ error' = error /\ client' = client /\ forgot' = forgot /\ UNCHANGED searchVars
  BY DEF select, netVars
<1>3. \A e \in timers : e \in Udp /\ e \in Eps
  BY <1>1 DEF SocketInv, Endpoints, Live
<1>4. \A ev \in fds : ev \in Eps \X Kinds /\ ev[1] \in Udp /\ ev[2] # "timer"
  BY <1>1 DEF TypeOK, Kinds
<1>5. \A ev \in timers \X {"timer"} : ev \in Eps \X Kinds /\ ev[1] \in timers
  BY <1>3 DEF Kinds
<1>6. \A e : <<e, "timer">> \in timers \X {"timer"} => e \in timers
  OBVIOUS
<1>7. \A e \in timers : ep[e].due <= 0
  OBVIOUS
<1>8. \A e : <<e, "timer">> \notin fds
  BY <1>4
<1> HIDE DEF timers, fds
<1>9. /\ pass' \in SUBSET (Eps \X Kinds)
      /\ \A ev \in pass' : ev[1] \in Udp
      /\ \A e \in Eps : <<e, "timer">> \in pass' => ep[e].due <= 0
  BY <1>2, <1>3, <1>4, <1>5, <1>6, <1>7, <1>8
<1> QED
  BY <1>1, <1>2, <1>9, QuietStep DEF TypeOK

(* del_rtp_endpoint: what the endpoint had is free again, in the pass too. *)
LEMMA DelStep ==
    ASSUME Inv, pc = "idle", NEW e \in Udp, del_rtp_endpoint(e),
           client' = client, UNCHANGED searchVars, forgot' = forgot
    PROVE  Inv'
<1>1. TypeOK /\ SocketInv /\ e \in Eps /\ e \in Live /\ rtpfd = NULL /\ rtcpfd = NULL /\ me = NULL
  BY UdpFacts DEF Inv, SocketInv, Accounted, Searching
<1>2. /\ ep' = [ep EXCEPT ![e] = NULL] /\ pass' = pass \ ({e} \X Kinds)
      /\ open' = open \ FdsOf(e) /\ bound' = Without(FdsOf(e))
      /\ error' = error \ {<<e, "rtp">>, <<e, "rtcp">>}
      /\ pc' = pc /\ me' = me /\ port' = port
      /\ i' = i /\ rtpfd' = rtpfd /\ rtcpfd' = rtcpfd /\ stayed' = stayed
  BY DEF del_rtp_endpoint, searchVars
<1>3. /\ \A g \in Eps : ep'[g] = IF g = e THEN NULL ELSE ep[g]
      /\ ep' \in [Eps -> {NULL} \cup Endpoint]
  BY <1>1, <1>2 DEF TypeOK
<1>4. /\ \A p \in Ports : bound'[p] = IF bound[p] \in FdsOf(e) THEN Free ELSE bound[p]
      /\ bound' \in [Ports -> Fds \cup {Free, Other}]
  BY <1>1, <1>2 DEF Without, TypeOK
<1>5. Live' = Live \ {e} /\ Udp' = Udp \ {e} /\ Live = Udp
      /\ \A g \in Live' : ep'[g] = ep[g] /\ FdsOf(g)' = FdsOf(g)
  <2>1. Live' = Live \ {e} /\ \A g \in Live' : ep'[g] = ep[g]
    BY <1>1, <1>3 DEF Live
  <2>2. Live = Udp
    BY <1>1, Distinct DEF SocketInv, Endpoints, Udp, Live
  <2> QED BY <2>1, <2>2 DEF Udp, FdsOf
<1>6. mine = {} /\ mine' = {}
  BY <1>1, <1>2 DEF mine
<1>7. \A g \in Udp' : FdsOf(g) \cap FdsOf(e) = {}
  BY <1>1, <1>5 DEF SocketInv, Accounted
<1>8. \A y : Owns(y)' <=> Owns(y) /\ y \notin FdsOf(e)
  <2>1. \A y : Owns(y) <=> \E g \in Udp : y \in FdsOf(g)
    BY <1>5, <1>6 DEF Owns
  <2>2. \A y : Owns(y)' <=> \E g \in Udp' : y \in FdsOf(g)
    BY <1>5, <1>6 DEF Owns
  <2> QED BY <1>5, <1>7, <2>1, <2>2
<1>9. TypeOK'
  BY <1>1, <1>2, <1>3, <1>4 DEF TypeOK
<1>10. Accounted'
  <2>1. \A g \in Udp' : /\ bound'[ep'[g].port] = ep'[g].rtpfd
                        /\ bound'[ep'[g].port + 1] = ep'[g].rtcpfd
    <3> SUFFICES ASSUME NEW g \in Udp, g # e
                 PROVE  /\ bound'[ep[g].port] = ep[g].rtpfd
                        /\ bound'[ep[g].port + 1] = ep[g].rtcpfd
      BY <1>5
    <3>1. /\ ep[g].port \in Ports /\ ep[g].port + 1 \in Ports
          /\ bound[ep[g].port] = ep[g].rtpfd /\ bound[ep[g].port + 1] = ep[g].rtcpfd
          /\ ep[g].rtpfd \in FdsOf(g) /\ ep[g].rtcpfd \in FdsOf(g)
      BY <1>1, UdpFacts
    <3>2. ep[g].rtpfd \notin FdsOf(e) /\ ep[g].rtcpfd \notin FdsOf(e)
      BY <1>5, <1>7, <3>1
    <3> QED BY <1>4, <3>1, <3>2
  <2>2. \A g, h \in Udp' : g # h => FdsOf(g)' \cap FdsOf(h)' = {}
    BY <1>1, <1>5 DEF SocketInv, Accounted
  <2>3. \A y : Owns(y)' => y \in open'
    BY <1>1, <1>2, <1>8 DEF SocketInv, Accounted
  <2>4. \A y \in open' : forgot' \/ Owns(y)'
    BY <1>1, <1>2, <1>8 DEF SocketInv, Accounted
  <2>5. \A p \in Ports : Owns(bound[p])' \/ bound'[p] \in {Free, Other}
    <3>1. \A p \in Ports : Owns(bound[p]) \/ bound[p] \in {Free, Other}
      BY <1>1 DEF SocketInv, Accounted
    <3>2. \A p \in Ports : bound'[p] = Free \/ (bound'[p] = bound[p] /\ bound[p] \notin FdsOf(e))
      BY <1>4
    <3>3. ASSUME NEW p \in Ports, bound'[p] # Free, bound'[p] # Other
          PROVE  Owns(bound[p])'
      <4>1. bound'[p] = bound[p] /\ bound[p] \notin FdsOf(e)
        BY <3>2, <3>3
      <4>2. Owns(bound[p])
        BY <3>1, <3>3, <4>1
      <4>3. \A y : y = bound[p] => Owns(y)'
        BY <1>8, <4>1, <4>2
      <4> QED BY <4>1, <4>3 DEF Owns
    <3> QED BY <3>3
  <2> QED BY <1>9, <2>1, <2>2, <2>3, <2>4, <2>5 DEF Accounted
<1>11. Searching'
  BY <1>1, <1>2 DEF SocketInv, Searching
<1>12. Endpoints'
  BY <1>1, <1>2, <1>5, <1>6 DEF SocketInv, Endpoints
<1>13. PortsOfSearch'
  BY <1>1, <1>2, <1>4, Distinct DEF PortsOfSearch, TypeOK
<1>14. Untried'
  BY <1>1, <1>2 DEF SocketInv, Untried
<1>15. CallbacksFindTheirEndpoint'
  <2> SUFFICES ASSUME NEW ev \in pass' PROVE ev[1] \in Udp'
    BY DEF CallbacksFindTheirEndpoint
  <2>1. ev \in pass /\ ev \in Eps \X Kinds /\ ev[1] \in Udp /\ ev \notin {e} \X Kinds
    BY <1>1, <1>2 DEF Inv, CallbacksFindTheirEndpoint, TypeOK
  <2>2. ev[1] # e
    BY <2>1
  <2> QED BY <1>5, <2>1, <2>2
<1>16. Due'
  <2> SUFFICES ASSUME NEW g \in Eps, <<g, "timer">> \in pass' PROVE ep'[g].due <= 0
    BY DEF Due
  <2>1. <<g, "timer">> \in pass /\ g # e
    BY <1>2 DEF Kinds
  <2> QED BY <1>3, <2>1 DEF Inv, Due
<1> QED
  BY <1>10, <1>11, <1>12, <1>13, <1>14, <1>15, <1>16 DEF Inv, SocketInv

-----------------------------------------------------------------------------
(* A step of the search that leaves the passes, clients and the endpoints  *)
(* with sockets alone keeps what is said of callbacks.                     *)
LEMMA SearchPass ==
    ASSUME Inv, SocketInv', pass' = pass, Udp \subseteq Udp',
           \A e \in Udp : ep'[e] = ep[e]
    PROVE  Inv'
<1>1. \A ev \in pass : ev[1] \in Udp
  BY DEF Inv, CallbacksFindTheirEndpoint
<1>2. \A e \in Eps : <<e, "timer">> \in pass => e \in Udp
  BY <1>1
<1> QED
  BY <1>1, <1>2 DEF Inv, CallbacksFindTheirEndpoint, Due

(* The search gives up: its sockets are closed, or hold no port. *)
LEMMA FailsStep ==
    ASSUME Inv, pc # "idle", NEW fds, NEW kept, SetupFails(fds, kept),
           \/ fds = mine /\ kept = {}
           \/ fds = {} /\ kept = mine /\ pc = "try"
    PROVE  Inv'
<1>1. TypeOK /\ SocketInv /\ me \in Eps /\ me \in Live /\ me \notin Udp
  BY DEF Inv, SocketInv, Accounted, Searching, Endpoints, Live
<1>2. /\ ep' = [ep EXCEPT ![me] = NULL] /\ open' = open \ fds
      /\ bound' = Without(fds \cup {Other}) /\ forgot' = (forgot \/ kept # {})
      /\ pc' = "idle" /\ me' = NULL /\ port' = 0 /\ i' = 0
      /\ rtpfd' = NULL /\ rtcpfd' = NULL /\ stayed' = {}
      /\ pass' = pass /\ client' = client /\ error' = error
  BY DEF SetupFails, netVars
<1>3. /\ \A g \in Eps : ep'[g] = IF g = me THEN NULL ELSE ep[g]
      /\ ep' \in [Eps -> {NULL} \cup Endpoint]
  BY <1>1, <1>2 DEF TypeOK
<1>4. /\ \A p \in Ports : bound'[p] = IF bound[p] \in fds \cup {Other} THEN Free ELSE bound[p]
      /\ bound' \in [Ports -> Fds \cup {Free, Other}]
  BY <1>1, <1>2 DEF Without, TypeOK
<1>5. Live' = Live \ {me} /\ Live' = Udp
      /\ \A g \in Udp : ep'[g] = ep[g] /\ FdsOf(g)' = FdsOf(g)
  <2>1. Live' = Live \ {me} /\ \A g \in Live' : ep'[g] = ep[g]
    BY <1>1, <1>3 DEF Live
  <2>2. Live' = Udp
    BY <1>1, <2>1 DEF SocketInv, Endpoints, Udp
  <2> QED BY <2>1, <2>2 DEF FdsOf
<1>6. Udp' = Udp /\ mine' = {}
  BY <1>2, <1>5 DEF Udp, mine
<1>7. \A y : Owns(y)' <=> \E g \in Udp : y \in FdsOf(g)
  BY <1>5, <1>6 DEF Owns
<1>8. \A y : Owns(y) <=> y \in mine \/ Owns(y)'
  <2>1. \A g \in Live : g \notin Udp => FdsOf(g) = {}
    BY <1>1, OthersFds
  <2> QED BY <1>5, <1>7, <2>1 DEF Owns, Udp
<1>9. \A g \in Udp : FdsOf(g) \cap mine = {}
  BY <1>1 DEF SocketInv, Endpoints
<1>10. \A p \in Ports : bound[p] \in mine => bound'[p] = Free
  <2>1. CASE fds = mine
    BY <1>4, <2>1
  <2>2. CASE pc = "try"
    BY <1>1, <2>2 DEF SocketInv, PortsOfSearch, mine
  <2> QED BY <2>1, <2>2
<1>11. TypeOK'
  <2>1. open' \subseteq Fds /\ pass' \subseteq Eps \X Kinds /\ client' \in [Eps -> BOOLEAN]
        /\ error' \subseteq Eps \X {"rtp", "rtcp"}
    BY <1>1, <1>2 DEF TypeOK
  <2>2. port' \in 0..(2 * Pairs) /\ i' \in 0..Pairs
    BY <1>2, PortFacts
  <2>3. forgot' \in BOOLEAN
    BY <1>2
  <2> QED BY <1>2, <1>3, <1>4, <2>1, <2>2, <2>3 DEF TypeOK
<1>12. Accounted'
  <2>1. \A g \in Udp' : /\ bound'[ep'[g].port] = ep'[g].rtpfd
                        /\ bound'[ep'[g].port + 1] = ep'[g].rtcpfd
    <3> SUFFICES ASSUME NEW g \in Udp
                 PROVE  /\ bound'[ep[g].port] = ep[g].rtpfd
                        /\ bound'[ep[g].port + 1] = ep[g].rtcpfd
      BY <1>5, <1>6
    <3>1. /\ ep[g].port \in Ports /\ ep[g].port + 1 \in Ports
          /\ bound[ep[g].port] = ep[g].rtpfd /\ bound[ep[g].port + 1] = ep[g].rtcpfd
          /\ ep[g].rtpfd \in FdsOf(g) /\ ep[g].rtcpfd \in FdsOf(g)
          /\ ep[g].rtpfd \in Fds /\ ep[g].rtcpfd \in Fds
      BY <1>1, UdpFacts
    <3>2. ep[g].rtpfd \notin fds \cup {Other} /\ ep[g].rtcpfd \notin fds \cup {Other}
      BY <1>9, <3>1, Distinct
    <3> QED BY <1>4, <3>1, <3>2
  <2>2. \A g, h \in Udp' : g # h => FdsOf(g)' \cap FdsOf(h)' = {}
    BY <1>1, <1>5, <1>6 DEF SocketInv, Accounted
  <2>3. \A y : Owns(y)' => y \in open'
    <3>1. \A y : Owns(y)' => y \in open /\ y \notin mine
      BY <1>1, <1>7, <1>8, <1>9 DEF SocketInv, Accounted
    <3> QED BY <1>2, <3>1
  <2>4. \A y \in open' : forgot' \/ Owns(y)'
    <3>1. \A y \in open : forgot \/ Owns(y)
      BY <1>1 DEF SocketInv, Accounted
    <3>2. CASE fds = mine
      BY <1>2, <1>8, <3>1, <3>2
    <3>3. CASE kept = mine
      BY <1>2, <1>8, <3>1, <3>3
    <3> QED BY <3>2, <3>3
  <2>5. \A p \in Ports : Owns(bound[p])' \/ bound'[p] \in {Free, Other}
    <3>1. \A p \in Ports : Owns(bound[p]) \/ bound[p] \in {Free, Other}
      BY <1>1 DEF SocketInv, Accounted
    <3>2. ASSUME NEW p \in Ports, bound'[p] # Free, bound'[p] # Other
          PROVE  Owns(bound[p])'
      <4>1. bound'[p] = bound[p] /\ bound[p] \notin mine
        BY <1>4, <1>10, <3>2
      <4>2. Owns(bound[p])
        BY <3>1, <3>2, <4>1
      <4>3. \A y : y = bound[p] => Owns(y)'
        BY <1>8, <4>1, <4>2
      <4> QED BY <4>1, <4>3 DEF Owns
    <3> QED BY <3>2
  <2> QED BY <1>11, <2>1, <2>2, <2>3, <2>4, <2>5 DEF Accounted
<1>13. Searching'
  BY <1>2 DEF Searching
<1>14. Endpoints'
  <2>1. \A g \in Udp : ep[g].rtcpfd # NULL /\ ep[g].rtpfd # ep[g].rtcpfd /\ ep[g].port \in PairStarts
    BY <1>1, UdpFacts, Distinct
  <2> QED BY <1>2, <1>5, <1>6, <2>1 DEF Endpoints
<1>15. PortsOfSearch'
  BY <1>2, <1>11, Distinct DEF PortsOfSearch, TypeOK
<1>16. Untried'
  BY <1>2 DEF Untried
<1>17. SocketInv'
  BY <1>12, <1>13, <1>14, <1>15, <1>16 DEF SocketInv
<1> QED
  BY <1>2, <1>5, <1>6, <1>17, SearchPass

-----------------------------------------------------------------------------
(* After the last pair the search goes on at the first. *)
LEMMA WrappedPair ==
    ASSUME NEW p \in 0..(2 * Pairs), p % 2 = 0
    PROVE  Wrapped(p) \in PairStarts /\ Wrapped(Wrapped(p)) = Wrapped(p)
<1>0. Pairs \in Nat /\ Pairs > 0
  BY PortFacts
<1>1. p # 2 * Pairs - 1
  BY <1>0
<1>2. Wrapped(p) = IF p + 1 > 2 * Pairs - 1 THEN 0 ELSE p
  BY DEF Wrapped, rtp_port_end, rtp_port_start
<1>3. Wrapped(p) \in Nat /\ Wrapped(p) % 2 = 0 /\ Wrapped(p) < 2 * Pairs - 1
  BY <1>0, <1>1, <1>2
<1>4. Wrapped(Wrapped(p)) = IF Wrapped(p) + 1 > 2 * Pairs - 1 THEN 0 ELSE Wrapped(p)
  BY DEF Wrapped, rtp_port_end, rtp_port_start
<1>5. Wrapped(p) \in PairStarts
  BY <1>3, PortFacts
<1>6. Wrapped(Wrapped(p)) = Wrapped(p)
  BY <1>3, <1>4, PortFacts
<1> QED
  BY <1>5, <1>6

(* The distance of a pair, and how trying another pair shortens it. *)
LEMMA Closer ==
    ASSUME NEW q \in PairStarts, NEW s \in PairStarts
    PROVE  /\ Wrapped(q) = q
           /\ From(q, s) \in 0..(2 * Pairs - 1)
           /\ s # q => From(Wrapped(q + 2), s) = From(q, s) - 2
<1>1. /\ q \in Nat /\ q % 2 = 0 /\ q <= 2 * Pairs - 2
      /\ s \in Nat /\ s % 2 = 0 /\ s <= 2 * Pairs - 2 /\ Pairs \in Nat
  BY PortFacts
<1>2. Wrapped(q) = q
  BY <1>1 DEF Wrapped, rtp_port_end, rtp_port_start
<1>3. From(q, s) = IF s >= q THEN s - q ELSE s - q + 2 * Pairs
  BY DEF From
<1>4. From(q, s) \in 0..(2 * Pairs - 1)
  BY <1>1, <1>3
<1>5. ASSUME s # q
      PROVE  From(Wrapped(q + 2), s) = From(q, s) - 2
  <2>1. s # q + 1
    BY <1>1
  <2>2. CASE q + 2 < 2 * Pairs
    <3>1. Wrapped(q + 2) = q + 2
      <4>1. q + 2 # 2 * Pairs - 1
        BY <1>1
      <4> QED BY <1>1, <2>2, <4>1 DEF Wrapped, rtp_port_end, rtp_port_start
    <3>2. From(q + 2, s) = IF s >= q + 2 THEN s - (q + 2) ELSE s - (q + 2) + 2 * Pairs
      BY DEF From
    <3> QED BY <1>1, <1>3, <1>5, <2>1, <3>1, <3>2
  <2>3. CASE q + 2 >= 2 * Pairs
    <3>1. Wrapped(q + 2) = 0 /\ q = 2 * Pairs - 2
      BY <1>1, <2>3 DEF Wrapped, rtp_port_end, rtp_port_start
    <3>2. From(0, s) = s
      BY <1>1 DEF From
    <3> QED BY <1>1, <1>3, <1>5, <3>1, <3>2
  <2> QED BY <1>1, <2>2, <2>3
<1> QED
  BY <1>2, <1>4, <1>5

(* The pair at hand is taken: the search moves on. *)
LEMMA MovesOn ==
    ASSUME SocketInv, pc \in {"rtp", "rtcp"}, NextPair, port \notin stayed,
           stayed' = stayed, \A s \in stayed : bound'[s] = Free /\ bound'[s + 1] = Free
    PROVE  /\ Untried' /\ port' \in 0..(2 * Pairs) /\ port' % 2 = 0 /\ i' \in 0..Pairs
           /\ pc' = "try"
<1>1. /\ port \in PairStarts /\ i < Pairs /\ i \in 0..Pairs /\ stayed \subseteq PairStarts
      /\ port' = port + 2 /\ i' = i + 1 /\ pc' = "try"
  BY DEF SocketInv, Searching, Accounted, TypeOK, NextPair
<1>2. port' \in 0..(2 * Pairs) /\ port' % 2 = 0 /\ i' \in 0..Pairs
  <2>1. Pairs \in Nat /\ port \in Nat /\ port % 2 = 0 /\ port <= 2 * Pairs - 2
    BY <1>1, PortFacts
  <2> QED BY <1>1, <2>1
<1>3. ASSUME NEW s \in stayed
      PROVE  From(Wrapped(port'), s) + 2 * i' < 2 * Pairs
  <2>1. s \in PairStarts /\ s # port
    BY <1>1
  <2>2. /\ Wrapped(port) = port /\ From(port, s) \in 0..(2 * Pairs - 1)
        /\ From(Wrapped(port + 2), s) = From(port, s) - 2
    BY <1>1, <2>1, Closer
  <2>3. From(port, s) + 2 * i < 2 * Pairs
    BY <2>2 DEF SocketInv, Untried, Ahead
  <2> QED BY <1>1, <2>2, <2>3, PortFacts
<1>4. Untried'
  BY <1>1, <1>3 DEF Untried, Ahead
<1> QED
  BY <1>1, <1>2, <1>4

-----------------------------------------------------------------------------
(* SETUP: a new endpoint, the search begins. *)
LEMMA SetupStep == ASSUME Inv, NEW e \in Eps, Setup(e) PROVE Inv'
<1> DEFINE r == [rtpfd |-> NULL, rtcpfd |-> NULL, port |-> NULL,
                 enabled |-> FALSE, force_rtcp |-> TRUE, due |-> Ival]
<1>1. /\ TypeOK /\ SocketInv /\ pc = "idle" /\ me = NULL /\ e \notin Live
      /\ rtpfd = NULL /\ rtcpfd = NULL
  BY DEF Inv, SocketInv, Accounted, Searching, Setup, AtRequest
<1>2. /\ ep' = [ep EXCEPT ![e] = r] /\ client' = [client EXCEPT ![e] = TRUE]
      /\ pc' = "try" /\ me' = e /\ i' = 0 /\ port' \in PairStarts
      /\ stayed' = {p \in PairStarts : bound'[p] = Free /\ bound'[p + 1] = Free}
      /\ open' = open /\ pass' = pass /\ error' = error /\ rtpfd' = rtpfd
      /\ rtcpfd' = rtcpfd /\ forgot' = forgot
  BY DEF Setup
<1>3. PICK taken \in SUBSET {p \in Ports : bound[p] = Free} :
         bound' = [p \in Ports |-> IF p \in taken THEN Other ELSE bound[p]]
  BY DEF Setup
<1>4. r \in Endpoint /\ r.rtpfd = NULL /\ r.rtcpfd = NULL /\ ~ r.enabled
  <2>1. Ival \in -MaxLate..Ival
    BY UdpAssumption
  <2> QED BY <2>1 DEF Endpoint
<1> HIDE DEF r
<1>5. /\ \A g \in Eps : ep'[g] = IF g = e THEN r ELSE ep[g]
      /\ ep' \in [Eps -> {NULL} \cup Endpoint]
  BY <1>1, <1>2, <1>4 DEF TypeOK
<1>6. /\ \A p \in Ports : bound'[p] = bound[p] \/ (bound[p] = Free /\ bound'[p] = Other)
      /\ bound' \in [Ports -> Fds \cup {Free, Other}]
  BY <1>1, <1>3 DEF TypeOK
<1>7. Live' = Live \cup {e} /\ Live = Udp
  <2>1. Live = Udp
    BY <1>1, Distinct DEF SocketInv, Endpoints, Udp, Live
  <2> QED BY <1>4, <1>5, <2>1, Distinct DEF Live
<1>8. /\ \A g \in Udp : ep'[g] = ep[g] /\ FdsOf(g)' = FdsOf(g)
      /\ Udp' = Udp /\ mine = {} /\ mine' = {} /\ FdsOf(e)' = {}
  <2>1. \A g \in Udp : ep'[g] = ep[g]
    BY <1>1, <1>5, <1>7 DEF Live
  <2>2. ep'[e] = r
    BY <1>5
  <2> QED BY <1>1, <1>2, <1>4, <1>7, <2>1, <2>2 DEF Udp, FdsOf, mine
<1>9. \A y : Owns(y)' <=> Owns(y)
  BY <1>7, <1>8 DEF Owns
<1>10. TypeOK'
  <2>1. port' \in 0..(2 * Pairs) /\ i' \in 0..Pairs /\ stayed' \subseteq PairStarts
    BY <1>2, PortFacts
  <2> QED BY <1>1, <1>2, <1>5, <1>6, <2>1 DEF TypeOK
<1>11. Accounted'
  <2>1. \A g \in Udp' : /\ bound'[ep'[g].port] = ep'[g].rtpfd
                        /\ bound'[ep'[g].port + 1] = ep'[g].rtcpfd
    <3> SUFFICES ASSUME NEW g \in Udp
                 PROVE  /\ bound'[ep[g].port] = ep[g].rtpfd
                        /\ bound'[ep[g].port + 1] = ep[g].rtcpfd
      BY <1>8
    <3> QED BY <1>1, <1>6, UdpFacts, Distinct
  <2>2. \A g, h \in Udp' : g # h => FdsOf(g)' \cap FdsOf(h)' = {}
    BY <1>1, <1>8 DEF SocketInv, Accounted
  <2>3. /\ \A y : Owns(y)' => y \in open'
        /\ \A y \in open' : forgot' \/ Owns(y)'
    BY <1>1, <1>2, <1>9 DEF SocketInv, Accounted
  <2>4. \A p \in Ports : Owns(bound[p])' \/ bound'[p] \in {Free, Other}
    <3>1. \A p \in Ports : Owns(bound[p]) \/ bound[p] \in {Free, Other}
      BY <1>1 DEF SocketInv, Accounted
    <3>2. ASSUME NEW p \in Ports, bound'[p] # Free, bound'[p] # Other
          PROVE  Owns(bound[p])'
      <4>1. bound'[p] = bound[p] /\ Owns(bound[p])
        BY <1>6, <3>1, <3>2
      <4>2. \A y : y = bound[p] => Owns(y)'
        BY <1>9, <4>1
      <4> QED BY <4>1, <4>2 DEF Owns
    <3> QED BY <3>2
  <2> QED BY <1>10, <2>1, <2>2, <2>3, <2>4 DEF Accounted
<1>12. Searching'
  BY <1>1, <1>2, Distinct, PortFacts DEF Searching
<1>13. Endpoints'
  <2>1. \A g \in Udp : ep[g].rtcpfd # NULL /\ ep[g].rtpfd # ep[g].rtcpfd /\ ep[g].port \in PairStarts
    BY <1>1, UdpFacts, Distinct
  <2>2. ep'[e] = r /\ e \notin Udp
    BY <1>1, <1>5, <1>7
  <2>3. Live' \ Udp' = {e}
    BY <1>7, <1>8, <2>2
  <2> QED BY <1>2, <1>4, <1>7, <1>8, <2>1, <2>2, <2>3 DEF Endpoints
<1>14. PortsOfSearch'
  BY <1>1, <1>2, <1>6, Distinct DEF PortsOfSearch, TypeOK
<1>15. Untried'
  <2> SUFFICES ASSUME NEW s \in stayed' PROVE From(Wrapped(port'), s) + 2 * i' < 2 * Pairs
    BY <1>2 DEF Untried, Ahead
  <2>1. s \in PairStarts
    BY <1>2
  <2>2. Wrapped(port') = port' /\ From(port', s) \in 0..(2 * Pairs - 1)
    BY <1>2, <2>1, Closer
  <2> QED BY <1>2, <2>2, PortFacts
<1>16. SocketInv'
  BY <1>11, <1>12, <1>13, <1>14, <1>15 DEF SocketInv
<1> QED
  BY <1>2, <1>8, <1>16, SearchPass

-----------------------------------------------------------------------------
(* A step of the search: the sockets it gives up are closed, those it gets *)
(* are new, and the ports of the endpoints are left alone.                 *)
SearchStep ==
    /\ ep' = ep /\ pass' = pass /\ client' = client /\ error' = error
    /\ me' = me /\ forgot' = forgot
    /\ open' = (open \cup mine') \ (mine \ mine')
    /\ \A e \in Udp : FdsOf(e) \cap mine' = {}
    /\ \A e \in Udp : /\ bound'[ep[e].port] = bound[ep[e].port]
                      /\ bound'[ep[e].port + 1] = bound[ep[e].port + 1]
    /\ \A p \in Ports : \/ bound'[p] \in mine' \cup {Free, Other}
                        \/ bound'[p] = bound[p] /\ bound[p] \notin mine
    /\ bound' \in [Ports -> Fds \cup {Free, Other}]
    /\ port' \in 0..(2 * Pairs) /\ i' \in 0..Pairs
    /\ {rtpfd', rtcpfd'} \subseteq Fds \cup {NULL} /\ stayed' \subseteq PairStarts
    /\ pc # "idle" /\ pc' \in {"try", "rtp", "rtcp", "connect"}
    /\ Searching' /\ PortsOfSearch' /\ Untried'

(* Such a step keeps the invariant. *)
LEMMA SearchStepInv == ASSUME Inv, SearchStep PROVE Inv'
<1> USE DEF SearchStep
<1>1. TypeOK /\ SocketInv
  BY DEF Inv, SocketInv, Accounted
<1>2. Live' = Live /\ Udp' = Udp /\ \A e \in Live : FdsOf(e)' = FdsOf(e)
  BY DEF Live, Udp, FdsOf
<1>3. mine' \subseteq Fds
  BY DEF mine
<1>4. TypeOK'
  <2>1. open' \subseteq Fds
    BY <1>1, <1>3 DEF TypeOK
  <2> QED BY <1>1, <2>1 DEF TypeOK
<1>5. \A y : Owns(y) <=> y \in mine \/ \E e \in Udp : y \in FdsOf(e)
  <2>1. \A g \in Live : g \notin Udp => FdsOf(g) = {}
    BY <1>1, OthersFds
  <2> QED BY <2>1 DEF Owns, Udp
<1>6. \A y : Owns(y)' <=> y \in mine' \/ \E e \in Udp : y \in FdsOf(e)
  <2>1. \A g \in Live : g \notin Udp => FdsOf(g) = {}
    BY <1>1, OthersFds
  <2> QED BY <1>2, <2>1 DEF Owns, Udp
<1>7. \A e \in Udp : FdsOf(e) \cap mine = {} /\ FdsOf(e) \subseteq open
  BY <1>1, UdpFacts DEF SocketInv, Endpoints
<1>8. Accounted'
  <2>1. \A e \in Udp' : /\ bound'[ep'[e].port] = ep'[e].rtpfd
                        /\ bound'[ep'[e].port + 1] = ep'[e].rtcpfd
    BY <1>1, <1>2, UdpFacts
  <2>2. \A e, g \in Udp' : e # g => FdsOf(e)' \cap FdsOf(g)' = {}
    BY <1>1, <1>2 DEF SocketInv, Accounted, Udp
  <2>3. \A y : Owns(y)' => y \in open'
    BY <1>6, <1>7
  <2>4. \A y \in open' : forgot' \/ Owns(y)'
    <3>1. \A y \in open : forgot \/ Owns(y)
      BY <1>1 DEF SocketInv, Accounted
    <3> QED BY <1>5, <1>6, <3>1
  <2>5. \A p \in Ports : Owns(bound[p])' \/ bound'[p] \in {Free, Other}
    <3>1. \A p \in Ports : Owns(bound[p]) \/ bound[p] \in {Free, Other}
      BY <1>1 DEF SocketInv, Accounted
    <3>2. ASSUME NEW p \in Ports, bound'[p] # Free, bound'[p] # Other
          PROVE  Owns(bound[p])'
      <4>1. CASE bound'[p] \in mine'
        BY <4>1 DEF Owns
      <4>2. CASE bound'[p] = bound[p] /\ bound[p] \notin mine
        <5>1. Owns(bound[p])
          BY <3>1, <3>2, <4>2
        <5>2. \A y : y = bound[p] => Owns(y)'
          BY <1>5, <1>6, <4>2, <5>1
        <5> QED BY <4>2, <5>2 DEF Owns
      <4> QED BY <3>2, <4>1, <4>2
    <3> QED BY <3>2
  <2> QED BY <1>4, <2>1, <2>2, <2>3, <2>4, <2>5 DEF Accounted
<1>9. Endpoints'
  <2>1. Udp \subseteq Live
    BY DEF Udp
  <2> QED BY <1>1, <1>2, <2>1 DEF SocketInv, Endpoints
<1>10. SocketInv'
  BY <1>8, <1>9 DEF SocketInv
<1> QED
  BY <1>2, <1>10, SearchPass

(* Sockets for a round. *)
LEMMA SocketsStep == ASSUME Inv, Sockets PROVE Inv'
<1>0. PICK free, f1, f2 :
        /\ free = Fds \ open
        /\ f1 = IF rtpfd = NULL THEN Min(free) ELSE rtpfd
        /\ f2 = IF rtcpfd = NULL THEN Min(free \ {f1}) ELSE rtcpfd
  OBVIOUS
<1>1. /\ TypeOK /\ SocketInv /\ pc = "try" /\ i < max_tries
      /\ Cardinality(free) >= (IF rtpfd = NULL THEN 1 ELSE 0) + (IF rtcpfd = NULL THEN 1 ELSE 0)
      /\ port' = Wrapped(port) /\ rtpfd' = f1 /\ rtcpfd' = f2
      /\ open' = open \cup {f1, f2} /\ pc' = "rtp"
      /\ ep' = ep /\ bound' = bound /\ pass' = pass /\ client' = client /\ error' = error
      /\ me' = me /\ i' = i /\ stayed' = stayed /\ forgot' = forgot
  BY <1>0 DEF Inv, SocketInv, Accounted, Sockets, netVars
<1>2. mine \subseteq open /\ {rtpfd, rtcpfd} \subseteq Fds \cup {NULL}
  BY <1>1 DEF SocketInv, Accounted, Owns, TypeOK
<1>3. rtpfd = NULL => f1 \in free
  <2>1. ASSUME rtpfd = NULL PROVE free # {}
    <3>1. Cardinality(free) >= 1 \/ Cardinality(free) >= 2
      BY <1>1, <2>1
    <3> QED BY <3>1, FS_EmptySet
  <2> QED BY <1>0, <2>1, MinFree
<1>4. rtcpfd = NULL => f2 \in free /\ f2 # f1
  <2>1. ASSUME rtcpfd = NULL PROVE free \ {f1} # {}
    <3>1. CASE rtpfd = NULL
      <4>1. Cardinality(free) >= 2
        BY <1>1, <2>1, <3>1
      <4>2. free = {f1} => Cardinality(free) = 1
        BY FS_Singleton
      <4>3. free # {f1}
        BY <4>1, <4>2
      <4> QED BY <1>3, <3>1, <4>3
    <3>2. CASE rtpfd # NULL
      <4>1. Cardinality(free) >= 1
        BY <1>1, <2>1, <3>2
      <4>2. free # {}
        BY <4>1, FS_EmptySet
      <4>3. f1 \notin free
        BY <1>0, <1>2, <3>2 DEF mine
      <4> QED BY <4>2, <4>3
    <3> QED BY <3>1, <3>2
  <2> QED BY <1>0, <2>1, MinFree
<1>5. /\ f1 \in Fds /\ f2 \in Fds /\ f1 # f2 /\ f1 # NULL /\ f2 # NULL
      /\ f1 \in free \/ f1 = rtpfd
      /\ f2 \in free \/ f2 = rtcpfd
      /\ rtpfd # NULL => f1 = rtpfd
      /\ rtcpfd # NULL => f2 = rtcpfd
  <2>1. rtpfd # NULL => f1 = rtpfd /\ f1 \in open
    BY <1>0, <1>2 DEF mine
  <2>2. rtcpfd # NULL => f2 = rtcpfd /\ f2 \in open
    BY <1>0, <1>2 DEF mine
  <2>3. rtpfd # NULL => rtpfd # rtcpfd
    BY <1>1 DEF SocketInv, Searching
  <2> QED BY <1>0, <1>2, <1>3, <1>4, <2>1, <2>2, <2>3, Distinct
<1>6. mine' = {f1, f2}
  BY <1>1, <1>5 DEF mine
<1>7. open' = (open \cup mine') \ (mine \ mine')
  <2>1. mine \subseteq {f1, f2}
    BY <1>5 DEF mine
  <2> QED BY <1>1, <1>6, <2>1
<1>8. \A e \in Udp : FdsOf(e) \cap mine' = {}
  <2>1. \A e \in Udp : FdsOf(e) \cap mine = {} /\ FdsOf(e) \subseteq open
    BY <1>1, UdpFacts DEF SocketInv, Endpoints
  <2>2. (f1 \in mine \/ f1 \notin open) /\ (f2 \in mine \/ f2 \notin open)
    BY <1>0, <1>5 DEF mine
  <2> QED BY <1>6, <2>1, <2>2
<1>9. \A p \in Ports : bound[p] # f1 /\ bound[p] # f2
  <2> SUFFICES ASSUME NEW p \in Ports PROVE bound[p] # f1 /\ bound[p] # f2
    OBVIOUS
  <2>1. bound[p] # rtpfd /\ bound[p] # rtcpfd
    BY <1>1 DEF SocketInv, PortsOfSearch
  <2>2. bound[p] \in open \/ bound[p] \in {Free, Other}
    BY <1>1 DEF SocketInv, Accounted
  <2>3. bound[p] \notin free
    BY <1>0, <2>2, Distinct
  <2> QED BY <1>5, <2>1, <2>3
<1>10. \A p \in Ports : bound[p] \notin mine
  BY <1>5, <1>9 DEF mine
<1>11. /\ port' \in PairStarts /\ Wrapped(port') = Wrapped(port) /\ i < Pairs
       /\ port' \in 0..(2 * Pairs)
  <2>1. port \in 0..(2 * Pairs) /\ port % 2 = 0
    BY <1>1 DEF TypeOK, SocketInv, Searching
  <2>2. Wrapped(port) \in PairStarts /\ Wrapped(Wrapped(port)) = Wrapped(port)
    BY <2>1, WrappedPair
  <2> QED BY <1>1, <2>2, PortFacts
<1>12. Searching'
  BY <1>1, <1>5, <1>11 DEF SocketInv, Searching
<1>13. PortsOfSearch'
  BY <1>1, <1>9 DEF PortsOfSearch
<1>14. Untried'
  BY <1>1, <1>11 DEF SocketInv, Untried, Ahead
<1>15. SearchStep
  BY <1>1, <1>5, <1>7, <1>8, <1>10, <1>11, <1>12, <1>13, <1>14 DEF SearchStep, TypeOK
<1> QED
  BY <1>15, SearchStepInv

(* Ports of other processes come and go. *)
LEMMA OtherPortStep == ASSUME Inv, NEW p \in Ports, OtherPort(p) PROVE Inv'
<1>1. /\ TypeOK /\ SocketInv /\ pc # "idle" /\ stayed' = stayed \ {p, p - 1}
      /\ ep' = ep /\ open' = open /\ pass' = pass /\ client' = client /\ error' = error
      /\ pc' = pc /\ me' = me /\ port' = port /\ i' = i /\ rtpfd' = rtpfd /\ rtcpfd' = rtcpfd
      /\ forgot' = forgot
  BY DEF Inv, SocketInv, Accounted, OtherPort, netVars
<1>2. /\ bound' \in [Ports -> Fds \cup {Free, Other}]
      /\ bound[p] \in {Free, Other} /\ bound'[p] \in {Free, Other}
      /\ \A q \in Ports : q # p => bound'[q] = bound[q]
  BY <1>1 DEF OtherPort, TypeOK
<1>3. mine' = mine
  BY <1>1 DEF mine
<1>4. \A e \in Udp : /\ bound'[ep[e].port] = bound[ep[e].port]
                     /\ bound'[ep[e].port + 1] = bound[ep[e].port + 1]
  <2> SUFFICES ASSUME NEW e \in Udp
               PROVE  /\ bound'[ep[e].port] = bound[ep[e].port]
                      /\ bound'[ep[e].port + 1] = bound[ep[e].port + 1]
    OBVIOUS
  <2>1. /\ ep[e].port \in Ports /\ ep[e].port + 1 \in Ports
        /\ bound[ep[e].port] \in Fds /\ bound[ep[e].port + 1] \in Fds
    BY <1>1, UdpFacts
  <2> QED BY <1>2, <2>1, Distinct
<1>5. Searching'
  BY <1>1 DEF SocketInv, Searching
<1>6. \A q \in Ports : bound[q] \in {rtpfd, rtcpfd} \/ bound'[q] \in {rtpfd, rtcpfd} =>
                          bound'[q] = bound[q]
  BY <1>1, <1>2, Distinct DEF TypeOK
<1>7. PortsOfSearch'
  <2>1. pc \in {"rtcp", "connect"} => port \in Ports /\ port + 1 \in Ports
    BY <1>1, PortFacts DEF SocketInv, Searching
  <2> QED BY <1>1, <1>6, <2>1 DEF SocketInv, PortsOfSearch
<1>8. Untried'
  <2> SUFFICES ASSUME NEW s \in stayed, s # p, s # p - 1
               PROVE  bound'[s] = bound[s] /\ bound'[s + 1] = bound[s + 1]
    BY <1>1 DEF SocketInv, Untried, Ahead
  <2>1. s \in Ports /\ s + 1 \in Ports /\ s \in Nat /\ p \in Nat
    BY <1>1, PortFacts DEF TypeOK
  <2>2. s + 1 # p
    BY <2>1
  <2> QED BY <1>2, <2>1, <2>2
<1>9. \A q \in Ports : \/ bound'[q] \in mine' \cup {Free, Other}
                       \/ bound'[q] = bound[q] /\ bound[q] \notin mine
  BY <1>2, <1>3
<1>10. \A e \in Udp : FdsOf(e) \cap mine' = {}
  BY <1>1, <1>3 DEF SocketInv, Endpoints
<1>11. open' = (open \cup mine') \ (mine \ mine')
  <2>1. mine \subseteq open
    BY <1>1 DEF SocketInv, Accounted, Owns
  <2> QED BY <1>1, <1>3, <2>1
<1>12. SearchStep
  BY <1>1, <1>2, <1>4, <1>5, <1>7, <1>8, <1>9, <1>10, <1>11 DEF SearchStep, TypeOK
<1> QED
  BY <1>12, SearchStepInv

(* bind() of the RTP socket *)
LEMMA BindRtpStep == ASSUME Inv, bind_rtp PROVE Inv'
<1>1. /\ TypeOK /\ SocketInv /\ pc = "rtp"
      /\ ep' = ep /\ open' = open /\ pass' = pass /\ client' = client /\ error' = error
      /\ me' = me /\ rtpfd' = rtpfd /\ rtcpfd' = rtcpfd /\ stayed' = stayed /\ forgot' = forgot
  BY DEF Inv, SocketInv, Accounted, bind_rtp, netVars
<1>2. /\ rtpfd \in Fds /\ rtcpfd \in Fds /\ rtpfd # rtcpfd /\ rtpfd # NULL /\ rtcpfd # NULL
      /\ port \in PairStarts /\ i < Pairs /\ port \in Ports /\ port + 1 \in Ports /\ port \in Nat
  BY <1>1, PortFacts DEF SocketInv, Searching, TypeOK
<1>3. mine' = mine /\ mine = {rtpfd, rtcpfd} /\ mine \subseteq open
  BY <1>1, <1>2 DEF mine, SocketInv, Accounted, Owns
<1>4. \A e \in Udp : FdsOf(e) \cap mine' = {}
  BY <1>1, <1>3 DEF SocketInv, Endpoints
<1>5. \A p \in Ports : bound[p] # rtpfd /\ bound[p] # rtcpfd
  BY <1>1 DEF SocketInv, PortsOfSearch
<1>6. CASE bound[port] = Free /\ bound' = [bound EXCEPT ![port] = rtpfd]
           /\ pc' = "rtcp" /\ port' = port /\ i' = i
  <2>1. /\ \A p \in Ports : bound'[p] = IF p = port THEN rtpfd ELSE bound[p]
        /\ bound' \in [Ports -> Fds \cup {Free, Other}]
    BY <1>1, <1>2, <1>6 DEF TypeOK
  <2>2. \A e \in Udp : /\ bound'[ep[e].port] = bound[ep[e].port]
                       /\ bound'[ep[e].port + 1] = bound[ep[e].port + 1]
    <3> SUFFICES ASSUME NEW e \in Udp
                 PROVE  /\ bound'[ep[e].port] = bound[ep[e].port]
                        /\ bound'[ep[e].port + 1] = bound[ep[e].port + 1]
      OBVIOUS
    <3>1. /\ ep[e].port \in Ports /\ ep[e].port + 1 \in Ports
          /\ bound[ep[e].port] \in Fds /\ bound[ep[e].port + 1] \in Fds
      BY <1>1, UdpFacts
    <3> QED BY <1>6, <2>1, <3>1, Distinct
  <2>3. Searching'
    BY <1>1, <1>6 DEF SocketInv, Searching
  <2>4. PortsOfSearch'
    BY <1>1, <1>2, <1>5, <1>6, <2>1 DEF PortsOfSearch
  <2>5. Untried'
    <3> SUFFICES ASSUME NEW s \in stayed
                 PROVE  (bound'[s] = Free \/ s = port) /\ bound'[s + 1] = Free
      BY <1>1, <1>6 DEF SocketInv, Untried, Ahead
    <3>1. s \in PairStarts /\ s \in Ports /\ s + 1 \in Ports /\ s \in Nat
          /\ s % 2 = 0 /\ port % 2 = 0
      BY <1>1, <1>2, PortFacts DEF TypeOK
    <3>2. s + 1 # port
      BY <1>2, <3>1
    <3>3. bound[s] = Free /\ bound[s + 1] = Free
      BY <1>1 DEF SocketInv, Untried
    <3> QED BY <2>1, <3>1, <3>2, <3>3
  <2>6. \A p \in Ports : \/ bound'[p] \in mine' \cup {Free, Other}
                         \/ bound'[p] = bound[p] /\ bound[p] \notin mine
    BY <1>3, <1>5, <2>1
  <2>7. open' = (open \cup mine') \ (mine \ mine')
    BY <1>1, <1>3
  <2>8. SearchStep
    BY <1>1, <1>4, <1>6, <2>1, <2>2, <2>3, <2>4, <2>5, <2>6, <2>7 DEF SearchStep, TypeOK
  <2> QED BY <2>8, SearchStepInv
<1>7. CASE bound[port] # Free /\ NextPair /\ bound' = bound
  <2>1. port \notin stayed /\ \A s \in stayed : bound[s] = Free /\ bound[s + 1] = Free
    BY <1>1, <1>7 DEF SocketInv, Untried
  <2>2. /\ Untried' /\ port' \in 0..(2 * Pairs) /\ port' % 2 = 0 /\ i' \in 0..Pairs
        /\ pc' = "try"
    BY <1>1, <1>7, <2>1, MovesOn
  <2>3. Searching'
    BY <1>1, <2>2 DEF SocketInv, Searching
  <2>4. PortsOfSearch'
    BY <1>1, <1>5, <1>7, <2>2 DEF PortsOfSearch
  <2>5. \A p \in Ports : bound[p] \notin mine
    BY <1>3, <1>5
  <2>6. open' = (open \cup mine') \ (mine \ mine')
    BY <1>1, <1>3
  <2>7. SearchStep
    BY <1>1, <1>4, <1>7, <2>2, <2>3, <2>4, <2>5, <2>6 DEF SearchStep, TypeOK
  <2> QED BY <2>7, SearchStepInv
<1> QED
  BY <1>6, <1>7 DEF bind_rtp

(* bind() of the RTCP socket *)
LEMMA BindRtcpStep == ASSUME Inv, bind_rtcp PROVE Inv'
<1>1. /\ TypeOK /\ SocketInv /\ pc = "rtcp"
      /\ ep' = ep /\ pass' = pass /\ client' = client /\ error' = error
      /\ me' = me /\ rtcpfd' = rtcpfd /\ stayed' = stayed /\ forgot' = forgot
  BY DEF Inv, SocketInv, Accounted, bind_rtcp, netVars
<1>2. /\ rtpfd \in Fds /\ rtcpfd \in Fds /\ rtpfd # rtcpfd /\ rtpfd # NULL /\ rtcpfd # NULL
      /\ port \in PairStarts /\ i < Pairs /\ port \in Ports /\ port + 1 \in Ports /\ port \in Nat
      /\ port % 2 = 0
  BY <1>1, PortFacts DEF SocketInv, Searching, TypeOK
<1>3. mine = {rtpfd, rtcpfd} /\ mine \subseteq open
  BY <1>1, <1>2 DEF mine, SocketInv, Accounted, Owns
<1>4. \A e \in Udp : FdsOf(e) \cap mine = {}
  BY <1>1 DEF SocketInv, Endpoints
<1>5. /\ bound[port] = rtpfd
      /\ \A p \in Ports : (bound[p] = rtpfd => p = port) /\ bound[p] # rtcpfd
  BY <1>1 DEF SocketInv, PortsOfSearch
<1>6. \A s \in stayed : /\ bound[s] = Free \/ s = port
                        /\ bound[s + 1] = Free
                        /\ s \in PairStarts /\ s \in Ports /\ s + 1 \in Ports /\ s \in Nat
  BY <1>1, PortFacts DEF SocketInv, Untried, TypeOK
<1>7. CASE /\ bound[port + 1] = Free
           /\ bound' = [bound EXCEPT ![port + 1] = rtcpfd]
           /\ pc' = "connect" /\ port' = port /\ i' = i /\ rtpfd' = rtpfd /\ open' = open
  <2>1. /\ \A p \in Ports : bound'[p] = IF p = port + 1 THEN rtcpfd ELSE bound[p]
        /\ bound' \in [Ports -> Fds \cup {Free, Other}]
    BY <1>1, <1>2, <1>7 DEF TypeOK
  <2>2. \A e \in Udp : /\ bound'[ep[e].port] = bound[ep[e].port]
                       /\ bound'[ep[e].port + 1] = bound[ep[e].port + 1]
    <3> SUFFICES ASSUME NEW e \in Udp
                 PROVE  /\ bound'[ep[e].port] = bound[ep[e].port]
                        /\ bound'[ep[e].port + 1] = bound[ep[e].port + 1]
      OBVIOUS
    <3>1. /\ ep[e].port \in Ports /\ ep[e].port + 1 \in Ports
          /\ bound[ep[e].port] \in Fds /\ bound[ep[e].port + 1] \in Fds
      BY <1>1, UdpFacts
    <3> QED BY <1>7, <2>1, <3>1, Distinct
  <2>3. mine' = mine
    BY <1>1, <1>7 DEF mine
  <2>4. Searching'
    BY <1>1, <1>7 DEF SocketInv, Searching
  <2>5. port # port + 1
    BY <1>2
  <2>6. PortsOfSearch'
    BY <1>1, <1>2, <1>5, <1>7, <2>1, <2>5 DEF PortsOfSearch
  <2>7. Untried'
    <3> SUFFICES ASSUME NEW s \in stayed
                 PROVE  (bound'[s] = Free \/ s = port) /\ (bound'[s + 1] = Free \/ s = port)
      BY <1>1, <1>7 DEF SocketInv, Untried, Ahead
    <3>1. s # port => s + 1 # port + 1
      BY <1>2, <1>6
    <3>2. s % 2 = 0 /\ s \in Nat
      BY <1>6, PortFacts
    <3>3. s # port + 1
      BY <1>2, <3>2
    <3> QED BY <1>6, <2>1, <3>1, <3>3
  <2>8. \A p \in Ports : \/ bound'[p] \in mine' \cup {Free, Other}
                         \/ bound'[p] = bound[p] /\ bound[p] \notin mine
    BY <1>3, <2>1, <2>3
  <2>9. open' = (open \cup mine') \ (mine \ mine')
    BY <1>3, <1>7, <2>3
  <2>10. SearchStep
    BY <1>1, <1>4, <1>7, <2>1, <2>2, <2>3, <2>4, <2>6, <2>7, <2>8, <2>9 DEF SearchStep, TypeOK
  <2> QED BY <2>10, SearchStepInv
<1>8. CASE /\ bound[port + 1] # Free
           /\ open' = open \ {rtpfd} /\ bound' = Without({rtpfd})
           /\ rtpfd' = NULL /\ NextPair
  <2>1. /\ \A p \in Ports : bound'[p] = IF p = port THEN Free ELSE bound[p]
        /\ bound' \in [Ports -> Fds \cup {Free, Other}]
    BY <1>1, <1>5, <1>8 DEF Without, TypeOK
  <2>2. mine' = {rtcpfd}
    BY <1>1, <1>2, <1>8 DEF mine
  <2>3. \A e \in Udp : /\ bound'[ep[e].port] = bound[ep[e].port]
                       /\ bound'[ep[e].port + 1] = bound[ep[e].port + 1]
    <3> SUFFICES ASSUME NEW e \in Udp
                 PROVE  /\ bound'[ep[e].port] = bound[ep[e].port]
                        /\ bound'[ep[e].port + 1] = bound[ep[e].port + 1]
      OBVIOUS
    <3>1. /\ ep[e].port \in Ports /\ ep[e].port + 1 \in Ports
          /\ bound[ep[e].port] \in FdsOf(e) /\ bound[ep[e].port + 1] \in FdsOf(e)
      BY <1>1, UdpFacts
    <3>2. rtpfd \notin FdsOf(e)
      BY <1>3, <1>4
    <3> QED BY <1>5, <2>1, <3>1, <3>2
  <2>4. port \notin stayed
    BY <1>6, <1>8
  <2>5. \A s \in stayed : bound'[s] = Free /\ bound'[s + 1] = Free
    BY <1>6, <2>1, <2>4
  <2>6. /\ Untried' /\ port' \in 0..(2 * Pairs) /\ port' % 2 = 0 /\ i' \in 0..Pairs
        /\ pc' = "try"
    BY <1>1, <1>8, <2>4, <2>5, MovesOn
  <2>7. Searching'
    BY <1>1, <1>8, <2>6 DEF SocketInv, Searching
  <2>8. PortsOfSearch'
    <3>1. \A p \in Ports : bound'[p] # NULL /\ bound'[p] # rtcpfd
      BY <1>2, <1>5, <2>1, Distinct
    <3> QED BY <1>1, <1>8, <2>6, <3>1 DEF PortsOfSearch
  <2>9. \A p \in Ports : \/ bound'[p] \in mine' \cup {Free, Other}
                         \/ bound'[p] = bound[p] /\ bound[p] \notin mine
    BY <1>3, <1>5, <2>1
  <2>10. open' = (open \cup mine') \ (mine \ mine')
    BY <1>2, <1>3, <1>8, <2>2
  <2>11. \A e \in Udp : FdsOf(e) \cap mine' = {}
    BY <1>3, <1>4, <2>2
  <2>12. SearchStep
    BY <1>1, <1>2, <1>8, <2>1, <2>3, <2>6, <2>7, <2>8, <2>9, <2>10, <2>11
       DEF SearchStep, TypeOK
  <2> QED BY <2>12, SearchStepInv
<1> QED
  BY <1>7, <1>8 DEF bind_rtcp

(* The endpoint gets the sockets of the search, with their ports. *)
LEMMA ConnectedStep == ASSUME Inv, Connected PROVE Inv'
<1> DEFINE r == [ep[me] EXCEPT !.rtpfd = rtpfd, !.rtcpfd = rtcpfd, !.port = port]
<1>1. TypeOK /\ SocketInv /\ pc = "connect" /\ me \in Eps /\ me \in Live /\ me \notin Udp
  BY DEF Inv, SocketInv, Accounted, Searching, Endpoints, Live, Connected
<1>2. /\ rtpfd \in Fds /\ rtcpfd \in Fds /\ rtpfd # rtcpfd /\ rtpfd # NULL /\ rtcpfd # NULL
      /\ port \in PairStarts /\ port \in Ports /\ port + 1 \in Ports
      /\ bound[port] = rtpfd /\ bound[port + 1] = rtcpfd /\ ep[me] \in Endpoint
  BY <1>1, PortFacts DEF SocketInv, Searching, PortsOfSearch, TypeOK, Live
<1>3. /\ ep' = [ep EXCEPT ![me] = r] /\ pc' = "idle" /\ me' = NULL /\ port' = 0 /\ i' = 0
      /\ rtpfd' = NULL /\ rtcpfd' = NULL /\ stayed' = {} /\ bound' = Without({Other})
      /\ open' = open /\ pass' = pass /\ client' = client /\ error' = error /\ forgot' = forgot
  BY <1>1 DEF Connected, netVars, TypeOK
<1>4. /\ r \in Endpoint /\ r.rtpfd = rtpfd /\ r.rtcpfd = rtcpfd /\ r.port = port
  BY <1>2 DEF Endpoint
<1> HIDE DEF r
<1>5. /\ \A g \in Eps : ep'[g] = IF g = me THEN r ELSE ep[g]
      /\ ep' \in [Eps -> {NULL} \cup Endpoint]
  BY <1>1, <1>3, <1>4 DEF TypeOK
<1>6. /\ \A p \in Ports : bound'[p] = IF bound[p] = Other THEN Free ELSE bound[p]
      /\ bound' \in [Ports -> Fds \cup {Free, Other}]
  BY <1>1, <1>3 DEF Without, TypeOK
<1>7. /\ Live' = Live /\ Udp' = Udp \cup {me} /\ Live = Udp \cup {me}
      /\ \A g \in Udp : ep'[g] = ep[g]
      /\ ep'[me] = r
  <2>1. Live' = Live
    BY <1>1, <1>4, <1>5, Distinct DEF Live
  <2>2. Live = Udp \cup {me}
    BY <1>1 DEF SocketInv, Endpoints, Udp
  <2>3. \A g \in Udp : ep'[g] = ep[g]
    BY <1>1, <1>5 DEF Udp, Live
  <2>4. ep'[me] = r
    BY <1>1, <1>5
  <2> QED BY <1>2, <1>4, <2>1, <2>2, <2>3, <2>4 DEF Udp
<1>8. /\ \A g \in Udp : FdsOf(g)' = FdsOf(g)
      /\ \A e : e = me => FdsOf(e)' = {rtpfd, rtcpfd}
      /\ mine = {rtpfd, rtcpfd} /\ mine' = {} /\ FdsOf(me) = {}
  <2>1. \A e : e = me => FdsOf(e)' = {rtpfd, rtcpfd}
    BY <1>2, <1>4, <1>7 DEF FdsOf
  <2>2. FdsOf(me) = {}
    BY <1>1, OthersFds
  <2> QED BY <1>2, <1>3, <1>7, <2>1, <2>2 DEF FdsOf, mine
<1>9. \A y : Owns(y)' <=> Owns(y)
  <2>1. \A y : Owns(y) <=> y \in {rtpfd, rtcpfd} \/ \E g \in Udp : y \in FdsOf(g)
    BY <1>7, <1>8 DEF Owns
  <2>2. \A y : Owns(y)' <=> y \in {rtpfd, rtcpfd} \/ \E g \in Udp : y \in FdsOf(g)
    BY <1>7, <1>8 DEF Owns
  <2> QED BY <2>1, <2>2
<1>10. TypeOK'
  <2>1. port' \in 0..(2 * Pairs) /\ i' \in 0..Pairs
    BY <1>3, PortFacts
  <2> QED BY <1>1, <1>3, <1>5, <1>6, <2>1 DEF TypeOK
<1>11. \A g \in Udp : /\ ep[g].port \in Ports /\ ep[g].port + 1 \in Ports
                      /\ bound[ep[g].port] = ep[g].rtpfd /\ ep[g].rtpfd \in Fds
                      /\ bound[ep[g].port + 1] = ep[g].rtcpfd /\ ep[g].rtcpfd \in Fds
                      /\ FdsOf(g) \cap {rtpfd, rtcpfd} = {}
                      /\ ep[g].rtcpfd # NULL /\ ep[g].rtpfd # ep[g].rtcpfd
                      /\ ep[g].port \in PairStarts
  <2>1. \A g \in Udp : FdsOf(g) \cap {rtpfd, rtcpfd} = {}
    BY <1>1, <1>8 DEF SocketInv, Endpoints
  <2> QED BY <1>1, <2>1, UdpFacts, Distinct
<1>12. Accounted'
  <2>1. \A g \in Udp' : /\ bound'[ep'[g].port] = ep'[g].rtpfd
                        /\ bound'[ep'[g].port + 1] = ep'[g].rtcpfd
    <3>1. \A g \in Udp : /\ bound'[ep'[g].port] = ep'[g].rtpfd
                         /\ bound'[ep'[g].port + 1] = ep'[g].rtcpfd
      BY <1>6, <1>7, <1>11, Distinct
    <3>2. bound'[r.port] = r.rtpfd /\ bound'[r.port + 1] = r.rtcpfd
      BY <1>2, <1>4, <1>6, Distinct
    <3> QED BY <1>7, <3>1, <3>2
  <2>2. \A g, h \in Udp' : g # h => FdsOf(g)' \cap FdsOf(h)' = {}
    <3>1. \A g, h \in Udp : g # h => FdsOf(g) \cap FdsOf(h) = {}
      BY <1>1 DEF SocketInv, Accounted
    <3> QED BY <1>7, <1>8, <1>11, <3>1
  <2>3. /\ \A y : Owns(y)' => y \in open'
        /\ \A y \in open' : forgot' \/ Owns(y)'
    BY <1>1, <1>3, <1>9 DEF SocketInv, Accounted
  <2>4. \A p \in Ports : Owns(bound[p])' \/ bound'[p] \in {Free, Other}
    <3>1. \A p \in Ports : Owns(bound[p]) \/ bound[p] \in {Free, Other}
      BY <1>1 DEF SocketInv, Accounted
    <3>2. ASSUME NEW p \in Ports, bound'[p] # Free, bound'[p] # Other
          PROVE  Owns(bound[p])'
      <4>1. bound'[p] = bound[p] /\ Owns(bound[p])
        BY <1>6, <3>1, <3>2
      <4>2. \A y : y = bound[p] => Owns(y)'
        BY <1>9, <4>1
      <4> QED BY <4>1, <4>2 DEF Owns
    <3> QED BY <3>2
  <2> QED BY <1>10, <2>1, <2>2, <2>3, <2>4 DEF Accounted
<1>13. Searching'
  BY <1>3 DEF Searching
<1>14. Endpoints'
  <2>1. \A g \in Udp' : /\ ep'[g].rtcpfd # NULL /\ ep'[g].rtpfd # ep'[g].rtcpfd
                        /\ ep'[g].port \in PairStarts
    BY <1>2, <1>4, <1>7, <1>11
  <2>2. Live' = Udp'
    BY <1>7
  <2> QED BY <1>3, <1>8, <2>1, <2>2 DEF Endpoints
<1>15. PortsOfSearch'
  BY <1>3, <1>10, Distinct DEF PortsOfSearch, TypeOK
<1>16. Untried'
  BY <1>3 DEF Untried
<1>17. SocketInv'
  BY <1>12, <1>13, <1>14, <1>15, <1>16 DEF SocketInv
<1> QED
  BY <1>3, <1>7, <1>17, SearchPass

-----------------------------------------------------------------------------
(* Every step keeps Inv. *)
LEMMA StepInv == Inv /\ [Next]_vars => Inv'
<1> SUFFICES ASSUME Inv, [Next]_vars PROVE Inv'
  OBVIOUS
<1>0. TypeOK /\ SocketInv
  BY DEF Inv, SocketInv, Accounted
<1>1. ASSUME RanOut PROVE Inv'
  <2>1. pc = "try" /\ SetupFails({}, mine)
    BY <1>1 DEF RanOut, mine
  <2> QED BY <2>1, FailsStep
<1>2. CASE Sockets
  BY <1>2, SocketsStep
<1>3. ASSUME NoSocket PROVE Inv'
  <2>1. pc = "try" /\ SetupFails({}, {rtcpfd} \ {NULL}) /\ rtpfd = NULL
    BY <1>3 DEF NoSocket
  <2>2. {rtcpfd} \ {NULL} = mine
    BY <2>1 DEF mine
  <2> QED BY <2>1, <2>2, FailsStep
<1>4. CASE bind_rtp
  BY <1>4, BindRtpStep
<1>5. CASE bind_rtcp
  BY <1>5, BindRtcpStep
<1>6. ASSUME StrangeError PROVE Inv'
  <2>1. pc \in {"rtp", "rtcp", "connect"} /\ SetupFails({rtpfd, rtcpfd}, {})
    BY <1>6 DEF StrangeError
  <2>2. {rtpfd, rtcpfd} = mine
    BY <1>0, <2>1 DEF mine, SocketInv, Searching
  <2> QED BY <2>1, <2>2, FailsStep
<1>7. CASE Connected
  BY <1>7, ConnectedStep
<1>8. CASE select
  BY <1>8, SelectStep
<1>9. CASE Tick
  BY <1>9, TickStep
<1>10. ASSUME NEW p \in Ports, OtherPort(p) PROVE Inv'
  BY <1>10, OtherPortStep
<1>11. ASSUME NEW e \in Eps, Setup(e) PROVE Inv'
  BY <1>11, SetupStep
<1>12. ASSUME NEW e \in Eps, Teardown(e) PROVE Inv'
  BY <1>12, DelStep DEF Teardown, AtRequest
<1>13. ASSUME NEW e \in Eps, ClientGoes(e) PROVE Inv'
  <2>1. /\ ep' = ep /\ open' = open /\ bound' = bound /\ pass' = pass /\ error' = error
        /\ forgot' = forgot /\ UNCHANGED searchVars /\ client' \in [Eps -> BOOLEAN]
    BY <1>0, <1>13 DEF ClientGoes, TypeOK
  <2> QED BY <1>0, <2>1, QuietStep DEF Inv, TypeOK, CallbacksFindTheirEndpoint, Due
<1>14. ASSUME NEW e \in Eps, NEW answered, send_rtp_packet(e, answered) PROVE Inv'
  BY <1>14, PacketStep
<1>15. ASSUME NEW e \in Eps, NEW answered, rtcp_fire(e, answered) PROVE Inv'
  BY <1>15, FireStep
<1>16. ASSUME NEW e \in Eps, NEW kind, <<e, kind>> \in pass PROVE e \in Udp
  BY <1>16 DEF Inv, CallbacksFindTheirEndpoint
<1>17. ASSUME NEW e \in Eps, rtcp_fire_fails(e) PROVE Inv'
  BY <1>16, <1>17, DelStep DEF rtcp_fire_fails
<1>18. ASSUME NEW e \in Eps, NEW kind, udp_read(e, kind) PROVE Inv'
  BY <1>16, <1>18, DelStep DEF udp_read, AtRequest
<1>19. CASE UNCHANGED vars
  <2>1. /\ ep' = ep /\ open' = open /\ bound' = bound /\ pass' = pass /\ error' = error
        /\ forgot' = forgot /\ UNCHANGED searchVars /\ client' = client
    BY <1>19 DEF vars, netVars
  <2> QED BY <1>0, <2>1, QuietStep DEF Inv, TypeOK, CallbacksFindTheirEndpoint, Due
<1> QED
  BY <1>1, <1>2, <1>3, <1>4, <1>5, <1>6, <1>7, <1>8, <1>9, <1>10, <1>11, <1>12,
     <1>13, <1>14, <1>15, <1>17, <1>18, <1>19 DEF Next, connect_udp_endpoint

(* Endpoints, descriptors, ports, the search and the pass agree in every   *)
(* reachable state.                                                        *)
THEOREM InvHolds == Spec => []Inv
<1> QED
  BY InitInv, StepInv, PTL DEF Spec

(* Every port the server has belongs to an endpoint or the search, no      *)
(* descriptor is shared, and one that belongs to nobody was left over by a *)
(* search that gave up.                                                    *)
THEOREM SocketsAccountedHolds == Spec => []SocketsAccounted
<1>1. Inv => SocketsAccounted
  BY AccountedImplies DEF Inv
<1> QED
  BY <1>1, InvHolds, PTL

(* No callback of a pass is for an endpoint that was torn down earlier in  *)
(* the pass.                                                               *)
THEOREM CallbacksFindTheirEndpointHolds == Spec => []CallbacksFindTheirEndpoint
<1>1. Inv => CallbacksFindTheirEndpoint
  BY DEF Inv
<1> QED
  BY <1>1, InvHolds, PTL

(* The search for ports gives up only if no pair was free throughout it,   *)
(* whatever the range, the start and the other processes.                  *)
THEOREM FreePairFoundHolds == Spec => []FreePairFound
<1>1. ASSUME Inv PROVE FreePairFound
  <2> SUFFICES ASSUME pc = "try", i = Pairs, NEW s \in stayed PROVE FALSE
    BY PortFacts DEF FreePairFound
  <2>1. /\ s \in PairStarts /\ port \in 0..(2 * Pairs) /\ port % 2 = 0
        /\ From(Wrapped(port), s) + 2 * i < 2 * Pairs
    BY <1>1 DEF Inv, SocketInv, Untried, Ahead, Searching, Accounted, TypeOK
  <2>2. Wrapped(port) \in PairStarts
    BY <2>1, WrappedPair
  <2>3. From(Wrapped(port), s) \in 0..(2 * Pairs - 1)
    BY <2>1, <2>2, Closer
  <2> QED BY <2>1, <2>3, PortFacts
<1> QED
  BY <1>1, InvHolds, PTL
=============================================================================
