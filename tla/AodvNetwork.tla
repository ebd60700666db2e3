---------------------------- MODULE AodvNetwork ----------------------------
(***************************************************************************)
(* A network of devices that run the AODV library: the device variables,   *)
(* the handlers of fn_NetSim_AODV_Run with everything they send, the IP    *)
(* layer around them, and - external to the repository's C code for AODV - *)
(* the event kernel and the radio.                                         *)
(*                                                                         *)
(* The kernel runs one event at a time in the order of the event times.    *)
(* Events of the same time run in any order.  A frame in the air is        *)
(* received within MaxDelay or is lost.  A unicast frame whose             *)
(* acknowledgement is lost is sent, and may be received, again; the sender *)
(* learns of the loss of a data packet (DropNotification) and of no other. *)
(***************************************************************************)
EXTENDS AodvTables

CONSTANTS
    Broadcast,  \* nReceiverId = 0
    Link,       \* the pairs <<n, m>> where m can hear n
    Flow,       \* the <<n, d, t>> where an application at n may send to d at t
    MaxData,    \* bound: data packets the applications send
    MaxDelay,   \* bound: longest time a frame is in the air
    MaxAckLoss, \* bound: acknowledgements the radio loses
    SimTime     \* the end of the simulation

ASSUME NetworkAssumption ==
    /\ Broadcast \notin Node
    /\ Link \subseteq {p \in Node \X Node : p[1] # p[2]}
    /\ \A f \in Flow : {f[1], f[2]} \subseteq Node /\ f[1] # f[2] /\ f[3] \in Nat
    /\ MaxData \in Nat
    /\ MaxDelay \in Nat
    /\ MaxAckLoss \in Nat
    /\ SimTime \in Nat
    /\ NET_DIAMETER > TTL_THRESHOLD + 1

VARIABLES
    now,          \* pstruEventDetails->dEventTime
    nRREQId,      \* the static counter of RREQ.c, one for all devices
    dev,          \* device -> its AODV_DEVICE_VAR
    routeTimers,  \* device -> pending ACTIVE_ROUTE_TIMEOUT events
    rreqTimers,   \* device -> pending RREQ_TIMEOUT events
    helloTimer,   \* device -> the time of its TRANSMIT_HELLO event
    out,          \* pending NETWORK_OUT events
    air,          \* copies of packets on their way to a receiver
    nData,        \* data packets the applications have sent
    delivered,    \* ids of the data packets handed to the transport layer
    dropped,      \* ids of the data packets lost by the MAC or the FIFO
    nAckLost,     \* unicast frames received whose acknowledgement was lost
    status        \* "running", "finished", or "undefined" once the program
                  \* has used memory it had freed

timers == <<routeTimers, rreqTimers, helloTimer>>
dataFate == <<nData, delivered, dropped>>
vars == <<now, nRREQId, dev, timers, out, air, dataFate, nAckLost, status>>

Running == status = "running"

-----------------------------------------------------------------------------
(* Packets.  A RREP with bcast set is a hello.  HopCount has eight bits;   *)
(* the flags of a RREQ are left out, no code sets the one that is read     *)
(* ("destination only").  The sequence numbers in a RERR are never read.   *)

HopCount == 0..255

RREQ == [kind: {"RREQ"}, ttl: Nat, id: Nat, orig: Node, oseq: Nat,
         dest: Node, dseq: Nat, hop: HopCount, last: Node]

RREP == [kind: {"RREP"}, ttl: Nat, dest: Node, dseq: Nat, hop: HopCount,
         last: Node, life: Nat, orig: Node, bcast: BOOLEAN,
         congestion: BOOLEAN]

RERR == [kind: {"RERR"}, ttl: Nat, src: Node, dests: SUBSET Node]

Data(id, s, d) == [kind |-> "DATA", id |-> id, src |-> s, dst |-> d]

\* A pending NETWORK_OUT event.  "routed" is szNextHopIp # NULL, in which
\* case the IP layer does not call AODV.
OutEvent(n, pkt, rcv, routed) ==
    [node |-> n, pkt |-> pkt, rcv |-> rcv, routed |-> routed]

\* fn_NetSim_AODV_CopyPacket_F: the 802.11 layer transmits copies, in which
\* the congestion flag of a RREP is not copied.
CopyPacket(pkt) ==
    IF pkt.kind = "RREP" THEN [pkt EXCEPT !.congestion = FALSE] ELSE pkt

\* The copies of a packet that n transmits to rcv.
Copies(n, pkt, rcv) ==
    {[tx |-> n, rx |-> m, pkt |-> CopyPacket(pkt), at |-> now] :
        m \in {m \in Node : rcv = m \/ (rcv = Broadcast /\ <<n, m>> \in Link)}}

IsData(pkt) == pkt.kind = "DATA"
IsUnicast(pkt) == IsData(pkt) \/ (pkt.kind = "RREP" /\ ~pkt.bcast)

-----------------------------------------------------------------------------
(* fn_NetSim_AODV_Configure_F and fn_NetSim_AODV_Init_F                    *)

InitDev ==
    [nSequenceNumber    |-> 0,
     fifo               |-> [d \in Node |-> <<>>],
     routeTable         |-> [d \in {} |-> 0],
     rreqSeenTable      |-> {},
     rreqSentTable      |-> [d \in {} |-> 0],
     precursors         |-> {},
     precAllocated      |-> FALSE,
     dLastBroadcastTime |-> 0,
     nRerrCount         |-> 0,
     ncounter           |-> 0]

Init ==
    /\ now = 0
    /\ nRREQId = 0
    /\ dev = [n \in Node |-> InitDev]
    /\ routeTimers = [n \in Node |-> {}]
    /\ rreqTimers = [n \in Node |-> {}]
    /\ helloTimer = [n \in Node |-> HELLO_INTERVAL]
    /\ out = {}
    /\ air = {}
    /\ nData = 0
    /\ delivered = {}
    /\ dropped = {}
    /\ nAckLost = 0
    /\ status = "running"

-----------------------------------------------------------------------------
(* Sending data.                                                           *)

\* fn_NetSim_AODV_AddToFIFOBuffer
AddToFIFOBuffer(fifo, pkt) == [fifo EXCEPT ![pkt.dst] = Append(@, pkt)]

\* fnEmptyFIFOBuffer
EmptyFIFOBuffer(fifo, dest) == [fifo EXCEPT ![dest] = <<>>]

\* An application hands a packet to the network layer of n.
AppSend(n, d, t) ==
    /\ Running
    /\ now = t
    /\ nData < MaxData
    /\ nData' = nData + 1
    /\ out' = out \cup {OutEvent(n, Data(nData', n, d), Broadcast, FALSE)}
    /\ UNCHANGED <<now, nRREQId, dev, timers, air, delivered, dropped,
                   nAckLost, status>>

\* fn_NetSim_AODV_GeneralPacketProcessing, route found.  (It sets the TTL to
\* NET_DIAMETER at every hop, so a data packet never runs out of it.)
RouteData(e) ==
    LET n == e.node
        dst == e.pkt.dst
        rt == dev[n].routeTable
    IN  /\ Running /\ IsData(e.pkt)
        /\ CheckRouteFound(rt, dst, now)
        /\ dev' = [dev EXCEPT ![n].routeTable =
                      UpdateRouteTable(rt, dst, now + ACTIVE_ROUTE_TIMEOUT)]
        /\ air' = air \cup Copies(n, e.pkt, FindNextHop(rt, dst))
        /\ out' = out \ {e}
        /\ UNCHANGED <<now, nRREQId, timers, dataFate, nAckLost, status>>

\* No route, and fn_NetSim_AODV_AddToFIFOBuffer finds packets waiting for the
\* same destination: "RREQ is already sent".
BufferData(e) ==
    LET n == e.node
        dst == e.pkt.dst
    IN  /\ Running /\ IsData(e.pkt)
        /\ ~CheckRouteFound(dev[n].routeTable, dst, now)
        /\ dev[n].fifo[dst] # <<>>
        /\ dev' = [dev EXCEPT ![n].fifo = AddToFIFOBuffer(@, e.pkt)]
        /\ out' = out \ {e}
        /\ UNCHANGED <<now, nRREQId, timers, air, dataFate, nAckLost,
                       status>>

\* The RREQ that GenerateRREQ and RetryRREQ fill in.
NewRREQ(n, dest, ttl) ==
    [kind |-> "RREQ", ttl |-> ttl, id |-> nRREQId + 1,
     orig |-> n, oseq |-> dev[n].nSequenceNumber + 1,
     dest |-> dest, dseq |-> FindSequenceNumber(dev[n].routeTable, dest),
     hop |-> 0, last |-> n]

\* No route and nothing waiting: fn_NetSim_AODV_GenerateRREQ.  The RREQ takes
\* the place of the data packet in the running event and is broadcast.
DiscoverRoute(e) ==
    LET n == e.node
        dst == e.pkt.dst
        sent == dev[n].rreqSentTable
        ttl == IncreaseTTL(sent, dst) + 1 + 1
        timeout == now + GetTimeoutTime(ttl - 1, 1)
    IN  /\ Running /\ IsData(e.pkt)
        /\ ~CheckRouteFound(dev[n].routeTable, dst, now)
        /\ dev[n].fifo[dst] = <<>>
        /\ dev' = [dev EXCEPT
              ![n].fifo = AddToFIFOBuffer(@, e.pkt),
              ![n].nSequenceNumber = @ + 1,
              ![n].rreqSeenTable =
                  InsertInRREQSeenTable(@, n, nRREQId + 1),
              ![n].rreqSentTable =
                  InsertInRREQSentTable(sent, dst, ttl - 1, timeout),
              ![n].dLastBroadcastTime = now]
        /\ nRREQId' = nRREQId + 1
        /\ rreqTimers' = [rreqTimers EXCEPT ![n] =
                             AddTimeOut(@, dst, timeout)]
        /\ air' = air \cup Copies(n, NewRREQ(n, dst, ttl), Broadcast)
        /\ out' = out \ {e}
        /\ UNCHANGED <<now, routeTimers, helloTimer, dataFate, nAckLost,
                       status>>

\* NETWORK_OUT of an AODV packet.  One that is already routed goes straight
\* from the IP layer to the MAC unless its TTL is 0; fn_NetSim_AODV_Run sends
\* the others when the TTL is larger than 1 and remembers a broadcast.
SendControl(e) ==
    LET n == e.node
        sends == IF e.routed THEN e.pkt.ttl # 0 ELSE e.pkt.ttl > 1
        noted == sends /\ ~e.routed /\ e.rcv = Broadcast
    IN  /\ Running /\ ~IsData(e.pkt)
        /\ air' = IF sends THEN air \cup Copies(n, e.pkt, e.rcv) ELSE air
        /\ dev' = IF noted THEN [dev EXCEPT ![n].dLastBroadcastTime = now]
                  ELSE dev
        /\ out' = out \ {e}
        /\ UNCHANGED <<now, nRREQId, timers, dataFate, nAckLost, status>>

NetworkOut == \E e \in out :
    RouteData(e) \/ BufferData(e) \/ DiscoverRoute(e) \/ SendControl(e)

-----------------------------------------------------------------------------
(* Timers.                                                                 *)

\* fn_NetSim_AODV_RetryRREQ; the try is given up once it has been made often
\* enough at the full diameter, and the waiting packets go with it.
RetryRREQ(n, timer) ==
    LET dest == timer.dest
        sent == dev[n].rreqSentTable
        due == dest \in DOMAIN sent /\ sent[dest].timeout <= now
        giveUp == due /\ sent[dest].times > RREQ_RETRIES
        ttl == IncreaseTTL(sent, dest) + 1
        timeout == now + GetTimeoutTime(ttl, sent[dest].times)
        others == rreqTimers[n] \ {timer}
    IN  /\ Running /\ timer.at = now
        /\ \/ /\ ~due
              /\ rreqTimers' = [rreqTimers EXCEPT ![n] = others]
              /\ UNCHANGED <<nRREQId, dev, out, dropped>>
           \/ /\ giveUp
              /\ dev' = [dev EXCEPT
                    ![n].rreqSentTable = DeleteRREQSentTable(sent, dest),
                    ![n].fifo = EmptyFIFOBuffer(@, dest)]
              /\ LET waiting == dev[n].fifo[dest]
                 IN  dropped' = dropped \cup
                                   {waiting[i].id : i \in DOMAIN waiting}
              /\ rreqTimers' = [rreqTimers EXCEPT ![n] = others]
              /\ UNCHANGED <<nRREQId, out>>
           \/ /\ due /\ ~giveUp
              /\ dev' = [dev EXCEPT
                    ![n].nSequenceNumber = @ + 1,
                    ![n].rreqSeenTable =
                        InsertInRREQSeenTable(@, n, nRREQId + 1),
                    ![n].rreqSentTable =
                        InsertInRREQSentTable(sent, dest, ttl - 1, timeout)]
              /\ nRREQId' = nRREQId + 1
              /\ rreqTimers' = [rreqTimers EXCEPT ![n] =
                                  AddTimeOut(others, dest, timeout)]
              /\ out' = out \cup {OutEvent(n, NewRREQ(n, dest, ttl),
                                           Broadcast, FALSE)}
              /\ UNCHANGED dropped
        /\ UNCHANGED <<now, routeTimers, helloTimer, air, nData, delivered,
                       nAckLost, status>>

\* fn_NetSim_AODV_TransmitHelloMessage: a hello is a RREP about oneself.
TransmitHello(n) ==
    LET dv == dev[n]
        hello == [kind |-> "RREP", ttl |-> 2, dest |-> n,
                  dseq |-> dv.nSequenceNumber, hop |-> 0, last |-> n,
                  life |-> now + ALLOWED_HELLO_LOSS * HELLO_INTERVAL,
                  orig |-> n, bcast |-> TRUE, congestion |-> FALSE]
        quiet == dv.dLastBroadcastTime + HELLO_INTERVAL <= now
    IN  /\ Running /\ helloTimer[n] = now
        /\ helloTimer' = [helloTimer EXCEPT ![n] = now + HELLO_INTERVAL]
        /\ out' = IF quiet /\ DOMAIN dv.routeTable # {}
                  THEN out \cup {OutEvent(n, hello, Broadcast, FALSE)}
                  ELSE out
        /\ UNCHANGED <<now, nRREQId, dev, routeTimers, rreqTimers, air,
                       dataFate, nAckLost, status>>

\* fn_NetSim_AODV_ActiveRouteTimeout
ActiveRouteTimeout(n, timer) ==
    LET dest == timer.dest
        rt == dev[n].routeTable
        found == dest \in DOMAIN rt
        expired == found /\ rt[dest].life <= now
        again == IF found /\ ~expired
                 THEN {[dest |-> dest, at |-> rt[dest].life]} ELSE {}
    IN  /\ Running /\ timer.at = now
        /\ routeTimers' = [routeTimers EXCEPT ![n] = (@ \ {timer}) \cup again]
        /\ dev' = IF expired
                  THEN [dev EXCEPT ![n].routeTable = RemoveRoute(@, dest),
                                   ![n].ncounter = CounterMinus(@)]
                  ELSE dev
        /\ UNCHANGED <<now, nRREQId, rreqTimers, helloTimer, out, air,
                       dataFate, nAckLost, status>>

Timer == \E n \in Node :
    \/ \E timer \in rreqTimers[n] : RetryRREQ(n, timer)
    \/ TransmitHello(n)
    \/ \E timer \in routeTimers[n] : ActiveRouteTimeout(n, timer)

-----------------------------------------------------------------------------
(* Receiving.  m is the device, p the packet after the IP layer has taken  *)
(* one from its TTL.                                                       *)

\* fn_NetSim_AODV_InsertInPrecursorsList
InsertInPrecursorsList(dv, ip) ==
    [dv EXCEPT !.precursors = @ \cup {ip}, !.precAllocated = TRUE]

\* The number in the message is two ahead, the device's one.
GenerateRREP_Ahead(m, p) ==
    OutEvent(m, [kind |-> "RREP", ttl |-> p.hop + 2, dest |-> p.dest,
                 dseq |-> dev[m].nSequenceNumber + 2, hop |-> 1, last |-> m,
                 life |-> MY_ROUTE_TIMEOUT, orig |-> p.orig, bcast |-> FALSE,
                 congestion |-> FALSE],
             p.last, TRUE)

\* fn_NetSim_AODV_GenerateRREP: the destination answers.  The congestion flag
\* is left at the zero of calloc.
GenerateRREP(m, p) ==
    OutEvent(m, [kind |-> "RREP", ttl |-> p.hop + 2, dest |-> p.dest,
                 dseq |-> dev[m].nSequenceNumber + 1, hop |-> 1, last |-> m,
                 life |-> MY_ROUTE_TIMEOUT, orig |-> p.orig, bcast |-> FALSE,
                 congestion |-> FALSE],
             p.last, TRUE)

\* fn_NetSim_AODV_GenerateRREPByIntermediate, from the route table rt.
GenerateRREPByIntermediate(m, p, rt) ==
    OutEvent(m, [kind |-> "RREP", ttl |-> NET_DIAMETER, dest |-> p.dest,
                 dseq |-> rt[p.dest].seq, hop |-> rt[p.dest].hop, last |-> m,
                 life |-> rt[p.dest].life - now, orig |-> p.orig,
                 bcast |-> FALSE, congestion |-> FALSE],
             p.last, TRUE)

\* fn_NetSim_AODV_ForwardRREQ, which is called twice on the same packet: by
\* GenerateRREPByIntermediate and by ProcessRREQ.  The two events transmit
\* the same packet, one of them is redundant.
ForwardRREQ(m, p, rt) ==
    OutEvent(m, [p EXCEPT !.hop = @ + 1 + 1, !.last = m,
                          !.dseq = Max2(@, FindSequenceNumber(rt, p.dest))],
             Broadcast, FALSE)

\* fn_NetSim_AODV_ProcessRREQ.  The route in reverse comes first; then the
\* destination replies, a congested device discards the RREQ, a device with
\* a route replies or, when the RREQ came along that route, forwards it; any
\* other device does nothing.
ProcessRREQ(m, p) ==
    LET dv == dev[m]
        seen == CheckRREQSeenTable(dv.rreqSeenTable, p.orig, p.id)
        rt == InsertInRouteTable(dv.routeTable, p.orig, p.oseq, p.hop, p.last,
                 now + 2 * NET_TRAVERSAL_TIME - 2 * p.hop * NODE_TRAVERSAL_TIME,
                 now)
        replies == p.dest = m
        congested == AsInt(dv.ncounter) > CONGESTION_LIMIT
        knows == ~replies /\ ~congested /\ CheckRouteFound(rt, p.dest, now)
        forwards == knows /\ FindNextHop(rt, p.dest) = p.last
    IN  /\ p.kind = "RREQ"
        /\ IF seen THEN UNCHANGED <<dev, routeTimers, out, status>>
           ELSE /\ dev' = [dev EXCEPT ![m] =
                      [InsertInPrecursorsList(dv, p.last) EXCEPT
                         !.rreqSeenTable =
                             InsertInRREQSeenTable(@, p.orig, p.id),
                         !.routeTable = rt,
                         !.nSequenceNumber = IF replies THEN @ + 1 ELSE @]]
                /\ routeTimers' = [routeTimers EXCEPT ![m] =
                      AddRouteTimer(@, dv.routeTable, p.orig, now)]
                /\ out' = out \cup
                      (IF replies THEN {GenerateRREP(m, p)}
                       ELSE IF forwards /\ p.ttl # 1 THEN {ForwardRREQ(m, p, rt)}
                       ELSE IF knows /\ ~forwards
                            THEN {GenerateRREPByIntermediate(m, p, rt)}
                       ELSE {})
                \* The first ForwardRREQ frees a packet whose TTL is 1, the
                \* second one reads it.
                /\ status' = IF forwards /\ p.ttl = 1 THEN "undefined"
                             ELSE status
        /\ UNCHANGED delivered

\* The destinations whose packets fn_NetSim_AODV_TransmitFIFOBuffer sends
\* with route table rt ...
Flushed(rt) == {d \in Node : CheckRouteFound(rt, d, now)}

\* Only the first packet of a destination is sent.
TransmitFIFOBuffer_Head(m, rt) ==
    {OutEvent(m, Head(dev[m].fifo[d]), Broadcast, FALSE) :
       d \in {d \in Flushed(rt) : dev[m].fifo[d] # <<>>}}

\* ... and the events for them.
TransmitFIFOBuffer(m, rt) ==
    UNION {{OutEvent(m, dev[m].fifo[d][i], Broadcast, FALSE) :
              i \in DOMAIN dev[m].fifo[d]} : d \in Flushed(rt)}

\* fn_NetSim_AODV_ForwardRREP, with the route table rt.
ForwardRREP(m, p, rt) ==
    IF CheckRouteFound(rt, p.orig, now) /\ ~p.bcast
    THEN {OutEvent(m, [p EXCEPT !.hop = @ + 1, !.last = m],
                   FindNextHop(rt, p.orig), FALSE)}
    ELSE {}

\* fn_NetSim_AODV_ProcessRREP; a hello is one.
ProcessRREP(m, p) ==
    LET dv == dev[m]
        rt1 == InsertInRouteTable(dv.routeTable, p.dest, p.dseq, p.hop, p.last,
                                  now + ACTIVE_ROUTE_TIMEOUT, now)
        rt2 == UpdateRouteTable(rt1, p.last, p.life)
    IN  /\ p.kind = "RREP"
        /\ IF p.dest = m THEN UNCHANGED <<dev, routeTimers, out>>
           ELSE /\ dev' = [dev EXCEPT ![m] =
                      [InsertInPrecursorsList(dv, p.last) EXCEPT
                         !.ncounter = IF p.congestion THEN CounterPlus(@)
                                      ELSE @,
                         !.routeTable = rt2,
                         !.fifo = [d \in Node |->
                             IF d \in Flushed(rt1) THEN <<>> ELSE @[d]],
                         !.rreqSentTable =
                             IF p.orig = m THEN DeleteRREQSentTable(@, p.dest)
                             ELSE @]]
                /\ routeTimers' = [routeTimers EXCEPT ![m] =
                      AddRouteTimer(@, dv.routeTable, p.dest, now)]
                /\ out' = out \cup TransmitFIFOBuffer(m, rt1) \cup
                      (IF p.orig = m THEN {} ELSE ForwardRREP(m, p, rt2))
        /\ UNCHANGED <<status, delivered>>

\* fn_NetSim_AODV_ProcessRERR; a RERR that changes something is passed on.
ProcessRERR(m, p) ==
    LET rt == dev[m].routeTable
        broken == p.dests \cap RoutesThrough(rt, p.src)
    IN  /\ p.kind = "RERR"
        /\ IF broken = {} THEN UNCHANGED <<dev, out>>
           ELSE /\ dev' = [dev EXCEPT ![m].routeTable =
                              InvalidateRoutes(rt, broken, now)]
                /\ out' = out \cup
                      {OutEvent(m, [p EXCEPT !.src = m], Broadcast, TRUE)}
        /\ UNCHANGED <<routeTimers, status, delivered>>

\* The default branch of NETWORK_IN in fn_NetSim_AODV_Run, then the IP layer:
\* the packet moves up at its destination, elsewhere it is routed again.
ProcessData(m, p) ==
    LET rt == dev[m].routeTable
        life == now + ACTIVE_ROUTE_TIMEOUT
        arrived == p.dst = m
    IN  /\ IsData(p)
        /\ dev' = [dev EXCEPT ![m].routeTable =
              UpdateRouteTable(IF arrived THEN rt
                               ELSE UpdateRouteTable(rt, p.dst, life),
                               p.src, life)]
        /\ delivered' = IF arrived THEN delivered \cup {p.id} ELSE delivered
        /\ out' = IF arrived THEN out
                  ELSE out \cup {OutEvent(m, p, Broadcast, FALSE)}
        /\ UNCHANGED <<routeTimers, status>>

NetworkIn == \E c \in air :
    LET p == IF IsData(c.pkt) THEN c.pkt ELSE [c.pkt EXCEPT !.ttl = @ - 1]
    IN  /\ Running /\ <<c.tx, c.rx>> \in Link
        /\ \/ air' = air \ {c} /\ UNCHANGED nAckLost
           \/ /\ IsUnicast(p) /\ nAckLost < MaxAckLoss
              /\ nAckLost' = nAckLost + 1 /\ UNCHANGED air
        /\ \/ ProcessRREQ(c.rx, p) \/ ProcessRREP(c.rx, p)
           \/ ProcessRERR(c.rx, p) \/ ProcessData(c.rx, p)
        /\ UNCHANGED <<now, nRREQId, rreqTimers, helloTimer, nData, dropped>>

-----------------------------------------------------------------------------
(* Link breaks, time and the end of the run.                               *)

\* fn_NetSim_AODV_GenerateRERR at n: the routes through a neighbour are
\* invalid and everyone in reach is told.
GenerateRERR(n, unreachable) ==
    LET rt == dev[n].routeTable
        dests == RoutesThrough(rt, unreachable)
        rerr == [kind |-> "RERR", ttl |-> NET_DIAMETER, src |-> n,
                 dests |-> dests]
    IN  /\ dev' = [dev EXCEPT
              ![n].ncounter = CounterMinus(@),
              ![n].routeTable = InvalidateRoutes(rt, dests, now),
              ![n].precursors = @ \ {unreachable},
              ![n].nRerrCount = 2]
        /\ out' = IF dests = {} THEN out
                  ELSE out \cup {OutEvent(n, rerr, Broadcast, FALSE)}

\* The count is not reset by a RERR.
PacketDropNotification_Endless(n, unreachable) ==
    /\ dev' = [dev EXCEPT ![n].nRerrCount = @ + 1]
    /\ UNCHANGED out

\* fn_NetSim_AODV_PacketDropNotification: the MAC layer gives up on a data
\* packet.  Drops are counted, not answered, until there are enough of them.
PacketDropNotification(n, unreachable) ==
    IF dev[n].nRerrCount > RERR_LIMIT THEN GenerateRERR(n, unreachable)
    ELSE /\ dev' = [dev EXCEPT ![n].nRerrCount = @ + 1]
         /\ UNCHANGED out

MacDrop == \E c \in air :
    /\ Running /\ IsData(c.pkt)
    /\ PacketDropNotification(c.tx, c.rx)
    /\ air' = air \ {c}
    /\ dropped' = dropped \cup {c.pkt.id}
    /\ UNCHANGED <<now, nRREQId, timers, nData, delivered, nAckLost, status>>

Timers == (UNION {{timer.at : timer \in routeTimers[n] \cup rreqTimers[n]} :
                    n \in Node})
          \cup {helloTimer[n] : n \in Node}

\* The kernel takes the next event.  Control frames that have not arrived
\* within MaxDelay are lost; the MAC layer settles a data frame by then.
Advance(t) ==
    /\ Running
    /\ out = {}
    /\ t > now /\ t <= SimTime
    /\ \A u \in Timers : t <= u
    /\ \A c \in air : IsData(c.pkt) => t <= c.at + MaxDelay
    /\ now' = t
    /\ air' = {c \in air : t <= c.at + MaxDelay}
    /\ UNCHANGED <<nRREQId, dev, timers, out, dataFate, nAckLost, status>>

\* fn_NetSim_AODV_Finish_F frees what nothing reads any more.
Finish ==
    /\ Running
    /\ now = SimTime
    /\ status' = "finished"
    /\ UNCHANGED <<now, nRREQId, dev, timers, out, air, dataFate, nAckLost>>

\* The run is over.
Over == ~Running /\ UNCHANGED vars

Next ==
    \/ \E f \in Flow : AppSend(f[1], f[2], f[3])
    \/ NetworkOut
    \/ NetworkIn
    \/ Timer
    \/ MacDrop
    \/ \E t \in Timers \cup {f[3] : f \in Flow} \cup {SimTime} : Advance(t)
    \/ Finish
    \/ Over

Spec == Init /\ [][Next]_vars

\* The kernel never stops while an event is pending.
FairSpec == Spec /\ WF_vars(Next)

-----------------------------------------------------------------------------
(* What makes the network correct.                                         *)

\* Every packet that waits in an event or is in the air.
Packets == {e.pkt : e \in out} \cup {c.pkt : c \in air}

\* The types of the state and of the packets under way; HopCount keeps to eight
\* bits although every hop counts twice.
TypeOK ==
    /\ now \in 0..SimTime
    /\ nRREQId \in Nat
    /\ \A n \in Node :
          /\ dev[n].nSequenceNumber \in Nat
          /\ IsRouteTable(dev[n].routeTable)
          /\ DOMAIN dev[n].rreqSentTable \subseteq Node
          /\ \A d \in DOMAIN dev[n].rreqSentTable :
                dev[n].rreqSentTable[d] \in SentEntry
          /\ dev[n].rreqSeenTable \subseteq Node \X (1..nRREQId)
          /\ dev[n].precursors \subseteq Node
          /\ dev[n].dLastBroadcastTime \in 0..now
          /\ dev[n].nRerrCount \in 0..(RERR_LIMIT + 1)
          /\ dev[n].ncounter \in 0..(COUNTER_MOD - 1)
          /\ routeTimers[n] \cup rreqTimers[n] \subseteq RouteTimer
          /\ helloTimer[n] >= now
    /\ \A e \in out : e.node \in Node /\ e.rcv \in Node \cup {Broadcast}
    /\ \A p \in Packets : IsData(p) \/ p \in RREQ \cup RREP \cup RERR
    /\ \A c \in air : c.tx \in Node /\ c.rx \in Node /\ c.at <= now
    /\ nData \in 0..MaxData
    /\ status \in {"running", "finished", "undefined"}

\* Nobody knows a newer sequence number of a device than the device itself:
\* the numbers that decide which route is fresher are the owner's, in every
\* table and in every RREQ, RREP and hello on its way.
SeqNotAhead ==
    /\ \A n \in Node : \A d \in DOMAIN dev[n].routeTable :
          dev[n].routeTable[d].seq <= dev[d].nSequenceNumber
    /\ \A p \in Packets :
          /\ p.kind \in {"RREQ", "RREP"} => p.dseq <= dev[p.dest].nSequenceNumber
          /\ p.kind = "RREQ" => p.oseq <= dev[p.orig].nSequenceNumber

\* No device ends up with a route to itself, neither by its own RREQ coming
\* back nor by a RREP about itself.
NoSelfRoute == \A n \in Node : n \notin DOMAIN dev[n].routeTable

\* Where a data packet can be.
InOut(id) == \E e \in out : IsData(e.pkt) /\ e.pkt.id = id
InAir(id) == \E c \in air : IsData(c.pkt) /\ c.pkt.id = id
InFifo(id) == \E n, d \in Node : \E i \in DOMAIN dev[n].fifo[d] :
                 dev[n].fifo[d][i].id = id

\* No data packet disappears: it is in an event, in a FIFO, in the air,
\* delivered, or dropped by the MAC layer or by fnEmptyFIFOBuffer; and as
\* long as no acknowledgement was lost it is in one of these places only.
DataConserved ==
    \A id \in 1..nData :
       LET places == {k \in 1..5 : CASE k = 1 -> InOut(id)
                                      [] k = 2 -> InAir(id)
                                      [] k = 3 -> InFifo(id)
                                      [] k = 4 -> id \in delivered
                                      [] k = 5 -> id \in dropped}
       IN  /\ places # {}
           /\ nAckLost = 0 => Cardinality(places) = 1

\* Whoever puts a RREQ on the air has entered it in its seen table first, so
\* that a device sends a RREQ on once and the flood dies out.
FloodMarked ==
    /\ \A c \in air : c.pkt.kind = "RREQ" =>
          <<c.pkt.orig, c.pkt.id>> \in dev[c.tx].rreqSeenTable
    /\ \A e \in out : e.pkt.kind = "RREQ" =>
          <<e.pkt.orig, e.pkt.id>> \in dev[e.node].rreqSeenTable

\* A RREQ that is entered as sent has its timeout event pending, so it is
\* retried or given up, and the expanding ring stays on its ladder.
DiscoveryArmed ==
    \A n \in Node : \A d \in DOMAIN dev[n].rreqSentTable :
       LET s == dev[n].rreqSentTable[d]
       IN  /\ [dest |-> d, at |-> s.timeout] \in rreqTimers[n]
           /\ s.timeout >= now
           /\ s.times <= RREQ_RETRIES + 1
           /\ s.ttl <= NET_DIAMETER + 1

\* What AodvRouteTable assumes of the messages it receives: the lifetime in
\* a RREP, which its receiver takes for an instant, is never beyond the
\* DELETE_PERIOD of a broken route.
RrepLifetimeBounded ==
    \A p \in Packets : p.kind = "RREP" => p.life <= now + DELETE_PERIOD

\* Each device's table, in the network, is the soft-state cache.
CacheView(n) == [d \in DOMAIN dev[n].routeTable |->
                    [seq  |-> dev[n].routeTable[d].seq,
                     next |-> dev[n].routeTable[d].next,
                     life |-> dev[n].routeTable[d].life]]

RC(n) == INSTANCE RouteCache WITH cache <- CacheView(n)

ImplementsCache ==
    /\ \A n \in Node : RC(n)!Init
    /\ [][\A n \in Node : [RC(n)!Next]_(RC(n)!vars)]_vars

\* Under a kernel that keeps running events, a buffered packet leaves the
\* FIFO: the route is found, or fn_NetSim_AODV_RetryRREQ gives up in time.
BufferDrains ==
    \A n, d \in Node : dev[n].fifo[d] # <<>> ~> dev[n].fifo[d] = <<>>

\* RREQ.c, fn_NetSim_AODV_ProcessRREQ: "If the device has the Route to the
\* target, it generates a RREP. else it forwards the RREQ."  A device that
\* sees a RREQ of another for the first time answers it or passes it on.
RreqForwarded ==
    [][\A m \in Node :
         \A x \in dev'[m].rreqSeenTable \ dev[m].rreqSeenTable :
            x[1] # m => \E e \in out' \ out : e.node = m]_vars
=============================================================================
