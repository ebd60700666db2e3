-------------------------------- MODULE Dsr --------------------------------
(***************************************************************************)
(* Dynamic source routing (DSR/): route cache, send buffer, route request  *)
(* table and maintenance buffer of every device, and the requests,         *)
(* replies, data packets and network-layer acknowledgements on links that  *)
(* lose frames and break.                                                  *)
(*                                                                         *)
(* An address is the device that has it.  Events are kept with the ticks   *)
(* that are left until they are due; a time stamp that a handler compares  *)
(* with the clock is kept as the ticks left, too.  A data packet carries   *)
(* no source route here: each device looks the next hop up in its own      *)
(* cache, and Segments Left, which RouteError.c subtracts from the length  *)
(* of the option, is never decremented, so that the address list of every  *)
(* route error is empty and the error ends at the device that raised it.   *)
(***************************************************************************)
EXTENDS Integers, Sequences, FiniteSets, SequencesExt

CONSTANTS
    Dev,                    \* the devices
    Links,                  \* the pairs of devices in range, symmetric
    Breakable,              \* the links that may break, each as one pair
    Pkt,                    \* packets of the transport layer, [id, src, dst]
    PktBound,               \* at most this many of them are sent
    LossBound,              \* at most this many frames are lost
    DSR_MAX_REQUEST_REXMT,
    DSR_MaxMaintRexmt,
    DSR_DISCOVERY_HOP_LIMIT,
    NonpropRequestTimeout, DSR_REQUEST_PERIOD, DSR_MAX_REQUEST_PERIOD,
    ROUTE_CACHE_TIMEOUT, MAINT_HOLD_OFF_TIME,   \* in ticks; one hop takes one
    Gap                     \* ticks the transport layer may let pass at most

ASSUME DsrAssumption ==
    /\ Links \subseteq Dev \X Dev /\ \A l \in Links : <<l[2], l[1]>> \in Links
    /\ Breakable \subseteq Links
    /\ \A p \in Pkt : p.src \in Dev
    /\ DSR_MAX_REQUEST_REXMT \in Nat \ {0} /\ DSR_MaxMaintRexmt \in Nat
    /\ {NonpropRequestTimeout, DSR_REQUEST_PERIOD, DSR_MAX_REQUEST_PERIOD,
        ROUTE_CACHE_TIMEOUT, MAINT_HOLD_OFF_TIME, Gap} \subseteq Nat

VARIABLES
    dsr,        \* DSR_DEVICE_VAR of each device
    ev,         \* the pending events: timers, packets to send, frames in the air
    link,       \* the links that are up
    losses,     \* frames lost so far
    todo,       \* packets the transport layer has not sent yet
    delivered,  \* packets that reached their destination
    dropped,    \* packets freed at a retry limit
    acked       \* packets a device let go because their next hop acknowledged

vars == <<dsr, ev, link, losses, todo, delivered, dropped, acked>>

Event(d, k, due, x) == [dev |-> d, kind |-> k, due |-> due, x |-> x]

DeviceVar ==
    [nRREQIdentification |-> 0, cache |-> <<>>, sendBuffer |-> <<>>,
     rreqTable |-> <<>>, maintBuffer |-> <<>>]

Init ==
    /\ dsr = [d \in Dev |-> DeviceVar]
    /\ ev = {}
    /\ link = Links
    /\ losses = 0
    /\ todo = Pkt
    /\ delivered = {}
    /\ dropped = {}
    /\ acked = {}

\* The clock moves on by t ticks.
Sooner(n, t) == IF n > t THEN n - t ELSE 0
Later(t) == {[x EXCEPT !.due = @ - t] : x \in ev}
AgedList(s, t) == [i \in DOMAIN s |-> [s[i] EXCEPT !.left = Sooner(@, t)]]
Aged(v, t) ==
    [v EXCEPT !.cache = AgedList(@, t), !.maintBuffer = AgedList(@, t)]
Ages(t) == [d \in Dev |-> Aged(dsr[d], t)]

\* Frames of d in the air: a broadcast, or one to the device h.
Broadcast(d, x) == {Event(r, "RREQ", 1, x) : r \in {y \in Dev : <<d, y>> \in link}}
Unicast(d, h, k, x) == IF <<d, h>> \in link THEN {Event(h, k, 1, x)} ELSE {}

-----------------------------------------------------------------------------
(* Route cache.                                                            *)

OnRoute(a, route) == a \in Range(route)

UpdateRouteCache_Whole(v, d, route) ==
    [v EXCEPT !.cache = Append(@, [route |-> route, left |-> ROUTE_CACHE_TIMEOUT])]

\* The part of the route from the device on becomes the last entry.
UpdateRouteCache(v, d, route) ==
    LET i == SelectInSeq(route, LAMBDA a : a = d)
    IN  [v EXCEPT !.cache = Append(@, [route |-> SubSeq(route, i, Len(route)),
                                       left |-> ROUTE_CACHE_TIMEOUT])]

Hit(c, a) == SelectInSeq(c, LAMBDA e : e.left > 0 /\ OnRoute(a, e.route))

\* The elements of a list at the places I, in their order.
At(s, I) ==
    LET upto[i \in 0..Len(s)] ==
           IF i = 0 THEN <<>> ELSE IF i \in I THEN Append(upto[i - 1], s[i]) ELSE upto[i - 1]
    IN  upto[Len(s)]

\* The search frees the expired entries it passes and renews the one it finds.
FindCache(c, a) ==
    LET k == Hit(c, a)
        live(s) == At(s, {i \in DOMAIN s : s[i].left > 0})
    IN  IF k = 0 THEN live(c)
        ELSE live(SubSeq(c, 1, k - 1)) \o <<[c[k] EXCEPT !.left = ROUTE_CACHE_TIMEOUT]>>
                                       \o SubSeq(c, k + 1, Len(c))

RouteFound(v, a) == Hit(v.cache, a) # 0
Route(v, a) == v.cache[Hit(v.cache, a)].route
Searched(v, a) == [v EXCEPT !.cache = FindCache(@, a)]

ValidateRouteCache(route, addr) == Range(route) \cap Range(addr) = {}

DeleteEntryFromRouteCache(c, ip1, ip2) ==
    At(c, {k \in DOMAIN c : ~\E i \in 1..(Len(c[k].route) - 1) :
                               c[k].route[i] = ip1 /\ c[k].route[i + 1] = ip2})

-----------------------------------------------------------------------------
(* Route request table.  The event of a timer is named by the              *)
(* identification of its request; 0 is no event.                           *)

RREQEntry(a, id, count, event) ==
    [target |-> a, nIdentification |-> id, nCount |-> count, dBackoff |-> 0,
     nEventId |-> event, flag |-> FALSE]

getRREQTable(tab, a) == SelectInSeq(tab, LAMBDA e : e.target = a /\ ~e.flag)

CheckEntryInRREQTable(tab, id, a) ==
    \E i \in DOMAIN tab : tab[i].nIdentification = id /\ tab[i].target = a

DeleteRREQTable(tab, a) == RemoveFirstMatch(tab, LAMBDA e : e.target = a)

getRREQBackoff(e) ==
    LET doubled == 2 * e.dBackoff
    IN  IF e.dBackoff = 0 THEN DSR_REQUEST_PERIOD
        ELSE IF doubled > DSR_MAX_REQUEST_PERIOD THEN DSR_MAX_REQUEST_PERIOD ELSE doubled

RREQTimer(d, a, id, due) == Event(d, "RREQ_TIMEOUT", due, [target |-> a, id |-> id])
RREQ(src, a, id, ttl) == [src |-> src, target |-> a, id |-> id, ttl |-> ttl, addr |-> <<>>]

-----------------------------------------------------------------------------
(* Send buffer and maintenance buffer.                                     *)

InSendBuffer(b, a) == SelectInSeq(b, LAMBDA e : e.target = a)

AddToSendBuffer(v, p) ==
    LET i == InSendBuffer(v.sendBuffer, p.dst)
    IN  IF i = 0 THEN [v EXCEPT !.sendBuffer = Append(@, [target |-> p.dst, pkts |-> {p}])]
        ELSE [v EXCEPT !.sendBuffer[i].pkts = @ \cup {p}]

EmptySendBuffer_KeepEntry(v, a) ==
    LET i == InSendBuffer(v.sendBuffer, a)
    IN  IF i = 0 THEN v ELSE [v EXCEPT !.sendBuffer[i].pkts = {}]

\* The entry of the target is freed, and with it the packets it holds.
EmptySendBuffer(v, a) ==
    LET i == InSendBuffer(v.sendBuffer, a)
    IN  IF i = 0 THEN v ELSE [v EXCEPT !.sendBuffer = RemoveAt(@, i)]
Buffered(v, a) ==
    LET i == InSendBuffer(v.sendBuffer, a) IN IF i = 0 THEN {} ELSE v.sendBuffer[i].pkts

\* CheckSendBuffer walks the cache once: the search of the first target
\* leaves routeCache at the end of the list for all the others.
CheckSendBuffer(v) ==
    /\ v.sendBuffer # <<>>
    /\ \E e \in Range(v.cache) : OnRoute(Head(v.sendBuffer).target, e.route)

TransmitSendBuffer(d, pkts) == {Event(d, "NETWORK_OUT", 0, p) : p \in pkts}

MaintKey(m) == [hop |-> m.hop, src |-> m.src, dst |-> m.dst]
MaintTimer(d, key) == Event(d, "MAINT_TIMEOUT", MAINT_HOLD_OFF_TIME, key)

InMaintBuffer(m, p, h) == SelectInSeq(m, LAMBDA e : e.hop = h /\ e.src = p.src /\ e.dst = p.dst)

AddToMaintBuffer(v, p, h) ==
    LET m == v.maintBuffer
        i == InMaintBuffer(m, p, h)
        new == [hop |-> h, src |-> p.src, dst |-> p.dst, pkts |-> {p}, count |-> 0,
                left |-> MAINT_HOLD_OFF_TIME]
    IN  IF i = 0 THEN [v EXCEPT !.maintBuffer = Append(@, new)]
        ELSE IF m[i].pkts # {} THEN [v EXCEPT !.maintBuffer[i].pkts = @ \cup {p}]
        ELSE [v EXCEPT !.maintBuffer[i] = [m[i] EXCEPT !.pkts = {p}, !.left = MAINT_HOLD_OFF_TIME]]

MaintArms_NewEntry(m, p, h) == InMaintBuffer(m, p, h) = 0

\* A packet added to an entry that holds none starts the timer of the entry.
MaintArms(m, p, h) ==
    LET i == InMaintBuffer(m, p, h) IN i = 0 \/ m[i].pkts = {}

EmptyMaintBuffer(v, h) ==
    LET m == v.maintBuffer
    IN  [v EXCEPT !.maintBuffer = [i \in DOMAIN m |-> IF m[i].hop = h THEN [m[i] EXCEPT !.pkts = {}]
                                                      ELSE m[i]]]
Maintained(v, h) == UNION {m.pkts : m \in {m \in Range(v.maintBuffer) : m.hop = h}}

-----------------------------------------------------------------------------
\* The transport layer hands a packet down after t ticks, those of a device in
\* their order.
Send ==
    \E p \in todo, t \in 0..Gap :
       /\ \A x \in ev : t <= x.due
       /\ Cardinality(Pkt \ todo) < PktBound
       /\ \A q \in todo : q.src = p.src => p.id <= q.id
       /\ todo' = todo \ {p}
       /\ dsr' = Ages(t)
       /\ ev' = Later(t) \cup {Event(p.src, "NETWORK_OUT", 0, p)}
       /\ UNCHANGED <<link, losses, delivered, dropped, acked>>

\* A link breaks: the devices move apart.
Break ==
    \E l \in Breakable :
       /\ l \in link
       /\ link' = link \ {l, <<l[2], l[1]>>}
       /\ UNCHANGED <<dsr, ev, losses, todo, delivered, dropped, acked>>

\* The next event, and what its handler finds: the other events and the
\* device variables at its time.
First(e) == e \in ev /\ \A x \in ev : e.due <= x.due
Rest(e) == Later(e.due) \ {[e EXCEPT !.due = 0]}

Frames == {"RREQ", "RREP", "DATA", "ACK"}

Lose(e) ==
    /\ e.kind \in Frames
    /\ losses < LossBound
    /\ losses' = losses + 1
    /\ dsr' = Ages(e.due)
    /\ ev' = Rest(e)
    /\ UNCHANGED <<link, todo, delivered, dropped, acked>>

\* GeneralPacketProcessing with a route.
SendOnRoute(e) ==
    LET d == e.dev
        p == e.x
        v == Aged(dsr[d], e.due)
        found == Searched(v, p.dst)
        h == Route(v, p.dst)[2]
    IN  /\ e.kind = "NETWORK_OUT"
        /\ RouteFound(v, p.dst)
        /\ dsr' = [Ages(e.due) EXCEPT ![d] = AddToMaintBuffer(found, p, h)]
        /\ ev' = Rest(e) \cup Unicast(d, h, "DATA", [pkt |-> p, from |-> d])
                         \cup IF MaintArms(v.maintBuffer, p, h)
                              THEN {MaintTimer(d, [hop |-> h, src |-> p.src, dst |-> p.dst])}
                              ELSE {}
        /\ UNCHANGED <<link, losses, todo, delivered, dropped, acked>>

\* Every discovery has an entry of its own.
InitRouteRequest(v, a) ==
    LET id == v.nRREQIdentification + 1
    IN  [v EXCEPT !.nRREQIdentification = id, !.rreqTable = Append(@, RREQEntry(a, id, 1, id))]

\* GeneralPacketProcessing without one: the first packet for a target starts
\* the discovery with a request to the neighbours only.
SendBuffered(e) ==
    LET d == e.dev
        p == e.x
        v == Searched(Aged(dsr[d], e.due), p.dst)
        new == \A b \in Range(v.sendBuffer) : b.target # p.dst
        init == InitRouteRequest(AddToSendBuffer(v, p), p.dst)
        id == init.nRREQIdentification
    IN  /\ e.kind = "NETWORK_OUT"
        /\ ~RouteFound(Aged(dsr[d], e.due), p.dst)
        /\ \/ /\ new
              /\ dsr' = [Ages(e.due) EXCEPT ![d] = init]
              /\ ev' = Rest(e) \cup {RREQTimer(d, p.dst, id, NonpropRequestTimeout)}
                               \cup Broadcast(d, RREQ(d, p.dst, id, 1))
           \/ /\ ~new
              /\ dsr' = [Ages(e.due) EXCEPT ![d] = AddToSendBuffer(v, p)]
              /\ ev' = Rest(e)
        /\ UNCHANGED <<link, losses, todo, delivered, dropped, acked>>

RetryRREQ(v, a) ==
    LET id == v.nRREQIdentification + 1
        i == getRREQTable(v.rreqTable, a)
    IN  [v EXCEPT !.nRREQIdentification = id,
                  !.rreqTable[i].nCount = @ + 1,
                  !.rreqTable[i].nIdentification = id,
                  !.rreqTable[i].dBackoff = getRREQBackoff(v.rreqTable[i]),
                  !.rreqTable[i].nEventId = id]

\* Where there is no request that is not answered the code reads through NULL,
\* and nothing follows.
RREQTimeout(e) ==
    LET d == e.dev
        a == e.x.target
        v == Searched(Aged(dsr[d], e.due), a)
        i == getRREQTable(v.rreqTable, a)
        retry == RetryRREQ(v, a)
        given == EmptySendBuffer(v, a)
        id == retry.nRREQIdentification
    IN  /\ e.kind = "RREQ_TIMEOUT"
        /\ \/ /\ RouteFound(v, a)
              /\ dsr' = [Ages(e.due) EXCEPT ![d] = v]
              /\ ev' = Rest(e)
              /\ UNCHANGED dropped
           \/ /\ ~RouteFound(v, a)
              /\ i # 0 /\ v.rreqTable[i].nCount < DSR_MAX_REQUEST_REXMT
              /\ dsr' = [Ages(e.due) EXCEPT ![d] = retry]
              /\ ev' = Rest(e) \cup {RREQTimer(d, a, id, retry.rreqTable[i].dBackoff)}
                               \cup Broadcast(d, RREQ(d, a, id, DSR_DISCOVERY_HOP_LIMIT))
              /\ UNCHANGED dropped
           \/ /\ ~RouteFound(v, a)
              /\ i # 0 /\ v.rreqTable[i].nCount >= DSR_MAX_REQUEST_REXMT
              /\ dsr' = [Ages(e.due) EXCEPT ![d] = [given EXCEPT !.rreqTable = DeleteRREQTable(@, a)]]
              /\ dropped' = dropped \cup Buffered(v, a)
              /\ ev' = Rest(e)
        /\ UNCHANGED <<link, losses, todo, delivered, acked>>

\* The reply goes back to the device the request came from.
PrevHop(q) == Last(<<q.src>> \o q.addr)
GenerateRREP(d, q) == Unicast(d, PrevHop(q), "RREP", [route |-> <<q.src>> \o q.addr \o <<d>>])

\* The reply of a device that has a cached route: the addresses of the
\* request, then the route up to the target, from behind the initiator where
\* the route passes it.
CachedReply(route, src, addr, a) ==
    LET de == SelectInSeq(route, LAMBDA y : y = a)
        my == SelectInSeq(SubSeq(route, 1, de), LAMBDA y : y = src)
    IN  <<src>> \o addr \o SubSeq(route, my + 1, de)

\* ProcessRREQ notes a request twice before it goes on with it, and once where
\* the device is listed in the request already, which is then dropped.  IP has taken
\* one from the time to live and drops the copy to forward at zero.  A cached
\* route that shares a device with the request is not used, and the request
\* is not forwarded either.
ProcessRREQ(e) ==
    LET d == e.dev
        q == e.x
        v == Aged(dsr[d], e.due)
        once == [v EXCEPT !.rreqTable = Append(@, RREQEntry(q.target, q.id, 1, 0))]
        listed == OnRoute(d, q.addr)
        noted == IF listed THEN once
                 ELSE Searched([once EXCEPT !.rreqTable = Append(@, RREQEntry(q.target, q.id, 0, 0))],
                               q.target)
        known == CheckEntryInRREQTable(v.rreqTable, q.id, q.target)
        fresh == ~known /\ q.target # d
        onward == [q EXCEPT !.addr = Append(@, d), !.ttl = @ - 1]
    IN  /\ e.kind = "RREQ"
        /\ \/ /\ known
              /\ dsr' = Ages(e.due)
              /\ ev' = Rest(e)
           \/ /\ ~known /\ q.target = d
              /\ dsr' = [Ages(e.due) EXCEPT ![d] = once]
              /\ ev' = Rest(e) \cup GenerateRREP(d, q)
           \/ /\ fresh /\ RouteFound(v, q.target)
              /\ dsr' = [Ages(e.due) EXCEPT ![d] = noted]
              /\ LET r == Route(v, q.target)
                 IN  ev' = Rest(e) \cup
                           IF ~listed /\ ValidateRouteCache(r, q.addr)
                           THEN Unicast(d, PrevHop(q), "RREP", [route |-> CachedReply(r, q.src, q.addr, q.target)])
                           ELSE {}
           \/ /\ fresh /\ ~RouteFound(v, q.target)
              /\ dsr' = [Ages(e.due) EXCEPT ![d] = noted]
              /\ ev' = Rest(e) \cup IF listed \/ onward.ttl = 0 THEN {} ELSE Broadcast(d, onward)
        /\ UNCHANGED <<link, losses, todo, delivered, dropped, acked>>

\* The initiator marks the request answered and cancels its timer.
Answered(v, a) ==
    LET i == getRREQTable(v.rreqTable, a)
    IN  IF i = 0 THEN v ELSE [v EXCEPT !.rreqTable[i].flag = TRUE]
Cancelled(d, v, a) ==
    LET i == getRREQTable(v.rreqTable, a)
    IN  IF i = 0 THEN {} ELSE {x \in ev : x.dev = d /\ x.kind = "RREQ_TIMEOUT"
                                          /\ x.x.id = v.rreqTable[i].nEventId}

ForwardRREP(d, x) ==
    Unicast(d, x.route[SelectInSeq(x.route, LAMBDA y : y = d) - 1], "RREP", x)

ProcessRREP(e) ==
    LET d == e.dev
        route == e.x.route
        v == UpdateRouteCache(Aged(dsr[d], e.due), d, route)
        sent == IF CheckSendBuffer(v) THEN Head(v.sendBuffer).pkts ELSE {}
        left == IF CheckSendBuffer(v) THEN [v EXCEPT !.sendBuffer = Tail(@)] ELSE v
        a == Last(route)
    IN  /\ e.kind = "RREP"
        /\ \/ /\ route[1] = d
              /\ dsr' = [Ages(e.due) EXCEPT ![d] = Answered(left, a)]
              /\ ev' = {[x EXCEPT !.due = @ - e.due] : x \in ev \ ({e} \cup Cancelled(d, v, a))}
                       \cup TransmitSendBuffer(d, sent)
           \/ /\ route[1] # d
              /\ dsr' = [Ages(e.due) EXCEPT ![d] = left]
              /\ ev' = Rest(e) \cup TransmitSendBuffer(d, sent)  \cup ForwardRREP(d, e.x)
        /\ UNCHANGED <<link, losses, todo, delivered, dropped, acked>>

Process_AckRequestOption(d, to) == Unicast(d, to, "ACK", [from |-> d])

\* A data packet comes in: acknowledged to its transmitter, then moved up or
\* given back to the network layer for the next hop.
ProcessSourceRouteOption(e) ==
    LET d == e.dev
        p == e.x.pkt
    IN  /\ e.kind = "DATA"
        /\ dsr' = Ages(e.due)
        /\ \/ /\ p.dst = d
              /\ delivered' = delivered \cup {p}
              /\ ev' = Rest(e) \cup Process_AckRequestOption(d, e.x.from)
           \/ /\ p.dst # d
              /\ ev' = Rest(e) \cup Process_AckRequestOption(d, e.x.from) \cup {Event(d, "NETWORK_OUT", 0, p)}
              /\ UNCHANGED delivered
        /\ UNCHANGED <<link, losses, todo, dropped, acked>>

\* An acknowledgement clears every packet sent to that neighbour.
ProcessAckOption(e) ==
    LET v == Aged(dsr[e.dev], e.due)
    IN  /\ e.kind = "ACK"
        /\ dsr' = [Ages(e.due) EXCEPT ![e.dev] = EmptyMaintBuffer(v, e.x.from)]
        /\ acked' = acked \cup Maintained(v, e.x.from)
        /\ ev' = Rest(e)
        /\ UNCHANGED <<link, losses, todo, delivered, dropped>>

RetransmitBuffer_One(d, pkts) == {Event(d, "NETWORK_OUT", 0, CHOOSE p \in pkts : TRUE)}
RetransmitBuffer(d, pkts) == {Event(d, "NETWORK_OUT", 0, p) : p \in pkts}

GenerateRERR(d, h) == Event(d, "PROCESS_RERR", 0, [hop |-> h])

\* The entry i of the maintenance buffer after its packets went out again, and
\* with the retry count at zero.
Retransmitted(v, i) ==
    LET m == v.maintBuffer[i]
    IN  [v EXCEPT !.maintBuffer[i] = [m EXCEPT !.count = m.count + 1, !.pkts = {}]]
ResetCount(v, i) == [v EXCEPT !.maintBuffer[i].count = 0]

\* The timer of an entry that was emptied and filled again in between comes
\* too early and is ignored.
MaintTimeout(e) ==
    LET d == e.dev
        v == Aged(dsr[d], e.due)
        i == SelectInSeq(v.maintBuffer, LAMBDA m : MaintKey(m) = e.x)
        m == v.maintBuffer[i]
        due == i # 0 /\ m.left = 0 /\ m.pkts # {}
    IN  /\ e.kind = "MAINT_TIMEOUT"
        /\ \/ /\ ~due
              /\ dsr' = Ages(e.due)
              /\ ev' = Rest(e)
              /\ UNCHANGED dropped
           \/ /\ due /\ m.count < DSR_MaxMaintRexmt
              /\ dsr' = [Ages(e.due) EXCEPT ![d] = Retransmitted(v, i)]
              /\ ev' = Rest(e) \cup RetransmitBuffer(d, m.pkts)
              /\ UNCHANGED dropped
           \/ /\ due /\ m.count >= DSR_MaxMaintRexmt
              /\ dsr' = [Ages(e.due) EXCEPT ![d] = ResetCount(EmptyMaintBuffer(v, m.hop), i)]
              /\ dropped' = dropped \cup Maintained(v, m.hop)
              /\ ev' = Rest(e) \cup {GenerateRERR(d, m.hop)}
        /\ UNCHANGED <<link, losses, todo, delivered, acked>>

ProcessRerr(e) ==
    LET v == Aged(dsr[e.dev], e.due)
    IN  /\ e.kind = "PROCESS_RERR"
        /\ dsr' = [Ages(e.due) EXCEPT
                     ![e.dev] = [v EXCEPT !.cache = DeleteEntryFromRouteCache(@, e.dev, e.x.hop)]]
        /\ ev' = Rest(e)
        /\ UNCHANGED <<link, losses, todo, delivered, dropped, acked>>

Handle(e) ==
    \/ SendOnRoute(e) \/ SendBuffered(e) \/ RREQTimeout(e) \/ ProcessRREQ(e) \/ ProcessRREP(e)
    \/ ProcessSourceRouteOption(e) \/ ProcessAckOption(e) \/ MaintTimeout(e) \/ ProcessRerr(e)

Run == \E e \in ev : First(e) /\ Handle(e)

Next ==
    \/ Send
    \/ Break
    \/ \E e \in ev : First(e) /\ Lose(e)
    \/ Run

\* The kernel goes on as long as an event is pending.
Spec == Init /\ [][Next]_vars /\ WF_vars(Run)

-----------------------------------------------------------------------------
(* Properties.                                                             *)

\* Every route in a cache begins at the device that keeps it, so that the
\* second address, which CheckRouteFound takes for the next hop, exists, and
\* visits no device twice: what initiators, forwarders and cached replies put
\* together never sends a packet in a circle.
CacheUsable ==
    \A d \in Dev : \A e \in Range(dsr[d].cache) :
       /\ Len(e.route) >= 2
       /\ e.route[1] = d
       /\ IsInjective(e.route)

\* A packet in the send buffer has a pending RREQ_TIMEOUT of its target: the
\* discovery goes on until a reply serves the buffer or the limit empties it.
WaitingArmed ==
    \A d \in Dev : \A b \in Range(dsr[d].sendBuffer) :
       \E x \in ev : x.dev = d /\ x.kind = "RREQ_TIMEOUT" /\ x.x.target = b.target

\* A packet the transport layer handed down is never just forgotten, and never
\* only in the air: some device has it to send or holds a copy in one of its
\* buffers until the packet was delivered, given up or acknowledged.  A frame
\* with the packet does not count, for it may be lost.
PacketsAccounted ==
    \A p \in Pkt \ todo :
       \/ p \in delivered \cup dropped \cup acked
       \/ \E x \in ev : x.kind = "NETWORK_OUT" /\ x.x = p
       \/ \E d \in Dev : \/ \E b \in Range(dsr[d].sendBuffer) : p \in b.pkts
                         \/ \E m \in Range(dsr[d].maintBuffer) : p \in m.pkts

\* No packet stays in a buffer for ever.
EventuallySettled ==
    \A p \in Pkt : (p \notin todo) ~> (\A d \in Dev :
       /\ \A b \in Range(dsr[d].sendBuffer) : p \notin b.pkts
       /\ \A m \in Range(dsr[d].maintBuffer) : p \notin m.pkts)

\* SendBuffer.c: "checks if the route cache has the route to the target and
\* transmits the packet if it has" - after a reply no packet is left waiting
\* for a target to which the cache has a route.
SendBufferServed ==
    [][\A e \in ev : First(e) /\ ProcessRREP(e) =>
         \A b \in Range(dsr[e.dev].sendBuffer)' : ~RouteFound(dsr[e.dev], b.target)']_vars
=============================================================================
