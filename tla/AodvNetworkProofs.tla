-------------------------- MODULE AodvNetworkProofs --------------------------
(***************************************************************************)
(* Proofs about AodvNetwork, for every set of devices, every topology and  *)
(* every traffic, with any number of losses and repetitions on the radio.  *)
(***************************************************************************)
EXTENDS AodvNetwork, AodvTablesProofs

(* The packets, with hop counts of any size: HopCount has eight bits in    *)
(* the code, and whether it ever overflows is not decided here.            *)

DataPacket == [kind: {"DATA"}, id: Nat, src: Node, dst: Node]

RreqPacket == [kind: {"RREQ"}, ttl: Nat, id: Nat, orig: Node, oseq: Nat,
               dest: Node, dseq: Nat, hop: Nat, last: Node]

RrepPacket == [kind: {"RREP"}, ttl: Nat, dest: Node, dseq: Nat, hop: Nat,
               last: Node, life: Nat, orig: Node, bcast: BOOLEAN,
               congestion: BOOLEAN]

\* Of packets, events and copies, with the devices D and the time t.  A packet
\* says nothing that is ahead of the device it is about: no number that the
\* device has not used, no RREQ that its originator does not know.
PacketOK(D, t, p) ==
    /\ p \in DataPacket \cup RreqPacket \cup RrepPacket \cup RERR
    /\ p.kind = "RREQ" => /\ p.oseq <= D[p.orig].nSequenceNumber
                          /\ p.dseq <= D[p.dest].nSequenceNumber
                          /\ <<p.orig, p.id>> \in D[p.orig].rreqSeenTable
    /\ p.kind = "RREP" => /\ p.dseq <= D[p.dest].nSequenceNumber
                          /\ p.life <= t + DELETE_PERIOD

\* n has entered the RREQ p in its seen table.
Marked(D, n, p) == p.kind = "RREQ" => <<p.orig, p.id>> \in D[n].rreqSeenTable

EventOK(D, t, e) ==
    /\ e.node \in Node
    /\ e.rcv \in Node \cup {Broadcast}
    /\ PacketOK(D, t, e.pkt)
    /\ Marked(D, e.node, e.pkt)

CopyOK(D, t, c) ==
    /\ c.tx \in Node /\ c.rx \in Node
    /\ PacketOK(D, t, c.pkt)
    /\ Marked(D, c.tx, c.pkt)
    /\ ~IsData(c.pkt) => c.pkt.ttl >= 1

\* The fields of AODV_DEVICE_VAR, the ones the properties speak of typed.
DeviceFields == {"nSequenceNumber", "fifo", "routeTable", "rreqSeenTable",
                 "rreqSentTable", "precursors", "precAllocated",
                 "dLastBroadcastTime", "nRerrCount", "ncounter"}

IsDevice(dv) ==
    /\ DOMAIN dv = DeviceFields
    /\ dv = [f \in DeviceFields |-> dv[f]]
    /\ dv.nSequenceNumber \in Nat
    /\ dv.fifo \in [Node -> Seq(DataPacket)]

Types ==
    /\ now \in Nat /\ nRREQId \in Nat /\ nData \in Nat
    /\ dev = [n \in Node |-> dev[n]]
    /\ routeTimers = [n \in Node |-> routeTimers[n]]
    /\ rreqTimers = [n \in Node |-> rreqTimers[n]]
    /\ \A n \in Node : IsDevice(dev[n])

\* The route table of n is well-formed and every entry awaits its check.
TableOK(n) ==
    /\ Good(dev[n].routeTable, now)
    /\ routeTimers[n] \subseteq RouteTimer
    /\ Covered(dev[n].routeTable, routeTimers[n], now)

\* The route table of n holds nothing about n and no number of another
\* device that the device has not used.
SeqOK(n) == \A d \in DOMAIN dev[n].routeTable :
    d # n /\ dev[n].routeTable[d].seq <= dev[d].nSequenceNumber

\* Every RREQ n has entered as sent awaits its timeout, on the ladder of the
\* expanding ring.
SentOK(n) ==
    /\ rreqTimers[n] \subseteq RouteTimer
    /\ DOMAIN dev[n].rreqSentTable \subseteq Node
    /\ \A d \in DOMAIN dev[n].rreqSentTable :
          LET s == dev[n].rreqSentTable[d]
          IN  /\ s \in SentEntry
              /\ [dest |-> d, at |-> s.timeout] \in rreqTimers[n]
              /\ s.timeout >= now
              /\ s.times <= RREQ_RETRIES + 1
              /\ s.ttl <= NET_DIAMETER + 1

\* The inductive invariant.
NetInv ==
    /\ Types
    /\ \A n \in Node : TableOK(n) /\ SeqOK(n) /\ SentOK(n)
    /\ \A e \in out : EventOK(dev, now, e)
    /\ \A c \in air : CopyOK(dev, now, c)

\* What no step takes back: the clock, the own sequence numbers and the seen
\* tables only grow.
Monotone ==
    /\ now' >= now
    /\ \A n \in Node :
          /\ dev'[n].nSequenceNumber >= dev[n].nSequenceNumber
          /\ dev[n].rreqSeenTable \subseteq dev'[n].rreqSeenTable

\* What a step may do to the route table of n.
CacheStep(n) ==
    LET rt == dev[n].routeTable
        r == dev'[n].routeTable
    IN  \/ now' = now /\ r = rt
        \/ now' = now /\ Good(r, now) /\ Grows(rt, r, now)
        \/ now' = now /\ \E d \in DOMAIN rt :
                            rt[d].life = now /\ r = RemoveRoute(rt, d)
        \/ /\ now' \in Nat /\ now' > now /\ r = rt
           /\ \A d \in DOMAIN rt : now' <= rt[d].life

-----------------------------------------------------------------------------
(* Packets.                                                                *)

\* The kind of a packet tells its fields.
LEMMA PacketKind ==
    ASSUME NEW D, NEW t, NEW p, PacketOK(D, t, p)
    PROVE  /\ p.kind \in {"DATA", "RREQ", "RREP", "RERR"}
           /\ p.kind = "DATA" => p \in DataPacket
           /\ p.kind = "RREQ" => p \in RreqPacket
           /\ p.kind = "RREP" => p \in RrepPacket
           /\ p.kind = "RERR" => p \in RERR
  BY DEF PacketOK, DataPacket, RreqPacket, RrepPacket, RERR

\* A packet that was in order stays so.
LEMMA PacketKept ==
    ASSUME Types, Types', Monotone, NEW p, PacketOK(dev, now, p)
    PROVE  PacketOK(dev', now', p)
<1>1. CASE p.kind = "RREQ"
  <2>1. p \in RreqPacket
    BY <1>1, PacketKind
  <2>2. p.orig \in Node /\ p.dest \in Node /\ p.oseq \in Nat /\ p.dseq \in Nat
    BY <2>1 DEF RreqPacket
  <2>3. \A n \in Node : dev[n].nSequenceNumber \in Nat
                        /\ dev'[n].nSequenceNumber \in Nat
    BY DEF Types, IsDevice
  <2> QED
    BY <1>1, <2>1, <2>2, <2>3 DEF PacketOK, Monotone
<1>2. CASE p.kind = "RREP"
  <2>1. p \in RrepPacket
    BY <1>2, PacketKind
  <2>2. p.dest \in Node /\ p.dseq \in Nat /\ p.life \in Nat
    BY <2>1 DEF RrepPacket
  <2>3. \A n \in Node : dev[n].nSequenceNumber \in Nat
                        /\ dev'[n].nSequenceNumber \in Nat
    BY DEF Types, IsDevice
  <2>4. now \in Nat /\ now' \in Nat
    BY DEF Types
  <2> QED
    BY <1>2, <2>1, <2>2, <2>3, <2>4, Timeouts DEF PacketOK, Monotone
<1>3. CASE p.kind \notin {"RREQ", "RREP"}
  BY <1>3 DEF PacketOK
<1> QED
  BY <1>1, <1>2, <1>3

\* The packet that leaves the transmitter is the one given to it, up to the
\* congestion flag.
LEMMA CopyKept ==
    ASSUME NEW D, NEW t, NEW p, PacketOK(D, t, p)
    PROVE  LET q == CopyPacket(p)
           IN  /\ PacketOK(D, t, q) /\ q.kind = p.kind
               /\ p.kind = "RREQ" => q = p
               /\ p.kind # "DATA" => q.ttl = p.ttl
               /\ p.kind = "DATA" => q = p
<1>1. CASE p.kind = "RREP"
  <2>1. p \in RrepPacket
    BY <1>1, PacketKind
  <2>2. CopyPacket(p) = [p EXCEPT !.congestion = FALSE]
    BY <1>1 DEF CopyPacket
  <2> QED
    BY <1>1, <2>1, <2>2 DEF PacketOK, RrepPacket
<1>2. CASE p.kind # "RREP"
  BY <1>2 DEF CopyPacket
<1> QED
  BY <1>1, <1>2

\* The copies of a packet in order are in order.
LEMMA CopiesOK ==
    ASSUME NEW D, NEW t, NEW n \in Node, NEW p, NEW rcv,
           PacketOK(D, t, p), Marked(D, n, p),
           ~IsData(p) => p.ttl >= 1, NEW c \in Copies(n, p, rcv)
    PROVE  CopyOK(D, t, c)
<1>1. PICK m \in Node : c = [tx |-> n, rx |-> m, pkt |-> CopyPacket(p),
                             at |-> now]
  BY DEF Copies
<1>2. c.tx = n /\ c.rx \in Node /\ c.pkt = CopyPacket(p)
  BY <1>1
<1> QED
  BY <1>2, CopyKept DEF CopyOK, Marked, IsData

\* The packet after the IP layer has taken one from its TTL.
LEMMA ReceivedOK ==
    ASSUME NEW D, NEW t, NEW c, CopyOK(D, t, c)
    PROVE  LET p == IF IsData(c.pkt) THEN c.pkt
                    ELSE [c.pkt EXCEPT !.ttl = @ - 1]
           IN  PacketOK(D, t, p) /\ p.kind = c.pkt.kind
<1> DEFINE q == c.pkt
           p == [q EXCEPT !.ttl = @ - 1]
<1>1. CASE IsData(q)
  BY <1>1 DEF CopyOK
<1>2. CASE ~IsData(q)
  <2>1. PacketOK(D, t, q) /\ q.ttl >= 1 /\ q.kind \in {"RREQ", "RREP", "RERR"}
    BY <1>2, PacketKind DEF CopyOK, IsData
  <2> HIDE DEF q
  <2>2. CASE q.kind = "RREQ"
    <3>1. q \in RreqPacket
      BY <2>1, <2>2, PacketKind
    <3>2. p \in RreqPacket /\ p.kind = q.kind /\ p.oseq = q.oseq
          /\ p.orig = q.orig /\ p.dest = q.dest /\ p.dseq = q.dseq
          /\ p.id = q.id
      BY <2>1, <3>1 DEF RreqPacket
    <3> HIDE DEF p
    <3>3. PacketOK(D, t, p)
      BY <2>1, <2>2, <3>2 DEF PacketOK
    <3> QED
      BY <1>2, <3>2, <3>3 DEF q, p
  <2>3. CASE q.kind = "RREP"
    <3>1. q \in RrepPacket
      BY <2>1, <2>3, PacketKind
    <3>2. p \in RrepPacket /\ p.kind = q.kind /\ p.dest = q.dest
          /\ p.dseq = q.dseq /\ p.life = q.life
      BY <2>1, <3>1 DEF RrepPacket
    <3> HIDE DEF p
    <3>3. PacketOK(D, t, p)
      BY <2>1, <2>3, <3>2 DEF PacketOK
    <3> QED
      BY <1>2, <3>2, <3>3 DEF q, p
  <2>4. CASE q.kind = "RERR"
    <3>1. q \in RERR
      BY <2>1, <2>4, PacketKind
    <3>2. p \in RERR /\ p.kind = q.kind
      BY <2>1, <3>1 DEF RERR
    <3> HIDE DEF p
    <3>3. PacketOK(D, t, p)
      BY <2>1, <2>4, <3>2 DEF PacketOK
    <3> QED
      BY <1>2, <3>2, <3>3 DEF q, p
  <2> QED
    BY <2>1, <2>2, <2>3, <2>4
<1> QED
  BY <1>1, <1>2

-----------------------------------------------------------------------------
(* Steps that change one device.                                           *)

\* The own sequence numbers are natural numbers.
LEMMA Numbers ==
    ASSUME NetInv
    PROVE  now \in Nat /\ \A n \in Node : dev[n].nSequenceNumber \in Nat
  BY DEF NetInv, Types, IsDevice

\* The events and the copies under way stay in order.
LEMMA TrafficKept ==
    ASSUME NetInv, Types', Monotone
    PROVE  /\ \A e \in out : EventOK(dev', now', e)
           /\ \A c \in air : CopyOK(dev', now', c)
<1>1. ASSUME NEW e \in out PROVE EventOK(dev', now', e)
  <2>1. EventOK(dev, now, e)
    BY DEF NetInv
  <2>2. PacketOK(dev', now', e.pkt)
    BY <2>1, PacketKept DEF EventOK, NetInv
  <2> QED
    BY <2>1, <2>2 DEF EventOK, Marked, Monotone
<1>2. ASSUME NEW c \in air PROVE CopyOK(dev', now', c)
  <2>1. CopyOK(dev, now, c)
    BY DEF NetInv
  <2>2. PacketOK(dev', now', c.pkt)
    BY <2>1, PacketKept DEF CopyOK, NetInv
  <2> QED
    BY <2>1, <2>2 DEF CopyOK, Marked, Monotone
<1> QED
  BY <1>1, <1>2

\* The other devices' tables stay in order.
LEMMA SeqKept ==
    ASSUME NetInv, Types', Monotone, NEW k \in Node,
           dev'[k].routeTable = dev[k].routeTable
    PROVE  SeqOK(k)'
<1>1. SeqOK(k) /\ Good(dev[k].routeTable, now)
  BY DEF NetInv, TableOK
<1>2. ASSUME NEW d \in DOMAIN dev[k].routeTable
      PROVE  d # k /\ dev[k].routeTable[d].seq <= dev'[d].nSequenceNumber
  <2>1. d # k /\ dev[k].routeTable[d].seq <= dev[d].nSequenceNumber
    BY <1>1 DEF SeqOK
  <2>2. d \in Node /\ dev[k].routeTable[d].seq \in Nat
    BY <1>1 DEF Good, IsRouteTable, RouteEntry
  <2>3. /\ dev[d].nSequenceNumber \in Nat /\ dev'[d].nSequenceNumber \in Nat
        /\ dev'[d].nSequenceNumber >= dev[d].nSequenceNumber
    BY <2>2 DEF NetInv, Types, IsDevice, Monotone
  <2> QED
    BY <2>1, <2>2, <2>3
<1> QED
  BY <1>2 DEF SeqOK

\* What is left to show of a step in which only the device m does something.
OnlyAt(m) ==
    /\ now' = now
    /\ \A k \in Node \ {m} : /\ dev'[k] = dev[k]
                             /\ routeTimers'[k] = routeTimers[k]
                             /\ rreqTimers'[k] = rreqTimers[k]

NewTraffic ==
    /\ \A e \in out' : e \in out \/ EventOK(dev', now', e)
    /\ \A c \in air' : c \in air \/ CopyOK(dev', now', c)

\* What is shown of every step.
StepOK == NetInv' /\ \A n \in Node : CacheStep(n)

\* A step of one device keeps the invariant when the device and what it has
\* sent are in order.
LEMMA OneDevice ==
    ASSUME NetInv, Types', Monotone, NEW m \in Node, OnlyAt(m),
           TableOK(m)', SeqOK(m)', SentOK(m)', CacheStep(m), NewTraffic
    PROVE  StepOK
<1>1. ASSUME NEW k \in Node, k # m
      PROVE  TableOK(k)' /\ SeqOK(k)' /\ SentOK(k)' /\ CacheStep(k)
  <2>1. /\ now' = now /\ dev'[k] = dev[k] /\ routeTimers'[k] = routeTimers[k]
        /\ rreqTimers'[k] = rreqTimers[k]
    BY <1>1 DEF OnlyAt
  <2>2. TableOK(k) /\ SentOK(k)
    BY DEF NetInv
  <2>3. TableOK(k)'
    BY <2>1, <2>2 DEF TableOK
  <2>4. SentOK(k)'
    BY <2>1, <2>2 DEF SentOK
  <2>5. SeqOK(k)'
    BY <2>1, SeqKept
  <2>6. CacheStep(k)
    BY <2>1 DEF CacheStep
  <2> QED
    BY <2>3, <2>4, <2>5, <2>6
<1>2. \A e \in out' : EventOK(dev', now', e)
  BY TrafficKept DEF NewTraffic
<1>3. \A c \in air' : CopyOK(dev', now', c)
  BY TrafficKept DEF NewTraffic
<1>4. NetInv'
  BY <1>1, <1>2, <1>3 DEF NetInv
<1> QED
  BY <1>1, <1>4 DEF StepOK

\* A step that changes no device.
LEMMA NoDevice ==
    ASSUME NetInv, Types', now' = now, dev' = dev,
           UNCHANGED <<routeTimers, rreqTimers>>, NewTraffic
    PROVE  StepOK
<1>0. Monotone
  BY DEF Monotone, NetInv, Types, IsDevice
<1>1. \A n \in Node : CacheStep(n)
  BY DEF CacheStep
<1>2. \A n \in Node : TableOK(n)' /\ SeqOK(n)' /\ SentOK(n)'
  BY DEF NetInv, TableOK, SeqOK, SentOK
<1>3. /\ \A e \in out' : EventOK(dev', now', e)
      /\ \A c \in air' : CopyOK(dev', now', c)
  BY <1>0, TrafficKept DEF NewTraffic
<1> QED
  BY <1>1, <1>2, <1>3 DEF NetInv, StepOK

\* An event that a device schedules, field by field.
LEMMA OutEventOK ==
    ASSUME NEW D, NEW t, NEW n \in Node, NEW p, NEW rcv, NEW routed,
           rcv \in Node \cup {Broadcast}, PacketOK(D, t, p), Marked(D, n, p)
    PROVE  EventOK(D, t, OutEvent(n, p, rcv, routed))
  BY DEF EventOK, OutEvent

\* A data packet is in order whatever the state.
LEMMA DataOK ==
    ASSUME NEW D, NEW t, NEW p \in DataPacket, NEW n
    PROVE  PacketOK(D, t, p) /\ Marked(D, n, p) /\ IsData(p)
  BY DEF PacketOK, Marked, DataPacket, IsData

\* A data packet that is in order.
LEMMA IsDataPacket ==
    ASSUME NEW D, NEW t, NEW p, PacketOK(D, t, p), IsData(p)
    PROVE  p \in DataPacket /\ p.src \in Node /\ p.dst \in Node /\ p.id \in Nat
<1>1. p \in DataPacket
  BY PacketKind DEF IsData
<1> QED
  BY <1>1 DEF DataPacket

-----------------------------------------------------------------------------
(* Sending.                                                                *)

\* An application's packet is a data packet in order.
LEMMA StepAppSend ==
    ASSUME NetInv, NEW f \in Flow, AppSend(f[1], f[2], f[3])
    PROVE  StepOK
<1>1. f[1] \in Node /\ f[2] \in Node
  BY NetworkAssumption
<1> DEFINE p == Data(nData', f[1], f[2])
<1>2. p \in DataPacket
  BY <1>1 DEF AppSend, Data, DataPacket, NetInv, Types
<1>3. /\ out' = out \cup {OutEvent(f[1], p, Broadcast, FALSE)} /\ air' = air
      /\ UNCHANGED <<now, nRREQId, dev, routeTimers, rreqTimers>>
      /\ nData' = nData + 1
  BY DEF AppSend, timers
<1> HIDE DEF p
<1>4. Types'
  BY <1>3 DEF NetInv, Types
<1>5. EventOK(dev', now', OutEvent(f[1], p, Broadcast, FALSE))
  BY <1>1, <1>2, DataOK, OutEventOK
<1>6. NewTraffic
  BY <1>3, <1>5 DEF NewTraffic
<1> QED
  BY <1>3, <1>4, <1>6, NoDevice

\* A step in which the route table of a device is refreshed and nothing else
\* of the devices changes.
LEMMA TableOnly ==
    ASSUME NetInv, NEW m \in Node, NEW r,
           now' = now, nRREQId' = nRREQId, nData' = nData,
           dev' = [dev EXCEPT ![m].routeTable = r],
           UNCHANGED <<routeTimers, rreqTimers>>,
           Good(r, now), Grows(dev[m].routeTable, r, now),
           DOMAIN r = DOMAIN dev[m].routeTable,
           \A d \in DOMAIN r : r[d].seq = dev[m].routeTable[d].seq
    PROVE  /\ Types' /\ Monotone /\ OnlyAt(m) /\ TableOK(m)' /\ SeqOK(m)'
           /\ SentOK(m)' /\ CacheStep(m)
<1>1. IsDevice(dev[m]) /\ dev = [k \in Node |-> dev[k]]
  BY DEF NetInv, Types
<1>2. /\ dev' = [k \in Node |-> dev'[k]]
      /\ \A k \in Node \ {m} : dev'[k] = dev[k]
      /\ dev'[m].routeTable = r
      /\ dev'[m].nSequenceNumber = dev[m].nSequenceNumber
      /\ dev'[m].rreqSeenTable = dev[m].rreqSeenTable
      /\ dev'[m].rreqSentTable = dev[m].rreqSentTable
      /\ IsDevice(dev'[m])
  BY <1>1 DEF IsDevice, DeviceFields
<1>3. Types'
  BY <1>2 DEF NetInv, Types
<1>4. Monotone
  BY <1>2 DEF Monotone, NetInv, Types, IsDevice
<1>5. OnlyAt(m)
  BY <1>2 DEF OnlyAt
<1>6. TableOK(m)'
  <2>1. TableOK(m) /\ now \in Nat
    BY DEF NetInv, Types
  <2>2. Covered(r, routeTimers[m], now)
    BY <2>1, CoveredKept DEF TableOK
  <2> QED
    BY <1>2, <2>1, <2>2 DEF TableOK
<1>7. SentOK(m)'
  <2>1. SentOK(m)
    BY DEF NetInv
  <2> QED
    BY <1>2, <2>1 DEF SentOK
<1>8. SeqOK(m)'
  <2>1. SeqOK(m) /\ Good(dev[m].routeTable, now)
    BY DEF NetInv, TableOK
  <2>2. \A d \in DOMAIN r : d \in Node
    BY <2>1 DEF Good, IsRouteTable
  <2>3. \A d \in Node : dev'[d].nSequenceNumber = dev[d].nSequenceNumber
    BY <1>2
  <2> QED
    BY <1>2, <2>1, <2>2, <2>3 DEF SeqOK
<1>9. CacheStep(m)
  BY <1>2 DEF CacheStep
<1> QED
  BY <1>3, <1>4, <1>5, <1>6, <1>7, <1>8, <1>9

\* The lifetime of an active route is admissible.
LEMMA ActiveLife ==
    ASSUME NetInv
    PROVE  /\ now + ACTIVE_ROUTE_TIMEOUT \in Nat
           /\ now + ACTIVE_ROUTE_TIMEOUT <= now + DELETE_PERIOD
  BY Timeouts DEF NetInv, Types

\* UpdateRouteTable in the terms of TableOnly.
LEMMA UpdateStep ==
    ASSUME NEW rt, NEW t \in Nat, Good(rt, t), NEW ip \in Node, NEW lt \in Nat,
           lt <= t + DELETE_PERIOD, NEW r, r = UpdateRouteTable(rt, ip, lt)
    PROVE  /\ Good(r, t) /\ Grows(rt, r, t) /\ DOMAIN r = DOMAIN rt
           /\ \A d \in DOMAIN r : r[d].seq = rt[d].seq
  BY UpdateGood, UpdateKeeps

\* A data packet that finds its route keeps the route alive and goes on air.
LEMMA StepRouteData ==
    ASSUME NetInv, NEW e \in out, RouteData(e)
    PROVE  StepOK
<1> DEFINE n == e.node
           rt == dev[n].routeTable
           r == UpdateRouteTable(rt, e.pkt.dst, now + ACTIVE_ROUTE_TIMEOUT)
           next == FindNextHop(rt, e.pkt.dst)
<1>1. EventOK(dev, now, e) /\ IsData(e.pkt)
  BY DEF NetInv, RouteData
<1>2. n \in Node /\ e.pkt.dst \in Node /\ e.pkt \in DataPacket
  BY <1>1, IsDataPacket DEF EventOK
<1>3. /\ dev' = [dev EXCEPT ![n].routeTable = r]
      /\ air' = air \cup Copies(n, e.pkt, next)
      /\ out' = out \ {e}
      /\ now' = now /\ nRREQId' = nRREQId /\ nData' = nData
      /\ UNCHANGED <<routeTimers, rreqTimers>>
  BY DEF RouteData, timers, dataFate
<1>4. /\ Good(r, now) /\ Grows(rt, r, now) /\ DOMAIN r = DOMAIN rt
      /\ \A d \in DOMAIN r : r[d].seq = rt[d].seq
  <2>1. Good(rt, now) /\ now \in Nat
    BY <1>2 DEF NetInv, TableOK, Types
  <2> HIDE DEF rt
  <2> QED
    BY <1>2, <2>1, ActiveLife, UpdateStep
<1>5. ASSUME NEW c \in Copies(n, e.pkt, next) PROVE CopyOK(dev', now', c)
  <2> HIDE DEF n, next
  <2> QED
    BY <1>2, DataOK, CopiesOK
<1> HIDE DEF r, n, next
<1>6. NewTraffic
  BY <1>3, <1>5 DEF NewTraffic
<1>7. /\ Types' /\ Monotone /\ OnlyAt(n) /\ TableOK(n)' /\ SeqOK(n)'
      /\ SentOK(n)' /\ CacheStep(n)
  BY <1>2, <1>3, <1>4, TableOnly
<1> QED
  BY <1>2, <1>6, <1>7, OneDevice

\* A step that leaves the route table, its checks and the numbers of a device
\* alone.
LEMMA TableUntouched ==
    ASSUME NetInv, Types', Monotone, NEW m \in Node, now' = now,
           dev'[m].routeTable = dev[m].routeTable,
           routeTimers'[m] = routeTimers[m]
    PROVE  TableOK(m)' /\ SeqOK(m)' /\ CacheStep(m)
<1>1. SeqOK(m)'
  BY SeqKept
<1>2. TableOK(m)'
  BY DEF NetInv, TableOK
<1> QED
  BY <1>1, <1>2 DEF CacheStep

\* A step that changes nothing of the devices that the invariant speaks of
\* but a FIFO.
LEMMA Harmless ==
    ASSUME NetInv, NEW m \in Node,
           now' = now, nRREQId' = nRREQId, nData' = nData,
           UNCHANGED <<routeTimers, rreqTimers>>,
           dev' = [k \in Node |-> dev'[k]],
           \A k \in Node \ {m} : dev'[k] = dev[k],
           dev'[m].routeTable = dev[m].routeTable,
           dev'[m].nSequenceNumber = dev[m].nSequenceNumber,
           dev'[m].rreqSeenTable = dev[m].rreqSeenTable,
           dev'[m].rreqSentTable = dev[m].rreqSentTable,
           IsDevice(dev'[m]), NewTraffic
    PROVE  StepOK
<1>1. Types'
  BY DEF NetInv, Types
<1>2. Monotone
  BY Numbers DEF Monotone
<1>3. OnlyAt(m)
  BY DEF OnlyAt
<1>4. SentOK(m)'
  <2>1. SentOK(m)
    BY DEF NetInv
  <2> QED
    BY <2>1 DEF SentOK
<1>5. TableOK(m)' /\ SeqOK(m)' /\ CacheStep(m)
  BY <1>1, <1>2, TableUntouched
<1> QED
  BY <1>1, <1>2, <1>3, <1>4, <1>5, OneDevice

\* A packet that waits in the FIFO changes nothing else.
LEMMA StepBufferData ==
    ASSUME NetInv, NEW e \in out, BufferData(e)
    PROVE  StepOK
<1> DEFINE n == e.node
           fifo == AddToFIFOBuffer(dev[n].fifo, e.pkt)
<1>1. EventOK(dev, now, e) /\ IsData(e.pkt)
  BY DEF NetInv, BufferData
<1>2. n \in Node /\ e.pkt.dst \in Node /\ e.pkt \in DataPacket
  BY <1>1, IsDataPacket DEF EventOK
<1>3. /\ dev' = [dev EXCEPT ![n].fifo = fifo]
      /\ out' = out \ {e} /\ air' = air
      /\ now' = now /\ nRREQId' = nRREQId /\ nData' = nData
      /\ UNCHANGED <<routeTimers, rreqTimers>>
  BY DEF BufferData, timers, dataFate
<1>4. IsDevice(dev[n]) /\ dev = [k \in Node |-> dev[k]]
  BY <1>2 DEF NetInv, Types
<1>5. fifo \in [Node -> Seq(DataPacket)]
  BY <1>2, <1>4 DEF AddToFIFOBuffer, IsDevice
<1> HIDE DEF fifo
<1>6. /\ dev' = [k \in Node |-> dev'[k]]
      /\ \A k \in Node \ {n} : dev'[k] = dev[k]
      /\ dev'[n].routeTable = dev[n].routeTable
      /\ dev'[n].nSequenceNumber = dev[n].nSequenceNumber
      /\ dev'[n].rreqSeenTable = dev[n].rreqSeenTable
      /\ dev'[n].rreqSentTable = dev[n].rreqSentTable
      /\ IsDevice(dev'[n])
  BY <1>2, <1>3, <1>4, <1>5 DEF IsDevice, DeviceFields
<1> HIDE DEF n
<1>7. NewTraffic
  BY <1>3 DEF NewTraffic
<1> QED
  BY <1>2, <1>3, <1>6, <1>7, Harmless

\* The sent table and its timers after a RREQ for d has been entered with a
\* timeout that is not over and a place on the ladder.
LEMMA SentEntered ==
    ASSUME NetInv, NEW n \in Node, NEW d \in Node, NEW kept, NEW ttl \in Nat,
           NEW timeout \in Nat, timeout >= now, now' = now,
           kept \subseteq rreqTimers[n],
           \A timer \in rreqTimers[n] \ kept : timer.dest = d,
           ttl <= NET_DIAMETER + 1,
           ttl = NET_DIAMETER => /\ d \in DOMAIN dev[n].rreqSentTable
                                 /\ dev[n].rreqSentTable[d].times <= RREQ_RETRIES,
           dev'[n].rreqSentTable =
               InsertInRREQSentTable(dev[n].rreqSentTable, d, ttl, timeout),
           rreqTimers'[n] = AddTimeOut(kept, d, timeout)
    PROVE  SentOK(n)'
<1> DEFINE sent == dev[n].rreqSentTable
           r == InsertInRREQSentTable(sent, d, ttl, timeout)
           tm == [dest |-> d, at |-> timeout]
<1>1. SentOK(n) /\ now \in Nat
  BY DEF NetInv, Types
<1>2. d \in DOMAIN sent => sent[d] \in SentEntry /\ sent[d].times \in Nat
                            /\ sent[d].times <= RREQ_RETRIES + 1
  BY <1>1 DEF SentOK, SentEntry
<1>3. Entered(sent, r, d, ttl, timeout)
  <2> HIDE DEF sent
  <2> QED
    BY <1>2, SentInsert
<1> HIDE DEF sent, r
<1>4. r[d].times <= RREQ_RETRIES + 1
  BY <1>2, <1>3 DEF sent, RREQ_RETRIES, Entered
<1>5. tm \in RouteTimer /\ rreqTimers'[n] = kept \cup {tm}
  BY DEF RouteTimer, AddTimeOut
<1>6. rreqTimers'[n] \subseteq RouteTimer
  BY <1>1, <1>5 DEF SentOK
<1>7. ASSUME NEW k \in DOMAIN r
      PROVE  /\ r[k] \in SentEntry
             /\ [dest |-> k, at |-> r[k].timeout] \in rreqTimers'[n]
             /\ r[k].timeout >= now'
             /\ r[k].times <= RREQ_RETRIES + 1
             /\ r[k].ttl <= NET_DIAMETER + 1
  <2>1. CASE k = d
    BY <1>3, <1>4, <1>5, <2>1 DEF Entered
  <2>2. CASE k # d
    <3>1. k \in DOMAIN sent /\ r[k] = sent[k]
      BY <1>3, <2>2 DEF Entered
    <3> DEFINE tk == [dest |-> k, at |-> sent[k].timeout]
    <3>2. /\ sent[k] \in SentEntry /\ tk \in rreqTimers[n]
          /\ sent[k].timeout >= now /\ sent[k].times <= RREQ_RETRIES + 1
          /\ sent[k].ttl <= NET_DIAMETER + 1
      BY <1>1, <3>1 DEF SentOK, sent
    <3>3. tk.dest = k
      OBVIOUS
    <3> HIDE DEF tk
    <3>4. tk \in kept
      BY <2>2, <3>2, <3>3
    <3> QED
      BY <1>5, <3>1, <3>2, <3>4 DEF tk
  <2> QED
    BY <2>1, <2>2
<1>8. DOMAIN r \subseteq Node
  BY <1>1, <1>3 DEF SentOK, sent, Entered
<1> QED
  BY <1>6, <1>7, <1>8 DEF SentOK, r, sent

\* The number a RREQ asks for is not ahead of the destination.
LEMMA KnownSeq ==
    ASSUME NEW D, NEW t, NEW rt, Good(rt, t), NEW dest \in Node,
           D[dest].nSequenceNumber \in Nat,
           \A d \in DOMAIN rt : rt[d].seq <= D[d].nSequenceNumber
    PROVE  /\ FindSequenceNumber(rt, dest) \in Nat
           /\ FindSequenceNumber(rt, dest) <= D[dest].nSequenceNumber
<1>1. dest \in DOMAIN rt => rt[dest].seq \in Nat
  BY DEF Good, IsRouteTable, RouteEntry
<1> QED
  BY <1>1 DEF FindSequenceNumber

\* The RREQ a device makes is in order: its number is the device's new one
\* and it is in the device's seen table.
LEMMA NewRREQOK ==
    ASSUME NetInv, Types', Monotone, NEW n \in Node, NEW dest \in Node,
           NEW ttl \in Nat,
           dev'[n].nSequenceNumber = dev[n].nSequenceNumber + 1,
           <<n, nRREQId + 1>> \in dev'[n].rreqSeenTable,
           NEW p, p = NewRREQ(n, dest, ttl)
    PROVE  /\ PacketOK(dev', now', p) /\ Marked(dev', n, p)
           /\ ~IsData(p) /\ p.ttl = ttl
<1> DEFINE dseq == FindSequenceNumber(dev[n].routeTable, dest)
<1>1. /\ dev[n].nSequenceNumber \in Nat /\ dev[dest].nSequenceNumber \in Nat
      /\ dev'[dest].nSequenceNumber \in Nat /\ nRREQId \in Nat
      /\ dev'[dest].nSequenceNumber >= dev[dest].nSequenceNumber
  BY DEF NetInv, Types, IsDevice, Monotone
<1>2. dseq \in Nat /\ dseq <= dev[dest].nSequenceNumber
  <2>1. Good(dev[n].routeTable, now) /\ SeqOK(n)
    BY DEF NetInv, TableOK
  <2> QED
    BY <1>1, <2>1, KnownSeq DEF SeqOK
<1>3. /\ p.kind = "RREQ" /\ p.ttl = ttl /\ p.id = nRREQId + 1 /\ p.orig = n
      /\ p.oseq = dev[n].nSequenceNumber + 1 /\ p.dest = dest /\ p.dseq = dseq
  BY DEF NewRREQ
<1>4. p \in RreqPacket
  <2> HIDE DEF dseq
  <2> QED
    BY <1>1, <1>2 DEF NewRREQ, RreqPacket, dseq
<1> HIDE DEF dseq
<1>5. PacketOK(dev', now', p)
  BY <1>1, <1>2, <1>3, <1>4 DEF PacketOK
<1> QED
  BY <1>3, <1>5 DEF Marked, IsData

\* A RREQ takes the place of the data packet; its timeout is armed.
LEMMA StepDiscoverRoute ==
    ASSUME NetInv, NEW e \in out, DiscoverRoute(e)
    PROVE  StepOK
<1> DEFINE n == e.node
           dst == e.pkt.dst
           sent == dev[n].rreqSentTable
           big == IncreaseTTL(sent, dst) + 1 + 1
           ttl == big - 1
           timeout == now + GetTimeoutTime(ttl, 1)
           p == NewRREQ(n, dst, big)
           fifo == AddToFIFOBuffer(dev[n].fifo, e.pkt)
           num == dev[n].nSequenceNumber + 1
           seen == InsertInRREQSeenTable(dev[n].rreqSeenTable, n, nRREQId + 1)
           r == InsertInRREQSentTable(sent, dst, ttl, timeout)
           tms == AddTimeOut(rreqTimers[n], dst, timeout)
<1>1. EventOK(dev, now, e) /\ IsData(e.pkt)
  BY DEF NetInv, DiscoverRoute
<1>2. n \in Node /\ dst \in Node /\ e.pkt \in DataPacket
  BY <1>1, IsDataPacket DEF EventOK
<1>3. /\ IsDevice(dev[n]) /\ dev = [k \in Node |-> dev[k]] /\ now \in Nat
      /\ rreqTimers = [k \in Node |-> rreqTimers[k]]
      /\ dev[n].nSequenceNumber \in Nat
  BY <1>2 DEF NetInv, Types, IsDevice
<1>4. /\ ttl \in Nat /\ timeout \in Nat /\ timeout >= now
      /\ ttl <= NET_DIAMETER + 1 /\ ttl # NET_DIAMETER
      /\ big \in Nat /\ big >= 1
  <2>1. NET_DIAMETER \in Nat /\ NET_DIAMETER > TTL_THRESHOLD + 1
    BY TimeAssumption, NetworkAssumption
  <2>2. dst \in DOMAIN sent => sent[dst] \in SentEntry
    BY <1>2 DEF NetInv, SentOK
  <2> HIDE DEF sent
  <2>3. /\ IncreaseTTL(sent, dst) \in Nat
        /\ IncreaseTTL(sent, dst) <= TTL_THRESHOLD
           \/ IncreaseTTL(sent, dst) = NET_DIAMETER
    BY <2>2, IncreaseTTLType
  <2>4. /\ ttl \in Nat /\ ttl <= NET_DIAMETER + 1 /\ ttl # NET_DIAMETER
        /\ big \in Nat /\ big >= 1
    BY <2>1, <2>3 DEF TTL_THRESHOLD
  <2> HIDE DEF ttl, big
  <2>5. GetTimeoutTime(ttl, 1) \in Nat
    BY <2>4, TimeoutType
  <2> QED
    BY <1>3, <2>4, <2>5
<1>5. fifo \in [Node -> Seq(DataPacket)]
  BY <1>2, <1>3 DEF AddToFIFOBuffer, IsDevice
<1>7. /\ dev' = [dev EXCEPT ![n].fifo = fifo, ![n].nSequenceNumber = num,
                   ![n].rreqSeenTable = seen, ![n].rreqSentTable = r,
                   ![n].dLastBroadcastTime = now]
      /\ rreqTimers' = [rreqTimers EXCEPT ![n] = tms]
      /\ air' = air \cup Copies(n, p, Broadcast)
  BY DEF DiscoverRoute
<1>8. /\ nRREQId' = nRREQId + 1 /\ out' = out \ {e}
      /\ now' = now /\ nData' = nData /\ routeTimers' = routeTimers
  BY DEF DiscoverRoute, dataFate
<1>9. <<n, nRREQId + 1>> \in seen /\ dev[n].rreqSeenTable \subseteq seen
  BY DEF InsertInRREQSeenTable
<1>p. p = NewRREQ(n, dst, big)
  OBVIOUS
<1> HIDE DEF n, dst, big, ttl, timeout, p, fifo, seen, r, tms
<1>10. /\ dev' = [k \in Node |-> dev'[k]]
       /\ \A k \in Node \ {n} : dev'[k] = dev[k]
       /\ dev'[n].routeTable = dev[n].routeTable
       /\ dev'[n].nSequenceNumber = num
       /\ dev'[n].rreqSeenTable = seen
       /\ dev'[n].rreqSentTable = r
       /\ IsDevice(dev'[n])
  <2>1. num \in Nat
    BY <1>3
  <2> HIDE DEF num
  <2> QED
    BY <1>2, <1>3, <1>5, <1>7, <2>1 DEF IsDevice, DeviceFields
<1>11. /\ rreqTimers' = [k \in Node |-> rreqTimers'[k]]
       /\ \A k \in Node \ {n} : rreqTimers'[k] = rreqTimers[k]
       /\ rreqTimers'[n] = tms
  BY <1>2, <1>3, <1>7
<1>12. Types'
  BY <1>8, <1>10, <1>11 DEF NetInv, Types
<1>13. Monotone
  BY <1>2, <1>3, <1>8, <1>9, <1>10, Numbers DEF Monotone
<1>14. OnlyAt(n)
  BY <1>8, <1>10, <1>11 DEF OnlyAt
<1>15. TableOK(n)' /\ SeqOK(n)' /\ CacheStep(n)
  BY <1>2, <1>8, <1>10, <1>12, <1>13, TableUntouched
<1>16. SentOK(n)'
  BY <1>2, <1>4, <1>8, <1>10, <1>11, SentEntered DEF r, tms
<1>17. ASSUME NEW c \in Copies(n, p, Broadcast) PROVE CopyOK(dev', now', c)
  <2>1. /\ PacketOK(dev', now', p) /\ Marked(dev', n, p)
        /\ ~IsData(p) /\ p.ttl = big
    BY <1>2, <1>4, <1>9, <1>10, <1>12, <1>13, <1>p, NewRREQOK
  <2> QED
    BY <1>2, <1>4, <2>1, CopiesOK
<1>18. NewTraffic
  BY <1>7, <1>8, <1>17 DEF NewTraffic
<1> QED
  BY <1>2, <1>12, <1>13, <1>14, <1>15, <1>16, <1>18, OneDevice

\* An AODV packet that leaves the device was in order before.
LEMMA StepSendControl ==
    ASSUME NetInv, NEW e \in out, SendControl(e)
    PROVE  StepOK
<1> DEFINE n == e.node
           sends == IF e.routed THEN e.pkt.ttl # 0 ELSE e.pkt.ttl > 1
<1>1. EventOK(dev, now, e) /\ ~IsData(e.pkt)
  BY DEF NetInv, SendControl
<1>2. n \in Node /\ PacketOK(dev, now, e.pkt) /\ Marked(dev, n, e.pkt)
  BY <1>1 DEF EventOK
<1>3. /\ air' = IF sends THEN air \cup Copies(n, e.pkt, e.rcv) ELSE air
      /\ out' = out \ {e}
      /\ dev' = dev \/ dev' = [dev EXCEPT ![n].dLastBroadcastTime = now]
      /\ now' = now /\ nRREQId' = nRREQId /\ nData' = nData
      /\ UNCHANGED <<routeTimers, rreqTimers>>
  BY DEF SendControl, timers, dataFate
<1>4. IsDevice(dev[n]) /\ dev = [k \in Node |-> dev[k]]
  BY <1>2 DEF NetInv, Types
<1>5. e.pkt.ttl \in Nat
  <2>1. \/ e.pkt \in RreqPacket \/ e.pkt \in RrepPacket \/ e.pkt \in RERR
    BY <1>1, <1>2, PacketKind DEF IsData
  <2> QED
    BY <2>1 DEF RreqPacket, RrepPacket, RERR
<1>6. sends => e.pkt.ttl >= 1
  BY <1>5
<1>7. /\ dev' = [k \in Node |-> dev'[k]]
      /\ \A k \in Node \ {n} : dev'[k] = dev[k]
      /\ dev'[n].routeTable = dev[n].routeTable
      /\ dev'[n].nSequenceNumber = dev[n].nSequenceNumber
      /\ dev'[n].rreqSeenTable = dev[n].rreqSeenTable
      /\ dev'[n].rreqSentTable = dev[n].rreqSentTable
      /\ IsDevice(dev'[n])
  <2>1. CASE dev' = dev
    BY <1>4, <2>1
  <2>2. CASE dev' = [dev EXCEPT ![n].dLastBroadcastTime = now]
    BY <1>2, <1>4, <2>2 DEF IsDevice, DeviceFields
  <2> QED
    BY <1>3, <2>1, <2>2
<1> HIDE DEF n, sends
<1>8. Types' /\ Monotone
  <2>1. Types'
    BY <1>3, <1>7 DEF NetInv, Types
  <2> QED
    BY <1>2, <1>3, <1>7, <2>1, Numbers DEF Monotone
<1>9. PacketOK(dev', now', e.pkt) /\ Marked(dev', n, e.pkt)
  <2>1. PacketOK(dev', now', e.pkt)
    BY <1>2, <1>8, PacketKept DEF NetInv
  <2> QED
    BY <1>2, <1>7, <2>1 DEF Marked
<1>10. ASSUME sends, NEW c \in Copies(n, e.pkt, e.rcv)
       PROVE  CopyOK(dev', now', c)
  BY <1>2, <1>6, <1>9, <1>10, CopiesOK
<1>11. NewTraffic
  BY <1>3, <1>10 DEF NewTraffic
<1> QED
  BY <1>2, <1>3, <1>7, <1>11, Harmless

\* NETWORK_OUT keeps the invariant.
LEMMA StepNetworkOut ==
    ASSUME NetInv, NetworkOut
    PROVE  StepOK
  BY StepRouteData, StepBufferData, StepDiscoverRoute, StepSendControl
     DEF NetworkOut

-----------------------------------------------------------------------------
(* Timers.                                                                 *)

\* The device, apart from its sent table and its FIFO, is left alone.
LEMMA TimerOnly ==
    ASSUME NetInv, NEW n \in Node,
           now' = now, nRREQId' \in Nat, nData' = nData,
           routeTimers' = routeTimers, air' = air,
           NEW tms, rreqTimers' = [rreqTimers EXCEPT ![n] = tms],
           dev' = [k \in Node |-> dev'[k]],
           \A k \in Node \ {n} : dev'[k] = dev[k],
           dev'[n].routeTable = dev[n].routeTable,
           dev'[n].nSequenceNumber >= dev[n].nSequenceNumber,
           dev[n].rreqSeenTable \subseteq dev'[n].rreqSeenTable,
           IsDevice(dev'[n])
    PROVE  /\ Types' /\ Monotone /\ OnlyAt(n)
           /\ TableOK(n)' /\ SeqOK(n)' /\ CacheStep(n) /\ rreqTimers'[n] = tms
<1>1. /\ rreqTimers' = [k \in Node |-> rreqTimers'[k]] /\ rreqTimers'[n] = tms
      /\ \A k \in Node \ {n} : rreqTimers'[k] = rreqTimers[k]
  BY DEF NetInv, Types
<1>2. Types'
  BY <1>1 DEF NetInv, Types
<1>3. Monotone
  BY Numbers DEF Monotone
<1>4. OnlyAt(n)
  BY <1>1 DEF OnlyAt
<1>5. TableOK(n)' /\ SeqOK(n)' /\ CacheStep(n)
  BY <1>2, <1>3, TableUntouched
<1> QED
  BY <1>1, <1>2, <1>3, <1>4, <1>5

\* The entries whose timers are kept stay armed.
LEMMA SentKept ==
    ASSUME NetInv, NEW n \in Node, now' = now,
           NEW r, dev'[n].rreqSentTable = r,
           DOMAIN r \subseteq DOMAIN dev[n].rreqSentTable,
           \A d \in DOMAIN r : r[d] = dev[n].rreqSentTable[d],
           rreqTimers'[n] \subseteq rreqTimers[n],
           \A d \in DOMAIN r : [dest |-> d, at |-> r[d].timeout] \in rreqTimers'[n]
    PROVE  SentOK(n)'
<1>1. SentOK(n)
  BY DEF NetInv
<1> QED
  BY <1>1 DEF SentOK

\* A RREQ timeout that comes late, gives up or tries again leaves every other
\* RREQ armed, and arms the one it sends.
LEMMA StepRetryRREQ ==
    ASSUME NetInv, NEW n \in Node, NEW timer \in rreqTimers[n],
           RetryRREQ(n, timer)
    PROVE  StepOK
<1> DEFINE dest == timer.dest
           sent == dev[n].rreqSentTable
           due == dest \in DOMAIN sent /\ sent[dest].timeout <= now
           giveUp == due /\ sent[dest].times > RREQ_RETRIES
           others == rreqTimers[n] \ {timer}
<1>1. /\ SentOK(n) /\ timer \in RouteTimer /\ dest \in Node /\ timer.at = now
      /\ IsDevice(dev[n]) /\ dev = [k \in Node |-> dev[k]] /\ now \in Nat
      /\ dev[n].nSequenceNumber \in Nat /\ nRREQId \in Nat
  <2>1. SentOK(n) /\ IsDevice(dev[n]) /\ dev = [k \in Node |-> dev[k]]
        /\ nRREQId \in Nat
    BY DEF NetInv, Types
  <2>2. timer.at = now
    BY DEF RetryRREQ
  <2>3. timer \in RouteTimer /\ dest \in Node
    BY <2>1 DEF SentOK, RouteTimer
  <2> QED
    BY <2>1, <2>2, <2>3, Numbers
<1>2. /\ now' = now /\ routeTimers' = routeTimers /\ air' = air
      /\ nData' = nData
  BY DEF RetryRREQ
<1>3. \A d \in DOMAIN sent :
         /\ sent[d] \in SentEntry /\ sent[d].timeout \in Nat
         /\ [dest |-> d, at |-> sent[d].timeout] \in rreqTimers[n]
  BY <1>1 DEF SentOK, SentEntry
<1>4. CASE ~due
  <2>1. /\ rreqTimers' = [rreqTimers EXCEPT ![n] = others]
        /\ nRREQId' = nRREQId /\ dev' = dev /\ out' = out
    BY <1>4 DEF RetryRREQ
  <2>2. /\ Types' /\ Monotone /\ OnlyAt(n)
        /\ TableOK(n)' /\ SeqOK(n)' /\ CacheStep(n) /\ rreqTimers'[n] = others
    <3>1. /\ dev' = [k \in Node |-> dev'[k]] /\ IsDevice(dev'[n])
          /\ dev'[n].nSequenceNumber >= dev[n].nSequenceNumber
          /\ dev[n].rreqSeenTable \subseteq dev'[n].rreqSeenTable
          /\ nRREQId' \in Nat
      BY <1>1, <2>1
    <3> HIDE DEF others
    <3> QED
      BY <1>2, <2>1, <3>1, TimerOnly
  <2>3. ASSUME NEW d \in DOMAIN sent
        PROVE  [dest |-> d, at |-> sent[d].timeout] \in others
    <3>1. [dest |-> d, at |-> sent[d].timeout] # timer
      BY <1>1, <1>3, <1>4
    <3> QED
      BY <1>3, <3>1
  <2>4. SentOK(n)'
    BY <1>2, <2>1, <2>2, <2>3, SentKept
  <2>5. NewTraffic
    BY <1>2, <2>1 DEF NewTraffic
  <2> QED
    BY <2>2, <2>4, <2>5, OneDevice
<1>5. CASE giveUp
  <2> DEFINE r == DeleteRREQSentTable(sent, dest)
             fifo == EmptyFIFOBuffer(dev[n].fifo, dest)
  <2>1. /\ rreqTimers' = [rreqTimers EXCEPT ![n] = others]
        /\ dev' = [dev EXCEPT ![n].rreqSentTable = r, ![n].fifo = fifo]
        /\ nRREQId' = nRREQId /\ out' = out
    BY <1>5 DEF RetryRREQ
  <2>2. fifo \in [Node -> Seq(DataPacket)]
    BY <1>1 DEF EmptyFIFOBuffer, IsDevice
  <2>3. /\ DOMAIN r = DOMAIN sent \ {dest}
        /\ \A d \in DOMAIN r : r[d] = sent[d]
    BY DEF DeleteRREQSentTable
  <2> HIDE DEF r, fifo
  <2>4. /\ dev' = [k \in Node |-> dev'[k]]
        /\ \A k \in Node \ {n} : dev'[k] = dev[k]
        /\ dev'[n].routeTable = dev[n].routeTable
        /\ dev'[n].nSequenceNumber = dev[n].nSequenceNumber
        /\ dev'[n].rreqSeenTable = dev[n].rreqSeenTable
        /\ dev'[n].rreqSentTable = r
        /\ IsDevice(dev'[n])
    BY <1>1, <2>1, <2>2 DEF IsDevice, DeviceFields
  <2>5. /\ Types' /\ Monotone /\ OnlyAt(n)
        /\ TableOK(n)' /\ SeqOK(n)' /\ CacheStep(n) /\ rreqTimers'[n] = others
    <3>1. dev'[n].nSequenceNumber >= dev[n].nSequenceNumber
      BY <1>1, <2>4
    <3> HIDE DEF others
    <3> QED
      BY <1>1, <1>2, <2>1, <2>4, <3>1, TimerOnly
  <2>6. ASSUME NEW d \in DOMAIN r
        PROVE  [dest |-> d, at |-> r[d].timeout] \in others
    <3>1. [dest |-> d, at |-> r[d].timeout] # timer
      BY <2>3
    <3> QED
      BY <1>3, <2>3, <3>1
  <2>7. SentOK(n)'
    BY <1>2, <2>3, <2>4, <2>5, <2>6, SentKept
  <2>8. NewTraffic
    BY <1>2, <2>1 DEF NewTraffic
  <2> QED
    BY <2>5, <2>7, <2>8, OneDevice
<1>6. CASE due /\ ~giveUp
  <2> DEFINE big == IncreaseTTL(sent, dest) + 1
             ttl == big - 1
             timeout == now + GetTimeoutTime(big, sent[dest].times)
             p == NewRREQ(n, dest, big)
             num == dev[n].nSequenceNumber + 1
             seen == InsertInRREQSeenTable(dev[n].rreqSeenTable, n, nRREQId + 1)
             r == InsertInRREQSentTable(sent, dest, ttl, timeout)
             tms == AddTimeOut(others, dest, timeout)
  <2>1. /\ dev' = [dev EXCEPT ![n].nSequenceNumber = num,
                     ![n].rreqSeenTable = seen, ![n].rreqSentTable = r]
        /\ nRREQId' = nRREQId + 1
        /\ rreqTimers' = [rreqTimers EXCEPT ![n] = tms]
        /\ out' = out \cup {OutEvent(n, p, Broadcast, FALSE)}
    BY <1>6 DEF RetryRREQ
  <2>2. /\ sent[dest] \in SentEntry /\ sent[dest].times \in Nat
        /\ sent[dest].times <= RREQ_RETRIES
    <3>1. sent[dest] \in SentEntry
      BY <1>3, <1>6
    <3> DEFINE times == sent[dest].times
    <3>2. times \in Nat
      BY <3>1 DEF SentEntry
    <3>3. ~(times > RREQ_RETRIES)
      BY <1>6
    <3> HIDE DEF times
    <3>4. times <= RREQ_RETRIES
      BY <3>2, <3>3 DEF RREQ_RETRIES
    <3> QED
      BY <3>1, <3>2, <3>4 DEF times
  <2>3. /\ ttl \in Nat /\ timeout \in Nat /\ timeout >= now
        /\ ttl <= NET_DIAMETER + 1 /\ big \in Nat
    <3>1. NET_DIAMETER \in Nat /\ NET_DIAMETER > TTL_THRESHOLD + 1
      BY TimeAssumption, NetworkAssumption
    <3>2. /\ IncreaseTTL(sent, dest) \in Nat
          /\ IncreaseTTL(sent, dest) <= TTL_THRESHOLD
             \/ IncreaseTTL(sent, dest) = NET_DIAMETER
      <4> HIDE DEF sent
      <4> QED
        BY <2>2, IncreaseTTLType
    <3>3. big \in Nat /\ ttl \in Nat /\ ttl <= NET_DIAMETER + 1
      BY <3>1, <3>2 DEF TTL_THRESHOLD
    <3> HIDE DEF big, ttl, sent
    <3>4. GetTimeoutTime(big, sent[dest].times) \in Nat
      BY <2>2, <3>3, TimeoutType
    <3> QED
      BY <1>1, <3>3, <3>4
  <2>4. <<n, nRREQId + 1>> \in seen /\ dev[n].rreqSeenTable \subseteq seen
    BY DEF InsertInRREQSeenTable
  <2>p. p = NewRREQ(n, dest, big)
    OBVIOUS
  <2> HIDE DEF ttl, big, timeout, p, seen, r, tms
  <2>5. /\ dev' = [k \in Node |-> dev'[k]]
        /\ \A k \in Node \ {n} : dev'[k] = dev[k]
        /\ dev'[n].routeTable = dev[n].routeTable
        /\ dev'[n].nSequenceNumber = num
        /\ dev'[n].rreqSeenTable = seen
        /\ dev'[n].rreqSentTable = r
        /\ IsDevice(dev'[n])
    <3>1. num \in Nat
      BY <1>1
    <3> HIDE DEF num
    <3> QED
      BY <1>1, <2>1, <3>1 DEF IsDevice, DeviceFields
  <2>6. /\ Types' /\ Monotone /\ OnlyAt(n)
        /\ TableOK(n)' /\ SeqOK(n)' /\ CacheStep(n) /\ rreqTimers'[n] = tms
    <3>1. dev'[n].nSequenceNumber >= dev[n].nSequenceNumber /\ nRREQId' \in Nat
      BY <1>1, <2>1, <2>5
    <3>2. dev[n].rreqSeenTable \subseteq dev'[n].rreqSeenTable
      BY <2>4, <2>5
    <3> QED
      BY <1>1, <1>2, <2>1, <2>5, <3>1, <3>2, TimerOnly
  <2>7. SentOK(n)'
    <3>1. others \subseteq rreqTimers[n]
          /\ \A t2 \in rreqTimers[n] \ others : t2.dest = dest
      OBVIOUS
    <3>2. dest \in DOMAIN sent
      BY <1>6
    <3> HIDE DEF dest, others
    <3> QED
      BY <1>1, <1>2, <2>2, <2>3, <2>5, <2>6, <3>1, <3>2, SentEntered DEF r, tms
  <2>8. PacketOK(dev', now', p) /\ Marked(dev', n, p)
    BY <1>1, <2>3, <2>4, <2>5, <2>6, <2>p, NewRREQOK
  <2>9. EventOK(dev', now', OutEvent(n, p, Broadcast, FALSE))
    BY <2>8, OutEventOK
  <2>10. NewTraffic
    BY <1>2, <2>1, <2>9 DEF NewTraffic
  <2> QED
    BY <2>6, <2>7, <2>10, OneDevice
<1> QED
  BY <1>4, <1>5, <1>6

\* A hello tells the own number, and a lifetime within the DELETE_PERIOD.
LEMMA StepTransmitHello ==
    ASSUME NetInv, NEW n \in Node, TransmitHello(n)
    PROVE  StepOK
<1> DEFINE life == now + ALLOWED_HELLO_LOSS * HELLO_INTERVAL
           hello == [kind |-> "RREP", ttl |-> 2, dest |-> n,
                     dseq |-> dev[n].nSequenceNumber, hop |-> 0, last |-> n,
                     life |-> life,
                     orig |-> n, bcast |-> TRUE, congestion |-> FALSE]
           ev == OutEvent(n, hello, Broadcast, FALSE)
<1>1. /\ out' = out \/ out' = out \cup {ev}
      /\ air' = air /\ now' = now /\ nRREQId' = nRREQId /\ dev' = dev
      /\ nData' = nData /\ UNCHANGED <<routeTimers, rreqTimers>>
  BY DEF TransmitHello, dataFate
<1>2. life \in Nat /\ life <= now + DELETE_PERIOD
  BY Numbers, TimeAssumption DEF ALLOWED_HELLO_LOSS, DELETE_PERIOD, Max2
<1> HIDE DEF life
<1>3. /\ hello \in RrepPacket /\ hello.kind = "RREP" /\ hello.dest = n
      /\ hello.dseq = dev[n].nSequenceNumber /\ hello.life = life
  BY <1>2, Numbers DEF RrepPacket
<1> HIDE DEF hello
<1>4. PacketOK(dev, now, hello) /\ Marked(dev, n, hello)
  BY <1>2, <1>3, Numbers DEF PacketOK, Marked
<1>5. EventOK(dev', now', ev)
  BY <1>1, <1>4, OutEventOK
<1>6. NewTraffic
  BY <1>1, <1>5 DEF NewTraffic
<1>7. Types'
  BY <1>1 DEF NetInv, Types
<1> QED
  BY <1>1, <1>6, <1>7, NoDevice

\* A route that is forgotten was at its deadline; its check goes with it.
LEMMA StepActiveRouteTimeout ==
    ASSUME NetInv, NEW n \in Node, NEW timer \in routeTimers[n],
           ActiveRouteTimeout(n, timer)
    PROVE  StepOK
<1> DEFINE dest == timer.dest
           rt == dev[n].routeTable
           r == RemoveRoute(rt, dest)
           again == [dest |-> dest, at |-> rt[dest].life]
           rest == routeTimers[n] \ {timer}
<1>1. /\ TableOK(n) /\ SeqOK(n) /\ SentOK(n) /\ IsDevice(dev[n])
      /\ dev = [k \in Node |-> dev[k]]
      /\ routeTimers = [k \in Node |-> routeTimers[k]] /\ now \in Nat
  BY DEF NetInv, Types
<1>2. /\ timer.at = now /\ now' = now /\ nRREQId' = nRREQId /\ nData' = nData
      /\ out' = out /\ air' = air /\ rreqTimers' = rreqTimers
  BY DEF ActiveRouteTimeout, dataFate
<1>3. /\ dest \in DOMAIN rt
      /\ rt[dest].life \in Nat /\ now <= rt[dest].life
      /\ Good(r, now) /\ Covered(r, rest, now)
      /\ rest \cup {again} \subseteq RouteTimer
      /\ Covered(rt, rest \cup {again}, now)
  <2> DEFINE old == routeTimers[n]
  <2>1. /\ Good(rt, now) /\ old \subseteq RouteTimer /\ Covered(rt, old, now)
        /\ timer \in old
    BY <1>1 DEF TableOK
  <2> HIDE DEF rt, old
  <2>2. now \in Nat /\ timer.at = now
    BY <1>1, <1>2
  <2> DEFINE back == (old \ {timer}) \cup {again}
  <2>3. dest \in DOMAIN rt /\ rt[dest].life \in Nat /\ now <= rt[dest].life
    BY <2>1, <2>2, TimeoutGood, Zenon
  <2>4. Good(r, now) /\ Covered(r, old \ {timer}, now)
    BY <2>1, <2>2, TimeoutGood, Zenon
  <2>5. back \subseteq RouteTimer /\ Covered(rt, back, now)
    BY <2>1, <2>2, TimeoutGood, Zenon
  <2> QED
    BY <2>3, <2>4, <2>5, Zenon DEF old
<1>4. NewTraffic
  BY <1>2 DEF NewTraffic
<1>5. CASE rt[dest].life <= now
  <2> DEFINE cnt == CounterMinus(dev[n].ncounter)
  <2>1. /\ routeTimers' = [routeTimers EXCEPT ![n] = rest]
        /\ dev' = [dev EXCEPT ![n].routeTable = r, ![n].ncounter = cnt]
    <3>1. routeTimers' = [routeTimers EXCEPT ![n] = rest \cup {}]
      BY <1>3, <1>5 DEF ActiveRouteTimeout
    <3>2. rest \cup {} = rest
      OBVIOUS
    <3> QED
      BY <1>3, <1>5, <3>1, <3>2 DEF ActiveRouteTimeout
  <2>2. r = RemoveRoute(rt, dest) /\ rt[dest].life = now
    BY <1>1, <1>3, <1>5
  <2>3. DOMAIN r \subseteq DOMAIN rt /\ \A d \in DOMAIN r : r[d] = rt[d]
    BY DEF RemoveRoute
  <2> HIDE DEF r, cnt, rest
  <2>4. /\ dev' = [k \in Node |-> dev'[k]]
        /\ \A k \in Node \ {n} : dev'[k] = dev[k]
        /\ dev'[n].routeTable = r
        /\ dev'[n].nSequenceNumber = dev[n].nSequenceNumber
        /\ dev'[n].rreqSeenTable = dev[n].rreqSeenTable
        /\ dev'[n].rreqSentTable = dev[n].rreqSentTable
        /\ IsDevice(dev'[n])
    BY <1>1, <2>1 DEF IsDevice, DeviceFields
  <2>5. /\ routeTimers' = [k \in Node |-> routeTimers'[k]]
        /\ \A k \in Node \ {n} : routeTimers'[k] = routeTimers[k]
        /\ routeTimers'[n] = rest
    BY <1>1, <2>1
  <2>6. Types'
    BY <1>2, <2>4, <2>5 DEF NetInv, Types
  <2>7. Monotone
    BY <1>2, <2>4, Numbers DEF Monotone
  <2>8. OnlyAt(n)
    BY <1>2, <2>4, <2>5 DEF OnlyAt
  <2>9. TableOK(n)'
    BY <1>2, <1>3, <2>4, <2>5 DEF TableOK
  <2>10. SentOK(n)'
    BY <1>1, <1>2, <2>4 DEF SentOK
  <2>11. SeqOK(n)'
    <3>1. \A d \in DOMAIN rt : d \in Node
      BY <1>1 DEF TableOK, Good, IsRouteTable
    <3>2. \A d \in Node : dev'[d].nSequenceNumber = dev[d].nSequenceNumber
      BY <2>4
    <3> QED
      BY <1>1, <2>3, <2>4, <3>1, <3>2 DEF SeqOK
  <2>12. CacheStep(n)
    BY <1>2, <1>3, <2>2, <2>4 DEF CacheStep
  <2> QED
    BY <1>4, <2>6, <2>7, <2>8, <2>9, <2>10, <2>11, <2>12, OneDevice
<1>6. CASE ~(rt[dest].life <= now)
  <2> DEFINE tms == rest \cup {again}
  <2>1. routeTimers' = [routeTimers EXCEPT ![n] = tms] /\ dev' = dev
    BY <1>3, <1>6 DEF ActiveRouteTimeout
  <2>2. tms \subseteq RouteTimer /\ Covered(rt, tms, now)
    BY <1>3
  <2> HIDE DEF tms
  <2>3. /\ routeTimers' = [k \in Node |-> routeTimers'[k]]
        /\ \A k \in Node \ {n} : routeTimers'[k] = routeTimers[k]
        /\ routeTimers'[n] = tms
    BY <1>1, <2>1
  <2>4. Types'
    BY <1>2, <2>1, <2>3 DEF NetInv, Types
  <2>5. Monotone
    BY <1>2, <2>1, Numbers DEF Monotone
  <2>6. OnlyAt(n)
    BY <1>2, <2>1, <2>3 DEF OnlyAt
  <2>7. TableOK(n)'
    BY <1>1, <1>2, <2>1, <2>2, <2>3 DEF TableOK
  <2>8. SentOK(n)' /\ SeqOK(n)'
    BY <1>1, <1>2, <2>1 DEF SentOK, SeqOK
  <2>9. CacheStep(n)
    BY <1>2, <2>1 DEF CacheStep
  <2> QED
    BY <1>4, <2>4, <2>5, <2>6, <2>7, <2>8, <2>9, OneDevice
<1> QED
  BY <1>5, <1>6

\* Every timer keeps the invariant.
LEMMA StepTimer ==
    ASSUME NetInv, Timer
    PROVE  StepOK
  BY StepRetryRREQ, StepTransmitHello, StepActiveRouteTimeout DEF Timer

-----------------------------------------------------------------------------
(* Receiving.                                                              *)

\* A route table r and checks tms that the device m may have after a
\* reception: nothing is taken back, every entry awaits its check, none is
\* about m, and no number is ahead of its owner.
Learned(m, r, tms) ==
    /\ Good(r, now) /\ Grows(dev[m].routeTable, r, now)
    /\ tms \subseteq RouteTimer /\ Covered(r, tms, now)
    /\ \A d \in DOMAIN r : /\ d # m /\ d \in Node /\ r[d].seq \in Nat
                            /\ r[d].seq <= dev[d].nSequenceNumber

\* What m may enter in its route table.
Enterable(m, ip, s, h, nh, lt) ==
    /\ RouteArgs(ip, s, h, nh, lt, now)
    /\ ip # m /\ s <= dev[ip].nSequenceNumber

\* A message that is new to the device writes one entry of its route table
\* and schedules the check of a new entry.
LEMMA Insertion ==
    ASSUME NetInv, NEW m \in Node, NEW ip, NEW s, NEW h, NEW nh, NEW lt,
           Enterable(m, ip, s, h, nh, lt)
    PROVE  Learned(m, InsertInRouteTable(dev[m].routeTable, ip, s, h, nh, lt,
                                         now),
                   AddRouteTimer(routeTimers[m], dev[m].routeTable, ip, now))
<1> DEFINE rt == dev[m].routeTable
           r == InsertInRouteTable(rt, ip, s, h, nh, lt, now)
           tms == AddRouteTimer(routeTimers[m], rt, ip, now)
<1>1. TableOK(m) /\ SeqOK(m) /\ now \in Nat
  BY DEF NetInv, Types
<1>2. /\ RouteArgs(ip, s, h, nh, lt, now) /\ ip \in Node
      /\ ip # m /\ s <= dev[ip].nSequenceNumber
  BY DEF Enterable, RouteArgs
<1>3. Good(r, now) /\ Grows(rt, r, now) /\ Adds(rt, r, ip)
  BY <1>1, <1>2, InsertGood DEF TableOK
<1>4. tms \subseteq RouteTimer /\ Covered(r, tms, now)
  BY <1>1, <1>2, <1>3, CoveredInsert DEF TableOK
<1>5. ASSUME NEW d \in DOMAIN r
      PROVE  /\ d # m /\ d \in Node /\ r[d].seq \in Nat
             /\ r[d].seq <= dev[d].nSequenceNumber
  <2>1. d \in Node /\ r[d].seq \in Nat
    BY <1>3 DEF Good, IsRouteTable, RouteEntry
  <2>2. \/ d \in DOMAIN rt /\ r[d].seq = rt[d].seq
        \/ d = ip /\ r[d].seq = s
    BY InsertSeq
  <2> QED
    BY <1>1, <1>2, <2>1, <2>2 DEF SeqOK
<1> QED
  BY <1>3, <1>4, <1>5 DEF Learned

\* A device that does nothing has learned nothing wrong.
LEMMA LearnedNothing ==
    ASSUME NetInv, NEW m \in Node
    PROVE  Learned(m, dev[m].routeTable, routeTimers[m])
<1> DEFINE rt == dev[m].routeTable
<1>1. TableOK(m) /\ SeqOK(m)
  BY DEF NetInv
<1>2. \A d \in DOMAIN rt : d \in Node /\ rt[d].seq \in Nat /\ rt[d].life \in Nat
  BY <1>1 DEF TableOK, Good, IsRouteTable, RouteEntry
<1>3. Grows(rt, rt, now)
  BY <1>2 DEF Grows
<1> QED
  BY <1>1, <1>2, <1>3 DEF Learned, TableOK, SeqOK

\* A change that leaves the destinations and their numbers alone is learned
\* like the table before it.
LEMMA LearnedMore ==
    ASSUME NetInv, NEW m \in Node, NEW r, NEW tms, Learned(m, r, tms),
           NEW q, Good(q, now), Grows(r, q, now), DOMAIN q = DOMAIN r,
           \A d \in DOMAIN r : q[d].seq = r[d].seq
    PROVE  Learned(m, q, tms)
<1>1. now \in Nat /\ Good(dev[m].routeTable, now)
  BY DEF NetInv, Types, TableOK
<1>2. Good(r, now) /\ Grows(dev[m].routeTable, r, now)
  BY DEF Learned
<1>3. Grows(dev[m].routeTable, q, now)
  BY <1>1, <1>2, GrowsTransitive
<1>4. Covered(q, tms, now)
  BY <1>1, <1>2, CoveredKept DEF Learned
<1> QED
  BY <1>3, <1>4 DEF Learned

\* So is a longer lifetime of the routes to or through a device.
LEMMA LearnedUpdate ==
    ASSUME NetInv, NEW m \in Node, NEW r, NEW tms, Learned(m, r, tms),
           NEW ip \in Node, NEW lt \in Nat, lt <= now + DELETE_PERIOD
    PROVE  Learned(m, UpdateRouteTable(r, ip, lt), tms)
<1> DEFINE q == UpdateRouteTable(r, ip, lt)
<1>1. now \in Nat /\ Good(r, now)
  BY DEF NetInv, Types, Learned
<1>2. Good(q, now) /\ Grows(r, q, now) /\ DOMAIN q = DOMAIN r
  BY <1>1, UpdateGood
<1>3. \A d \in DOMAIN r : q[d].seq = r[d].seq
  BY <1>1, UpdateKeeps
<1> HIDE DEF q
<1>4. Learned(m, q, tms)
  BY <1>2, <1>3, LearnedMore
<1> QED
  BY <1>4 DEF q

\* And so are the routes that a route error breaks.
LEMMA LearnedBreak ==
    ASSUME NetInv, NEW m \in Node, NEW r, NEW tms, Learned(m, r, tms),
           NEW dests
    PROVE  Learned(m, InvalidateRoutes(r, dests, now), tms)
<1> DEFINE q == InvalidateRoutes(r, dests, now)
<1>1. now \in Nat /\ Good(r, now)
  BY DEF NetInv, Types, Learned
<1>2. Good(q, now) /\ Grows(r, q, now) /\ DOMAIN q = DOMAIN r
  BY <1>1, InvalidateGood
<1>3. \A d \in DOMAIN r : q[d].seq = r[d].seq
  BY <1>1, InvalidateKeeps
<1> HIDE DEF q
<1>4. Learned(m, q, tms)
  BY <1>2, <1>3, LearnedMore
<1> QED
  BY <1>4 DEF q

\* What a reception leaves alone.
Receiving ==
    /\ now' = now /\ nRREQId' = nRREQId /\ nData' = nData
    /\ rreqTimers' = rreqTimers
    /\ air' \subseteq air

\* A reception that leaves the devices alone and sends nothing.
LEMMA Ignored ==
    ASSUME NetInv, Receiving, dev' = dev, routeTimers' = routeTimers,
           out' = out
    PROVE  StepOK
<1>1. Types'
  BY DEF NetInv, Types, Receiving
<1>2. NewTraffic
  BY DEF NewTraffic, Receiving
<1> QED
  BY <1>1, <1>2, NoDevice DEF Receiving

\* What m may do to itself when it receives something.
Learns(m) ==
    /\ dev' = [k \in Node |-> dev'[k]]
    /\ \A k \in Node \ {m} : dev'[k] = dev[k]
    /\ IsDevice(dev'[m])
    /\ dev'[m].nSequenceNumber >= dev[m].nSequenceNumber
    /\ dev[m].rreqSeenTable \subseteq dev'[m].rreqSeenTable
    /\ routeTimers' = [k \in Node |-> routeTimers'[k]]
    /\ \A k \in Node \ {m} : routeTimers'[k] = routeTimers[k]
    /\ Learned(m, dev'[m].routeTable, routeTimers'[m])

\* A reception in which m learns is monotone.
LEMMA LearnsTypes ==
    ASSUME NetInv, Receiving, NEW m \in Node, Learns(m)
    PROVE  Types' /\ Monotone /\ SeqOK(m)'
<1>1. Types'
  BY DEF NetInv, Types, Receiving, Learns
<1>2. Monotone
  BY Numbers DEF Monotone, Receiving, Learns
<1>3. SeqOK(m)'
  <2>1. \A d \in Node : /\ dev'[d].nSequenceNumber \in Nat
                         /\ dev[d].nSequenceNumber \in Nat
                         /\ dev'[d].nSequenceNumber >= dev[d].nSequenceNumber
    BY <1>1, <1>2, Numbers DEF Types, IsDevice, Monotone
  <2> SUFFICES ASSUME NEW d \in DOMAIN dev'[m].routeTable
               PROVE  /\ d # m
                      /\ dev'[m].routeTable[d].seq <= dev'[d].nSequenceNumber
    BY DEF SeqOK
  <2>2. /\ d # m /\ d \in Node /\ dev'[m].routeTable[d].seq \in Nat
        /\ dev'[m].routeTable[d].seq <= dev[d].nSequenceNumber
    BY DEF Learns, Learned
  <2> QED
    BY <2>1, <2>2
<1> QED
  BY <1>1, <1>2, <1>3

\* A reception in which m learns keeps the invariant when its sent table is
\* armed and the new events are in order.
LEMMA LearnsOK ==
    ASSUME NetInv, Receiving, NEW m \in Node, Learns(m), SentOK(m)',
           \A e \in out' : e \in out \/ EventOK(dev', now', e)
    PROVE  StepOK
<1>1. Types' /\ Monotone /\ SeqOK(m)'
  BY LearnsTypes
<1>2. OnlyAt(m)
  BY DEF OnlyAt, Receiving, Learns
<1>3. TableOK(m)'
  BY DEF TableOK, Receiving, Learns, Learned
<1>4. CacheStep(m)
  BY DEF CacheStep, Receiving, Learns, Learned
<1>5. NewTraffic
  BY DEF NewTraffic, Receiving
<1> QED
  BY <1>1, <1>2, <1>3, <1>4, <1>5, OneDevice

\* The sent table of a device that keeps it.
LEMMA SentSame ==
    ASSUME NetInv, Receiving, NEW m \in Node,
           dev'[m].rreqSentTable = dev[m].rreqSentTable
    PROVE  SentOK(m)'
<1>1. SentOK(m)
  BY DEF NetInv
<1> QED
  BY <1>1 DEF SentOK, Receiving

\* The reply of the destination carries the number the device takes on.
LEMMA GenerateRREPOK ==
    ASSUME NetInv, Types', NEW m \in Node, NEW p, p \in RreqPacket, p.dest = m,
           dev'[m].nSequenceNumber = dev[m].nSequenceNumber + 1, now' = now
    PROVE  EventOK(dev', now', GenerateRREP(m, p))
<1> DEFINE num == dev[m].nSequenceNumber + 1
           q == [kind |-> "RREP", ttl |-> p.hop + 2, dest |-> p.dest,
                 dseq |-> num, hop |-> 1, last |-> m,
                 life |-> MY_ROUTE_TIMEOUT, orig |-> p.orig, bcast |-> FALSE,
                 congestion |-> FALSE]
<1>1. GenerateRREP(m, p) = OutEvent(m, q, p.last, TRUE)
  BY DEF GenerateRREP
<1>2. /\ num \in Nat /\ p.hop \in Nat /\ p.orig \in Node /\ p.last \in Node
      /\ now \in Nat
  BY Numbers DEF RreqPacket
<1>3. MY_ROUTE_TIMEOUT \in Nat /\ MY_ROUTE_TIMEOUT <= now + DELETE_PERIOD
  BY <1>2, TimeAssumption DEF MY_ROUTE_TIMEOUT, DELETE_PERIOD, Max2
<1>4. /\ q \in RrepPacket /\ q.kind = "RREP" /\ q.dest = m /\ q.dseq = num
      /\ q.life = MY_ROUTE_TIMEOUT
  <2> HIDE DEF num
  <2> QED
    BY <1>2, <1>3 DEF RrepPacket
<1> HIDE DEF q
<1>5. PacketOK(dev', now', q) /\ Marked(dev', m, q)
  BY <1>2, <1>3, <1>4 DEF PacketOK, Marked
<1> QED
  BY <1>1, <1>2, <1>5, OutEventOK

\* The reply of a device on the way repeats what its table says.
LEMMA IntermediateOK ==
    ASSUME NEW D, NEW t, NEW m \in Node, NEW p, p \in RreqPacket, t = now,
           now \in Nat, NEW rt, Good(rt, now), CheckRouteFound(rt, p.dest, now),
           \A d \in DOMAIN rt : rt[d].seq <= D[d].nSequenceNumber
    PROVE  EventOK(D, t, GenerateRREPByIntermediate(m, p, rt))
<1> DEFINE en == rt[p.dest]
           life == en.life - now
           q == [kind |-> "RREP", ttl |-> NET_DIAMETER, dest |-> p.dest,
                 dseq |-> en.seq, hop |-> en.hop, last |-> m,
                 life |-> life, orig |-> p.orig, bcast |-> FALSE,
                 congestion |-> FALSE]
<1>1. GenerateRREPByIntermediate(m, p, rt) = OutEvent(m, q, p.last, TRUE)
  BY DEF GenerateRREPByIntermediate
<1>2. /\ p.dest \in Node /\ p.orig \in Node /\ p.last \in Node
  BY DEF RreqPacket
<1>3. /\ p.dest \in DOMAIN rt /\ en.seq \in Nat /\ en.hop \in Nat
      /\ en.life \in Nat /\ en.life > now /\ en.life <= now + DELETE_PERIOD
      /\ en.seq <= D[p.dest].nSequenceNumber
  BY DEF CheckRouteFound, Good, IsRouteTable, RouteEntry
<1> HIDE DEF en
<1>4. life \in Nat /\ life <= now + DELETE_PERIOD
  BY <1>3, Timeouts
<1> HIDE DEF life
<1>5. /\ q \in RrepPacket /\ q.kind = "RREP" /\ q.dest = p.dest
      /\ q.dseq = en.seq /\ q.life = life
  BY <1>2, <1>3, <1>4, TimeAssumption DEF RrepPacket
<1> HIDE DEF q
<1>6. PacketOK(D, t, q) /\ Marked(D, m, q)
  BY <1>3, <1>4, <1>5 DEF PacketOK, Marked
<1> QED
  BY <1>1, <1>2, <1>6, OutEventOK

\* A RREQ that is passed on was in order, and its number is raised at most to
\* the one in the table.
LEMMA ForwardRREQOK ==
    ASSUME NEW D, NEW t, NEW m \in Node, NEW p, PacketOK(D, t, p),
           p.kind = "RREQ", <<p.orig, p.id>> \in D[m].rreqSeenTable,
           NEW rt, Good(rt, now), \A n \in Node : D[n].nSequenceNumber \in Nat,
           \A d \in DOMAIN rt : rt[d].seq <= D[d].nSequenceNumber
    PROVE  EventOK(D, t, ForwardRREQ(m, p, rt))
<1> DEFINE f == FindSequenceNumber(rt, p.dest)
           dseq == Max2(p.dseq, f)
           q == [p EXCEPT !.hop = @ + 1 + 1, !.last = m, !.dseq = dseq]
<1>1. ForwardRREQ(m, p, rt) = OutEvent(m, q, Broadcast, FALSE)
  BY DEF ForwardRREQ
<1>2. p \in RreqPacket
  BY PacketKind
<1>3. /\ p.dest \in Node /\ p.dseq \in Nat /\ p.hop \in Nat
  BY <1>2 DEF RreqPacket
<1>4. f \in Nat /\ f <= D[p.dest].nSequenceNumber
  BY <1>3, KnownSeq
<1> HIDE DEF f
<1>5. dseq \in Nat /\ dseq <= D[p.dest].nSequenceNumber
  BY <1>3, <1>4 DEF Max2, PacketOK
<1> HIDE DEF dseq
<1>6. /\ q \in RreqPacket /\ q.kind = "RREQ" /\ q.dest = p.dest
      /\ q.dseq = dseq /\ q.orig = p.orig /\ q.id = p.id /\ q.oseq = p.oseq
  <2> DEFINE hop == p.hop + 1 + 1
  <2>1. hop \in Nat
    BY <1>3
  <2>2. q = [p EXCEPT !.hop = hop, !.last = m, !.dseq = dseq]
    OBVIOUS
  <2> HIDE DEF hop, q
  <2> QED
    BY <1>2, <1>5, <2>1, <2>2 DEF RreqPacket
<1> HIDE DEF q
<1>7. PacketOK(D, t, q) /\ Marked(D, m, q)
  BY <1>5, <1>6 DEF PacketOK, Marked
<1> QED
  BY <1>1, <1>7, OutEventOK

\* A RREQ: the device's own ones are in its seen table, so the route in
\* reverse is to another device, and whatever is sent is in order.
LEMMA StepProcessRREQ ==
    ASSUME NetInv, Receiving, NEW m \in Node, NEW p, PacketOK(dev, now, p),
           ProcessRREQ(m, p)
    PROVE  StepOK
<1> DEFINE dv == dev[m]
           lt == now + 2 * NET_TRAVERSAL_TIME - 2 * p.hop * NODE_TRAVERSAL_TIME
           rt == InsertInRouteTable(dev[m].routeTable, p.orig, p.oseq, p.hop,
                                    p.last, lt, now)
           tms == AddRouteTimer(routeTimers[m], dev[m].routeTable, p.orig, now)
           seen == InsertInRREQSeenTable(dev[m].rreqSeenTable, p.orig, p.id)
           num == IF p.dest = m THEN dev[m].nSequenceNumber + 1
                  ELSE dev[m].nSequenceNumber
           knows == CheckRouteFound(rt, p.dest, now)
<1>1. p.kind = "RREQ" /\ p \in RreqPacket
  BY PacketKind DEF ProcessRREQ
<1>2. /\ p.orig \in Node /\ p.oseq \in Nat /\ p.hop \in Nat
      /\ p.last \in Node /\ p.dest \in Node
  BY <1>1 DEF RreqPacket
<1>3. CASE CheckRREQSeenTable(dev[m].rreqSeenTable, p.orig, p.id)
  <2>1. dev' = dev /\ routeTimers' = routeTimers /\ out' = out
    BY <1>3 DEF ProcessRREQ
  <2> QED
    BY <2>1, Ignored
<1>4. CASE ~CheckRREQSeenTable(dev[m].rreqSeenTable, p.orig, p.id)
  <2>1. p.orig # m /\ p.oseq <= dev[p.orig].nSequenceNumber
    BY <1>1, <1>4 DEF PacketOK, CheckRREQSeenTable
  <2>2. lt \in Int /\ lt <= now + DELETE_PERIOD /\ now \in Nat
    BY <1>2, Numbers, ReverseLifetime
  <2>3. dev' = [dev EXCEPT ![m] =
                  [InsertInPrecursorsList(dev[m], p.last) EXCEPT
                     !.rreqSeenTable = InsertInRREQSeenTable(@, p.orig, p.id),
                     !.routeTable = rt,
                     !.nSequenceNumber = IF p.dest = m THEN @ + 1 ELSE @]]
    BY <1>4, Zenon DEF ProcessRREQ
  <2>4. routeTimers' = [routeTimers EXCEPT ![m] =
                          AddRouteTimer(@, dev[m].routeTable, p.orig, now)]
    BY <1>4, Zenon DEF ProcessRREQ
  <2>5. \A e \in out' : \/ e \in out
                        \/ p.dest = m /\ e = GenerateRREP(m, p)
                        \/ e = ForwardRREQ(m, p, rt)
                        \/ knows /\ e = GenerateRREPByIntermediate(m, p, rt)
    BY <1>4 DEF ProcessRREQ
  <2>6. dev[m].rreqSeenTable \subseteq seen /\ <<p.orig, p.id>> \in seen
    BY DEF InsertInRREQSeenTable
  <2>7. num \in Nat /\ num >= dev[m].nSequenceNumber
    BY Numbers
  <2>8. Enterable(m, p.orig, p.oseq, p.hop, p.last, lt)
    <3> HIDE DEF lt
    <3> QED
      BY <1>2, <2>1, <2>2 DEF Enterable, RouteArgs
  <2>9. Learned(m, rt, tms)
    BY <2>8, Insertion
  <2>10. /\ dev' = [k \in Node |-> dev'[k]]
         /\ \A k \in Node \ {m} : dev'[k] = dev[k]
         /\ dev'[m].routeTable = rt
         /\ dev'[m].nSequenceNumber = num
         /\ dev'[m].rreqSeenTable = seen
         /\ dev'[m].rreqSentTable = dev[m].rreqSentTable
         /\ IsDevice(dev'[m])
    <3>1. IsDevice(dev[m]) /\ dev = [k \in Node |-> dev[k]]
      BY DEF NetInv, Types
    <3> DEFINE pre == InsertInPrecursorsList(dev[m], p.last)
               post == [pre EXCEPT !.rreqSeenTable = seen,
                                   !.routeTable = rt,
                                   !.nSequenceNumber = num]
    <3>2. /\ IsDevice(pre) /\ pre.rreqSeenTable = dev[m].rreqSeenTable
          /\ pre.nSequenceNumber = dev[m].nSequenceNumber
          /\ pre.rreqSentTable = dev[m].rreqSentTable
      BY <3>1 DEF IsDevice, DeviceFields, InsertInPrecursorsList
    <3>3. dev' = [dev EXCEPT ![m] =
                    [pre EXCEPT
                       !.rreqSeenTable = InsertInRREQSeenTable(@, p.orig, p.id),
                       !.routeTable = rt,
                       !.nSequenceNumber = IF p.dest = m THEN @ + 1 ELSE @]]
      BY <2>3
    <3> HIDE DEF pre, rt
    <3>4. dev' = [dev EXCEPT ![m] = post]
      BY <3>2, <3>3, Zenon
    <3> HIDE DEF seen, num
    <3>5. /\ post.routeTable = rt /\ post.nSequenceNumber = num
          /\ post.rreqSeenTable = seen
          /\ post.rreqSentTable = dev[m].rreqSentTable
          /\ IsDevice(post)
      BY <2>7, <3>2 DEF IsDevice, DeviceFields
    <3> HIDE DEF post
    <3> QED
      BY <3>1, <3>4, <3>5
  <2> HIDE DEF lt, rt, tms, seen, num
  <2>11. /\ routeTimers' = [k \in Node |-> routeTimers'[k]]
         /\ \A k \in Node \ {m} : routeTimers'[k] = routeTimers[k]
         /\ routeTimers'[m] = tms
    BY <2>4 DEF NetInv, Types, tms
  <2>12. Learns(m)
    BY <2>6, <2>7, <2>9, <2>10, <2>11 DEF Learns
  <2>13. SentOK(m)'
    BY <2>10, SentSame
  <2>14. Types' /\ Monotone /\ SeqOK(m)' /\ now' = now /\ now \in Nat
    BY <2>12, LearnsTypes, Numbers DEF Receiving
  <2>15. \A d \in DOMAIN rt : rt[d].seq <= dev'[d].nSequenceNumber
    BY <2>10, <2>14 DEF SeqOK
  <2>16. Good(rt, now)
    BY <2>9 DEF Learned
  <2>17. ASSUME NEW e \in out', e \notin out PROVE EventOK(dev', now', e)
    <3>1. CASE p.dest = m /\ e = GenerateRREP(m, p)
      <4>1. dev'[m].nSequenceNumber = dev[m].nSequenceNumber + 1
        BY <2>10, <3>1 DEF num
      <4> QED
        BY <1>1, <2>14, <3>1, <4>1, GenerateRREPOK
    <3>2. CASE e = ForwardRREQ(m, p, rt)
      <4>1. PacketOK(dev', now', p)
        BY <2>14, PacketKept DEF NetInv
      <4>2. <<p.orig, p.id>> \in dev'[m].rreqSeenTable
        BY <2>6, <2>10
      <4>3. \A n \in Node : dev'[n].nSequenceNumber \in Nat
        BY <2>14 DEF Types, IsDevice
      <4> QED
        BY <1>1, <2>15, <2>16, <3>2, <4>1, <4>2, <4>3, ForwardRREQOK
    <3>3. CASE knows /\ e = GenerateRREPByIntermediate(m, p, rt)
      BY <1>1, <2>14, <2>15, <2>16, <3>3, IntermediateOK
    <3> QED
      BY <2>5, <2>17, <3>1, <3>2, <3>3
  <2> QED
    BY <2>12, <2>13, <2>17, LearnsOK
<1> QED
  BY <1>3, <1>4

\* The packets that leave a FIFO are data packets.
LEMMA FlushedOK ==
    ASSUME NetInv, NEW D, NEW t, NEW m \in Node, NEW rt,
           NEW e \in TransmitFIFOBuffer(m, rt)
    PROVE  EventOK(D, t, e)
<1>1. PICK d \in Node : \E i \in DOMAIN dev[m].fifo[d] :
         e = OutEvent(m, dev[m].fifo[d][i], Broadcast, FALSE)
  BY DEF TransmitFIFOBuffer, Flushed
<1>2. PICK i \in DOMAIN dev[m].fifo[d] :
         e = OutEvent(m, dev[m].fifo[d][i], Broadcast, FALSE)
  BY <1>1
<1>3. dev[m].fifo[d] \in Seq(DataPacket)
  BY DEF NetInv, Types, IsDevice
<1>4. dev[m].fifo[d][i] \in DataPacket
  BY <1>2, <1>3
<1> QED
  BY <1>2, <1>4, DataOK, OutEventOK

\* A RREP that is passed on was in order.
LEMMA ForwardRREPOK ==
    ASSUME NEW D, NEW t, NEW m \in Node, NEW p, PacketOK(D, t, p),
           p.kind = "RREP", NEW rt, Good(rt, now),
           NEW e \in ForwardRREP(m, p, rt)
    PROVE  EventOK(D, t, e)
<1> DEFINE q == [p EXCEPT !.hop = @ + 1, !.last = m]
           next == FindNextHop(rt, p.orig)
<1>1. e = OutEvent(m, q, next, FALSE) /\ CheckRouteFound(rt, p.orig, now)
  BY DEF ForwardRREP
<1>2. next \in Node
  BY <1>1 DEF CheckRouteFound, FindNextHop, Good, IsRouteTable, RouteEntry
<1>3. p \in RrepPacket
  BY PacketKind
<1>4. /\ q \in RrepPacket /\ q.kind = "RREP" /\ q.dest = p.dest
      /\ q.dseq = p.dseq /\ q.life = p.life
  <2> DEFINE hop == p.hop + 1
  <2>1. hop \in Nat
    BY <1>3 DEF RrepPacket
  <2>2. q = [p EXCEPT !.hop = hop, !.last = m]
    OBVIOUS
  <2> HIDE DEF hop, q
  <2> QED
    BY <1>3, <2>1, <2>2 DEF RrepPacket
<1> HIDE DEF q, next
<1>5. PacketOK(D, t, q) /\ Marked(D, m, q)
  BY <1>4 DEF PacketOK, Marked
<1> QED
  BY <1>1, <1>2, <1>5, OutEventOK

\* A RREP: one about the device itself is ignored, so the route it brings is
\* to another device; the search it ends loses its entry, not its timeout.
LEMMA StepProcessRREP ==
    ASSUME NetInv, Receiving, NEW m \in Node, NEW p, PacketOK(dev, now, p),
           ProcessRREP(m, p)
    PROVE  StepOK
<1> DEFINE lt == now + ACTIVE_ROUTE_TIMEOUT
           rt1 == InsertInRouteTable(dev[m].routeTable, p.dest, p.dseq, p.hop,
                                     p.last, lt, now)
           rt2 == UpdateRouteTable(rt1, p.last, p.life)
           tms == AddRouteTimer(routeTimers[m], dev[m].routeTable, p.dest, now)
           kept(f) == [d \in Node |-> IF d \in Flushed(rt1) THEN <<>> ELSE f[d]]
           fifo == kept(dev[m].fifo)
           left(s) == IF p.orig = m THEN DeleteRREQSentTable(s, p.dest) ELSE s
           sent == left(dev[m].rreqSentTable)
           count(c) == IF p.congestion THEN CounterPlus(c) ELSE c
<1>1. p.kind = "RREP" /\ p \in RrepPacket
  BY PacketKind DEF ProcessRREP
<1>2. /\ p.orig \in Node /\ p.dseq \in Nat /\ p.hop \in Nat
      /\ p.last \in Node /\ p.dest \in Node /\ p.life \in Nat
  BY <1>1 DEF RrepPacket
<1>3. CASE p.dest = m
  <2>1. dev' = dev /\ routeTimers' = routeTimers /\ out' = out
    BY <1>3 DEF ProcessRREP
  <2> QED
    BY <2>1, Ignored
<1>4. CASE p.dest # m
  <2>1. p.dseq <= dev[p.dest].nSequenceNumber /\ p.life <= now + DELETE_PERIOD
    BY <1>1 DEF PacketOK
  <2>2. lt \in Int /\ lt <= now + DELETE_PERIOD /\ now \in Nat
    BY Numbers, Timeouts
  <2>3. dev' = [dev EXCEPT ![m] =
                  [InsertInPrecursorsList(dev[m], p.last) EXCEPT
                     !.ncounter = count(@),
                     !.routeTable = rt2,
                     !.fifo = kept(@),
                     !.rreqSentTable = left(@)]]
    BY <1>4, Zenon DEF ProcessRREP
  <2>4. routeTimers' = [routeTimers EXCEPT ![m] =
                          AddRouteTimer(@, dev[m].routeTable, p.dest, now)]
    BY <1>4, Zenon DEF ProcessRREP
  <2>5. \A e \in out' : \/ e \in out
                        \/ e \in TransmitFIFOBuffer(m, rt1)
                        \/ e \in ForwardRREP(m, p, rt2)
    BY <1>4 DEF ProcessRREP
  <2>6. Enterable(m, p.dest, p.dseq, p.hop, p.last, lt)
    <3> HIDE DEF lt
    <3> QED
      BY <1>2, <1>4, <2>1, <2>2 DEF Enterable, RouteArgs
  <2>7. Learned(m, rt1, tms)
    BY <2>6, Insertion
  <2> HIDE DEF lt, rt1, tms
  <2>8. Learned(m, rt2, tms)
    BY <1>2, <2>1, <2>7, LearnedUpdate
  <2>9. fifo \in [Node -> Seq(DataPacket)]
    <3>1. dev[m].fifo \in [Node -> Seq(DataPacket)] /\ <<>> \in Seq(DataPacket)
      BY DEF NetInv, Types, IsDevice
    <3> QED
      BY <3>1
  <2>10. /\ DOMAIN sent \subseteq DOMAIN dev[m].rreqSentTable
         /\ \A d \in DOMAIN sent : sent[d] = dev[m].rreqSentTable[d]
    BY DEF DeleteRREQSentTable
  <2>11. /\ dev' = [k \in Node |-> dev'[k]]
         /\ \A k \in Node \ {m} : dev'[k] = dev[k]
         /\ dev'[m].routeTable = rt2
         /\ dev'[m].nSequenceNumber = dev[m].nSequenceNumber
         /\ dev'[m].rreqSeenTable = dev[m].rreqSeenTable
         /\ dev'[m].rreqSentTable = sent
         /\ IsDevice(dev'[m])
    <3>1. IsDevice(dev[m]) /\ dev = [k \in Node |-> dev[k]]
      BY DEF NetInv, Types
    <3> DEFINE pre == InsertInPrecursorsList(dev[m], p.last)
               new == count(dev[m].ncounter)
               post == [pre EXCEPT !.ncounter = new, !.routeTable = rt2,
                                   !.fifo = fifo, !.rreqSentTable = sent]
    <3>2. /\ IsDevice(pre) /\ pre.ncounter = dev[m].ncounter
          /\ pre.fifo = dev[m].fifo
          /\ pre.rreqSentTable = dev[m].rreqSentTable
          /\ pre.nSequenceNumber = dev[m].nSequenceNumber
          /\ pre.rreqSeenTable = dev[m].rreqSeenTable
      BY <3>1 DEF IsDevice, DeviceFields, InsertInPrecursorsList
    <3>3. dev' = [dev EXCEPT ![m] =
                    [pre EXCEPT !.ncounter = count(@), !.routeTable = rt2,
                                !.fifo = kept(@), !.rreqSentTable = left(@)]]
      BY <2>3
    <3> HIDE DEF pre, rt2
    <3>4. dev' = [dev EXCEPT ![m] = post]
      BY <3>2, <3>3, Zenon
    <3> HIDE DEF fifo, sent, new
    <3>5. /\ post.routeTable = rt2
          /\ post.nSequenceNumber = dev[m].nSequenceNumber
          /\ post.rreqSeenTable = dev[m].rreqSeenTable
          /\ post.rreqSentTable = sent
          /\ IsDevice(post)
      BY <2>9, <3>2 DEF IsDevice, DeviceFields
    <3> HIDE DEF post
    <3> QED
      BY <3>1, <3>4, <3>5
  <2> HIDE DEF rt2, fifo, sent
  <2>12. /\ routeTimers' = [k \in Node |-> routeTimers'[k]]
         /\ \A k \in Node \ {m} : routeTimers'[k] = routeTimers[k]
         /\ routeTimers'[m] = tms
    BY <2>4 DEF NetInv, Types, tms
  <2>13. Learns(m)
    BY <2>8, <2>11, <2>12, Numbers DEF Learns
  <2>14. SentOK(m)'
    <3>1. SentOK(m)
      BY DEF NetInv
    <3> QED
      BY <2>10, <2>11, <3>1, SentKept DEF Receiving, SentOK
  <2>15. Types' /\ Monotone
    BY <2>13, LearnsTypes
  <2>16. PacketOK(dev', now', p) /\ Good(rt2, now)
    BY <2>8, <2>15, PacketKept DEF NetInv, Learned
  <2>17. ASSUME NEW e \in out', e \notin out PROVE EventOK(dev', now', e)
    <3>1. CASE e \in TransmitFIFOBuffer(m, rt1)
      BY <3>1, FlushedOK
    <3>2. CASE e \in ForwardRREP(m, p, rt2)
      BY <1>1, <2>16, <3>2, ForwardRREPOK
    <3> QED
      BY <2>5, <2>17, <3>1, <3>2
  <2> QED
    BY <2>13, <2>14, <2>17, LearnsOK
<1> QED
  BY <1>3, <1>4

\* A reception that writes the route table of m and nothing else.
LEMMA TableLearned ==
    ASSUME NetInv, Receiving, NEW m \in Node, NEW r,
           dev' = [dev EXCEPT ![m].routeTable = r], routeTimers' = routeTimers,
           Learned(m, r, routeTimers[m])
    PROVE  Learns(m) /\ SentOK(m)'
<1>1. IsDevice(dev[m]) /\ dev = [k \in Node |-> dev[k]]
  BY DEF NetInv, Types
<1>2. /\ dev' = [k \in Node |-> dev'[k]]
      /\ \A k \in Node \ {m} : dev'[k] = dev[k]
      /\ dev'[m].routeTable = r
      /\ dev'[m].nSequenceNumber = dev[m].nSequenceNumber
      /\ dev'[m].rreqSeenTable = dev[m].rreqSeenTable
      /\ dev'[m].rreqSentTable = dev[m].rreqSentTable
      /\ IsDevice(dev'[m])
  BY <1>1 DEF IsDevice, DeviceFields
<1>3. routeTimers' = [k \in Node |-> routeTimers'[k]]
  BY DEF NetInv, Types
<1>4. Learns(m)
  BY <1>2, <1>3, Numbers DEF Learns
<1> QED
  BY <1>2, <1>4, SentSame

\* A RERR is passed on with the device as its source.
LEMMA StepProcessRERR ==
    ASSUME NetInv, Receiving, NEW m \in Node, NEW p, PacketOK(dev, now, p),
           ProcessRERR(m, p)
    PROVE  StepOK
<1> DEFINE rt == dev[m].routeTable
           broken == p.dests \cap RoutesThrough(rt, p.src)
           r == InvalidateRoutes(rt, broken, now)
           q == [p EXCEPT !.src = m]
<1>1. p.kind = "RERR" /\ p \in RERR /\ routeTimers' = routeTimers
  BY PacketKind DEF ProcessRERR
<1>2. CASE broken = {}
  <2>1. dev' = dev /\ out' = out
    BY <1>2 DEF ProcessRERR
  <2> QED
    BY <1>1, <2>1, Ignored
<1>3. CASE broken # {}
  <2>1. /\ dev' = [dev EXCEPT ![m].routeTable = r]
        /\ out' = out \cup {OutEvent(m, q, Broadcast, TRUE)}
    BY <1>3 DEF ProcessRERR
  <2>2. q \in RERR /\ q.kind = "RERR"
    BY <1>1 DEF RERR
  <2>3. Learned(m, r, routeTimers[m])
    BY LearnedNothing, LearnedBreak
  <2> HIDE DEF r, q
  <2>4. Learns(m) /\ SentOK(m)'
    BY <1>1, <2>1, <2>3, TableLearned
  <2>5. EventOK(dev', now', OutEvent(m, q, Broadcast, TRUE))
    <3>1. PacketOK(dev', now', q) /\ Marked(dev', m, q)
      BY <2>2 DEF PacketOK, Marked
    <3> QED
      BY <3>1, OutEventOK
  <2> QED
    BY <2>1, <2>4, <2>5, LearnsOK
<1> QED
  BY <1>2, <1>3

\* A data packet keeps the routes at both of its ends alive and is routed on.
LEMMA StepProcessData ==
    ASSUME NetInv, Receiving, NEW m \in Node, NEW p, PacketOK(dev, now, p),
           ProcessData(m, p)
    PROVE  StepOK
<1> DEFINE rt == dev[m].routeTable
           life == now + ACTIVE_ROUTE_TIMEOUT
           r1 == UpdateRouteTable(rt, p.dst, life)
           r0 == IF p.dst = m THEN rt ELSE r1
           r == UpdateRouteTable(r0, p.src, life)
<1>1. IsData(p) /\ p \in DataPacket /\ p.src \in Node /\ p.dst \in Node
  BY IsDataPacket DEF ProcessData
<1>2. dev' = [dev EXCEPT ![m].routeTable = r] /\ routeTimers' = routeTimers
  BY DEF ProcessData
<1>3. \A e \in out' : e \in out \/ e = OutEvent(m, p, Broadcast, FALSE)
  BY DEF ProcessData
<1>4. life \in Nat /\ life <= now + DELETE_PERIOD
  BY Numbers, Timeouts
<1> HIDE DEF life
<1>5. Learned(m, r1, routeTimers[m]) /\ Learned(m, rt, routeTimers[m])
  BY <1>1, <1>4, LearnedNothing, LearnedUpdate
<1> HIDE DEF r1
<1>6. Learned(m, r0, routeTimers[m])
  BY <1>5
<1> HIDE DEF r0
<1>7. Learned(m, r, routeTimers[m])
  BY <1>1, <1>4, <1>6, LearnedUpdate
<1> HIDE DEF r
<1>8. Learns(m) /\ SentOK(m)'
  BY <1>2, <1>7, TableLearned
<1>9. EventOK(dev', now', OutEvent(m, p, Broadcast, FALSE))
  BY <1>1, DataOK, OutEventOK
<1> QED
  BY <1>3, <1>8, <1>9, LearnsOK

\* Whatever is received, the invariant is kept.
LEMMA StepNetworkIn ==
    ASSUME NetInv, NetworkIn
    PROVE  StepOK
<1> DEFINE got(c) == IF IsData(c.pkt) THEN c.pkt
                     ELSE [c.pkt EXCEPT !.ttl = @ - 1]
<1>1. PICK c \in air :
        /\ air' \subseteq air
        /\ \/ ProcessRREQ(c.rx, got(c)) \/ ProcessRREP(c.rx, got(c))
           \/ ProcessRERR(c.rx, got(c)) \/ ProcessData(c.rx, got(c))
        /\ UNCHANGED <<now, nRREQId, rreqTimers, helloTimer, nData, dropped>>
  BY DEF NetworkIn
<1>2. Receiving
  BY <1>1 DEF Receiving
<1>3. c.rx \in Node /\ PacketOK(dev, now, got(c))
  BY ReceivedOK DEF NetInv, CopyOK
<1> HIDE DEF got
<1> QED
  BY <1>1, <1>2, <1>3, StepProcessRREQ, StepProcessRREP, StepProcessRERR,
     StepProcessData

-----------------------------------------------------------------------------
(* Link breaks, time and the end of the run.                               *)

\* A drop is counted, or it breaks the routes through the neighbour and the
\* device says so.
LEMMA StepMacDrop ==
    ASSUME NetInv, MacDrop
    PROVE  StepOK
<1>1. PICK c \in air : /\ PacketDropNotification(c.tx, c.rx)
                       /\ air' = air \ {c}
                       /\ UNCHANGED <<now, nRREQId, timers, nData>>
  BY DEF MacDrop
<1> DEFINE n == c.tx
<1>2. /\ n \in Node /\ Receiving /\ routeTimers' = routeTimers
      /\ IsDevice(dev[n]) /\ dev = [k \in Node |-> dev[k]]
      /\ routeTimers = [k \in Node |-> routeTimers[k]]
  BY <1>1 DEF NetInv, Types, CopyOK, Receiving, timers
<1> HIDE DEF n
<1>3. CASE dev[n].nRerrCount > RERR_LIMIT
  <2> DEFINE rt == dev[n].routeTable
             dests == RoutesThrough(rt, c.rx)
             r == InvalidateRoutes(rt, dests, now)
             rerr == [kind |-> "RERR", ttl |-> NET_DIAMETER, src |-> n,
                      dests |-> dests]
  <2>1. /\ dev' = [dev EXCEPT ![n].ncounter = CounterMinus(@),
                              ![n].routeTable = r,
                              ![n].precursors = @ \ {c.rx},
                              ![n].nRerrCount = 2]
        /\ \A e \in out' : e \in out \/ e = OutEvent(n, rerr, Broadcast, FALSE)
    BY <1>1, <1>3 DEF PacketDropNotification, GenerateRERR, n
  <2>2. rerr \in RERR /\ rerr.kind = "RERR"
    <3>1. dests \in SUBSET Node
      BY <1>2 DEF RoutesThrough, NetInv, TableOK, Good, IsRouteTable
    <3> HIDE DEF dests
    <3> QED
      BY <1>2, <3>1, TimeAssumption DEF RERR
  <2>3. Learned(n, r, routeTimers[n])
    BY <1>2, LearnedNothing, LearnedBreak
  <2> HIDE DEF r, rerr
  <2>4. /\ dev' = [k \in Node |-> dev'[k]]
        /\ \A k \in Node \ {n} : dev'[k] = dev[k]
        /\ dev'[n].routeTable = r
        /\ dev'[n].nSequenceNumber = dev[n].nSequenceNumber
        /\ dev'[n].rreqSeenTable = dev[n].rreqSeenTable
        /\ dev'[n].rreqSentTable = dev[n].rreqSentTable
        /\ IsDevice(dev'[n])
    BY <1>2, <2>1 DEF IsDevice, DeviceFields
  <2>5. Learns(n)
    BY <1>2, <2>3, <2>4, Numbers DEF Learns
  <2>6. SentOK(n)'
    BY <1>2, <2>4, SentSame
  <2>7. EventOK(dev', now', OutEvent(n, rerr, Broadcast, FALSE))
    <3>1. PacketOK(dev', now', rerr) /\ Marked(dev', n, rerr)
      BY <2>2 DEF PacketOK, Marked
    <3> QED
      BY <1>2, <3>1, OutEventOK
  <2> QED
    BY <1>2, <2>1, <2>5, <2>6, <2>7, LearnsOK
<1>4. CASE ~(dev[n].nRerrCount > RERR_LIMIT)
  <2>1. dev' = [dev EXCEPT ![n].nRerrCount = @ + 1] /\ out' = out
    BY <1>1, <1>4 DEF PacketDropNotification, n
  <2>2. /\ dev' = [k \in Node |-> dev'[k]]
        /\ \A k \in Node \ {n} : dev'[k] = dev[k]
        /\ dev'[n].routeTable = dev[n].routeTable
        /\ dev'[n].nSequenceNumber = dev[n].nSequenceNumber
        /\ dev'[n].rreqSeenTable = dev[n].rreqSeenTable
        /\ dev'[n].rreqSentTable = dev[n].rreqSentTable
        /\ IsDevice(dev'[n])
    BY <1>2, <2>1 DEF IsDevice, DeviceFields
  <2>3. NewTraffic
    BY <1>1, <2>1 DEF NewTraffic
  <2> QED
    BY <1>1, <1>2, <2>2, <2>3, Harmless DEF timers
<1> QED
  BY <1>3, <1>4

\* The clock stops at the next timer, so every timeout is still ahead.
LEMMA StepAdvance ==
    ASSUME NetInv, NEW t \in Nat, Advance(t)
    PROVE  StepOK
<1>1. /\ now' = t /\ t > now /\ now \in Nat /\ air' \subseteq air
      /\ UNCHANGED <<nRREQId, dev, routeTimers, rreqTimers, out, nData>>
  BY Numbers DEF Advance, timers, dataFate
<1>2. Types'
  BY <1>1 DEF NetInv, Types
<1>3. Monotone
  BY <1>1, Numbers DEF Monotone
<1>4. ASSUME NEW n \in Node
      PROVE  /\ \A timer \in routeTimers[n] : t <= timer.at
             /\ \A timer \in rreqTimers[n] : t <= timer.at
  <2>1. \A timer \in routeTimers[n] \cup rreqTimers[n] : timer.at \in Timers
    BY DEF Timers
  <2> QED
    BY <2>1 DEF Advance
<1>5. ASSUME NEW n \in Node PROVE TableOK(n)' /\ CacheStep(n)
  <2>1. TableOK(n)
    BY DEF NetInv
  <2>2. /\ Good(dev[n].routeTable, t)
        /\ Covered(dev[n].routeTable, routeTimers[n], t)
        /\ \A d \in DOMAIN dev[n].routeTable : t <= dev[n].routeTable[d].life
    BY <1>1, <1>4, <2>1, ClockGood DEF TableOK
  <2>3. TableOK(n)'
    BY <1>1, <2>1, <2>2 DEF TableOK
  <2>4. CacheStep(n)
    BY <1>1, <2>2 DEF CacheStep
  <2> QED
    BY <2>3, <2>4
<1>6. ASSUME NEW n \in Node PROVE SentOK(n)'
  <2>1. SentOK(n)
    BY DEF NetInv
  <2>2. ASSUME NEW d \in DOMAIN dev[n].rreqSentTable
        PROVE  dev[n].rreqSentTable[d].timeout >= t
    <3>1. /\ [dest |-> d, at |-> dev[n].rreqSentTable[d].timeout]
                \in rreqTimers[n]
          /\ dev[n].rreqSentTable[d].timeout \in Nat
      BY <2>1 DEF SentOK, SentEntry
    <3> QED
      BY <1>4, <3>1
  <2> QED
    BY <1>1, <2>1, <2>2 DEF SentOK
<1>7. \A n \in Node : SeqOK(n)'
  BY <1>1, <1>2, <1>3, SeqKept
<1>8. /\ \A e \in out' : EventOK(dev', now', e)
      /\ \A c \in air' : CopyOK(dev', now', c)
  BY <1>1, <1>2, <1>3, TrafficKept
<1> QED
  BY <1>2, <1>5, <1>6, <1>7, <1>8 DEF NetInv, StepOK

\* A step that leaves alone what the invariant speaks of.
LEMMA StepIdle ==
    ASSUME NetInv,
           UNCHANGED <<now, nRREQId, dev, timers, out, air, nData>>
    PROVE  StepOK
<1>1. Types'
  BY DEF NetInv, Types, timers
<1>2. NewTraffic
  BY DEF NewTraffic
<1> QED
  BY <1>1, <1>2, NoDevice DEF timers

-----------------------------------------------------------------------------
(* The invariant.                                                          *)

\* The network starts in order.
LEMMA InitInv ==
    ASSUME Init
    PROVE  NetInv
<1> DEFINE none == [d \in {} |-> 0]
<1>1. /\ dev = [n \in Node |-> InitDev] /\ out = {} /\ air = {}
      /\ now = 0 /\ nRREQId = 0 /\ nData = 0
      /\ routeTimers = [n \in Node |-> {}]
      /\ rreqTimers = [n \in Node |-> {}]
  BY DEF Init
<1>2. /\ InitDev.routeTable = none /\ InitDev.rreqSentTable = none
      /\ IsDevice(InitDev)
  <2> DEFINE fifo == [d \in Node |-> <<>>]
  <2>1. fifo \in [Node -> Seq(DataPacket)]
    OBVIOUS
  <2> HIDE DEF fifo
  <2> QED
    BY <2>1 DEF InitDev, IsDevice, DeviceFields, fifo
<1>3. DOMAIN none = {} /\ none = [d \in DOMAIN none |-> none[d]]
  OBVIOUS
<1> HIDE DEF none
<1>4. none \in [DOMAIN none -> RouteEntry]
  BY <1>3
<1>5. Good(none, 0) /\ Covered(none, {}, 0)
  BY <1>3, <1>4 DEF Good, IsRouteTable, Covered
<1>6. Types
  BY <1>1, <1>2 DEF Types
<1>7. ASSUME NEW n \in Node PROVE TableOK(n) /\ SeqOK(n) /\ SentOK(n)
  <2>1. /\ dev[n].routeTable = none /\ dev[n].rreqSentTable = none
        /\ routeTimers[n] = {} /\ rreqTimers[n] = {}
    BY <1>1, <1>2
  <2> QED
    BY <1>1, <1>3, <1>5, <2>1 DEF TableOK, SeqOK, SentOK
<1> QED
  BY <1>1, <1>6, <1>7 DEF NetInv

\* Every device has the time of its next hello.
HelloOK == helloTimer \in [Node -> Nat]

\* A hello schedules the next one.
LEMMA HelloStep ==
    ASSUME NetInv, HelloOK, [Next]_vars
    PROVE  HelloOK'
<1>1. CASE \E n \in Node : TransmitHello(n)
  <2>1. PICK n \in Node :
           helloTimer' = [helloTimer EXCEPT ![n] = now + HELLO_INTERVAL]
    BY <1>1 DEF TransmitHello
  <2>2. now + HELLO_INTERVAL \in Nat
    BY Numbers, TimeAssumption
  <2> QED
    BY <2>1, <2>2 DEF HelloOK
<1>2. CASE UNCHANGED helloTimer
  BY <1>2 DEF HelloOK
<1>3. CASE Timer /\ ~\E n \in Node : TransmitHello(n)
  <2>1. ASSUME NEW n, NEW timer, RetryRREQ(n, timer) PROVE UNCHANGED helloTimer
    BY <2>1, Zenon DEF RetryRREQ
  <2>2. \A n, timer : ActiveRouteTimeout(n, timer) => UNCHANGED helloTimer
    BY Zenon DEF ActiveRouteTimeout
  <2> QED
    BY <1>2, <1>3, <2>1, <2>2 DEF Timer
<1>4. CASE NetworkOut
  BY <1>2, <1>4 DEF NetworkOut, RouteData, BufferData, DiscoverRoute,
                    SendControl, timers
<1>5. CASE NetworkIn \/ MacDrop \/ Finish \/ Over
  BY <1>2, <1>5 DEF NetworkIn, MacDrop, Finish, Over, timers, vars
<1>6. ASSUME NEW t, Advance(t) PROVE HelloOK'
  BY <1>2, <1>6 DEF Advance, timers
<1>7. ASSUME NEW f \in Flow, AppSend(f[1], f[2], f[3]) PROVE HelloOK'
  BY <1>2, <1>7 DEF AppSend, timers
<1>8. CASE UNCHANGED vars
  BY <1>2, <1>8 DEF vars, timers
<1> QED
  BY <1>1, <1>3, <1>4, <1>5, <1>6, <1>7, <1>8 DEF Next

\* Every step keeps the network in order.
LEMMA NextInv ==
    ASSUME NetInv, HelloOK, [Next]_vars
    PROVE  StepOK
<1>1. ASSUME NEW t \in Timers \cup {f[3] : f \in Flow} \cup {SimTime}
      PROVE  t \in Nat
  <2>1. ASSUME NEW n \in Node, NEW timer \in routeTimers[n] \cup rreqTimers[n],
               t = timer.at
        PROVE  t \in Nat
    BY <2>1 DEF NetInv, TableOK, SentOK, RouteTimer
  <2>2. ASSUME NEW n \in Node, t = helloTimer[n]
        PROVE  t \in Nat
    BY <2>2 DEF HelloOK
  <2> QED
    BY <2>1, <2>2, NetworkAssumption DEF Timers
<1>2. CASE Finish \/ Over \/ UNCHANGED vars
  <2>1. UNCHANGED <<now, nRREQId, dev, timers, out, air, nData>>
    BY <1>2 DEF Finish, Over, vars, dataFate
  <2> QED
    BY <2>1, StepIdle
<1> QED
  BY <1>1, <1>2, StepAppSend, StepNetworkOut, StepNetworkIn, StepTimer,
     StepMacDrop, StepAdvance DEF Next

\* The invariant and the step of every cache, of every behaviour.
THEOREM NetInvariant == Spec => [](NetInv /\ HelloOK)
<1>1. Init => NetInv /\ HelloOK
  <2>1. Init => HelloOK
    BY TimeAssumption DEF Init, HelloOK
  <2> QED
    BY <2>1, InitInv
<1>2. NetInv /\ HelloOK /\ [Next]_vars => NetInv' /\ HelloOK'
  BY NextInv, HelloStep DEF StepOK
<1> QED
  BY <1>1, <1>2, PTL DEF Spec

-----------------------------------------------------------------------------
(* What follows.                                                           *)

\* SeqNotAhead: no table and no RREQ, RREP or hello on its way names a newer
\* sequence number of a device than the device has used, however many frames
\* are lost, repeated or overtake each other.
THEOREM NetworkSeqNotAhead == Spec => []SeqNotAhead
<1>1. NetInv => SeqNotAhead
  BY DEF NetInv, SeqOK, SeqNotAhead, Packets, EventOK, CopyOK, PacketOK
<1> QED
  BY <1>1, NetInvariant, PTL

\* NoSelfRoute: no device has a route to itself.
THEOREM NetworkNoSelfRoute == Spec => []NoSelfRoute
<1>1. NetInv => NoSelfRoute
  BY DEF NetInv, SeqOK, NoSelfRoute
<1> QED
  BY <1>1, NetInvariant, PTL

\* FloodMarked: whoever has a RREQ in an event or on the air has entered it in
\* its seen table, so it will not send it on again.
THEOREM NetworkFloodMarked == Spec => []FloodMarked
<1>1. NetInv => FloodMarked
  BY DEF NetInv, FloodMarked, EventOK, CopyOK, Marked
<1> QED
  BY <1>1, NetInvariant, PTL

\* RrepLifetimeBounded: the lifetime in a RREP is at most DELETE_PERIOD ahead,
\* which is what AodvRouteTable assumes of the messages it receives.
THEOREM NetworkRrepLifetime == Spec => []RrepLifetimeBounded
<1>1. NetInv => RrepLifetimeBounded
  BY DEF NetInv, RrepLifetimeBounded, Packets, EventOK, CopyOK, PacketOK
<1> QED
  BY <1>1, NetInvariant, PTL

\* DiscoveryArmed: every RREQ entered as sent has its timeout event pending,
\* and its TTL and its tries stay on the ladder of the expanding ring.
THEOREM NetworkDiscoveryArmed == Spec => []DiscoveryArmed
<1>1. NetInv => DiscoveryArmed
  BY DEF NetInv, SentOK, DiscoveryArmed
<1> QED
  BY <1>1, NetInvariant, PTL

-----------------------------------------------------------------------------
(* Every table is the soft-state cache.                                    *)

\* What a step may do to a table is a step of the cache or none.
LEMMA CacheStepNext ==
    ASSUME NEW n \in Node, CacheStep(n)
    PROVE  RC(n)!Next \/ UNCHANGED <<now, CacheView(n)>>
<1> DEFINE rt == dev[n].routeTable
           r == dev'[n].routeTable
           C == CacheView(n)
           E == CacheView(n)'
<1>1. /\ DOMAIN C = DOMAIN rt /\ DOMAIN E = DOMAIN r
      /\ C = [d \in DOMAIN C |-> C[d]] /\ E = [d \in DOMAIN E |-> E[d]]
      /\ \A d \in DOMAIN rt : /\ C[d].seq = rt[d].seq
                              /\ C[d].next = rt[d].next
                              /\ C[d].life = rt[d].life
      /\ \A d \in DOMAIN r : /\ E[d] = [seq |-> r[d].seq, next |-> r[d].next,
                                        life |-> r[d].life]
                             /\ E[d].seq = r[d].seq
                             /\ E[d].next = r[d].next
                             /\ E[d].life = r[d].life
  BY DEF CacheView
<1>2. ASSUME r = rt PROVE E = C
  BY <1>2 DEF CacheView
<1>3. ASSUME NEW d \in DOMAIN rt, r = RemoveRoute(rt, d)
      PROVE  E = [e \in DOMAIN C \ {d} |-> C[e]]
  BY <1>3 DEF CacheView, RemoveRoute
<1>4. CASE now' = now /\ r = rt
  BY <1>2, <1>4
<1>5. CASE now' = now /\ Good(r, now) /\ Grows(rt, r, now)
  <2>1. /\ DOMAIN C \subseteq DOMAIN E /\ DOMAIN E \subseteq Node
    BY <1>1, <1>5 DEF Grows, Good, IsRouteTable
  <2>2. E \in [DOMAIN E -> RC(n)!CacheEntry]
    <3>1. ASSUME NEW d \in DOMAIN r PROVE E[d] \in RC(n)!CacheEntry
      <4>1. r[d].seq \in Nat /\ r[d].next \in Node /\ r[d].life \in Nat
        BY <1>5 DEF Good, IsRouteTable, RouteEntry
      <4>2. [seq |-> r[d].seq, next |-> r[d].next, life |-> r[d].life]
               \in RC(n)!CacheEntry
        BY <4>1 DEF RC!CacheEntry
      <4>3. E[d] = [seq |-> r[d].seq, next |-> r[d].next, life |-> r[d].life]
        BY <1>1
      <4> QED
        BY <4>2, <4>3
    <3> QED
      BY <1>1, <3>1
  <2>3. /\ \A d \in DOMAIN C : /\ E[d].next = C[d].next
                               /\ E[d].seq >= C[d].seq
                               /\ E[d].life >= C[d].life
        /\ \A d \in DOMAIN E \ DOMAIN C : E[d].life >= now + ACTIVE_ROUTE_TIMEOUT
    BY <1>1, <1>5 DEF Grows
  <2>4. RC(n)!Learn
    BY <1>5, <2>1, <2>2, <2>3 DEF RC!Learn
  <2> QED
    BY <2>4 DEF RC!Next
<1>6. ASSUME now' = now, NEW d \in DOMAIN rt, rt[d].life = now,
             r = RemoveRoute(rt, d)
      PROVE  RC(n)!Next
  <2>1. RC(n)!Forget(d)
    BY <1>1, <1>3, <1>6 DEF RC!Forget
  <2> QED
    BY <1>1, <2>1 DEF RC!Next
<1>7. CASE /\ now' \in Nat /\ now' > now /\ r = rt
           /\ \A d \in DOMAIN rt : now' <= rt[d].life
  <2>1. RC(n)!Tick
    BY <1>1, <1>2, <1>7 DEF RC!Tick
  <2> QED
    BY <2>1 DEF RC!Next
<1> QED
  BY <1>4, <1>5, <1>6, <1>7 DEF CacheStep

\* ImplementsCache: in the network, with everything that other devices send,
\* the route table of each device is the abstract soft-state cache; a route
\* keeps its next hop, never goes back to an older number, lives for at least
\* ACTIVE_ROUTE_TIMEOUT and is gone when its lifetime is over.
THEOREM NetworkCacheRefinement == Spec => ImplementsCache
<1>1. Init => \A n \in Node : RC(n)!Init
  <2> SUFFICES ASSUME Init, NEW n \in Node PROVE RC(n)!Init
    OBVIOUS
  <2>1. dev[n].routeTable = [d \in {} |-> 0] /\ now = 0
    BY DEF Init, InitDev
  <2>2. DOMAIN CacheView(n) = {}
        /\ CacheView(n) = [d \in DOMAIN CacheView(n) |-> CacheView(n)[d]]
    BY <2>1 DEF CacheView
  <2>3. CacheView(n) = [d \in {} |-> 0]
    BY <2>2
  <2> QED
    BY <2>1, <2>3 DEF RC!Init
<1>2. NetInv /\ HelloOK /\ [Next]_vars
         => [\A n \in Node : [RC(n)!Next]_(RC(n)!vars)]_vars
  <2> SUFFICES ASSUME NetInv, HelloOK, [Next]_vars, NEW n \in Node
               PROVE  RC(n)!Next \/ UNCHANGED <<now, CacheView(n)>>
    BY DEF RC!vars
  <2> QED
    BY NextInv, CacheStepNext DEF StepOK
<1> QED
  BY <1>1, <1>2, NetInvariant, PTL DEF Spec, ImplementsCache
=============================================================================
