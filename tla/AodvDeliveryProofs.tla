------------------------- MODULE AodvDeliveryProofs -------------------------
(***************************************************************************)
(* No data packet disappears in AodvNetwork, and as long as no             *)
(* acknowledgement is lost none is duplicated.                             *)
(*                                                                         *)
(* DataConserved speaks of kinds of places; that a packet is in one kind   *)
(* of place only is not inductive, since two events could hold it and one  *)
(* of them be sent.  The inductive invariant therefore counts the spots    *)
(* themselves: the events, the frames and the positions in a FIFO.         *)
(***************************************************************************)
EXTENDS AodvNetworkProofs, FiniteSetTheorems

\* The state as far as data packets are concerned.
DataOut == {e \in out : IsData(e.pkt)}
DataAir == {c \in air : IsData(c.pkt)}
Fifos == [n \in Node |-> dev[n].fifo]

\* The data packet id is at the spot x of kind k.
Spot(id, k, x) ==
    \/ k = 1 /\ x \in DataOut /\ x.pkt.id = id
    \/ k = 2 /\ x \in DataAir /\ x.pkt.id = id
    \/ k = 3 /\ \E n, d \in Node : \E i \in DOMAIN Fifos[n][d] :
                   x = <<n, d, i>> /\ Fifos[n][d][i].id = id
    \/ k = 4 /\ id \in delivered /\ x = 0
    \/ k = 5 /\ id \in dropped /\ x = 0

Somewhere(id) == \E k, x : Spot(id, k, x)

Once(id) == \A k1, x1, k2, x2 :
               Spot(id, k1, x1) /\ Spot(id, k2, x2) => k1 = k2 /\ x1 = x2

\* The inductive invariant: the packets that are anywhere are those that were
\* sent, each is somewhere, and each is there once if every acknowledgement
\* came through.
DataInv ==
    /\ nAckLost \in Nat
    /\ \A id : Somewhere(id) => id \in 1..nData
    /\ \A id \in 1..nData : Somewhere(id) /\ (nAckLost = 0 => Once(id))

\* What a step does to a packet that stays where it is ...
Kept(id) == \A k, x : Spot(id, k, x)' <=> Spot(id, k, x)

\* ... and to one that goes from the spot x of kind k to the spot y of kind l.
Moved(id, k, x, l, y) ==
    /\ Spot(id, k, x)
    /\ Spot(id, l, y)'
    /\ \A m, z : Spot(id, m, z)' =>
                   \/ m = l /\ z = y
                   \/ Spot(id, m, z) /\ ~(m = k /\ z = x)

\* What is shown of every step that sends no new packet.
Carried(id) ==
    /\ Somewhere(id)' <=> Somewhere(id)
    /\ nAckLost' = nAckLost /\ Once(id) => Once(id)'

\* A packet that stays is carried.
LEMMA KeptCarried ==
    ASSUME NEW id, Kept(id)
    PROVE  Carried(id)
  BY DEF Kept, Carried, Somewhere, Once

\* A packet that moves is carried.
LEMMA MovedCarried ==
    ASSUME NEW id, NEW k, NEW x, NEW l, NEW y, Moved(id, k, x, l, y)
    PROVE  Carried(id)
<1>1. Somewhere(id) /\ Somewhere(id)'
  BY DEF Moved, Somewhere
<1>2. ASSUME Once(id) PROVE Once(id)'
  <2>1. \A m, z : Spot(id, m, z) => m = k /\ z = x
    BY <1>2 DEF Once, Moved
  <2>2. \A m, z : Spot(id, m, z)' => m = l /\ z = y
    BY <2>1 DEF Moved
  <2> QED
    BY <2>2 DEF Once
<1> QED
  BY <1>1, <1>2 DEF Carried

\* Steps that leave the data packets alone.
DataIdle == UNCHANGED <<DataOut, DataAir, Fifos, delivered, dropped>>

\* They carry every packet.
LEMMA IdleCarried ==
    ASSUME DataIdle, NEW id
    PROVE  Carried(id)
<1>1. Kept(id)
  BY DEF DataIdle, Kept, Spot
<1> QED
  BY <1>1, KeptCarried

\* A packet goes from an event to the air.
LEMMA OutToAir ==
    ASSUME NEW e \in DataOut, NEW c, c.pkt = e.pkt,
           DataOut' = DataOut \ {e}, DataAir' = DataAir \cup {c},
           UNCHANGED <<Fifos, delivered, dropped>>, NEW id
    PROVE  Carried(id)
<1>1. CASE id = e.pkt.id
  <2>1. Moved(id, 1, e, 2, c)
    BY <1>1 DEF Moved, Spot
  <2> QED
    BY <2>1, MovedCarried
<1>2. CASE id # e.pkt.id
  <2>1. Kept(id)
    BY <1>2 DEF Kept, Spot
  <2> QED
    BY <2>1, KeptCarried
<1> QED
  BY <1>1, <1>2

\* A frame is received and its packet waits in an event, is handed up or is
\* dropped.
LEMMA AirToOut ==
    ASSUME NEW c \in DataAir, NEW e, e.pkt = c.pkt,
           DataAir' = DataAir \ {c}, DataOut' = DataOut \cup {e},
           UNCHANGED <<Fifos, delivered, dropped>>, NEW id
    PROVE  Carried(id)
<1>1. CASE id = c.pkt.id
  <2>1. Moved(id, 2, c, 1, e)
    BY <1>1 DEF Moved, Spot
  <2> QED
    BY <2>1, MovedCarried
<1>2. CASE id # c.pkt.id
  <2>1. Kept(id)
    BY <1>2 DEF Kept, Spot
  <2> QED
    BY <2>1, KeptCarried
<1> QED
  BY <1>1, <1>2

\* The packet of a frame is handed to the transport layer.
LEMMA AirToUser ==
    ASSUME NEW c \in DataAir, delivered' = delivered \cup {c.pkt.id},
           DataAir' = DataAir \ {c},
           UNCHANGED <<DataOut, Fifos, dropped>>, NEW id
    PROVE  Carried(id)
<1>1. CASE id = c.pkt.id
  <2>1. Moved(id, 2, c, 4, 0)
    BY <1>1 DEF Moved, Spot
  <2> QED
    BY <2>1, MovedCarried
<1>2. CASE id # c.pkt.id
  <2>1. Kept(id)
    BY <1>2 DEF Kept, Spot
  <2> QED
    BY <2>1, KeptCarried
<1> QED
  BY <1>1, <1>2

\* The MAC layer drops a frame.
LEMMA AirToDrop ==
    ASSUME NEW c \in DataAir, dropped' = dropped \cup {c.pkt.id},
           DataAir' = DataAir \ {c},
           UNCHANGED <<DataOut, Fifos, delivered>>, NEW id
    PROVE  Carried(id)
<1>1. CASE id = c.pkt.id
  <2>1. Moved(id, 2, c, 5, 0)
    BY <1>1 DEF Moved, Spot
  <2> QED
    BY <2>1, MovedCarried
<1>2. CASE id # c.pkt.id
  <2>1. Kept(id)
    BY <1>2 DEF Kept, Spot
  <2> QED
    BY <2>1, KeptCarried
<1> QED
  BY <1>1, <1>2

\* A frame whose acknowledgement is lost is received and stays in the air.
LEMMA Repeated ==
    ASSUME NEW c \in DataAir, DataAir' = DataAir, nAckLost' # nAckLost,
           \/ /\ DataOut' = DataOut /\ delivered' = delivered \cup {c.pkt.id}
           \/ /\ delivered' = delivered
              /\ \E e : e.pkt = c.pkt /\ DataOut' = DataOut \cup {e},
           UNCHANGED <<Fifos, dropped>>, NEW id
    PROVE  Carried(id)
<1>1. CASE id = c.pkt.id
  <2>1. Spot(id, 2, c) /\ Spot(id, 2, c)'
    BY <1>1 DEF Spot
  <2> QED
    BY <2>1 DEF Carried, Somewhere
<1>2. CASE id # c.pkt.id
  <2>1. Kept(id)
    BY <1>2 DEF Kept, Spot
  <2> QED
    BY <2>1, KeptCarried
<1> QED
  BY <1>1, <1>2

\* The fifo of one device is replaced by f.
OneFifo(n, f) == Fifos' = [Fifos EXCEPT ![n] = f]

\* A packet without a route goes from its event to the end of a FIFO.
LEMMA OutToFifo ==
    ASSUME NetInv, NEW e \in DataOut, NEW n \in Node, e.pkt \in DataPacket,
           OneFifo(n, AddToFIFOBuffer(dev[n].fifo, e.pkt)),
           DataOut' = DataOut \ {e},
           UNCHANGED <<DataAir, delivered, dropped>>, NEW id
    PROVE  Carried(id)
<1> DEFINE d == e.pkt.dst
           q == dev[n].fifo[d]
<1>1. d \in Node /\ dev[n].fifo \in [Node -> Seq(DataPacket)]
      /\ Fifos = [k \in Node |-> dev[k].fifo]
  BY DEF DataPacket, NetInv, Types, IsDevice, Fifos
<1>2. q \in Seq(DataPacket)
  BY <1>1
<1> DEFINE q2 == Append(q, e.pkt)
<1>0. PICK z : z = Len(q) + 1
  OBVIOUS
<1>3. /\ DOMAIN q2 = DOMAIN q \cup {z} /\ z \notin DOMAIN q
      /\ q2[z] = e.pkt /\ \A i \in DOMAIN q : q2[i] = q[i]
  <2> HIDE DEF q
  <2>1. /\ q2 \in Seq(DataPacket) /\ Len(q2) = Len(q) + 1 /\ Len(q) \in Nat
        /\ DOMAIN q = 1..Len(q) /\ DOMAIN q2 = 1..Len(q2)
        /\ \A i \in 1..Len(q) : q2[i] = q[i]
        /\ q2[Len(q) + 1] = e.pkt
    BY <1>2
  <2> HIDE DEF q2
  <2> QED
    BY <1>0, <2>1
<1>4. /\ Fifos[n][d] = q /\ Fifos'[n][d] = q2
      /\ \A a, b \in Node : ~(a = n /\ b = d) => Fifos'[a][b] = Fifos[a][b]
  <2>1. Fifos' = [Fifos EXCEPT ![n] = [dev[n].fifo EXCEPT ![d] = q2]]
    BY DEF OneFifo, AddToFIFOBuffer
  <2> HIDE DEF q2, d
  <2> QED
    BY <1>1, <2>1
<1> HIDE DEF q2, q, d
<1>5. CASE id = e.pkt.id
  <2>1. Spot(id, 1, e) /\ Spot(id, 3, <<n, d, z>>)'
    BY <1>1, <1>3, <1>4, <1>5 DEF Spot
  <2>2. ASSUME NEW m, NEW x, Spot(id, m, x)'
        PROVE  \/ m = 3 /\ x = <<n, d, z>>
               \/ Spot(id, m, x) /\ ~(m = 1 /\ x = e)
    <3>1. CASE m = 3
      <4>1. PICK a, b \in Node : \E i \in DOMAIN Fifos'[a][b] :
               x = <<a, b, i>> /\ Fifos'[a][b][i].id = id
        BY <2>2, <3>1 DEF Spot
      <4>2. PICK i \in DOMAIN Fifos'[a][b] :
               x = <<a, b, i>> /\ Fifos'[a][b][i].id = id
        BY <4>1
      <4>3. \/ a = n /\ b = d /\ i = z
            \/ i \in DOMAIN Fifos[a][b] /\ Fifos[a][b][i].id = id
        BY <1>3, <1>4, <4>2
      <4> QED
        BY <3>1, <4>2, <4>3 DEF Spot
    <3>2. CASE m # 3
      BY <2>2, <3>2 DEF Spot
    <3> QED
      BY <3>1, <3>2
  <2>3. Moved(id, 1, e, 3, <<n, d, z>>)
    BY <2>1, <2>2 DEF Moved
  <2> QED
    BY <2>3, MovedCarried
<1>6. CASE id # e.pkt.id
  <2>1. \A a, b \in Node : \A i :
           i \in DOMAIN Fifos'[a][b] /\ Fifos'[a][b][i].id = id
             <=> i \in DOMAIN Fifos[a][b] /\ Fifos[a][b][i].id = id
    BY <1>3, <1>4, <1>6
  <2>2. Kept(id)
    BY <1>6, <2>1 DEF Kept, Spot
  <2> QED
    BY <2>2, KeptCarried
<1> QED
  BY <1>5, <1>6

\* fnEmptyFIFOBuffer drops every packet that waits for dest.
LEMMA FifoToDrop ==
    ASSUME NetInv, NEW n \in Node, NEW dest \in Node,
           OneFifo(n, EmptyFIFOBuffer(dev[n].fifo, dest)),
           dropped' = dropped \cup {dev[n].fifo[dest][i].id :
                                      i \in DOMAIN dev[n].fifo[dest]},
           UNCHANGED <<DataOut, DataAir, delivered>>, NEW id
    PROVE  Carried(id)
<1> DEFINE q == dev[n].fifo[dest]
<1>1. /\ dev[n].fifo \in [Node -> Seq(DataPacket)]
      /\ Fifos = [k \in Node |-> dev[k].fifo]
  BY DEF NetInv, Types, IsDevice, Fifos
<1>2. /\ Fifos[n][dest] = q /\ DOMAIN Fifos'[n][dest] = {}
      /\ \A a, b \in Node : ~(a = n /\ b = dest) => Fifos'[a][b] = Fifos[a][b]
  <2>1. Fifos' = [Fifos EXCEPT ![n] = [dev[n].fifo EXCEPT ![dest] = <<>>]]
    BY DEF OneFifo, EmptyFIFOBuffer
  <2> QED
    BY <1>1, <2>1
<1> HIDE DEF q
<1>3. ASSUME NEW m, NEW x, Spot(id, m, x)', m # 5
      PROVE  Spot(id, m, x) /\ ~(m = 3 /\ \E i : x = <<n, dest, i>>)
  <2>1. CASE m = 3
    <3>1. PICK a, b \in Node : \E i \in DOMAIN Fifos'[a][b] :
             x = <<a, b, i>> /\ Fifos'[a][b][i].id = id
      BY <1>3, <2>1 DEF Spot
    <3>2. PICK i \in DOMAIN Fifos'[a][b] :
             x = <<a, b, i>> /\ Fifos'[a][b][i].id = id
      BY <3>1
    <3>3. ~(a = n /\ b = dest) /\ Fifos'[a][b] = Fifos[a][b]
      BY <1>2, <3>2
    <3> QED
      BY <2>1, <3>2, <3>3 DEF Spot
  <2>2. CASE m # 3
    BY <1>3, <2>2 DEF Spot
  <2> QED
    BY <2>1, <2>2
<1>4. dropped' = dropped \cup {q[i].id : i \in DOMAIN q}
  BY DEF q
<1>5. CASE \E i \in DOMAIN q : q[i].id = id
  <2>1. PICK i \in DOMAIN q : q[i].id = id
    BY <1>5
  <2>2. Spot(id, 3, <<n, dest, i>>)
    BY <1>2, <2>1 DEF Spot
  <2>3. Spot(id, 5, 0)' /\ \A x : Spot(id, 5, x)' => x = 0
    BY <1>4, <2>1 DEF Spot
  <2>4. Moved(id, 3, <<n, dest, i>>, 5, 0)
    BY <1>3, <2>2, <2>3 DEF Moved
  <2> QED
    BY <2>4, MovedCarried
<1>6. CASE ~\E i \in DOMAIN q : q[i].id = id
  <2>1. \A a, b \in Node : \A i :
           i \in DOMAIN Fifos'[a][b] /\ Fifos'[a][b][i].id = id
             <=> i \in DOMAIN Fifos[a][b] /\ Fifos[a][b][i].id = id
    BY <1>2, <1>6
  <2>2. id \in dropped' <=> id \in dropped
    BY <1>4, <1>6
  <2>3. Kept(id)
    BY <2>1, <2>2 DEF Kept, Spot
  <2> QED
    BY <2>3, KeptCarried
<1> QED
  BY <1>5, <1>6

\* x is the event for a packet in the FIFOs of m whose destination is in F.
FlushEvent(m, F, x) ==
    \E d \in F : \E i \in DOMAIN Fifos[m][d] :
       x = OutEvent(m, Fifos[m][d][i], Broadcast, FALSE)

\* The packets whose destinations are in F leave the FIFOs of m for events.
LEMMA FifoToOut ==
    ASSUME NetInv, NEW m \in Node, NEW F \in SUBSET Node,
           OneFifo(m, [d \in Node |-> IF d \in F THEN <<>>
                                       ELSE dev[m].fifo[d]]),
           \A x : x \in DataOut' <=> x \in DataOut \/ FlushEvent(m, F, x),
           UNCHANGED <<DataAir, delivered, dropped>>, NEW id
    PROVE  Carried(id)
<1> DEFINE ev(d, i) == OutEvent(m, Fifos[m][d][i], Broadcast, FALSE)
<1>1. /\ dev[m].fifo \in [Node -> Seq(DataPacket)]
      /\ Fifos = [k \in Node |-> dev[k].fifo] /\ Fifos[m] = dev[m].fifo
  BY DEF NetInv, Types, IsDevice, Fifos
<1>2. /\ \A d \in F : DOMAIN Fifos'[m][d] = {}
      /\ \A a, b \in Node : ~(a = m /\ b \in F) => Fifos'[a][b] = Fifos[a][b]
  BY <1>1 DEF OneFifo
<1>3. \A x : x \in DataOut' <=>
               \/ x \in DataOut
               \/ \E d \in F : \E i \in DOMAIN Fifos[m][d] : x = ev(d, i)
  BY DEF FlushEvent
<1>4. \A p : OutEvent(m, p, Broadcast, FALSE).pkt = p
  BY DEF OutEvent
<1>5. ASSUME NEW k, NEW x, Spot(id, k, x)'
      PROVE  \/ Spot(id, k, x) /\ ~(k = 3 /\ \E d \in F : \E i : x = <<m, d, i>>)
             \/ /\ k = 1
                /\ \E d \in F : \E i \in DOMAIN Fifos[m][d] :
                     x = ev(d, i) /\ Fifos[m][d][i].id = id
  <2>1. CASE k = 3
    <3>1. PICK a, b \in Node : \E i \in DOMAIN Fifos'[a][b] :
             x = <<a, b, i>> /\ Fifos'[a][b][i].id = id
      BY <1>5, <2>1 DEF Spot
    <3>2. PICK i \in DOMAIN Fifos'[a][b] :
             x = <<a, b, i>> /\ Fifos'[a][b][i].id = id
      BY <3>1
    <3>3. ~(a = m /\ b \in F) /\ Fifos'[a][b] = Fifos[a][b]
      BY <1>2, <3>2
    <3> QED
      BY <2>1, <3>2, <3>3 DEF Spot
  <2>2. CASE k = 1
    <3>1. x \in DataOut' /\ x.pkt.id = id
      BY <1>5, <2>2 DEF Spot
    <3>2. CASE x \in DataOut
      <4>1. Spot(id, k, x)
        BY <2>2, <3>1, <3>2 DEF Spot
      <4>2. k # 3
        BY <2>2
      <4> QED
        BY <4>1, <4>2, Zenon
    <3>3. ASSUME NEW d \in F, NEW i \in DOMAIN Fifos[m][d], x = ev(d, i)
          PROVE  Fifos[m][d][i].id = id
      <4>1. x.pkt = Fifos[m][d][i]
        BY <1>4, <3>3
      <4> QED
        BY <3>1, <4>1
    <3>4. CASE \E d \in F : \E i \in DOMAIN Fifos[m][d] : x = ev(d, i)
      <4> HIDE DEF ev
      <4> QED
        BY <2>2, <3>3, <3>4
    <3> QED
      BY <1>3, <3>1, <3>2, <3>4
  <2>3. CASE k # 1 /\ k # 3
    BY <1>5, <2>3 DEF Spot
  <2> QED
    BY <2>1, <2>2, <2>3
<1>6. CASE \E d \in F : \E i \in DOMAIN Fifos[m][d] : Fifos[m][d][i].id = id
  <2>1. PICK d \in F : \E i \in DOMAIN Fifos[m][d] : Fifos[m][d][i].id = id
    BY <1>6
  <2>2. PICK i \in DOMAIN Fifos[m][d] : Fifos[m][d][i].id = id
    BY <2>1
  <2>3. PICK y : y = ev(d, i)
    OBVIOUS
  <2>4. Spot(id, 3, <<m, d, i>>)
    BY <2>2 DEF Spot
  <2>5. Spot(id, 1, y)'
    BY <1>3, <1>4, <2>2, <2>3 DEF Spot
  <2>6. CASE Once(id)
    <3>1. \A d1 \in F : \A j \in DOMAIN Fifos[m][d1] :
             Fifos[m][d1][j].id = id => d1 = d /\ j = i
      <4> SUFFICES ASSUME NEW d1 \in F, NEW j \in DOMAIN Fifos[m][d1],
                          Fifos[m][d1][j].id = id
                   PROVE  d1 = d /\ j = i
        OBVIOUS
      <4>1. Spot(id, 3, <<m, d1, j>>)
        BY DEF Spot
      <4>2. <<m, d1, j>> = <<m, d, i>>
        BY <2>4, <2>6, <4>1 DEF Once
      <4> QED
        BY <4>2
    <3>2. Moved(id, 3, <<m, d, i>>, 1, y)
      BY <1>5, <2>3, <2>4, <2>5, <3>1 DEF Moved
    <3> QED
      BY <3>2, MovedCarried
  <2>7. CASE ~Once(id)
    BY <2>4, <2>5, <2>7 DEF Carried, Somewhere
  <2> QED
    BY <2>6, <2>7
<1>7. CASE ~\E d \in F : \E i \in DOMAIN Fifos[m][d] : Fifos[m][d][i].id = id
  <2>1. \A a, b \in Node : \A i :
           i \in DOMAIN Fifos'[a][b] /\ Fifos'[a][b][i].id = id
             <=> i \in DOMAIN Fifos[a][b] /\ Fifos[a][b][i].id = id
    BY <1>2, <1>7
  <2>2. \A x : x \in DataOut' /\ x.pkt.id = id
                 <=> x \in DataOut /\ x.pkt.id = id
    <3>1. ASSUME NEW d \in F, NEW i \in DOMAIN Fifos[m][d], NEW x, x = ev(d, i)
          PROVE  x.pkt.id # id
      <4>1. x.pkt = Fifos[m][d][i]
        BY <1>4, <3>1
      <4> QED
        BY <1>7, <4>1
    <3> HIDE DEF ev
    <3> QED
      BY <1>3, <3>1
  <2>3. Kept(id)
    BY <2>1, <2>2 DEF Kept, Spot
  <2> QED
    BY <2>3, KeptCarried
<1> QED
  BY <1>6, <1>7

\* The events for the packets of a FIFO, one by one.
LEMMA FlushedEvents ==
    ASSUME NEW m \in Node, NEW rt, NEW x
    PROVE  x \in TransmitFIFOBuffer(m, rt) <=> FlushEvent(m, Flushed(rt), x)
<1> DEFINE f == Fifos[m]
           S(d) == {OutEvent(m, f[d][i], Broadcast, FALSE) : i \in DOMAIN f[d]}
<1>1. f = dev[m].fifo
  BY DEF Fifos
<1>2. TransmitFIFOBuffer(m, rt) = UNION {S(d) : d \in Flushed(rt)}
  BY <1>1 DEF TransmitFIFOBuffer
<1>3. \A d : x \in S(d) <=> \E i \in DOMAIN f[d] :
                               x = OutEvent(m, f[d][i], Broadcast, FALSE)
  OBVIOUS
<1> HIDE DEF S
<1>4. x \in TransmitFIFOBuffer(m, rt) <=> \E d \in Flushed(rt) : x \in S(d)
  <2> DEFINE T == {S(d) : d \in Flushed(rt)}
  <2>1. ASSUME x \in UNION T
        PROVE  \E d \in Flushed(rt) : x \in S(d)
    <3>1. PICK s \in T : x \in s
      BY <2>1
    <3>2. PICK d \in Flushed(rt) : s = S(d)
      BY <3>1
    <3> QED
      BY <3>1, <3>2
  <2>2. ASSUME NEW d \in Flushed(rt), x \in S(d)
        PROVE  x \in UNION T
    <3>1. S(d) \in T
      OBVIOUS
    <3> HIDE DEF T
    <3> QED
      BY <2>2, <3>1
  <2>3. TransmitFIFOBuffer(m, rt) = UNION T
    BY <1>2
  <2> HIDE DEF T
  <2> QED
    BY <2>1, <2>2, <2>3
<1>5. ASSUME x \in TransmitFIFOBuffer(m, rt)
      PROVE  FlushEvent(m, Flushed(rt), x)
  <2>1. PICK d \in Flushed(rt) : x \in S(d)
    BY <1>4, <1>5
  <2>2. \E i \in DOMAIN f[d] : x = OutEvent(m, f[d][i], Broadcast, FALSE)
    BY <1>3, <2>1
  <2> QED
    BY <2>2 DEF FlushEvent
<1>6. ASSUME FlushEvent(m, Flushed(rt), x)
      PROVE  x \in TransmitFIFOBuffer(m, rt)
  BY <1>3, <1>4, <1>6 DEF FlushEvent
<1> QED
  BY <1>5, <1>6

-----------------------------------------------------------------------------
(* The actions.                                                            *)

DataStep == \A id : Carried(id)

\* Control packets come and go.
LEMMA OutKept ==
    ASSUME \A e \in out' : e \in out \/ ~IsData(e.pkt),
           \A e \in out : e \in out' \/ ~IsData(e.pkt)
    PROVE  DataOut' = DataOut
  BY DEF DataOut

\* So in the air.
LEMMA AirKept ==
    ASSUME \A c \in air' : c \in air \/ ~IsData(c.pkt),
           \A c \in air : c \in air' \/ ~IsData(c.pkt)
    PROVE  DataAir' = DataAir
  BY DEF DataAir

\* A step that leaves the FIFOs of the one device it changes alone.
LEMMA FifosKept ==
    ASSUME NEW n \in Node, \A k \in Node \ {n} : dev'[k] = dev[k],
           dev'[n].fifo = dev[n].fifo
    PROVE  Fifos' = Fifos
<1>1. \A k \in Node : dev'[k].fifo = dev[k].fifo
  OBVIOUS
<1> QED
  BY <1>1 DEF Fifos

\* The devices are functions with the fields of AODV_DEVICE_VAR.
LEMMA Shape ==
    ASSUME NetInv, NEW n \in Node
    PROVE  /\ dev = [k \in Node |-> dev[k]] /\ IsDevice(dev[n])
           /\ DOMAIN dev[n] = DeviceFields /\ dev[n] = [f \in DeviceFields |-> dev[n][f]]
           /\ dev[n].fifo \in [Node -> Seq(DataPacket)]
  BY DEF NetInv, Types, IsDevice

\* A change of one FIFO.
LEMMA FifoChanged ==
    ASSUME NetInv, NEW n \in Node, \A k \in Node \ {n} : dev'[k] = dev[k]
    PROVE  OneFifo(n, dev'[n].fifo)
  BY DEF Fifos, OneFifo

\* Every frame holds the copy.
LEMMA CopyInFrame ==
    ASSUME NEW n, NEW p, NEW rcv, NEW c \in Copies(n, p, rcv)
    PROVE  c.pkt = CopyPacket(p)
<1>1. PICK m \in Node : c = [tx |-> n, rx |-> m, pkt |-> CopyPacket(p),
                             at |-> now]
  BY DEF Copies
<1> QED
  BY <1>1

\* Copies of a control packet are control packets.
LEMMA ControlCopies ==
    ASSUME NEW D, NEW t, NEW n, NEW p, PacketOK(D, t, p), ~IsData(p), NEW rcv
    PROVE  \A c \in Copies(n, p, rcv) : ~IsData(c.pkt)
<1>1. ~IsData(CopyPacket(p))
  BY CopyKept DEF IsData
<1> QED
  BY <1>1, CopyInFrame

\* The copy of a data packet to a device is one frame with the packet.
LEMMA DataCopy ==
    ASSUME NEW n \in Node, NEW p \in DataPacket, NEW rcv \in Node
    PROVE  Copies(n, p, rcv) = {[tx |-> n, rx |-> rcv, pkt |-> p, at |-> now]}
<1>1. CopyPacket(p) = p
  BY DEF CopyPacket, DataPacket
<1> DEFINE R == {m \in Node : rcv = m \/ (rcv = Broadcast /\ <<n, m>> \in Link)}
<1>2. R = {rcv}
  BY NetworkAssumption
<1>3. Copies(n, p, rcv) = {[tx |-> n, rx |-> m, pkt |-> p, at |-> now] : m \in R}
  BY <1>1, Zenon DEF Copies
<1> HIDE DEF R
<1> QED
  BY <1>2, <1>3

\* RouteData puts the packet on the air.
LEMMA DataRouteData ==
    ASSUME NetInv, NEW e \in out, RouteData(e)
    PROVE  DataStep
<1> DEFINE n == e.node
           rt == dev[n].routeTable
           next == FindNextHop(rt, e.pkt.dst)
           r == UpdateRouteTable(rt, e.pkt.dst, now + ACTIVE_ROUTE_TIMEOUT)
<1>1. EventOK(dev, now, e) /\ IsData(e.pkt)
  BY DEF NetInv, RouteData
<1>2. n \in Node /\ e.pkt.dst \in Node /\ e.pkt \in DataPacket
  BY <1>1, IsDataPacket DEF EventOK
<1>3. /\ dev' = [dev EXCEPT ![n].routeTable = r]
      /\ air' = air \cup Copies(n, e.pkt, next)
      /\ out' = out \ {e} /\ UNCHANGED <<delivered, dropped>>
      /\ CheckRouteFound(rt, e.pkt.dst, now)
  BY DEF RouteData, dataFate
<1>4. next \in Node
  BY <1>2, <1>3 DEF NetInv, TableOK, Good, IsRouteTable, RouteEntry,
     CheckRouteFound, FindNextHop
<1> HIDE DEF r, next, n
<1>5. PICK c : c = [tx |-> n, rx |-> next, pkt |-> e.pkt, at |-> now]
  OBVIOUS
<1>6. air' = air \cup {c} /\ c.pkt = e.pkt
  BY <1>2, <1>3, <1>4, <1>5, DataCopy
<1>7. DataOut' = DataOut \ {e} /\ e \in DataOut
  BY <1>1, <1>3 DEF DataOut
<1>8. DataAir' = DataAir \cup {c}
  BY <1>1, <1>6 DEF DataAir
<1>9. Fifos' = Fifos
  <2>1. /\ \A k \in Node \ {n} : dev'[k] = dev[k]
        /\ dev'[n].fifo = dev[n].fifo
    BY <1>2, <1>3, Shape DEF DeviceFields
  <2> QED
    BY <1>2, <2>1, FifosKept
<1> QED
  BY <1>3, <1>6, <1>7, <1>8, <1>9, OutToAir DEF DataStep

\* BufferData and DiscoverRoute put it in the FIFO.
LEMMA DataBuffered ==
    ASSUME NetInv, NEW e \in out, BufferData(e) \/ DiscoverRoute(e)
    PROVE  DataStep
<1> DEFINE n == e.node
           fifo == AddToFIFOBuffer(dev[n].fifo, e.pkt)
<1>1. EventOK(dev, now, e) /\ IsData(e.pkt)
  BY DEF NetInv, BufferData, DiscoverRoute
<1>2. n \in Node /\ e.pkt.dst \in Node /\ e.pkt \in DataPacket
  BY <1>1, IsDataPacket DEF EventOK
<1>3. out' = out \ {e} /\ UNCHANGED <<delivered, dropped>>
  BY DEF BufferData, DiscoverRoute, dataFate
<1>4. DataAir' = DataAir
  <2>1. CASE BufferData(e)
    BY <2>1 DEF BufferData, DataAir
  <2>2. CASE DiscoverRoute(e)
    <3> DEFINE dst == e.pkt.dst
               ttl == IncreaseTTL(dev[n].rreqSentTable, dst) + 1 + 1
    <3>0. air' = air \cup Copies(n, NewRREQ(n, dst, ttl), Broadcast)
      BY <2>2 DEF DiscoverRoute
    <3>1. PICK p : p.kind = "RREQ" /\ air' = air \cup Copies(n, p, Broadcast)
      <4>1. NewRREQ(n, dst, ttl).kind = "RREQ"
        BY DEF NewRREQ
      <4> QED
        BY <3>0, <4>1
    <3>2. \A c \in Copies(n, p, Broadcast) : ~IsData(c.pkt)
      <4>1. CopyPacket(p) = p /\ ~IsData(p)
        BY <3>1 DEF CopyPacket, IsData
      <4> QED
        BY <4>1, CopyInFrame
    <3> QED
      BY <3>1, <3>2, AirKept
  <2> QED
    BY <2>1, <2>2
<1>5. DataOut' = DataOut \ {e} /\ e \in DataOut
  BY <1>1, <1>3 DEF DataOut
<1>6. dev'[n].fifo = fifo /\ \A k \in Node \ {n} : dev'[k] = dev[k]
  <2>0. /\ dev = [k \in Node |-> dev[k]] /\ DOMAIN dev[n] = DeviceFields
        /\ dev[n] = [f \in DeviceFields |-> dev[n][f]]
    BY <1>2, Shape
  <2>1. CASE BufferData(e)
    <3>1. dev' = [dev EXCEPT ![n].fifo = fifo]
      BY <2>1 DEF BufferData
    <3> HIDE DEF fifo
    <3> QED
      BY <1>2, <2>0, <3>1 DEF DeviceFields
  <2>2. CASE DiscoverRoute(e)
    <3>1. PICK s, seen, sent, b :
            dev' = [dev EXCEPT ![n].fifo = fifo, ![n].nSequenceNumber = s,
                               ![n].rreqSeenTable = seen,
                               ![n].rreqSentTable = sent,
                               ![n].dLastBroadcastTime = b]
      BY <2>2 DEF DiscoverRoute
    <3> HIDE DEF fifo
    <3> QED
      BY <1>2, <2>0, <3>1 DEF DeviceFields
  <2> QED
    BY <2>1, <2>2
<1> HIDE DEF n
<1>7. OneFifo(n, AddToFIFOBuffer(dev[n].fifo, e.pkt))
  BY <1>2, <1>6, FifoChanged
<1> QED
  BY <1>2, <1>3, <1>4, <1>5, <1>7, OutToFifo DEF DataStep

\* SendControl has nothing to do with data.
LEMMA DataSendControl ==
    ASSUME NetInv, NEW e \in out, SendControl(e)
    PROVE  DataStep
<1> DEFINE n == e.node
<1>1. EventOK(dev, now, e) /\ ~IsData(e.pkt) /\ n \in Node
  BY DEF NetInv, SendControl, EventOK
<1>2. /\ out' = out \ {e} /\ UNCHANGED <<delivered, dropped>>
      /\ air' = air \/ air' = air \cup Copies(n, e.pkt, e.rcv)
      /\ dev' = dev \/ dev' = [dev EXCEPT ![n].dLastBroadcastTime = now]
  BY DEF SendControl, dataFate
<1>3. DataOut' = DataOut
  BY <1>1, <1>2, OutKept
<1>4. DataAir' = DataAir
  <2>1. \A c \in Copies(n, e.pkt, e.rcv) : ~IsData(c.pkt)
    BY <1>1, ControlCopies DEF EventOK
  <2> QED
    BY <1>2, <2>1, AirKept
<1>5. Fifos' = Fifos
  <2>1. /\ \A k \in Node \ {n} : dev'[k] = dev[k]
        /\ dev'[n].fifo = dev[n].fifo
    <3>1. /\ dev = [k \in Node |-> dev[k]]
          /\ dev[n] = [f \in DeviceFields |-> dev[n][f]]
      BY <1>1, Shape
    <3> QED
      BY <1>1, <1>2, <3>1 DEF DeviceFields
  <2> QED
    BY <1>1, <2>1, FifosKept
<1> QED
  BY <1>2, <1>3, <1>4, <1>5, IdleCarried DEF DataStep, DataIdle

\* NETWORK_OUT events carry the packets.
LEMMA DataNetworkOut ==
    ASSUME NetInv, NetworkOut
    PROVE  DataStep
  BY DataRouteData, DataBuffered, DataSendControl DEF NetworkOut

\* A RREQ that is given up drops the packets that wait for it.
LEMMA DataRetryRREQ ==
    ASSUME NetInv, NEW n \in Node, NEW timer \in rreqTimers[n],
           RetryRREQ(n, timer)
    PROVE  DataStep
<1> DEFINE dest == timer.dest
           q == dev[n].fifo[dest]
           fifo == EmptyFIFOBuffer(dev[n].fifo, dest)
<1>1. dest \in Node /\ UNCHANGED <<air, delivered>>
  BY DEF NetInv, SentOK, RouteTimer, RetryRREQ
<1>2. /\ dev = [k \in Node |-> dev[k]] /\ DOMAIN dev[n] = DeviceFields
      /\ dev[n] = [f \in DeviceFields |-> dev[n][f]]
  BY Shape
<1>3. DataAir' = DataAir
  BY <1>1 DEF DataAir
<1>4. CASE UNCHANGED <<dev, out, dropped>>
  BY <1>1, <1>3, <1>4, IdleCarried DEF DataIdle, DataStep, DataOut, Fifos
<1>5. ASSUME NEW s, dev' = [dev EXCEPT ![n].rreqSentTable = s, ![n].fifo = fifo],
             dropped' = dropped \cup {q[i].id : i \in DOMAIN q}, out' = out
      PROVE  DataStep
  <2> HIDE DEF fifo
  <2>1. dev'[n].fifo = fifo /\ \A k \in Node \ {n} : dev'[k] = dev[k]
    BY <1>2, <1>5 DEF DeviceFields
  <2>2. OneFifo(n, EmptyFIFOBuffer(dev[n].fifo, dest))
    BY <2>1, FifoChanged DEF fifo
  <2>3. DataOut' = DataOut
    BY <1>5 DEF DataOut
  <2> HIDE DEF dest
  <2>4. dropped' = dropped \cup {dev[n].fifo[dest][i].id :
                                   i \in DOMAIN dev[n].fifo[dest]}
    BY <1>5
  <2> QED
    BY <1>1, <1>3, <2>2, <2>3, <2>4, FifoToDrop DEF DataStep
<1>6. ASSUME NEW a, NEW b, NEW s, NEW p, p.kind = "RREQ",
             dev' = [dev EXCEPT ![n].nSequenceNumber = a,
                                ![n].rreqSeenTable = b,
                                ![n].rreqSentTable = s],
             out' = out \cup {OutEvent(n, p, Broadcast, FALSE)},
             dropped' = dropped
      PROVE  DataStep
  <2>1. dev'[n].fifo = dev[n].fifo /\ \A k \in Node \ {n} : dev'[k] = dev[k]
    BY <1>2, <1>6 DEF DeviceFields
  <2>2. Fifos' = Fifos
    BY <2>1, FifosKept
  <2>3. DataOut' = DataOut
    BY <1>6, OutKept DEF IsData, OutEvent
  <2> QED
    BY <1>1, <1>3, <1>6, <2>2, <2>3, IdleCarried DEF DataStep, DataIdle
<1> DEFINE sent == dev[n].rreqSentTable
           due == dest \in DOMAIN sent /\ sent[dest].timeout <= now
           giveUp == due /\ sent[dest].times > RREQ_RETRIES
<1>7. CASE ~due
  BY <1>4, <1>7 DEF RetryRREQ
<1>8. CASE giveUp
  <2> DEFINE r == DeleteRREQSentTable(sent, dest)
  <2>1. /\ dev' = [dev EXCEPT ![n].rreqSentTable = r, ![n].fifo = fifo]
        /\ dropped' = dropped \cup {q[i].id : i \in DOMAIN q} /\ out' = out
    BY <1>8 DEF RetryRREQ
  <2> HIDE DEF r, fifo, q
  <2> QED
    BY <1>5, <2>1
<1>9. CASE due /\ ~giveUp
  <2> DEFINE ttl == IncreaseTTL(sent, dest) + 1
             timeout == now + GetTimeoutTime(ttl, sent[dest].times)
             s == InsertInRREQSentTable(sent, dest, ttl - 1, timeout)
             a == dev[n].nSequenceNumber + 1
             b == InsertInRREQSeenTable(dev[n].rreqSeenTable, n, nRREQId + 1)
             p == NewRREQ(n, dest, ttl)
  <2>1. /\ dev' = [dev EXCEPT ![n].nSequenceNumber = a,
                              ![n].rreqSeenTable = b,
                              ![n].rreqSentTable = s]
        /\ out' = out \cup {OutEvent(n, p, Broadcast, FALSE)}
        /\ dropped' = dropped
    BY <1>9 DEF RetryRREQ
  <2>2. p.kind = "RREQ"
    BY DEF NewRREQ
  <2> HIDE DEF a, b, s, p
  <2> QED
    BY <1>6, <2>1, <2>2
<1> QED
  BY <1>7, <1>8, <1>9

\* The other timers have nothing to do with data.
LEMMA DataTimer ==
    ASSUME NetInv, Timer
    PROVE  DataStep
<1>1. ASSUME NEW n \in Node, TransmitHello(n) PROVE DataStep
  <2>1. /\ UNCHANGED <<dev, air, delivered, dropped>>
        /\ \A e \in out' : e \in out \/ e.pkt.kind = "RREP"
        /\ out \subseteq out'
    BY <1>1 DEF TransmitHello, dataFate, OutEvent
  <2>2. DataOut' = DataOut
    BY <2>1, OutKept DEF IsData
  <2>3. DataAir' = DataAir /\ Fifos' = Fifos
    BY <2>1 DEF DataAir, Fifos
  <2> QED
    BY <2>1, <2>2, <2>3, IdleCarried DEF DataStep, DataIdle
<1>2. ASSUME NEW n \in Node, NEW timer \in routeTimers[n],
             ActiveRouteTimeout(n, timer)
      PROVE  DataStep
  <2>1. UNCHANGED <<out, air, delivered, dropped>>
    BY <1>2 DEF ActiveRouteTimeout, dataFate
  <2>2. DataOut' = DataOut /\ DataAir' = DataAir
    BY <2>1 DEF DataOut, DataAir
  <2> DEFINE r == RemoveRoute(dev[n].routeTable, timer.dest)
             c == CounterMinus(dev[n].ncounter)
  <2>3. \/ dev' = dev
        \/ dev' = [dev EXCEPT ![n].routeTable = r, ![n].ncounter = c]
    BY <1>2 DEF ActiveRouteTimeout
  <2> HIDE DEF r, c
  <2>4. dev'[n].fifo = dev[n].fifo /\ \A k \in Node \ {n} : dev'[k] = dev[k]
    <3>1. /\ dev = [k \in Node |-> dev[k]]
          /\ dev[n] = [f \in DeviceFields |-> dev[n][f]]
      BY Shape
    <3> QED
      BY <2>3, <3>1 DEF DeviceFields
  <2>5. Fifos' = Fifos
    BY <2>4, FifosKept
  <2> QED
    BY <2>1, <2>2, <2>5, IdleCarried DEF DataStep, DataIdle
<1> QED
  BY <1>1, <1>2, DataRetryRREQ DEF Timer

\* A control packet received by m: data packets move only from the FIFO of m.
LEMMA DataProcessRREQ ==
    ASSUME NetInv, NEW m \in Node, NEW p, PacketOK(dev, now, p),
           ProcessRREQ(m, p), DataAir' = DataAir, dropped' = dropped
    PROVE  DataStep
<1>1. p.kind = "RREQ" /\ p \in RreqPacket /\ delivered' = delivered
  BY PacketKind DEF ProcessRREQ
<1>2. CASE CheckRREQSeenTable(dev[m].rreqSeenTable, p.orig, p.id)
  <2>1. dev' = dev /\ out' = out
    BY <1>2 DEF ProcessRREQ
  <2> QED
    BY <1>1, <2>1, IdleCarried DEF DataStep, DataIdle, DataOut, Fifos
<1>3. CASE ~CheckRREQSeenTable(dev[m].rreqSeenTable, p.orig, p.id)
  <2> DEFINE lt == now + 2 * NET_TRAVERSAL_TIME - 2 * p.hop * NODE_TRAVERSAL_TIME
             rt == InsertInRouteTable(dev[m].routeTable, p.orig, p.oseq, p.hop,
                                      p.last, lt, now)
             pre == InsertInPrecursorsList(dev[m], p.last)
             seen == InsertInRREQSeenTable(pre.rreqSeenTable, p.orig, p.id)
             num == IF p.dest = m THEN pre.nSequenceNumber + 1
                    ELSE pre.nSequenceNumber
  <2>1. dev' = [dev EXCEPT ![m] = [pre EXCEPT !.rreqSeenTable = seen,
                                              !.routeTable = rt,
                                              !.nSequenceNumber = num]]
    BY <1>3, Zenon DEF ProcessRREQ
  <2>2. \A e \in out' : \/ e \in out
                        \/ e = GenerateRREP(m, p)
                        \/ e = ForwardRREQ(m, p, rt)
                        \/ e = GenerateRREPByIntermediate(m, p, rt)
    BY <1>3 DEF ProcessRREQ
  <2>3. out \subseteq out'
    BY <1>3 DEF ProcessRREQ
  <2>4. /\ DOMAIN pre = DeviceFields /\ pre = [f \in DeviceFields |-> pre[f]]
        /\ pre.fifo = dev[m].fifo /\ dev = [k \in Node |-> dev[k]]
    BY Shape DEF InsertInPrecursorsList, DeviceFields
  <2> HIDE DEF pre, seen, num, rt
  <2>5. dev'[m].fifo = dev[m].fifo /\ \A k \in Node \ {m} : dev'[k] = dev[k]
    BY <2>1, <2>4 DEF DeviceFields
  <2>6. Fifos' = Fifos
    BY <2>5, FifosKept
  <2>7. /\ ~IsData(GenerateRREP(m, p).pkt)
        /\ ~IsData(GenerateRREPByIntermediate(m, p, rt).pkt)
    BY DEF GenerateRREP, GenerateRREPByIntermediate, OutEvent, IsData
  <2>8. ~IsData(ForwardRREQ(m, p, rt).pkt)
    BY <1>1 DEF ForwardRREQ, OutEvent, IsData, RreqPacket
  <2>9. DataOut' = DataOut
    BY <2>2, <2>3, <2>7, <2>8, OutKept
  <2> QED
    BY <1>1, <2>6, <2>9, IdleCarried DEF DataStep, DataIdle
<1> QED
  BY <1>2, <1>3

\* A RREP sends the packets that wait for the route it brings.
LEMMA DataProcessRREP ==
    ASSUME NetInv, NEW m \in Node, NEW p, PacketOK(dev, now, p),
           ProcessRREP(m, p), DataAir' = DataAir, dropped' = dropped
    PROVE  DataStep
<1>1. p.kind = "RREP" /\ p \in RrepPacket /\ delivered' = delivered
  BY PacketKind DEF ProcessRREP
<1>2. CASE p.dest = m
  <2>1. dev' = dev /\ out' = out
    BY <1>2 DEF ProcessRREP
  <2> QED
    BY <1>1, <2>1, IdleCarried DEF DataStep, DataIdle, DataOut, Fifos
<1>3. CASE p.dest # m
  <2> DEFINE lt == now + ACTIVE_ROUTE_TIMEOUT
             rt1 == InsertInRouteTable(dev[m].routeTable, p.dest, p.dseq,
                                       p.hop, p.last, lt, now)
             rt2 == UpdateRouteTable(rt1, p.last, p.life)
             pre == InsertInPrecursorsList(dev[m], p.last)
             count == IF p.congestion THEN CounterPlus(pre.ncounter)
                      ELSE pre.ncounter
             sent == IF p.orig = m
                     THEN DeleteRREQSentTable(pre.rreqSentTable, p.dest)
                     ELSE pre.rreqSentTable
             fifo == [d \in Node |-> IF d \in Flushed(rt1) THEN <<>>
                                     ELSE pre.fifo[d]]
  <2>1. dev' = [dev EXCEPT ![m] = [pre EXCEPT !.ncounter = count,
                                              !.routeTable = rt2,
                                              !.fifo = fifo,
                                              !.rreqSentTable = sent]]
    BY <1>3, Zenon DEF ProcessRREP
  <2>2. /\ \A e \in out' : \/ e \in out
                           \/ e \in TransmitFIFOBuffer(m, rt1)
                           \/ e \in ForwardRREP(m, p, rt2)
        /\ out \subseteq out' /\ TransmitFIFOBuffer(m, rt1) \subseteq out'
    BY <1>3 DEF ProcessRREP
  <2>3. /\ DOMAIN pre = DeviceFields /\ pre = [f \in DeviceFields |-> pre[f]]
        /\ pre.fifo = dev[m].fifo /\ dev = [k \in Node |-> dev[k]]
    BY Shape DEF InsertInPrecursorsList, DeviceFields
  <2> HIDE DEF pre, count, sent, rt1, rt2, fifo
  <2>4. dev'[m].fifo = fifo /\ \A k \in Node \ {m} : dev'[k] = dev[k]
    BY <2>1, <2>3 DEF DeviceFields
  <2>5. OneFifo(m, fifo)
    BY <2>4, FifoChanged
  <2>6. OneFifo(m, [d \in Node |-> IF d \in Flushed(rt1) THEN <<>>
                                    ELSE dev[m].fifo[d]])
    BY <2>3, <2>5 DEF fifo
  <2>7. \A e \in ForwardRREP(m, p, rt2) : ~IsData(e.pkt)
    <3> DEFINE q == [p EXCEPT !.hop = @ + 1, !.last = m]
               next == FindNextHop(rt2, p.orig)
    <3>1. q.kind = "RREP"
      BY <1>1 DEF RrepPacket
    <3>2. \A e \in ForwardRREP(m, p, rt2) : e = OutEvent(m, q, next, FALSE)
      BY DEF ForwardRREP
    <3> HIDE DEF q, next
    <3> QED
      BY <3>1, <3>2 DEF OutEvent, IsData
  <2>8. \A e \in TransmitFIFOBuffer(m, rt1) : IsData(e.pkt)
    <3> SUFFICES ASSUME NEW e \in TransmitFIFOBuffer(m, rt1)
                 PROVE  IsData(e.pkt)
      OBVIOUS
    <3>0. FlushEvent(m, Flushed(rt1), e)
      BY FlushedEvents
    <3>1. PICK d \in Flushed(rt1) : \E i \in DOMAIN Fifos[m][d] :
             e = OutEvent(m, Fifos[m][d][i], Broadcast, FALSE)
      BY <3>0 DEF FlushEvent
    <3>2. PICK i \in DOMAIN Fifos[m][d] :
             e = OutEvent(m, Fifos[m][d][i], Broadcast, FALSE)
      BY <3>1
    <3>3. Fifos[m][d] \in Seq(DataPacket)
      BY Shape DEF Fifos, Flushed
    <3>4. Fifos[m][d][i] \in DataPacket
      BY <3>2, <3>3
    <3>5. e.pkt = Fifos[m][d][i]
      BY <3>2 DEF OutEvent
    <3> QED
      BY <3>4, <3>5, DataOK
  <2>9. \A x : x \in DataOut' <=> \/ x \in DataOut
                                  \/ x \in TransmitFIFOBuffer(m, rt1)
    BY <2>2, <2>7, <2>8 DEF DataOut
  <2>10. \A x : x \in DataOut' <=>
                  x \in DataOut \/ FlushEvent(m, Flushed(rt1), x)
    BY <2>9, FlushedEvents
  <2>11. Flushed(rt1) \in SUBSET Node
    BY DEF Flushed
  <2> QED
    BY <1>1, <2>6, <2>10, <2>11, FifoToOut DEF DataStep
<1> QED
  BY <1>2, <1>3

\* A RERR has nothing to do with data.
LEMMA DataProcessRERR ==
    ASSUME NetInv, NEW m \in Node, NEW p, PacketOK(dev, now, p),
           ProcessRERR(m, p), DataAir' = DataAir, dropped' = dropped
    PROVE  DataStep
<1> DEFINE rt == dev[m].routeTable
           broken == p.dests \cap RoutesThrough(rt, p.src)
           r == InvalidateRoutes(rt, broken, now)
           q == [p EXCEPT !.src = m]
<1>1. p.kind = "RERR" /\ p \in RERR /\ delivered' = delivered
  BY PacketKind DEF ProcessRERR
<1>2. q.kind = "RERR"
  BY <1>1 DEF RERR
<1>3. /\ dev' = dev \/ dev' = [dev EXCEPT ![m].routeTable = r]
      /\ \A e \in out' : e \in out \/ e = OutEvent(m, q, Broadcast, TRUE)
      /\ out \subseteq out'
  BY DEF ProcessRERR
<1> HIDE DEF r, q
<1>4. dev'[m].fifo = dev[m].fifo /\ \A k \in Node \ {m} : dev'[k] = dev[k]
  BY <1>3, Shape DEF DeviceFields
<1>5. Fifos' = Fifos
  BY <1>4, FifosKept
<1>6. ~IsData(OutEvent(m, q, Broadcast, TRUE).pkt)
  BY <1>2 DEF OutEvent, IsData
<1>7. DataOut' = DataOut
  BY <1>3, <1>6, OutKept
<1> QED
  BY <1>1, <1>5, <1>7, IdleCarried DEF DataStep, DataIdle

\* A data frame is handed up or its packet is routed again; if its
\* acknowledgement is lost it stays in the air, too.
LEMMA DataProcessData ==
    ASSUME NetInv, NEW c \in air, IsData(c.pkt), ProcessData(c.rx, c.pkt),
           \/ air' = air \ {c}
           \/ air' = air /\ nAckLost' # nAckLost,
           dropped' = dropped
    PROVE  DataStep
<1> DEFINE m == c.rx
           rt == dev[m].routeTable
           life == now + ACTIVE_ROUTE_TIMEOUT
           r0 == IF c.pkt.dst = m THEN rt ELSE UpdateRouteTable(rt, c.pkt.dst, life)
           r == UpdateRouteTable(r0, c.pkt.src, life)
<1>1. c \in DataAir /\ m \in Node /\ CopyOK(dev, now, c)
  BY DEF DataAir, NetInv, CopyOK
<1>2. dev' = [dev EXCEPT ![m].routeTable = r]
  BY DEF ProcessData
<1> HIDE DEF r
<1>3. dev'[m].fifo = dev[m].fifo /\ \A k \in Node \ {m} : dev'[k] = dev[k]
  BY <1>1, <1>2, Shape DEF DeviceFields
<1>4. Fifos' = Fifos
  BY <1>1, <1>3, FifosKept
<1>5. CASE c.pkt.dst = m
  <2>1. delivered' = delivered \cup {c.pkt.id} /\ DataOut' = DataOut
    BY <1>5 DEF ProcessData, DataOut
  <2>2. CASE air' = air \ {c}
    <3>1. DataAir' = DataAir \ {c}
      BY <2>2 DEF DataAir
    <3> QED
      BY <1>1, <1>4, <2>1, <3>1, AirToUser DEF DataStep
  <2>3. CASE air' = air /\ nAckLost' # nAckLost
    <3>1. DataAir' = DataAir
      BY <2>3 DEF DataAir
    <3> QED
      BY <1>1, <1>4, <2>1, <2>3, <3>1, Repeated DEF DataStep
  <2> QED
    BY <2>2, <2>3
<1>6. CASE c.pkt.dst # m
  <2>0. PICK e : e = OutEvent(m, c.pkt, Broadcast, FALSE)
    OBVIOUS
  <2>1. out' = out \cup {e} /\ delivered' = delivered
    BY <1>6, <2>0 DEF ProcessData
  <2>2. e.pkt = c.pkt
    BY <2>0 DEF OutEvent
  <2>3. DataOut' = DataOut \cup {e}
    BY <2>1, <2>2 DEF DataOut
  <2>4. CASE air' = air \ {c}
    <3>1. DataAir' = DataAir \ {c}
      BY <2>4 DEF DataAir
    <3> QED
      BY <1>1, <1>4, <2>1, <2>2, <2>3, <3>1, AirToOut DEF DataStep
  <2>5. CASE air' = air /\ nAckLost' # nAckLost
    <3>1. DataAir' = DataAir
      BY <2>5 DEF DataAir
    <3> QED
      BY <1>1, <1>4, <2>1, <2>2, <2>3, <2>5, <3>1, Repeated DEF DataStep
  <2> QED
    BY <2>4, <2>5
<1> QED
  BY <1>5, <1>6

\* NETWORK_IN events carry the packets.
LEMMA DataNetworkIn ==
    ASSUME NetInv, nAckLost \in Nat, NetworkIn
    PROVE  DataStep
<1> DEFINE got(c) == IF IsData(c.pkt) THEN c.pkt
                     ELSE [c.pkt EXCEPT !.ttl = @ - 1]
<1>1. PICK c \in air :
        /\ air' = air \ {c} \/ (air' = air /\ nAckLost' = nAckLost + 1)
        /\ \/ ProcessRREQ(c.rx, got(c)) \/ ProcessRREP(c.rx, got(c))
           \/ ProcessRERR(c.rx, got(c)) \/ ProcessData(c.rx, got(c))
        /\ dropped' = dropped
  BY DEF NetworkIn
<1>2. /\ c.rx \in Node /\ PacketOK(dev, now, got(c))
      /\ got(c).kind = c.pkt.kind
  BY ReceivedOK DEF NetInv, CopyOK
<1>3. CASE IsData(c.pkt)
  <2>1. got(c) = c.pkt
    BY <1>3
  <2>2. ProcessData(c.rx, c.pkt)
    BY <1>1, <1>3, <2>1 DEF ProcessRREQ, ProcessRREP, ProcessRERR, IsData
  <2>3. nAckLost + 1 # nAckLost
    OBVIOUS
  <2> QED
    BY <1>1, <1>3, <2>2, <2>3, DataProcessData
<1>4. CASE ~IsData(c.pkt)
  <2>1. DataAir' = DataAir
    BY <1>1, <1>4, AirKept
  <2>2. ~ProcessData(c.rx, got(c))
    BY <1>2, <1>4 DEF ProcessData, IsData
  <2> HIDE DEF got
  <2> QED
    BY <1>1, <1>2, <2>1, <2>2, DataProcessRREQ, DataProcessRREP,
       DataProcessRERR
<1> QED
  BY <1>3, <1>4

\* A data frame that the MAC layer gives up is dropped.
LEMMA DataMacDrop ==
    ASSUME NetInv, MacDrop
    PROVE  DataStep
<1>1. PICK c \in air : /\ IsData(c.pkt)
                       /\ PacketDropNotification(c.tx, c.rx)
                       /\ air' = air \ {c}
                       /\ dropped' = dropped \cup {c.pkt.id}
                       /\ delivered' = delivered
  BY DEF MacDrop
<1> DEFINE n == c.tx
           dests == RoutesThrough(dev[n].routeTable, c.rx)
           r == InvalidateRoutes(dev[n].routeTable, dests, now)
           rerr == [kind |-> "RERR", ttl |-> NET_DIAMETER, src |-> n,
                    dests |-> dests]
           e == OutEvent(n, rerr, Broadcast, FALSE)
<1>2. n \in Node
  BY DEF NetInv, CopyOK
<1>3. /\ dev'[n].fifo = dev[n].fifo
      /\ \A k \in Node \ {n} : dev'[k] = dev[k]
  <2>1. CASE dev[n].nRerrCount > RERR_LIMIT
    <3>1. dev' = [dev EXCEPT ![n].ncounter = CounterMinus(@),
                             ![n].routeTable = r,
                             ![n].precursors = @ \ {c.rx},
                             ![n].nRerrCount = 2]
      BY <1>1, <2>1 DEF PacketDropNotification, GenerateRERR
    <3> HIDE DEF r
    <3> QED
      BY <1>2, <3>1, Shape DEF DeviceFields
  <2>2. CASE ~(dev[n].nRerrCount > RERR_LIMIT)
    <3>1. dev' = [dev EXCEPT ![n].nRerrCount = @ + 1]
      BY <1>1, <2>2 DEF PacketDropNotification
    <3> QED
      BY <1>2, <3>1, Shape DEF DeviceFields
  <2> QED
    BY <2>1, <2>2
<1>4. out' = out \/ out' = out \cup {e}
  <2>1. CASE dev[n].nRerrCount > RERR_LIMIT
    BY <1>1, <2>1, Zenon DEF PacketDropNotification, GenerateRERR
  <2>2. CASE ~(dev[n].nRerrCount > RERR_LIMIT)
    BY <1>1, <2>2 DEF PacketDropNotification
  <2> QED
    BY <2>1, <2>2
<1>5. ~IsData(e.pkt)
  BY DEF OutEvent, IsData
<1> HIDE DEF r, rerr, e
<1>6. Fifos' = Fifos
  BY <1>2, <1>3, FifosKept
<1>7. DataOut' = DataOut
  BY <1>4, <1>5, OutKept
<1>8. c \in DataAir /\ DataAir' = DataAir \ {c}
  BY <1>1 DEF DataAir
<1> QED
  BY <1>1, <1>6, <1>7, <1>8, AirToDrop DEF DataStep

\* The clock waits for the data frames.
LEMMA DataAdvance ==
    ASSUME NEW t, Advance(t)
    PROVE  DataStep
<1>1. /\ UNCHANGED <<dev, out, delivered, dropped>>
      /\ air' = {c \in air : t <= c.at + MaxDelay}
      /\ \A c \in air : IsData(c.pkt) => t <= c.at + MaxDelay
  BY DEF Advance, dataFate
<1>2. DataAir' = DataAir
  BY <1>1 DEF DataAir
<1>3. DataOut' = DataOut /\ Fifos' = Fifos
  BY <1>1 DEF DataOut, Fifos
<1> QED
  BY <1>1, <1>2, <1>3, IdleCarried DEF DataStep, DataIdle

-----------------------------------------------------------------------------
(* The invariant.                                                          *)

\* A step that carries every packet and sends none keeps the invariant.
LEMMA CarriedInv ==
    ASSUME DataInv, DataStep, nData' = nData,
           nAckLost' = nAckLost \/ nAckLost' = nAckLost + 1
    PROVE  DataInv'
<1>1. nAckLost \in Nat /\ nAckLost' \in Nat
  BY DEF DataInv
<1>2. ASSUME NEW id PROVE Somewhere(id)' <=> Somewhere(id)
  BY DEF DataStep, Carried
<1>3. ASSUME NEW id \in 1..nData, nAckLost' = 0 PROVE Once(id)'
  <2>1. nAckLost = 0 /\ nAckLost' = nAckLost
    BY <1>1, <1>3
  <2>2. Once(id) /\ Carried(id)
    BY <2>1 DEF DataInv, DataStep
  <2> QED
    BY <2>1, <2>2 DEF Carried
<1> QED
  BY <1>1, <1>2, <1>3 DEF DataInv

\* A packet of an application is new and in one event.
LEMMA DataAppSend ==
    ASSUME NetInv, DataInv, NEW f \in Flow, AppSend(f[1], f[2], f[3])
    PROVE  DataInv'
<1>1. nData \in Nat /\ nAckLost \in Nat
  BY DEF NetInv, Types, DataInv
<1>2. PICK e : e = OutEvent(f[1], Data(nData + 1, f[1], f[2]), Broadcast, FALSE)
  OBVIOUS
<1>3. /\ nData' = nData + 1 /\ out' = out \cup {e} /\ nAckLost' = nAckLost
      /\ UNCHANGED <<dev, air, delivered, dropped>>
  BY <1>2 DEF AppSend
<1>4. IsData(e.pkt) /\ e.pkt.id = nData + 1
  BY <1>2 DEF OutEvent, Data, IsData
<1>5. /\ DataOut' = DataOut \cup {e} /\ DataAir' = DataAir /\ Fifos' = Fifos
  BY <1>3, <1>4 DEF DataOut, DataAir, Fifos
<1>6. ASSUME NEW id, id # nData + 1
      PROVE  (Somewhere(id)' <=> Somewhere(id)) /\ (Once(id) => Once(id)')
  <2>1. Kept(id)
    BY <1>3, <1>4, <1>5, <1>6 DEF Kept, Spot
  <2>2. Carried(id)
    BY <2>1, KeptCarried
  <2> QED
    BY <1>3, <2>2 DEF Carried
<1>7. ASSUME NEW id, id = nData + 1
      PROVE  Somewhere(id)' /\ Once(id)'
  <2>1. ~Somewhere(id)
    BY <1>1, <1>7 DEF DataInv
  <2>2. \A k, x : ~Spot(id, k, x)
    BY <2>1 DEF Somewhere
  <2>3. \A k, x : Spot(id, k, x)' <=> k = 1 /\ x = e
    <3>1. \A k, x : Spot(id, k, x)' => Spot(id, k, x) \/ (k = 1 /\ x = e)
      BY <1>3, <1>5 DEF Spot
    <3>2. Spot(id, 1, e)'
      BY <1>4, <1>5, <1>7 DEF Spot
    <3> QED
      BY <2>2, <3>1, <3>2
  <2> QED
    BY <2>3 DEF Somewhere, Once
<1> QED
  BY <1>1, <1>3, <1>6, <1>7 DEF DataInv

\* At the start there is no packet.
LEMMA DataInit ==
    ASSUME Init
    PROVE  DataInv
<1>1. /\ out = {} /\ air = {} /\ delivered = {} /\ dropped = {}
      /\ nData = 0 /\ nAckLost = 0 /\ dev = [n \in Node |-> InitDev]
  BY DEF Init
<1>2. \A n, d \in Node : DOMAIN Fifos[n][d] = {}
  <2>1. InitDev.fifo = [d \in Node |-> <<>>]
    BY DEF InitDev
  <2> QED
    BY <1>1, <2>1 DEF Fifos
<1>3. \A id, k, x : ~Spot(id, k, x)
  BY <1>1, <1>2 DEF Spot, DataOut, DataAir
<1> QED
  BY <1>1, <1>3 DEF DataInv, Somewhere

\* Every step keeps the invariant.
LEMMA DataNext ==
    ASSUME NetInv, DataInv, [Next]_vars
    PROVE  DataInv'
<1>0. nAckLost \in Nat
  BY DEF DataInv
<1>1. CASE NetworkOut
  <2>1. nData' = nData /\ nAckLost' = nAckLost
    BY <1>1 DEF NetworkOut, RouteData, BufferData, DiscoverRoute, SendControl,
       dataFate
  <2> QED
    BY <1>1, <2>1, DataNetworkOut, CarriedInv
<1>2. CASE NetworkIn
  <2>1. nData' = nData /\ (nAckLost' = nAckLost \/ nAckLost' = nAckLost + 1)
    BY <1>2 DEF NetworkIn
  <2> QED
    BY <1>0, <1>2, <2>1, DataNetworkIn, CarriedInv
<1>3. CASE Timer
  <2>1. nData' = nData /\ nAckLost' = nAckLost
    <3>1. ASSUME NEW n, NEW timer, RetryRREQ(n, timer)
          PROVE  nData' = nData /\ nAckLost' = nAckLost
      BY <3>1, Zenon DEF RetryRREQ
    <3>2. ASSUME NEW n, TransmitHello(n)
          PROVE  nData' = nData /\ nAckLost' = nAckLost
      BY <3>2, Zenon DEF TransmitHello, dataFate
    <3>3. ASSUME NEW n, NEW timer, ActiveRouteTimeout(n, timer)
          PROVE  nData' = nData /\ nAckLost' = nAckLost
      BY <3>3, Zenon DEF ActiveRouteTimeout, dataFate
    <3> QED
      BY <1>3, <3>1, <3>2, <3>3 DEF Timer
  <2> QED
    BY <1>3, <2>1, DataTimer, CarriedInv
<1>4. CASE MacDrop
  <2>1. nData' = nData /\ nAckLost' = nAckLost
    BY <1>4 DEF MacDrop
  <2> QED
    BY <1>4, <2>1, DataMacDrop, CarriedInv
<1>5. ASSUME NEW t, Advance(t) PROVE DataInv'
  <2>1. nData' = nData /\ nAckLost' = nAckLost
    BY <1>5 DEF Advance, dataFate
  <2> QED
    BY <1>5, <2>1, DataAdvance, CarriedInv
<1>6. CASE Finish \/ Over \/ UNCHANGED vars
  <2>1. UNCHANGED <<dev, out, air, nData, delivered, dropped, nAckLost>>
    BY <1>6 DEF Finish, Over, vars, dataFate
  <2>2. DataStep
    BY <2>1, IdleCarried DEF DataStep, DataIdle, DataOut, DataAir, Fifos
  <2> QED
    BY <2>1, <2>2, CarriedInv
<1> QED
  BY <1>1, <1>2, <1>3, <1>4, <1>5, <1>6, DataAppSend DEF Next

\* The invariant, of every behaviour.
THEOREM DataInvariant == Spec => []DataInv
<1>1. Init => DataInv
  BY DataInit
<1>2. NetInv /\ DataInv /\ [Next]_vars => DataInv'
  BY DataNext
<1> QED
  BY <1>1, <1>2, NetInvariant, PTL DEF Spec

\* DataConserved: every packet an application has sent is in an event, in a
\* FIFO, in the air, delivered or dropped, and in one of these places only as
\* long as no acknowledgement was lost, whatever the topology and the traffic.
THEOREM NetworkDataConserved == Spec => []DataConserved
<1>1. DataInv => DataConserved
  <2> SUFFICES ASSUME DataInv, NEW id \in 1..nData
               PROVE  LET places == {k \in 1..5 : CASE k = 1 -> InOut(id)
                                      [] k = 2 -> InAir(id)
                                      [] k = 3 -> InFifo(id)
                                      [] k = 4 -> id \in delivered
                                      [] k = 5 -> id \in dropped}
                      IN  /\ places # {}
                          /\ nAckLost = 0 => Cardinality(places) = 1
    BY DEF DataConserved
  <2> DEFINE places == {k \in 1..5 : CASE k = 1 -> InOut(id)
                                      [] k = 2 -> InAir(id)
                                      [] k = 3 -> InFifo(id)
                                      [] k = 4 -> id \in delivered
                                      [] k = 5 -> id \in dropped}
  <2>a. InOut(id) <=> \E x : Spot(id, 1, x)
    <3>1. \A x : Spot(id, 1, x) <=> x \in out /\ IsData(x.pkt) /\ x.pkt.id = id
      BY DEF Spot, DataOut
    <3> QED
      BY <3>1 DEF InOut
  <2>b. InAir(id) <=> \E x : Spot(id, 2, x)
    <3>1. \A x : Spot(id, 2, x) <=> x \in air /\ IsData(x.pkt) /\ x.pkt.id = id
      BY DEF Spot, DataAir
    <3> QED
      BY <3>1 DEF InAir
  <2>c. id \in delivered <=> \E x : Spot(id, 4, x)
    <3>1. \A x : Spot(id, 4, x) <=> id \in delivered /\ x = 0
      BY DEF Spot
    <3> QED
      BY <3>1
  <2>d. id \in dropped <=> \E x : Spot(id, 5, x)
    <3>1. \A x : Spot(id, 5, x) <=> id \in dropped /\ x = 0
      BY DEF Spot
    <3> QED
      BY <3>1
  <2>1. /\ InOut(id) <=> \E x : Spot(id, 1, x)
        /\ InAir(id) <=> \E x : Spot(id, 2, x)
        /\ id \in delivered <=> \E x : Spot(id, 4, x)
        /\ id \in dropped <=> \E x : Spot(id, 5, x)
    BY <2>a, <2>b, <2>c, <2>d
  <2>2. InFifo(id) <=> \E x : Spot(id, 3, x)
    <3>1. \A n, d \in Node : Fifos[n][d] = dev[n].fifo[d]
      BY DEF Fifos
    <3>2. \A x : Spot(id, 3, x) <=>
             \E n, d \in Node : \E i \in DOMAIN Fifos[n][d] :
                x = <<n, d, i>> /\ Fifos[n][d][i].id = id
      BY DEF Spot
    <3>3. ASSUME InFifo(id) PROVE \E x : Spot(id, 3, x)
      <4>1. PICK n \in Node, d \in Node : \E i \in DOMAIN dev[n].fifo[d] :
                    dev[n].fifo[d][i].id = id
        BY <3>3, Zenon DEF InFifo
      <4>2. PICK i \in DOMAIN Fifos[n][d] : Fifos[n][d][i].id = id
        BY <3>1, <4>1
      <4>3. Spot(id, 3, <<n, d, i>>)
        BY <3>2, <4>2, Zenon
      <4> QED
        BY <4>3
    <3>4. ASSUME NEW x, Spot(id, 3, x) PROVE InFifo(id)
      <4>1. PICK n \in Node, d \in Node : \E i \in DOMAIN Fifos[n][d] :
                    Fifos[n][d][i].id = id
        BY <3>2, <3>4, Zenon
      <4> QED
        BY <3>1, <4>1 DEF InFifo
    <3> QED
      BY <3>3, <3>4
  <2>3. \A k, x : Spot(id, k, x) => k \in 1..5
    BY DEF Spot
  <2>4. \A k : k \in places <=> k \in 1..5 /\ \E x : Spot(id, k, x)
    <3> DEFINE H(k) == \E x : Spot(id, k, x)
    <3>1. \A k \in 1..5 : k \in places <=>
             CASE k = 1 -> InOut(id) [] k = 2 -> InAir(id)
               [] k = 3 -> InFifo(id) [] k = 4 -> id \in delivered
               [] k = 5 -> id \in dropped
      OBVIOUS
    <3>2. \A k : k \in places => k \in 1..5
      OBVIOUS
    <3>3. /\ InOut(id) <=> H(1)
          /\ InAir(id) <=> H(2)
          /\ InFifo(id) <=> H(3)
          /\ id \in delivered <=> H(4)
          /\ id \in dropped <=> H(5)
      BY <2>1, <2>2
    <3> HIDE DEF places, H
    <3>4. ASSUME NEW k \in 1..5 PROVE k \in places <=> H(k)
      <4>1. k = 1 \/ k = 2 \/ k = 3 \/ k = 4 \/ k = 5
        OBVIOUS
      <4> QED
        BY <3>1, <3>3, <4>1
    <3> QED
      BY <3>2, <3>4 DEF H
  <2> HIDE DEF places
  <2>5. PICK k, x : Spot(id, k, x)
    BY DEF DataInv, Somewhere
  <2>6. k \in places
    BY <2>3, <2>4, <2>5
  <2>7. ASSUME nAckLost = 0 PROVE Cardinality(places) = 1
    <3>1. Once(id)
      BY <2>7 DEF DataInv
    <3>2. \A l \in places : l = k
      BY <2>4, <2>5, <3>1 DEF Once
    <3>3. places = {k}
      BY <2>6, <3>2
    <3> QED
      BY <3>3, FS_Singleton
  <2> QED
    BY <2>6, <2>7 DEF places
<1> QED
  BY <1>1, DataInvariant, PTL
=============================================================================
