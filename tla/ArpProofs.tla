----------------------------- MODULE ArpProofs -----------------------------
(***************************************************************************)
(* Proofs about Arp, for any set of devices and packets, any retry limit   *)
(* and any timing, with and without a gateway between a device and a       *)
(* destination: no packet is lost or doubled; a request flag belongs to    *)
(* exactly one outstanding request, for which a packet waits; and drops    *)
(* are earned.                                                             *)
(***************************************************************************)
EXTENDS Arp, TLAPS

ArpVar == [table : SUBSET Dev, buffer : [Pkt -> Nat],
           pnArpRequestFlag : [Dev -> {0, 1}], pnArpRetryCount : [Dev -> Nat]]

EventVar == [dev : Dev, type : {"NETWORK_OUT", "TIMER", "NETWORK_IN"},
             kind : {"GENERATE_ARP_REQUEST", "ARP_REQUEST_TIMEOUT", "REQUEST_PACKET",
                     "GENERATE_ARP_REPLY", "REPLY_PACKET", "UPDATE_ARP_TABLE_FWD_PKT"},
             due : Int, pkt : Pkt \cup {NoPkt}, from : Dev]

\* The events that speak of a packet have one, with a next hop to ask for;
\* requests and their timeouts belong to the packet's own device.
EventOK(e) ==
    /\ e \in EventVar
    /\ e.kind \notin {"REPLY_PACKET", "UPDATE_ARP_TABLE_FWD_PKT"} =>
          e.pkt \in Pkt /\ e.pkt.hop \in Dev
    /\ e.kind \in {"GENERATE_ARP_REQUEST", "ARP_REQUEST_TIMEOUT"} => e.pkt.src = e.dev

TypeInv ==
    /\ arp \in [Dev -> ArpVar]
    /\ \A e \in ev : EventOK(e)
    /\ todo \subseteq Pkt /\ out \subseteq Pkt /\ dropped \subseteq Pkt
    /\ unheard \in [Dev -> [Dev -> Nat]]

Place(p) == arp[p.src].buffer[p] + (IF p \in out THEN 1 ELSE 0)
                                 + (IF p \in dropped THEN 1 ELSE 0)

\* A packet is counted at its own device, once from the moment it was handed
\* down, and not at all before.
PlaceInv ==
    /\ \A d \in Dev : \A p \in Pkt :
          arp[d].buffer[p] > 0 => p.src = d /\ p.hop \in Dev
    /\ \A p \in Pkt : Place(p) = IF p \in todo THEN 0 ELSE 1

\* Event e is a request of device d for h that is about to be sent, or its
\* timeout.  Of such events E has none, or exactly one.
InRound(e, d, h) ==
    /\ \/ e.kind = "GENERATE_ARP_REQUEST" /\ e.type = "NETWORK_OUT"
       \/ e.kind = "ARP_REQUEST_TIMEOUT"
    /\ e.dev = d /\ e.pkt.hop = h

NoneIn(E, d, h) == \A x \in E : ~InRound(x, d, h)
OneIn(E, d, h) ==
    \E e \in E : InRound(e, d, h) /\ \A x \in E : InRound(x, d, h) => x = e

\* The flag that holds back a second request comes with exactly one request,
\* and with a packet that waits for it.
RoundAt(d, h) ==
    \/ /\ NoneIn(ev, d, h)
       /\ Direct(d, h) => arp[d].pnArpRequestFlag[h] = 0
    \/ /\ OneIn(ev, d, h)
       /\ arp[d].pnArpRequestFlag[h] = 1
       /\ \E p \in Pkt : arp[d].buffer[p] > 0 /\ p.hop = h

RoundInv == \A d, h \in Dev : h \notin arp[d].table => RoundAt(d, h)

\* The retry count of an address that is not in the table counts requests
\* that nothing answered.  (Of an address in the table it need not: a reply
\* leaves the count as it is.)
EarnInv ==
    \A d, h \in Dev : h \notin arp[d].table /\ Direct(d, h) =>
       arp[d].pnArpRetryCount[h] <= unheard[d][h]

ArpInv == TypeInv /\ PlaceInv /\ RoundInv /\ EarnInv

-----------------------------------------------------------------------------
(* Events.                                                                 *)

Turns(e, k, n) == [e EXCEPT !.kind = k, !.due = n]

\* An event becomes the next one of its exchange.
LEMMA EventWrite ==
    ASSUME NEW e \in EventVar, NEW n \in Int,
           NEW k \in {"GENERATE_ARP_REQUEST", "GENERATE_ARP_REPLY", "UPDATE_ARP_TABLE_FWD_PKT"}
    PROVE  /\ Turns(e, k, n) \in EventVar
           /\ Turns(e, k, n).pkt = e.pkt /\ Turns(e, k, n).kind = k
           /\ Turns(e, k, n).type = e.type /\ Turns(e, k, n).dev = e.dev
<1> DEFINE z == [e EXCEPT !.kind = k]
           y == [z EXCEPT !.due = n]
<1>1. /\ z \in EventVar /\ z.pkt = e.pkt /\ z.kind = k
      /\ z.type = e.type /\ z.dev = e.dev
  BY DEF EventVar
<1> HIDE DEF z
<1>2. /\ y \in EventVar /\ y.pkt = z.pkt /\ y.kind = z.kind
      /\ y.type = z.type /\ y.dev = z.dev
  BY <1>1 DEF EventVar
<1>3. y = Turns(e, k, n)
  BY DEF z, Turns
<1> QED
  BY <1>1, <1>2, <1>3

Shifted(E, t) == {[x EXCEPT !.due = @ - t] : x \in E}

\* The passing of time changes no event but for the time that is left.
LEMMA ShiftEvents ==
    ASSUME NEW E, NEW t \in Int, \A x \in E : EventOK(x)
    PROVE  /\ \A y \in Shifted(E, t) : EventOK(y)
           /\ \A d, h : NoneIn(E, d, h) => NoneIn(Shifted(E, t), d, h)
           /\ \A d, h : OneIn(E, d, h) => OneIn(Shifted(E, t), d, h)
<1> DEFINE Sh(x) == [x EXCEPT !.due = @ - t]
<1>1. ASSUME NEW x \in E
      PROVE  EventOK(Sh(x)) /\ \A d, h : InRound(Sh(x), d, h) <=> InRound(x, d, h)
  <2>1. x \in EventVar /\ EventOK(x)
    BY DEF EventOK
  <2> DEFINE y == Sh(x)
  <2>2. /\ y \in EventVar
        /\ y.kind = x.kind /\ y.type = x.type /\ y.dev = x.dev /\ y.pkt = x.pkt
    BY <2>1 DEF EventVar
  <2> HIDE DEF y
  <2>3. EventOK(y) /\ \A d, h : InRound(y, d, h) <=> InRound(x, d, h)
    BY <2>1, <2>2 DEF EventOK, InRound
  <2> QED
    BY <2>3 DEF y
<1>2. Shifted(E, t) = {Sh(x) : x \in E}
  BY DEF Shifted
<1> HIDE DEF Sh
<1>3. ASSUME NEW d, NEW h, OneIn(E, d, h)
      PROVE  OneIn(Shifted(E, t), d, h)
  <2>1. PICK e \in E : InRound(e, d, h) /\ \A x \in E : InRound(x, d, h) => x = e
    BY <1>3 DEF OneIn
  <2>2. InRound(Sh(e), d, h) /\ Sh(e) \in Shifted(E, t)
    BY <1>1, <1>2, <2>1
  <2>3. \A y \in Shifted(E, t) : InRound(y, d, h) => y = Sh(e)
    BY <1>1, <1>2, <2>1
  <2> QED
    BY <2>2, <2>3 DEF OneIn
<1> QED
  BY <1>1, <1>2, <1>3 DEF NoneIn

\* The events that are left when e is taken.
LEMMA RestEvents ==
    ASSUME TypeInv, NEW e \in ev
    PROVE  /\ \A y \in Rest(e) : EventOK(y)
           /\ \A d, h : NoneIn(ev \ {e}, d, h) => NoneIn(Rest(e), d, h)
           /\ \A d, h : OneIn(ev \ {e}, d, h) => OneIn(Rest(e), d, h)
<1>1. e.due \in Int
  BY DEF TypeInv, EventOK, EventVar
<1>2. Rest(e) = Shifted(ev \ {e}, e.due)
  BY DEF Rest, Shifted
<1>3. \A x \in ev \ {e} : EventOK(x)
  BY DEF TypeInv
<1> QED
  BY <1>1, <1>2, <1>3, ShiftEvents

\* When the request or the timeout of an address is taken no other is left.
LEMMA RoundTaken ==
    ASSUME TypeInv, NEW e \in ev, NEW d, NEW h, InRound(e, d, h), RoundAt(d, h)
    PROVE  /\ NoneIn(Rest(e), d, h)
           /\ arp[d].pnArpRequestFlag[h] = 1
           /\ \E p \in Pkt : arp[d].buffer[p] > 0 /\ p.hop = h
<1>1. ~NoneIn(ev, d, h)
  BY DEF NoneIn
<1>2. NoneIn(ev \ {e}, d, h)
  BY <1>1 DEF RoundAt, OneIn, NoneIn
<1> QED
  BY <1>1, <1>2, RestEvents DEF RoundAt

\* What the invariant says of d and h survives when events of other rounds
\* pass, go and come, packets for h are only added, and the flag of h is not
\* changed, or set by a packet that reaches h by way of another.
LEMMA RoundPasses ==
    ASSUME NEW E, NEW d \in Dev, NEW h \in Dev, RoundAt(d, h),
           NoneIn(ev, d, h) => NoneIn(E, d, h),
           OneIn(ev, d, h) => OneIn(E, d, h),
           E \subseteq ev', \A y \in ev' : y \in E \/ ~InRound(y, d, h),
           \A p \in Pkt : arp[d].buffer[p] > 0 /\ p.hop = h => arp'[d].buffer[p] > 0,
           \/ arp'[d].pnArpRequestFlag[h] = arp[d].pnArpRequestFlag[h]
           \/ ~Direct(d, h) /\ arp'[d].pnArpRequestFlag[h] = 1
    PROVE  RoundAt(d, h)'
<1>1. CASE /\ NoneIn(ev, d, h)
           /\ Direct(d, h) => arp[d].pnArpRequestFlag[h] = 0
  <2>1. \A y \in ev' : ~InRound(y, d, h)
    BY <1>1 DEF NoneIn
  <2>2. Direct(d, h) => arp'[d].pnArpRequestFlag[h] = 0
    BY <1>1
  <2> QED
    BY <2>1, <2>2 DEF RoundAt, NoneIn, Direct
<1>2. CASE /\ OneIn(ev, d, h)
           /\ arp[d].pnArpRequestFlag[h] = 1
           /\ \E p \in Pkt : arp[d].buffer[p] > 0 /\ p.hop = h
  <2>1. PICK e \in E : InRound(e, d, h) /\ \A x \in E : InRound(x, d, h) => x = e
    BY <1>2 DEF OneIn
  <2>2. e \in ev' /\ \A x \in ev' : InRound(x, d, h) => x = e
    BY <2>1
  <2>3. \E x \in ev' : InRound(x, d, h) /\ \A z \in ev' : InRound(z, d, h) => z = x
    BY <2>1, <2>2
  <2>4. arp'[d].pnArpRequestFlag[h] = 1
    BY <1>2
  <2>5. \E p \in Pkt : arp'[d].buffer[p] > 0 /\ p.hop = h
    BY <1>2
  <2> QED
    BY <2>3, <2>4, <2>5 DEF RoundAt, OneIn
<1> QED
  BY <1>1, <1>2 DEF RoundAt

\* The same, when another event is taken.
LEMMA RoundKept ==
    ASSUME TypeInv, NEW e \in ev, NEW d \in Dev, NEW h \in Dev, RoundAt(d, h),
           ~InRound(e, d, h),
           Rest(e) \subseteq ev', \A y \in ev' : y \in Rest(e) \/ ~InRound(y, d, h),
           \A p \in Pkt : arp[d].buffer[p] > 0 /\ p.hop = h => arp'[d].buffer[p] > 0,
           \/ arp'[d].pnArpRequestFlag[h] = arp[d].pnArpRequestFlag[h]
           \/ ~Direct(d, h) /\ arp'[d].pnArpRequestFlag[h] = 1
    PROVE  RoundAt(d, h)'
<1>1. NoneIn(ev, d, h) => NoneIn(Rest(e), d, h)
  BY RestEvents DEF NoneIn
<1>2. OneIn(ev, d, h) => OneIn(Rest(e), d, h)
  <2>1. OneIn(ev, d, h) => OneIn(ev \ {e}, d, h)
    BY DEF OneIn
  <2> QED
    BY <2>1, RestEvents
<1> QED
  BY <1>1, <1>2, RoundPasses

-----------------------------------------------------------------------------
(* The variables of one device.                                            *)

\* Device d gets the variables t, b, f and c, the others keep theirs.
Writes(d, t, b, f, c) ==
    /\ arp' \in [Dev -> ArpVar]
    /\ \A k \in Dev \ {d} : arp'[k] = arp[k]
    /\ arp'[d].table = t /\ arp'[d].buffer = b
    /\ arp'[d].pnArpRequestFlag = f /\ arp'[d].pnArpRetryCount = c

\* The types of the variables of a device.
LEMMA Variables ==
    ASSUME TypeInv, NEW d \in Dev
    PROVE  /\ arp[d] \in ArpVar
           /\ arp[d].table \in SUBSET Dev /\ arp[d].buffer \in [Pkt -> Nat]
           /\ arp[d].pnArpRequestFlag \in [Dev -> {0, 1}]
           /\ arp[d].pnArpRetryCount \in [Dev -> Nat]
  BY DEF TypeInv, ArpVar

\* Flags and counts of a device are assigned.
LEMMA WriteFlagCount ==
    ASSUME TypeInv, NEW d \in Dev, NEW f \in [Dev -> {0, 1}], NEW c \in [Dev -> Nat],
           arp' = [arp EXCEPT ![d] = [arp[d] EXCEPT !.pnArpRequestFlag = f,
                                                    !.pnArpRetryCount = c]]
    PROVE  Writes(d, arp[d].table, arp[d].buffer, f, c)
<1> DEFINE new == [arp[d] EXCEPT !.pnArpRequestFlag = f, !.pnArpRetryCount = c]
<1>1. arp \in [Dev -> ArpVar] /\ arp[d] \in ArpVar
  BY DEF TypeInv
<1>2. /\ new \in ArpVar
      /\ new.table = arp[d].table /\ new.buffer = arp[d].buffer
      /\ new.pnArpRequestFlag = f
      /\ new.pnArpRetryCount = c
  BY <1>1 DEF ArpVar
<1> HIDE DEF new
<1>3. arp' = [arp EXCEPT ![d] = new]
  BY DEF new
<1> QED
  BY <1>1, <1>2, <1>3 DEF Writes

\* Flags of a device are assigned.
LEMMA WriteFlag ==
    ASSUME TypeInv, NEW d \in Dev, NEW f \in [Dev -> {0, 1}],
           arp' = [arp EXCEPT ![d] = [arp[d] EXCEPT !.pnArpRequestFlag = f]]
    PROVE  Writes(d, arp[d].table, arp[d].buffer, f, arp[d].pnArpRetryCount)
<1> DEFINE new == [arp[d] EXCEPT !.pnArpRequestFlag = f]
<1>1. arp \in [Dev -> ArpVar] /\ arp[d] \in ArpVar
  BY DEF TypeInv
<1>2. /\ new \in ArpVar
      /\ new.table = arp[d].table /\ new.buffer = arp[d].buffer
      /\ new.pnArpRequestFlag = f
      /\ new.pnArpRetryCount = arp[d].pnArpRetryCount
  BY <1>1 DEF ArpVar
<1> HIDE DEF new
<1>3. arp' = [arp EXCEPT ![d] = new]
  BY DEF new
<1> QED
  BY <1>1, <1>2, <1>3 DEF Writes

\* A flag is set or cleared.
LEMMA FlagWrite ==
    ASSUME NEW f \in [Dev -> {0, 1}], NEW x, NEW v \in {0, 1}
    PROVE  /\ [f EXCEPT ![x] = v] \in [Dev -> {0, 1}]
           /\ \A h \in Dev : h # x => [f EXCEPT ![x] = v][h] = f[h]
           /\ x \in Dev => [f EXCEPT ![x] = v][x] = v
  OBVIOUS

\* A count is increased or cleared.
LEMMA CountWrite ==
    ASSUME NEW c \in [Dev -> Nat], NEW x, NEW v, x \in Dev => v \in Nat
    PROVE  /\ [c EXCEPT ![x] = v] \in [Dev -> Nat]
           /\ \A h \in Dev : h # x => [c EXCEPT ![x] = v][h] = c[h]
           /\ x \in Dev => [c EXCEPT ![x] = v][x] = v
  OBVIOUS

-----------------------------------------------------------------------------
(* Steps.  What a step must do to the packets and to the requests, apart   *)
(* from the types.                                                         *)

\* No packet moves.
Unmoved == /\ \A d \in Dev : arp'[d].buffer = arp[d].buffer
           /\ UNCHANGED <<todo, out, dropped>>

\* They stay accounted for.
LEMMA UnmovedPlaces ==
    ASSUME ArpInv, Unmoved
    PROVE  PlaceInv'
<1>1. \A p \in Pkt : Place(p)' = Place(p)
  BY ArpAssumption DEF Unmoved, Place
<1> QED
  BY <1>1 DEF ArpInv, PlaceInv, Unmoved

\* A request is sent: flag and count of the destination, and the timeout.
LEMMA StepGenerate_ARP_Request ==
    ASSUME ArpInv, NEW e \in ev, e.type = "NETWORK_OUT", Generate_ARP_Request(e)
    PROVE  ArpInv'
<1> DEFINE d == e.dev
           p == e.pkt
           timeout == Event(d, "TIMER", "ARP_REQUEST_TIMEOUT", RetryInterval, p, d)
           requests == {Event(r, "NETWORK_IN", "REQUEST_PACKET", Delay, p, d) : r \in Dev \ {d}}
<1>0. InRound(e, d, p.hop) /\ TypeInv /\ RoundInv /\ EarnInv
  BY DEF Generate_ARP_Request, InRound, ArpInv
<1>1. d \in Dev /\ p \in Pkt /\ p.hop \in Dev /\ p.src = d
  BY DEF ArpInv, TypeInv, EventOK, EventVar, Generate_ARP_Request
<1>2. /\ e.kind = "GENERATE_ARP_REQUEST"
      /\ arp' = [arp EXCEPT ![d].pnArpRequestFlag[p.dst] = 1,
                            ![d].pnArpRetryCount[p.dst] = @ + 1]
      /\ ev' = Rest(e) \cup {timeout} \cup requests
      /\ unheard' = [unheard EXCEPT ![d][p.hop] = @ + 1]
      /\ UNCHANGED <<todo, out, dropped>>
  BY DEF Generate_ARP_Request
<1>3. /\ EventOK(timeout) /\ \A y \in requests : EventOK(y)
      /\ timeout.kind = "ARP_REQUEST_TIMEOUT" /\ timeout.dev = d /\ timeout.pkt = p
      /\ \A y \in requests : y.kind = "REQUEST_PACKET"
  BY <1>1, ArpAssumption DEF EventOK, EventVar, Event
<1> HIDE DEF timeout, requests, d, p
<1>4. arp \in [Dev -> ArpVar] /\ unheard \in [Dev -> [Dev -> Nat]]
  BY DEF ArpInv, TypeInv
<1>5. /\ arp' \in [Dev -> ArpVar]
      /\ \A k \in Dev : /\ arp'[k].buffer = arp[k].buffer
                        /\ arp'[k].table = arp[k].table
                        /\ k # d => arp'[k] = arp[k]
      /\ \A h \in Dev : h # p.dst =>
            /\ arp'[d].pnArpRequestFlag[h] = arp[d].pnArpRequestFlag[h]
            /\ arp'[d].pnArpRetryCount[h] = arp[d].pnArpRetryCount[h]
      /\ p.dst \in Dev =>
            /\ arp'[d].pnArpRequestFlag[p.dst] = 1
            /\ arp'[d].pnArpRetryCount[p.dst] = arp[d].pnArpRetryCount[p.dst] + 1
  <2> DEFINE f == [arp[d].pnArpRequestFlag EXCEPT ![p.dst] = 1]
             c == [arp[d].pnArpRetryCount EXCEPT ![p.dst] = arp[d].pnArpRetryCount[p.dst] + 1]
  <2>a. /\ TypeInv /\ arp[d].table \in SUBSET Dev /\ arp[d].buffer \in [Pkt -> Nat]
        /\ arp[d].pnArpRequestFlag \in [Dev -> {0, 1}]
        /\ arp[d].pnArpRetryCount \in [Dev -> Nat]
    BY <1>1, Variables DEF ArpInv
  <2>1. arp' = [arp EXCEPT ![d] = [arp[d] EXCEPT !.pnArpRequestFlag = f,
                                                 !.pnArpRetryCount = c]]
    <3>1. /\ d \in DOMAIN arp
          /\ {"pnArpRequestFlag", "pnArpRetryCount"} \subseteq DOMAIN arp[d]
      BY <1>1, <1>4 DEF ArpVar
    <3>2. arp' = [arp EXCEPT ![d].pnArpRequestFlag[p.dst] = 1,
                             ![d].pnArpRetryCount[p.dst] = @ + 1]
      BY <1>2
    <3> QED
      BY <3>1, <3>2
  <2>2. /\ f \in [Dev -> {0, 1}]
        /\ \A h \in Dev : h # p.dst => f[h] = arp[d].pnArpRequestFlag[h]
        /\ p.dst \in Dev => f[p.dst] = 1
    BY <2>a, FlagWrite
  <2>3. /\ c \in [Dev -> Nat]
        /\ \A h \in Dev : h # p.dst => c[h] = arp[d].pnArpRetryCount[h]
        /\ p.dst \in Dev => c[p.dst] = arp[d].pnArpRetryCount[p.dst] + 1
    BY <2>a, CountWrite
  <2> HIDE DEF f, c
  <2>4. Writes(d, arp[d].table, arp[d].buffer, f, c)
    BY <1>1, <2>a, <2>1, <2>2, <2>3, WriteFlagCount
  <2> QED
    BY <1>1, <2>2, <2>3, <2>4 DEF Writes
<1>6. /\ unheard' \in [Dev -> [Dev -> Nat]]
      /\ unheard'[d][p.hop] = unheard[d][p.hop] + 1
      /\ \A k, h \in Dev : k # d \/ h # p.hop => unheard'[k][h] = unheard[k][h]
  BY <1>1, <1>2, <1>4
<1>7. TypeInv'
  BY <1>2, <1>3, <1>5, <1>6, RestEvents DEF ArpInv, TypeInv
<1>8. PlaceInv'
  BY <1>2, <1>5, UnmovedPlaces DEF Unmoved
<1>9. RoundInv'
  <2>1. ASSUME NEW k \in Dev, NEW h \in Dev, h \notin arp'[k].table
        PROVE  RoundAt(k, h)'
    <3>0. RoundAt(k, h)
      BY <1>0, <1>5, <2>1 DEF RoundInv
    <3>1. \A y \in ev' : \/ y \in Rest(e)
                         \/ y = timeout
                         \/ ~InRound(y, k, h)
      BY <1>2, <1>3 DEF InRound
    <3>2. CASE k = d /\ h = p.hop
      <4>1. /\ NoneIn(Rest(e), k, h)
            /\ arp[k].pnArpRequestFlag[h] = 1
            /\ \E q \in Pkt : arp[k].buffer[q] > 0 /\ q.hop = h
        BY <1>0, <3>0, <3>2, RoundTaken
      <4>2. InRound(timeout, k, h) /\ timeout \in ev'
        BY <1>2, <1>3, <3>2 DEF InRound
      <4>3. OneIn(ev', k, h)
        BY <3>1, <4>1, <4>2 DEF OneIn, NoneIn
      <4>4. arp'[k].pnArpRequestFlag[h] = 1 /\ arp'[k].buffer = arp[k].buffer
        BY <1>5, <3>2, <4>1
      <4> QED
        BY <4>1, <4>3, <4>4 DEF RoundAt
    <3>3. CASE ~(k = d /\ h = p.hop)
      <4>1. ~InRound(e, k, h) /\ ~InRound(timeout, k, h)
        BY <1>3, <3>3 DEF InRound, d, p
      <4>2. Rest(e) \subseteq ev' /\ \A y \in ev' : y \in Rest(e) \/ ~InRound(y, k, h)
        BY <1>2, <3>1, <4>1
      <4>3. \/ arp'[k].pnArpRequestFlag[h] = arp[k].pnArpRequestFlag[h]
            \/ ~Direct(k, h) /\ arp'[k].pnArpRequestFlag[h] = 1
        <5>1. CASE k = d /\ h = p.dst
          BY <1>1, <1>5, <3>3, <5>1 DEF Direct
        <5>2. CASE ~(k = d /\ h = p.dst)
          BY <1>5, <5>2
        <5> QED
          BY <5>1, <5>2
      <4>4. \A q \in Pkt : arp[k].buffer[q] > 0 /\ q.hop = h => arp'[k].buffer[q] > 0
        BY <1>5
      <4> QED
        BY <1>0, <3>0, <4>1, <4>2, <4>3, <4>4, RoundKept
    <3> QED
      BY <3>2, <3>3
  <2> QED
    BY <2>1 DEF RoundInv
<1>10. EarnInv'
  <2>1. ASSUME NEW k \in Dev, NEW h \in Dev, h \notin arp'[k].table, Direct(k, h)
        PROVE  arp'[k].pnArpRetryCount[h] <= unheard'[k][h]
    <3>1. arp[k].pnArpRetryCount[h] <= unheard[k][h]
      BY <1>0, <1>5, <2>1 DEF EarnInv
    <3>2. arp[k].pnArpRetryCount[h] \in Nat /\ unheard[k][h] \in Nat
      BY <1>4 DEF ArpVar
    <3>3. k = d /\ h = p.dst => h = p.hop
      BY <1>1, <2>1 DEF Direct
    <3> QED
      BY <1>1, <1>5, <1>6, <3>1, <3>2, <3>3
  <2> QED
    BY <2>1 DEF EarnInv, Direct
<1> QED
  BY <1>7, <1>8, <1>9, <1>10 DEF ArpInv

\* The timeout of an address that is known by now, or below the limit.
LEMMA StepTimeoutAgain ==
    ASSUME ArpInv, NEW e \in ev, e.kind = "ARP_REQUEST_TIMEOUT", e.type = "TIMER",
           \/ /\ e.pkt.hop \in arp[e.dev].table
              /\ arp' = [arp EXCEPT ![e.dev] = Reset(arp[e.dev], e.pkt.hop)]
              /\ ev' = Rest(e)
           \/ /\ arp' = [arp EXCEPT ![e.dev].pnArpRequestFlag[e.pkt.hop] = 0]
              /\ ev' = Rest(e) \cup {Turns(e, "GENERATE_ARP_REQUEST", 0)},
           UNCHANGED <<todo, out, dropped, unheard>>
    PROVE  ArpInv'
<1> DEFINE d == e.dev
           h == e.pkt.hop
           new == Turns(e, "GENERATE_ARP_REQUEST", 0)
<1>0. TypeInv /\ RoundInv /\ EarnInv /\ InRound(e, d, h)
  BY DEF ArpInv, InRound
<1>1. d \in Dev /\ e.pkt \in Pkt /\ h \in Dev /\ e \in EventVar /\ e.pkt.src = d
  BY DEF ArpInv, TypeInv, EventOK, EventVar
<1>2. /\ EventOK(new) /\ new.kind = "GENERATE_ARP_REQUEST" /\ new.type = e.type
  <2>1. /\ new \in EventVar /\ new.kind = "GENERATE_ARP_REQUEST"
        /\ new.type = e.type /\ new.pkt = e.pkt /\ new.dev = e.dev
    BY <1>1, EventWrite
  <2> HIDE DEF new
  <2> QED
    BY <1>1, <2>1 DEF EventOK
<1>3. arp \in [Dev -> ArpVar] /\ unheard \in [Dev -> [Dev -> Nat]]
  BY DEF ArpInv, TypeInv
<1>4. /\ Rest(e) \subseteq ev' /\ \A y \in ev' : EventOK(y)
      /\ \A y \in ev' : y \in Rest(e) \/ \A k, g : ~InRound(y, k, g)
  <2>1. ev' = Rest(e) \/ ev' = Rest(e) \cup {new}
    OBVIOUS
  <2> HIDE DEF new
  <2> QED
    BY <1>2, <2>1, RestEvents DEF ArpInv, InRound
<1> HIDE DEF new
<1>5. /\ arp' \in [Dev -> ArpVar]
      /\ \A k \in Dev : /\ arp'[k].buffer = arp[k].buffer
                        /\ arp'[k].table = arp[k].table
                        /\ k # d => arp'[k] = arp[k]
      /\ \A g \in Dev : g # h =>
            /\ arp'[d].pnArpRequestFlag[g] = arp[d].pnArpRequestFlag[g]
            /\ arp'[d].pnArpRetryCount[g] = arp[d].pnArpRetryCount[g]
      /\ h \notin arp[d].table => arp'[d].pnArpRetryCount[h] = arp[d].pnArpRetryCount[h]
      /\ arp'[d].pnArpRequestFlag[h] = 0
  <2> DEFINE f == [arp[d].pnArpRequestFlag EXCEPT ![h] = 0]
             z == [arp[d].pnArpRetryCount EXCEPT ![h] = 0]
  <2>a. /\ TypeInv /\ arp[d].table \in SUBSET Dev /\ arp[d].buffer \in [Pkt -> Nat]
        /\ arp[d].pnArpRequestFlag \in [Dev -> {0, 1}]
        /\ arp[d].pnArpRetryCount \in [Dev -> Nat]
    BY <1>1, Variables DEF ArpInv
  <2>1. /\ f \in [Dev -> {0, 1}]
        /\ \A g \in Dev : g # h => f[g] = arp[d].pnArpRequestFlag[g]
        /\ f[h] = 0
    BY <1>1, <2>a, FlagWrite
  <2>2. /\ z \in [Dev -> Nat]
        /\ \A g \in Dev : g # h => z[g] = arp[d].pnArpRetryCount[g]
    BY <2>a, CountWrite
  <2>3. CASE /\ h \in arp[d].table
             /\ arp' = [arp EXCEPT ![d] = Reset(arp[d], h)]
    <3>1. Reset(arp[d], h) = [arp[d] EXCEPT !.pnArpRequestFlag = f,
                                            !.pnArpRetryCount = z]
      BY <1>1, <1>3 DEF ArpVar, Reset
    <3> HIDE DEF f, z
    <3>2. Writes(d, arp[d].table, arp[d].buffer, f, z)
      BY <1>1, <2>a, <2>1, <2>2, <2>3, <3>1, WriteFlagCount
    <3> QED
      BY <1>1, <2>1, <2>2, <2>3, <3>2 DEF Writes
  <2>4. CASE arp' = [arp EXCEPT ![d].pnArpRequestFlag[h] = 0]
    <3>1. arp' = [arp EXCEPT ![d] = [arp[d] EXCEPT !.pnArpRequestFlag = f]]
      BY <1>1, <1>3, <2>4 DEF ArpVar
    <3> HIDE DEF f
    <3>2. Writes(d, arp[d].table, arp[d].buffer, f, arp[d].pnArpRetryCount)
      BY <1>1, <2>a, <2>1, <3>1, WriteFlag
    <3> QED
      BY <1>1, <2>1, <2>4, <3>2 DEF Writes
  <2> QED
    BY <2>3, <2>4
<1>6. TypeInv'
  BY <1>4, <1>5 DEF ArpInv, TypeInv
<1>7. PlaceInv'
  BY <1>5, UnmovedPlaces DEF Unmoved
<1>8. RoundInv'
  <2>1. ASSUME NEW k \in Dev, NEW g \in Dev, g \notin arp'[k].table
        PROVE  RoundAt(k, g)'
    <3>0. RoundAt(k, g)
      BY <1>0, <1>5, <2>1 DEF RoundInv
    <3>1. CASE k = d /\ g = h
      <4>1. NoneIn(Rest(e), k, g)
        BY <1>0, <3>0, <3>1, RoundTaken
      <4>2. NoneIn(ev', k, g)
        BY <1>4, <4>1 DEF NoneIn
      <4> QED
        BY <1>5, <3>1, <4>2 DEF RoundAt
    <3>2. CASE ~(k = d /\ g = h)
      <4>1. ~InRound(e, k, g)
        BY <3>2 DEF InRound
      <4>2. arp'[k].pnArpRequestFlag[g] = arp[k].pnArpRequestFlag[g]
        BY <1>5, <3>2
      <4>3. \A q \in Pkt : arp[k].buffer[q] > 0 /\ q.hop = g => arp'[k].buffer[q] > 0
        BY <1>5
      <4> QED
        BY <1>0, <1>4, <3>0, <4>1, <4>2, <4>3, RoundKept
    <3> QED
      BY <3>1, <3>2
  <2> QED
    BY <2>1 DEF RoundInv
<1>9. EarnInv'
  BY <1>0, <1>5 DEF EarnInv, Direct
<1> QED
  BY <1>6, <1>7, <1>8, <1>9 DEF ArpInv

\* The packets for h leave the buffer of d together.
LEMMA MovedPlaces ==
    ASSUME ArpInv, NEW d \in Dev, NEW h \in Dev,
           arp'[d].buffer = [q \in Pkt |-> IF q.hop = h THEN 0 ELSE arp[d].buffer[q]],
           \A k \in Dev \ {d} : arp'[k].buffer = arp[k].buffer,
           todo' = todo,
           \/ out' = out \cup Buffered(arp[d], h) /\ dropped' = dropped
           \/ dropped' = dropped \cup Buffered(arp[d], h) /\ out' = out
    PROVE  PlaceInv'
<1>1. \A q \in Pkt : arp[d].buffer[q] \in Nat
  BY Variables DEF ArpInv
<1>2. ASSUME NEW q \in Pkt PROVE Place(q)' = Place(q)
  <2>1. q.src \in Dev
    BY ArpAssumption
  <2>2. CASE q \in Buffered(arp[d], h)
    <3>1. q.src = d /\ arp[d].buffer[q] > 0 /\ q.hop = h
      BY <2>2 DEF Buffered, ArpInv, PlaceInv
    <3>2. arp[d].buffer[q] = 1 /\ q \notin out /\ q \notin dropped
      BY <1>1, <3>1 DEF ArpInv, PlaceInv, Place
    <3>3. arp'[d].buffer[q] = 0
      BY <3>1
    <3>4. CASE out' = out \cup Buffered(arp[d], h) /\ dropped' = dropped
      BY <2>2, <3>1, <3>2, <3>3, <3>4 DEF Place
    <3>5. CASE dropped' = dropped \cup Buffered(arp[d], h) /\ out' = out
      BY <2>2, <3>1, <3>2, <3>3, <3>5 DEF Place
    <3> QED
      BY <3>4, <3>5
  <2>3. CASE q \notin Buffered(arp[d], h)
    <3>1. arp'[q.src].buffer[q] = arp[q.src].buffer[q]
      BY <1>1, <2>1, <2>3 DEF Buffered
    <3>2. (q \in out' <=> q \in out) /\ (q \in dropped' <=> q \in dropped)
      BY <2>3
    <3> QED
      BY <3>1, <3>2 DEF Place
  <2> QED
    BY <2>2, <2>3
<1>3. ASSUME NEW k \in Dev, NEW q \in Pkt, arp'[k].buffer[q] > 0
      PROVE  q.src = k /\ q.hop \in Dev
  <2>1. arp[k].buffer[q] > 0
    BY <1>3
  <2> QED
    BY <2>1 DEF ArpInv, PlaceInv
<1> QED
  BY <1>2, <1>3 DEF ArpInv, PlaceInv

\* Device d gets the record new.
LEMMA WriteNew ==
    ASSUME TypeInv, NEW d \in Dev, NEW new \in ArpVar, arp' = [arp EXCEPT ![d] = new]
    PROVE  Writes(d, new.table, new.buffer, new.pnArpRequestFlag, new.pnArpRetryCount)
<1>1. arp \in [Dev -> ArpVar]
  BY DEF TypeInv
<1> QED
  BY <1>1 DEF Writes

\* The timeout at the retry limit: the packets for the address are dropped.
LEMMA StepTimeoutDrop ==
    ASSUME ArpInv, NEW e \in ev, e.kind = "ARP_REQUEST_TIMEOUT",
           arp' = [arp EXCEPT ![e.dev] = Unbuffer(Reset(arp[e.dev], e.pkt.hop), e.pkt.hop)],
           dropped' = dropped \cup Buffered(arp[e.dev], e.pkt.hop),
           unheard' = [unheard EXCEPT ![e.dev][e.pkt.hop] = 0],
           ev' = Rest(e), UNCHANGED <<todo, out>>
    PROVE  ArpInv'
<1> DEFINE d == e.dev
           h == e.pkt.hop
           f == [arp[d].pnArpRequestFlag EXCEPT ![h] = 0]
           c == [arp[d].pnArpRetryCount EXCEPT ![h] = 0]
           b == [q \in Pkt |-> IF q.hop = h THEN 0 ELSE arp[d].buffer[q]]
           new == Unbuffer(Reset(arp[d], h), h)
<1>0. RoundInv /\ EarnInv /\ InRound(e, d, h)
  BY DEF ArpInv, InRound
<1>1. d \in Dev /\ e.pkt \in Pkt /\ h \in Dev
  BY DEF ArpInv, TypeInv, EventOK, EventVar
<1>2. /\ TypeInv /\ arp[d] \in ArpVar
      /\ arp[d].table \in SUBSET Dev /\ arp[d].buffer \in [Pkt -> Nat]
      /\ arp[d].pnArpRequestFlag \in [Dev -> {0, 1}]
      /\ arp[d].pnArpRetryCount \in [Dev -> Nat]
  BY <1>1, Variables DEF ArpInv
<1>3. /\ f \in [Dev -> {0, 1}]
      /\ \A g \in Dev : g # h => f[g] = arp[d].pnArpRequestFlag[g]
      /\ f[h] = 0
  BY <1>1, <1>2, FlagWrite
<1>4. /\ c \in [Dev -> Nat]
      /\ \A g \in Dev : g # h => c[g] = arp[d].pnArpRetryCount[g]
      /\ c[h] = 0
  BY <1>1, <1>2, CountWrite
<1>5. /\ b \in [Pkt -> Nat]
      /\ \A q \in Pkt : b[q] > 0 => q.hop # h /\ arp[d].buffer[q] > 0
      /\ \A q \in Pkt : q.hop # h => b[q] = arp[d].buffer[q]
  BY <1>2
<1>6. /\ new.table = arp[d].table /\ new.buffer = b
      /\ new.pnArpRequestFlag = f /\ new.pnArpRetryCount = c
      /\ new \in ArpVar
  <2> DEFINE r == Reset(arp[d], h)
  <2>1. /\ r.table = arp[d].table /\ r.buffer = arp[d].buffer
        /\ r.pnArpRequestFlag = f /\ r.pnArpRetryCount = c
        /\ r \in ArpVar
    <3>1. r = [arp[d] EXCEPT !.pnArpRequestFlag = f, !.pnArpRetryCount = c]
      BY <1>2 DEF Reset, ArpVar
    <3> HIDE DEF f, c, r
    <3> QED
      BY <1>2, <1>3, <1>4, <3>1 DEF ArpVar
  <2>2. new = [r EXCEPT !.buffer = b]
    BY <2>1 DEF Unbuffer
  <2> HIDE DEF r, b, f, c, new
  <2> QED
    BY <1>5, <2>1, <2>2 DEF ArpVar
<1>7. Writes(d, arp[d].table, b, f, c)
  <2>1. arp' = [arp EXCEPT ![d] = new]
    OBVIOUS
  <2> HIDE DEF new, b, f, c
  <2> QED
    BY <1>1, <1>2, <1>6, <2>1, WriteNew
<1>8. Writes(d, arp[d].table, b, f, c) /\ unheard' = [unheard EXCEPT ![d][h] = 0]
  BY <1>7
<1>9. PlaceInv'
  <2>1. /\ arp'[d].buffer = b
        /\ \A k \in Dev \ {d} : arp'[k].buffer = arp[k].buffer
    BY <1>7 DEF Writes
  <2> QED
    BY <1>1, <2>1, MovedPlaces
<1> HIDE DEF f, c, b, new
<1>10. /\ unheard \in [Dev -> [Dev -> Nat]] /\ unheard' \in [Dev -> [Dev -> Nat]]
       /\ \A k, g \in Dev : k # d \/ g # h => unheard'[k][g] = unheard[k][g]
  BY <1>1, <1>2, <1>8 DEF TypeInv
<1>11. TypeInv'
  <2>1. dropped' \subseteq Pkt
    BY <1>2 DEF TypeInv, Buffered
  <2> QED
    BY <1>2, <1>7, <1>10, <2>1, RestEvents DEF TypeInv, Writes
<1>12. RoundInv'
  <2>1. ASSUME NEW k \in Dev, NEW g \in Dev, g \notin arp'[k].table
        PROVE  RoundAt(k, g)'
    <3>0. RoundAt(k, g)
      BY <1>0, <1>7, <2>1 DEF RoundInv, Writes
    <3>1. CASE k = d /\ g = h
      <4>1. NoneIn(ev', k, g)
        BY <1>0, <1>2, <3>0, <3>1, RoundTaken
      <4>2. arp'[k].pnArpRequestFlag[g] = 0
        BY <1>3, <1>7, <3>1 DEF Writes
      <4> QED
        BY <4>1, <4>2 DEF RoundAt
    <3>2. CASE ~(k = d /\ g = h)
      <4>1. ~InRound(e, k, g)
        BY <3>2 DEF InRound
      <4>2. arp'[k].pnArpRequestFlag[g] = arp[k].pnArpRequestFlag[g]
        BY <1>3, <1>7, <3>2 DEF Writes
      <4>3. \A q \in Pkt : arp[k].buffer[q] > 0 /\ q.hop = g => arp'[k].buffer[q] > 0
        BY <1>5, <1>7, <3>2 DEF Writes
      <4> QED
        BY <1>2, <3>0, <4>1, <4>2, <4>3, RoundKept
    <3> QED
      BY <3>1, <3>2
  <2> QED
    BY <2>1 DEF RoundInv
<1>13. EarnInv'
  <2>2. ASSUME NEW k \in Dev, NEW g \in Dev, g \notin arp'[k].table, Direct(k, g)
        PROVE  arp'[k].pnArpRetryCount[g] <= unheard'[k][g]
    <3>1. CASE k = d /\ g = h
      <4>1. arp'[k].pnArpRetryCount[g] = 0 /\ unheard'[k][g] \in Nat
        BY <1>4, <1>7, <1>10, <3>1 DEF Writes
      <4> QED
        BY <4>1
    <3>2. CASE ~(k = d /\ g = h)
      BY <1>0, <1>4, <1>7, <1>10, <2>2, <3>2 DEF EarnInv, Writes
    <3> QED
      BY <3>1, <3>2
  <2> QED
    BY <2>2 DEF EarnInv, Direct
<1> QED
  BY <1>9, <1>11, <1>12, <1>13 DEF ArpInv

\* An address is entered.
LEMMA TableWrite ==
    ASSUME NEW a \in ArpVar, NEW ip \in Dev
    PROVE  /\ AddToTable(a, ip) \in ArpVar
           /\ AddToTable(a, ip).table = a.table \cup {ip}
           /\ AddToTable(a, ip).buffer = a.buffer
           /\ AddToTable(a, ip).pnArpRequestFlag = a.pnArpRequestFlag
           /\ AddToTable(a, ip).pnArpRetryCount = a.pnArpRetryCount
  BY DEF AddToTable, ArpVar

\* A frame is lost, a retry ignored, a reply handed on, or an address learnt.
LEMMA StepLearn ==
    ASSUME ArpInv, NEW e \in ev,
           \A k, g : ~InRound(e, k, g),
           Rest(e) \subseteq ev', \A y \in ev' : EventOK(y),
           \A y \in ev' : y \in Rest(e) \/ \A k, g : ~InRound(y, k, g),
           \/ arp' = arp
           \/ arp' = [arp EXCEPT ![e.dev] = AddToTable(arp[e.dev], e.from)],
           UNCHANGED <<todo, out, dropped, unheard>>
    PROVE  ArpInv'
<1> DEFINE d == e.dev
<1>1. d \in Dev /\ e.from \in Dev /\ TypeInv /\ RoundInv /\ EarnInv
  BY DEF ArpInv, TypeInv, EventOK, EventVar
<1>2. arp \in [Dev -> ArpVar]
  BY <1>1 DEF TypeInv
<1>3. /\ arp' \in [Dev -> ArpVar]
      /\ \A k \in Dev : /\ arp[k].table \subseteq arp'[k].table
                        /\ arp'[k].buffer = arp[k].buffer
                        /\ arp'[k].pnArpRequestFlag = arp[k].pnArpRequestFlag
                        /\ arp'[k].pnArpRetryCount = arp[k].pnArpRetryCount
  <2>1. CASE arp' = arp
    BY <1>2, <2>1
  <2>2. CASE arp' = [arp EXCEPT ![d] = AddToTable(arp[d], e.from)]
    <3> DEFINE new == AddToTable(arp[d], e.from)
    <3>1. /\ new \in ArpVar
          /\ new.table = arp[d].table \cup {e.from} /\ new.buffer = arp[d].buffer
          /\ new.pnArpRequestFlag = arp[d].pnArpRequestFlag
          /\ new.pnArpRetryCount = arp[d].pnArpRetryCount
      BY <1>1, <1>2, TableWrite
    <3> HIDE DEF new
    <3>2. arp' = [arp EXCEPT ![d] = new]
      BY <2>2 DEF new
    <3>3. Writes(d, new.table, new.buffer, new.pnArpRequestFlag, new.pnArpRetryCount)
      BY <1>1, <3>1, <3>2, WriteNew
    <3> QED
      BY <3>1, <3>3 DEF Writes
  <2> QED
    BY <2>1, <2>2
<1>4. TypeInv'
  BY <1>1, <1>3 DEF TypeInv
<1>5. PlaceInv'
  BY <1>3, UnmovedPlaces DEF Unmoved
<1>6. RoundInv'
  <2>1. ASSUME NEW k \in Dev, NEW g \in Dev, g \notin arp'[k].table
        PROVE  RoundAt(k, g)'
    <3>1. RoundAt(k, g)
      BY <1>1, <1>3, <2>1 DEF RoundInv
    <3>2. \A q \in Pkt : arp[k].buffer[q] > 0 /\ q.hop = g => arp'[k].buffer[q] > 0
      BY <1>3
    <3>3. arp'[k].pnArpRequestFlag[g] = arp[k].pnArpRequestFlag[g]
      BY <1>3
    <3> QED
      BY <1>1, <3>1, <3>2, <3>3, RoundKept
  <2> QED
    BY <2>1 DEF RoundInv
<1>7. EarnInv'
  BY <1>1, <1>3 DEF EarnInv, Direct
<1> QED
  BY <1>4, <1>5, <1>6, <1>7 DEF ArpInv

\* The reply: the address is known and the packets for it go out.
LEMMA StepUpdate ==
    ASSUME ArpInv, NEW e \in ev, Update_ARP_Table_ForwardPacket(e)
    PROVE  ArpInv'
<1> DEFINE d == e.dev
           h == e.from
           f == [arp[d].pnArpRequestFlag EXCEPT ![h] = 0]
           b == [q \in Pkt |-> IF q.hop = h THEN 0 ELSE arp[d].buffer[q]]
           u == Unbuffer(AddToTable(arp[d], h), h)
           new == [u EXCEPT !.pnArpRequestFlag[h] = 0]
<1>0. /\ e.kind = "UPDATE_ARP_TABLE_FWD_PKT"
      /\ out' = out \cup Buffered(arp[d], h)
      /\ arp' = [arp EXCEPT ![d] = new]
      /\ unheard' = [unheard EXCEPT ![d][h] = 0]
      /\ ev' = Rest(e)
      /\ UNCHANGED <<todo, dropped>>
  BY DEF Update_ARP_Table_ForwardPacket
<1>1. d \in Dev /\ h \in Dev
  BY DEF ArpInv, TypeInv, EventOK, EventVar
<1>2. /\ TypeInv /\ arp[d] \in ArpVar
      /\ arp[d].table \in SUBSET Dev /\ arp[d].buffer \in [Pkt -> Nat]
      /\ arp[d].pnArpRequestFlag \in [Dev -> {0, 1}]
      /\ arp[d].pnArpRetryCount \in [Dev -> Nat]
  BY <1>1, Variables DEF ArpInv
<1>3. /\ f \in [Dev -> {0, 1}]
      /\ \A g \in Dev : g # h => f[g] = arp[d].pnArpRequestFlag[g]
  BY <1>1, <1>2, FlagWrite
<1>4. /\ b \in [Pkt -> Nat]
      /\ \A q \in Pkt : b[q] > 0 => q.hop # h /\ arp[d].buffer[q] > 0
      /\ \A q \in Pkt : q.hop # h => b[q] = arp[d].buffer[q]
  BY <1>2
<1>5. /\ new.table = arp[d].table \cup {h} /\ new.buffer = b
      /\ new.pnArpRequestFlag = f /\ new.pnArpRetryCount = arp[d].pnArpRetryCount
      /\ new \in ArpVar
  <2> DEFINE t == AddToTable(arp[d], h)
  <2>1. /\ t.table = arp[d].table \cup {h} /\ t.buffer = arp[d].buffer
        /\ t.pnArpRequestFlag = arp[d].pnArpRequestFlag
        /\ t.pnArpRetryCount = arp[d].pnArpRetryCount
        /\ t \in ArpVar
    BY <1>1, <1>2, TableWrite
  <2>2. u = [t EXCEPT !.buffer = b]
    BY <2>1 DEF Unbuffer
  <2> HIDE DEF t, b, u, f
  <2>3. /\ u.table = t.table /\ u.buffer = b
        /\ u.pnArpRequestFlag = t.pnArpRequestFlag
        /\ u.pnArpRetryCount = t.pnArpRetryCount
        /\ u \in ArpVar
    BY <1>4, <2>1, <2>2 DEF ArpVar
  <2>4. new = [u EXCEPT !.pnArpRequestFlag = f]
    BY <2>1, <2>3 DEF ArpVar, f
  <2> HIDE DEF new
  <2> QED
    BY <1>3, <2>1, <2>3, <2>4 DEF ArpVar
<1>7. Writes(d, arp[d].table \cup {h}, b, f, arp[d].pnArpRetryCount)
  <2> HIDE DEF new, b, f
  <2> QED
    BY <1>0, <1>1, <1>2, <1>5, WriteNew
<1>9. PlaceInv'
  <2>1. /\ arp'[d].buffer = b
        /\ \A k \in Dev \ {d} : arp'[k].buffer = arp[k].buffer
    BY <1>7 DEF Writes
  <2> QED
    BY <1>0, <1>1, <2>1, MovedPlaces
<1> HIDE DEF f, b, new, u
<1>10. /\ unheard \in [Dev -> [Dev -> Nat]] /\ unheard' \in [Dev -> [Dev -> Nat]]
       /\ \A k, g \in Dev : k # d \/ g # h => unheard'[k][g] = unheard[k][g]
  BY <1>0, <1>1, <1>2 DEF TypeInv
<1>11. TypeInv'
  <2>1. out' \subseteq Pkt
    BY <1>0, <1>2 DEF TypeInv, Buffered
  <2> QED
    BY <1>0, <1>2, <1>7, <1>10, <2>1, RestEvents DEF TypeInv, Writes
<1>12. RoundInv'
  <2>1. ASSUME NEW k \in Dev, NEW g \in Dev, g \notin arp'[k].table
        PROVE  RoundAt(k, g)'
    <3>1. ~(k = d /\ g = h) /\ g \notin arp[k].table
      BY <1>7, <2>1 DEF Writes
    <3>2. RoundAt(k, g) /\ ~InRound(e, k, g)
      BY <1>0, <3>1 DEF ArpInv, RoundInv, InRound
    <3>3. arp'[k].pnArpRequestFlag[g] = arp[k].pnArpRequestFlag[g]
      BY <1>3, <1>7, <3>1 DEF Writes
    <3>4. \A q \in Pkt : arp[k].buffer[q] > 0 /\ q.hop = g => arp'[k].buffer[q] > 0
      BY <1>4, <1>7, <3>1 DEF Writes
    <3> QED
      BY <1>0, <1>2, <3>2, <3>3, <3>4, RoundKept
  <2> QED
    BY <2>1 DEF RoundInv
<1>13. EarnInv'
  <2>2. ASSUME NEW k \in Dev, NEW g \in Dev, g \notin arp'[k].table, Direct(k, g)
        PROVE  arp'[k].pnArpRetryCount[g] <= unheard'[k][g]
    <3>1. ~(k = d /\ g = h) /\ g \notin arp[k].table
      BY <1>7, <2>2 DEF Writes
    <3> QED
      BY <1>7, <1>10, <2>2, <3>1 DEF ArpInv, EarnInv, Writes
  <2> QED
    BY <2>2 DEF EarnInv, Direct
<1> QED
  BY <1>9, <1>11, <1>12, <1>13 DEF ArpInv

\* The network layer hands down a packet: it goes out, or it waits.
LEMMA StepRead ==
    ASSUME ArpInv, Read_ARP_Table
    PROVE  ArpInv'
<1>1. PICK p \in todo, t \in 0..RetryInterval :
         LET a == arp[p.src]
             later == {[x EXCEPT !.due = @ - t] : x \in ev}
             wait == [a EXCEPT !.buffer[p] = @ + 1]
         IN  /\ todo' = todo \ {p}
             /\ \/ /\ read_table(a, p.hop)
                   /\ out' = out \cup {p}
                   /\ ev' = later
                   /\ UNCHANGED arp
                \/ /\ ~read_table(a, p.hop)
                   /\ a.pnArpRequestFlag[p.hop] = 0
                   /\ arp' = [arp EXCEPT ![p.src] = [wait EXCEPT !.pnArpRequestFlag[p.hop] = 1]]
                   /\ ev' = later
                        \cup {Event(p.src, "NETWORK_OUT", "GENERATE_ARP_REQUEST", 0, p, p.src)}
                   /\ UNCHANGED out
                \/ /\ ~read_table(a, p.hop)
                   /\ a.pnArpRequestFlag[p.hop] # 0
                   /\ arp' = [arp EXCEPT ![p.src] = wait]
                   /\ ev' = later
                   /\ UNCHANGED out
             /\ UNCHANGED <<dropped, unheard>>
  BY Zenon DEF Read_ARP_Table
<1> DEFINE d == p.src
           h == p.hop
           later == Shifted(ev, t)
           b == [arp[d].buffer EXCEPT ![p] = @ + 1]
           f == [arp[d].pnArpRequestFlag EXCEPT ![h] = 1]
           wait == [arp[d] EXCEPT !.buffer = b]
           new == Event(d, "NETWORK_OUT", "GENERATE_ARP_REQUEST", 0, p, d)
<1>2. /\ p \in Pkt /\ d \in Dev /\ h \in Dev \cup {BROADCAST} /\ t \in Int
      /\ TypeInv /\ PlaceInv /\ RoundInv /\ EarnInv
  BY ArpAssumption DEF ArpInv, TypeInv
<1>3. /\ arp[d] \in ArpVar /\ arp[d].buffer \in [Pkt -> Nat]
      /\ arp[d].pnArpRequestFlag \in [Dev -> {0, 1}]
      /\ arp \in [Dev -> ArpVar]
  BY <1>2, Variables DEF TypeInv
<1>4. /\ b \in [Pkt -> Nat] /\ b[p] = arp[d].buffer[p] + 1
      /\ \A q \in Pkt \ {p} : b[q] = arp[d].buffer[q]
  BY <1>2, <1>3
<1>5. /\ wait \in ArpVar /\ wait.table = arp[d].table /\ wait.buffer = b
      /\ wait.pnArpRequestFlag = arp[d].pnArpRequestFlag
      /\ wait.pnArpRetryCount = arp[d].pnArpRetryCount
  <2> HIDE DEF b
  <2> QED
    BY <1>3, <1>4 DEF ArpVar
<1>6. /\ \A y \in later : EventOK(y)
      /\ \A k, g : NoneIn(ev, k, g) => NoneIn(later, k, g)
      /\ \A k, g : OneIn(ev, k, g) => OneIn(later, k, g)
  <2>1. \A x \in ev : EventOK(x)
    BY <1>2 DEF TypeInv
  <2> QED
    BY <1>2, <2>1, ShiftEvents
<1>7. Place(p) = 0 /\ arp[d].buffer[p] = 0 /\ p \notin out /\ p \notin dropped
  <2>1. Place(p) = 0 /\ arp[d].buffer[p] \in Nat
    BY <1>2, <1>3 DEF PlaceInv
  <2> QED
    BY <2>1 DEF Place
<1>8. CASE read_table(arp[d], h)
  <2>1. /\ todo' = todo \ {p} /\ out' = out \cup {p} /\ ev' = later
        /\ UNCHANGED <<arp, dropped, unheard>>
    BY <1>1, <1>8 DEF Shifted
  <2>2. TypeInv'
    BY <1>2, <1>6, <2>1 DEF TypeInv
  <2>3. \A q \in Pkt : Place(q)' = IF q \in todo' THEN 0 ELSE 1
    <3>1. Place(p)' = 1
      BY <1>2, <1>7, <2>1 DEF Place
    <3>2. \A q \in Pkt \ {p} : Place(q)' = Place(q)
      BY <2>1 DEF Place
    <3> QED
      BY <1>2, <2>1, <3>1, <3>2 DEF PlaceInv
  <2>4. PlaceInv'
    BY <1>2, <2>1, <2>3 DEF PlaceInv
  <2>5. RoundInv'
    <3>1. ASSUME NEW k \in Dev, NEW g \in Dev, g \notin arp'[k].table
          PROVE  RoundAt(k, g)'
      <4>1. RoundAt(k, g)
        BY <1>2, <2>1, <3>1 DEF RoundInv
      <4>2. later \subseteq ev' /\ \A y \in ev' : y \in later \/ ~InRound(y, k, g)
        BY <2>1
      <4> HIDE DEF later
      <4> QED
        BY <1>6, <2>1, <4>1, <4>2, RoundPasses
    <3> QED
      BY <3>1 DEF RoundInv
  <2>6. EarnInv'
    BY <1>2, <2>1 DEF EarnInv, Direct
  <2> QED
    BY <2>2, <2>4, <2>5, <2>6 DEF ArpInv
<1>9. CASE ~read_table(arp[d], h)
  <2>0. h \in Dev
    BY <1>2, <1>9 DEF read_table
  <2>1. /\ todo' = todo \ {p} /\ UNCHANGED <<out, dropped, unheard>>
        /\ later \subseteq ev'
        /\ \/ /\ arp[d].pnArpRequestFlag[h] = 0
              /\ arp' = [arp EXCEPT ![d] = [wait EXCEPT !.pnArpRequestFlag = f]]
              /\ ev' = later \cup {new}
           \/ /\ arp[d].pnArpRequestFlag[h] # 0
              /\ arp' = [arp EXCEPT ![d] = wait]
              /\ ev' = later
    <3>1. wait = [arp[d] EXCEPT !.buffer[p] = @ + 1]
      BY <1>2, <1>3 DEF ArpVar
    <3>2. [wait EXCEPT !.pnArpRequestFlag[h] = 1] = [wait EXCEPT !.pnArpRequestFlag = f]
      <4> HIDE DEF wait
      <4> QED
        BY <1>5
    <3> HIDE DEF wait, f
    <3> QED
      BY <1>1, <1>9, <3>1, <3>2 DEF Shifted
  <2>2. /\ f \in [Dev -> {0, 1}]
        /\ \A g \in Dev : g # h => f[g] = arp[d].pnArpRequestFlag[g]
        /\ f[h] = 1
    BY <1>3, <2>0, FlagWrite
  <2>3. /\ EventOK(new) /\ new.kind = "GENERATE_ARP_REQUEST"
        /\ new.dev = d /\ new.pkt = p /\ new.type = "NETWORK_OUT"
    BY <1>2, <2>0 DEF EventOK, EventVar, Event
  <2> HIDE DEF f, new, b, wait
  <2> DEFINE Waits(ff) ==
                /\ Writes(d, arp[d].table, b, ff, arp[d].pnArpRetryCount)
                /\ \A g \in Dev : g # h => ff[g] = arp[d].pnArpRequestFlag[g]
                /\ \/ /\ ev' = later \cup {new}
                      /\ arp[d].pnArpRequestFlag[h] = 0 /\ ff[h] = 1
                   \/ /\ ev' = later
                      /\ arp[d].pnArpRequestFlag[h] # 0 /\ ff[h] = arp[d].pnArpRequestFlag[h]
  <2>4. \E ff \in [Dev -> {0, 1}] : Waits(ff)
    <3>1. CASE /\ arp' = [arp EXCEPT ![d] = [wait EXCEPT !.pnArpRequestFlag = f]]
               /\ arp[d].pnArpRequestFlag[h] = 0
               /\ ev' = later \cup {new}
      <4> DEFINE w == [wait EXCEPT !.pnArpRequestFlag = f]
      <4>1. /\ w \in ArpVar /\ w.table = arp[d].table /\ w.buffer = b
            /\ w.pnArpRequestFlag = f /\ w.pnArpRetryCount = arp[d].pnArpRetryCount
        BY <1>5, <2>2 DEF ArpVar
      <4> HIDE DEF w
      <4>2. arp' = [arp EXCEPT ![d] = w]
        BY <3>1 DEF w
      <4>3. Writes(d, arp[d].table, b, f, arp[d].pnArpRetryCount)
        BY <1>2, <4>1, <4>2, WriteNew
      <4>4. Waits(f)
        BY <2>2, <3>1, <4>3
      <4> HIDE DEF Waits
      <4> QED
        BY <2>2, <4>4
    <3>2. CASE /\ arp' = [arp EXCEPT ![d] = wait] /\ arp[d].pnArpRequestFlag[h] # 0
               /\ ev' = later
      <4>1. Writes(d, arp[d].table, b, arp[d].pnArpRequestFlag, arp[d].pnArpRetryCount)
        BY <1>2, <1>5, <3>2, WriteNew
      <4>2. Waits(arp[d].pnArpRequestFlag)
        BY <3>2, <4>1
      <4> HIDE DEF Waits
      <4> QED
        BY <1>3, <4>2
    <3> QED
      BY <2>1, <3>1, <3>2
  <2>5. PICK ff \in [Dev -> {0, 1}] : Waits(ff)
    BY <2>4
  <2>6. TypeInv'
    BY <1>2, <1>6, <2>1, <2>3, <2>5 DEF TypeInv, Writes
  <2>7. PlaceInv'
    <3>1. /\ arp'[d].buffer = b /\ \A k \in Dev \ {d} : arp'[k] = arp[k]
      BY <2>5 DEF Writes
    <3>2. \A q \in Pkt : Place(q)' = IF q \in todo' THEN 0 ELSE 1
      <4>1. Place(p)' = 1
        BY <1>2, <1>4, <1>7, <2>1, <3>1 DEF Place
      <4>2. ASSUME NEW q \in Pkt \ {p} PROVE Place(q)' = Place(q)
        <5>1. q.src \in Dev
          BY ArpAssumption
        <5>2. arp'[q.src].buffer[q] = arp[q.src].buffer[q]
          BY <1>4, <3>1, <5>1
        <5> QED
          BY <2>1, <5>2 DEF Place
      <4> QED
        BY <1>2, <2>1, <4>1, <4>2 DEF PlaceInv
    <3>3. ASSUME NEW k \in Dev, NEW q \in Pkt, arp'[k].buffer[q] > 0
          PROVE  q.src = k /\ q.hop \in Dev
      <4>1. CASE q = p /\ k = d
        BY <2>0, <4>1
      <4>2. CASE ~(q = p /\ k = d)
        BY <1>2, <1>4, <3>1, <3>3, <4>2 DEF PlaceInv
      <4> QED
        BY <4>1, <4>2
    <3> QED
      BY <3>2, <3>3 DEF PlaceInv
  <2>8. RoundInv'
    <3>1. ASSUME NEW k \in Dev, NEW g \in Dev, g \notin arp'[k].table
          PROVE  RoundAt(k, g)'
      <4>0. RoundAt(k, g)
        BY <1>2, <2>5, <3>1 DEF RoundInv, Writes
      <4>1. \A q \in Pkt : arp[k].buffer[q] > 0 /\ q.hop = g => arp'[k].buffer[q] > 0
        <5>1. b[p] > 0
          BY <1>4, <1>7
        <5>2. \A q \in Pkt : arp[d].buffer[q] > 0 => b[q] > 0
          BY <1>4, <5>1
        <5> QED
          BY <2>5, <5>2 DEF Writes
      <4>2. CASE k = d /\ g = h /\ ev' = later \cup {new}
                 /\ arp[d].pnArpRequestFlag[h] = 0 /\ ff[h] = 1
        <5>1. NoneIn(later, k, g)
          BY <1>6, <4>0, <4>2 DEF RoundAt
        <5>2. InRound(new, k, g)
          BY <2>3, <4>2 DEF InRound
        <5>3. OneIn(ev', k, g)
          BY <4>2, <5>1, <5>2 DEF OneIn, NoneIn
        <5>4. arp'[k].pnArpRequestFlag[g] = 1
          BY <2>5, <4>2 DEF Writes
        <5>5. p \in Pkt /\ arp'[k].buffer[p] > 0 /\ p.hop = g
          BY <1>2, <1>4, <1>7, <2>5, <4>2 DEF Writes
        <5> QED
          BY <5>3, <5>4, <5>5 DEF RoundAt
      <4>3. CASE ~(k = d /\ g = h /\ ev' = later \cup {new}
                   /\ arp[d].pnArpRequestFlag[h] = 0 /\ ff[h] = 1)
        <5>1. \A y \in ev' : y \in later \/ ~InRound(y, k, g)
          BY <2>3, <2>5, <4>3 DEF InRound
        <5>2. arp'[k].pnArpRequestFlag[g] = arp[k].pnArpRequestFlag[g]
          BY <2>5, <4>3 DEF Writes
        <5> HIDE DEF later
        <5> QED
          BY <1>6, <2>1, <4>0, <4>1, <5>1, <5>2, RoundPasses
      <4> QED
        BY <4>2, <4>3
    <3> QED
      BY <3>1 DEF RoundInv
  <2>9. EarnInv'
    BY <1>2, <2>1, <2>5 DEF EarnInv, Writes, Direct
  <2> QED
    BY <2>6, <2>7, <2>8, <2>9 DEF ArpInv
<1> QED
  BY <1>8, <1>9

-----------------------------------------------------------------------------
(* The theorems.                                                           *)

\* At the start nothing is buffered, flagged or pending.
LEMMA InitInv ==
    ASSUME Init
    PROVE  ArpInv
<1>1. /\ arp = [d \in Dev |-> ArpVariables(d)] /\ ev = {} /\ todo = Pkt
      /\ out = {} /\ dropped = {}
      /\ unheard = [d \in Dev |-> [h \in Dev |-> 0]]
  BY DEF Init
<1>2. ASSUME NEW d \in Dev
      PROVE  /\ ArpVariables(d) \in ArpVar
             /\ ArpVariables(d).buffer = [p \in Pkt |-> 0]
             /\ ArpVariables(d).pnArpRequestFlag = [h \in Dev |-> 0]
             /\ ArpVariables(d).pnArpRetryCount = [h \in Dev |-> 0]
  BY DEF ArpVariables, ArpVar, NoneBuffered
<1>3. /\ \A d \in Dev : \A p \in Pkt : arp[d].buffer[p] = 0
      /\ \A d, h \in Dev : /\ arp[d].pnArpRequestFlag[h] = 0
                           /\ arp[d].pnArpRetryCount[h] = 0 /\ unheard[d][h] = 0
  BY <1>1, <1>2
<1>4. TypeInv
  BY <1>1, <1>2 DEF TypeInv
<1>5. PlaceInv
  <2>1. \A p \in Pkt : Place(p) = 0
    BY <1>1, <1>3, ArpAssumption DEF Place
  <2> QED
    BY <1>1, <1>3, <2>1 DEF PlaceInv
<1>6. RoundInv
  BY <1>1, <1>3 DEF RoundInv, RoundAt, NoneIn
<1>7. EarnInv
  BY <1>3 DEF EarnInv
<1> QED
  BY <1>4, <1>5, <1>6, <1>7 DEF ArpInv

\* Every handler keeps the invariant.
LEMMA StepInv ==
    ASSUME ArpInv, NEW e \in ev,
           \/ e.type = "NETWORK_OUT" /\ Generate_ARP_Request(e)
           \/ e.type = "TIMER" /\ (ARP_Request_Timeout(e) \/ RetryIgnored(e))
           \/ CheckDestinationDevice(e) \/ Generate_ARP_Reply(e)
           \/ ReplyIn(e) \/ Update_ARP_Table_ForwardPacket(e) \/ Lose(e)
    PROVE  ArpInv'
<1>0. EventOK(e) /\ e \in EventVar /\ \A y \in Rest(e) : EventOK(y)
  BY RestEvents DEF ArpInv, TypeInv, EventOK
<1>1. CASE e.type = "NETWORK_OUT" /\ Generate_ARP_Request(e)
  BY <1>1, StepGenerate_ARP_Request
<1>2. CASE e.type = "TIMER" /\ ARP_Request_Timeout(e)
  <2>1. e.kind = "ARP_REQUEST_TIMEOUT" /\ UNCHANGED <<todo, out>>
    BY <1>2 DEF ARP_Request_Timeout
  <2>2. CASE /\ arp' = [arp EXCEPT ![e.dev] = Unbuffer(Reset(arp[e.dev], e.pkt.hop), e.pkt.hop)]
             /\ dropped' = dropped \cup Buffered(arp[e.dev], e.pkt.hop)
             /\ unheard' = [unheard EXCEPT ![e.dev][e.pkt.hop] = 0]
             /\ ev' = Rest(e)
    BY <2>1, <2>2, StepTimeoutDrop
  <2>3. CASE /\ \/ /\ e.pkt.hop \in arp[e.dev].table
                   /\ arp' = [arp EXCEPT ![e.dev] = Reset(arp[e.dev], e.pkt.hop)]
                   /\ ev' = Rest(e)
                \/ /\ arp' = [arp EXCEPT ![e.dev].pnArpRequestFlag[e.pkt.hop] = 0]
                   /\ ev' = Rest(e) \cup {Turns(e, "GENERATE_ARP_REQUEST", 0)}
             /\ UNCHANGED <<dropped, unheard>>
    BY <1>2, <2>1, <2>3, StepTimeoutAgain
  <2> QED
    BY <1>2, <2>2, <2>3, Zenon DEF ARP_Request_Timeout, Turns
<1>3. CASE e.type = "TIMER" /\ RetryIgnored(e)
  <2>1. /\ e.kind = "GENERATE_ARP_REQUEST" /\ ev' = Rest(e)
        /\ UNCHANGED <<arp, todo, out, dropped, unheard>>
    BY <1>3 DEF RetryIgnored
  <2>2. \A k, g : ~InRound(e, k, g)
    BY <1>3, <2>1 DEF InRound
  <2> QED
    BY <1>0, <2>1, <2>2, StepLearn
<1>4. CASE CheckDestinationDevice(e)
  <2> DEFINE y == Turns(e, "GENERATE_ARP_REPLY", 0)
  <2>1. e.kind = "REQUEST_PACKET" /\ UNCHANGED <<todo, out, dropped, unheard>>
    BY <1>4 DEF CheckDestinationDevice
  <2>2. /\ y \in EventVar /\ y.pkt = e.pkt /\ y.kind = "GENERATE_ARP_REPLY"
    BY <1>0, EventWrite
  <2>3. \/ ev' = Rest(e) \cup {y} /\ arp' = arp
        \/ ev' = Rest(e) /\ arp' = [arp EXCEPT ![e.dev] = AddToTable(arp[e.dev], e.from)]
    BY <1>4 DEF CheckDestinationDevice, Turns
  <2> HIDE DEF y
  <2>4. EventOK(y) /\ \A k, g : ~InRound(y, k, g) /\ ~InRound(e, k, g)
    BY <1>0, <2>1, <2>2 DEF EventOK, InRound
  <2>5. /\ Rest(e) \subseteq ev' /\ \A x \in ev' : EventOK(x)
        /\ \A x \in ev' : x \in Rest(e) \/ \A k, g : ~InRound(x, k, g)
    BY <1>0, <2>3, <2>4
  <2> QED
    BY <2>1, <2>3, <2>4, <2>5, StepLearn
<1>5. CASE Generate_ARP_Reply(e)
  <2> DEFINE y == Event(e.from, "NETWORK_IN", "REPLY_PACKET", Delay, NoPkt, e.dev)
  <2>1. /\ e.kind = "GENERATE_ARP_REPLY" /\ UNCHANGED <<todo, out, dropped, unheard>>
        /\ arp' = [arp EXCEPT ![e.dev] = AddToTable(arp[e.dev], e.from)]
        /\ ev' = Rest(e) \cup {y}
    BY <1>5 DEF Generate_ARP_Reply
  <2>2. EventOK(y) /\ y.kind = "REPLY_PACKET"
    BY <1>0, ArpAssumption DEF EventOK, EventVar, Event
  <2> HIDE DEF y
  <2>3. \A k, g : ~InRound(y, k, g) /\ ~InRound(e, k, g)
    BY <2>1, <2>2 DEF InRound
  <2>4. /\ Rest(e) \subseteq ev' /\ \A x \in ev' : EventOK(x)
        /\ \A x \in ev' : x \in Rest(e) \/ \A k, g : ~InRound(x, k, g)
    BY <1>0, <2>1, <2>2, <2>3
  <2> QED
    BY <2>1, <2>3, <2>4, StepLearn
<1>6. CASE ReplyIn(e)
  <2> DEFINE y == Turns(e, "UPDATE_ARP_TABLE_FWD_PKT", 0)
  <2>1. /\ e.kind = "REPLY_PACKET" /\ UNCHANGED <<arp, todo, out, dropped, unheard>>
        /\ ev' = Rest(e) \cup {y}
    BY <1>6 DEF ReplyIn, Turns
  <2>2. y \in EventVar /\ y.kind = "UPDATE_ARP_TABLE_FWD_PKT"
    BY <1>0, EventWrite
  <2> HIDE DEF y
  <2>3. EventOK(y) /\ \A k, g : ~InRound(y, k, g) /\ ~InRound(e, k, g)
    BY <2>1, <2>2 DEF EventOK, InRound
  <2>4. /\ Rest(e) \subseteq ev' /\ \A x \in ev' : EventOK(x)
        /\ \A x \in ev' : x \in Rest(e) \/ \A k, g : ~InRound(x, k, g)
    BY <1>0, <2>1, <2>3
  <2> QED
    BY <2>1, <2>3, <2>4, StepLearn
<1>7. CASE Update_ARP_Table_ForwardPacket(e)
  BY <1>7, StepUpdate
<1>8. CASE Lose(e)
  <2>1. /\ e.kind \in {"REQUEST_PACKET", "REPLY_PACKET"} /\ ev' = Rest(e)
        /\ UNCHANGED <<arp, todo, out, dropped, unheard>>
    BY <1>8 DEF Lose
  <2>2. \A k, g : ~InRound(e, k, g)
    BY <2>1 DEF InRound
  <2> QED
    BY <1>0, <2>1, <2>2, StepLearn
<1> QED
  BY <1>1, <1>2, <1>3, <1>4, <1>5, <1>6, <1>7, <1>8

\* Every step keeps the invariant.
LEMMA NextInv ==
    ASSUME ArpInv, [Next]_vars
    PROVE  ArpInv'
<1>1. CASE Read_ARP_Table
  BY <1>1, StepRead
<1>2. CASE Step
  BY <1>2, StepInv, Zenon DEF Step
<1>3. CASE UNCHANGED vars
  BY <1>3 DEF vars, ArpInv, TypeInv, PlaceInv, Place, RoundInv, RoundAt,
     EarnInv, NoneIn, OneIn, Direct
<1> QED
  BY <1>1, <1>2, <1>3 DEF Next

\* The invariant of every behaviour.
THEOREM ArpInvariant == Spec => []ArpInv
<1>1. Init => ArpInv
  BY InitInv
<1>2. ArpInv /\ [Next]_vars => ArpInv'
  BY NextInv
<1> QED
  BY <1>1, <1>2, PTL DEF Spec

\* PacketsAccounted: a packet handed down to ARP is in the buffer, at the
\* interface or dropped, once, whatever requests, replies, losses and timeouts
\* interleave, and on one LAN or behind a gateway.
THEOREM ArpPacketsAccounted == Spec => []PacketsAccounted
<1>1. ArpInv => PacketsAccounted
  BY DEF ArpInv, PlaceInv, Place, PacketsAccounted
<1> QED
  BY <1>1, ArpInvariant, PTL

\* RoundOfFlag: as long as an address is not known, its request flag is set
\* while exactly one request is outstanding, and a packet waits for it, so
\* that the head of the buffer read at the limit is there.
THEOREM ArpRoundOfFlag == Spec => []RoundOfFlag
<1>1. ArpInv => RoundOfFlag
  <2> SUFFICES ASSUME ArpInv, NEW d \in Dev, NEW h \in Dev \ arp[d].table
               PROVE  \/ /\ Round(d, h) = {}
                         /\ Direct(d, h) => arp[d].pnArpRequestFlag[h] = 0
                      \/ /\ \E e \in ev : Round(d, h) = {e}
                         /\ arp[d].pnArpRequestFlag[h] = 1
                         /\ \E p \in Waiting(d) : p.hop = h
    BY DEF RoundOfFlag
  <2>1. RoundAt(d, h)
    BY DEF ArpInv, RoundInv
  <2>2. \A x : x \in Round(d, h) <=> x \in ev /\ InRound(x, d, h)
    BY DEF Round, InRound
  <2>3. NoneIn(ev, d, h) => Round(d, h) = {}
    BY <2>2 DEF NoneIn
  <2>4. OneIn(ev, d, h) => \E e \in ev : Round(d, h) = {e}
    <3>1. ASSUME NEW e \in ev, InRound(e, d, h),
                 \A x \in ev : InRound(x, d, h) => x = e
          PROVE  Round(d, h) = {e}
      BY <2>2, <3>1
    <3> QED
      BY <3>1 DEF OneIn
  <2> QED
    BY <2>1, <2>3, <2>4 DEF RoundAt, Waiting
<1> QED
  BY <1>1, ArpInvariant, PTL

\* DropEarned: packets whose address is their destination are dropped only
\* after ARP_RETRY_LIMIT requests since the device last heard of it.
THEOREM ArpDropEarned == Spec => DropEarned
<1>1. ArpInv /\ [Next]_vars =>
         [\A p \in dropped' \ dropped :
             Direct(p.src, p.hop) => unheard[p.src][p.hop] >= ARP_RETRY_LIMIT]_vars
  <2> SUFFICES ASSUME ArpInv, Next, NEW p \in dropped' \ dropped, Direct(p.src, p.hop)
               PROVE  unheard[p.src][p.hop] >= ARP_RETRY_LIMIT
    OBVIOUS
  <2>1. PICK e \in ev : ARP_Request_Timeout(e)
    BY DEF Next, Read_ARP_Table, Step, Generate_ARP_Request, RetryIgnored,
       CheckDestinationDevice,
       Generate_ARP_Reply, ReplyIn, Update_ARP_Table_ForwardPacket, Lose
  <2> DEFINE d == e.dev
             h == e.pkt.hop
  <2>2. /\ e.kind = "ARP_REQUEST_TIMEOUT" /\ h \notin arp[d].table
        /\ arp[d].pnArpRetryCount[h] >= ARP_RETRY_LIMIT
        /\ dropped' = dropped \cup Buffered(arp[d], h)
    BY <2>1 DEF ARP_Request_Timeout
  <2>3. d \in Dev /\ h \in Dev
    BY <2>2 DEF ArpInv, TypeInv, EventOK, EventVar
  <2>4. p \in Pkt /\ p.src = d /\ p.hop = h
    BY <2>2, <2>3 DEF Buffered, ArpInv, PlaceInv
  <2>5. arp[d].pnArpRetryCount[h] <= unheard[d][h]
    BY <2>2, <2>3, <2>4 DEF ArpInv, EarnInv
  <2>6. arp[d].pnArpRetryCount[h] \in Nat /\ unheard[d][h] \in Nat
    BY <2>3, Variables DEF ArpInv, TypeInv
  <2> QED
    BY <2>2, <2>4, <2>5, <2>6, ArpAssumption
<1> QED
  BY <1>1, ArpInvariant, PTL DEF Spec, DropEarned
=============================================================================
