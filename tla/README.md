# CC-AODV for NetSim v12.2: a TLA+ model of the simulator's protocols

This directory holds the verification development for the CC-AODV project for
NetSim v12.2. Its centre is the ad hoc on-demand distance vector routing library
in `src/CC_AODV/src/Simulation/AODV`, to which CC-AODV adds a congestion counter.
Around it are models of the layers AODV runs on and of other protocols of the
simulator: the 802.11 MAC, ARP, DSR, TCP and OSPF. Paths are relative to
`src/CC_AODV/src/Simulation`, and to its `AODV` where they have no directory.

## 1. The system

NetSim is a discrete-event simulator. A kernel (binary, only its headers are in
the repository) keeps a queue of events ordered by `dEventTime` and runs one at
a time: it sets the global `pstruEventDetails` and calls the protocol's `_Run`
function, which may add events with `fnpAddEvent`. Nothing runs in parallel, so
a handler is atomic; what is hard is the order of the handlers. Events of
several devices are interleaved, frames are lost, delayed and repeated, timers
go off when the state they were set for has changed.

AODV, as it is used by CC-AODV:

| Component | State | Operations | Talks to |
| --- | --- | --- | --- |
| Dispatcher, `AODV.c` | – | `fn_NetSim_AODV_Run`: NETWORK_OUT, NETWORK_IN, TIMER events | called by the IP layer and the kernel |
| Route table, `RouteTable.c`, `AODV_CheckRouteFound.c` | per destination: sequence number and its flag, hop count, next hop, lifetime, valid flag; one pending ACTIVE_ROUTE_TIMEOUT event | insert, update lifetime, look up, expire | all other parts |
| Precursor list, `RouteTable.c` | set of addresses; may be NULL | insert, remove (in GenerateRERR) | RREQ, RREP, RERR |
| Route discovery, `RREQ.c`, `GeneralPacketProcessing.c` | own sequence number, RREQ id (one static counter for all devices), seen table, sent table, pending RREQ_TIMEOUT events | generate, retry, process, forward | route table, FIFO, RREP |
| Route reply, `RREP.c` | – | reply as the destination, reply for it, process, forward | route table, FIFO, sent table |
| Hello, `HelloMessage.c` | time of the last broadcast, hello timer | broadcast a RREP about oneself | RREP of the neighbours |
| Route error, `AODV_RouteError.c`, `RouteMaint.c` | count of drops since the last RERR | drop notification, generate, process | called back by the 802.11 MAC |
| Packet buffer, `FIFOBuffer.c` | per destination a list of packets | add, transmit, empty | discovery, RREP |
| Congestion counter | unsigned `ncounter` | `++` on a flagged RREP, `--` on expiry and on a route error, `> 25` discards a RREQ | – |
| Library services, `AODVlib.c` | – | init, configure, finish, control packets, copy, free, metrics, trace | kernel |
| IP layer, `IP/IP.c` | TTL, next hop of a packet | route, deliver, reroute | AODV, MAC |

The other protocols modelled:

| Component | State | Operations | Hard because |
| --- | --- | --- | --- |
| 802.11 DCF, `IEEE802_11/` with `Medium.c` | MAC state, the frame in hand and the packet set aside for its RTS, retry count, contention window, access buffer, radio state, four event ids | carrier sense, DIFS, backoff, RTS, CTS, data, ACK, timeouts, drop | hidden stations, collisions, answers that race timeouts, a medium callback that interrupts DIFS and backoff |
| ARP, `ARP/` | table, packet buffer, request flag and retry count per device | look up, request, reply, timeout | several packets share one request and its flag, the timeout may be due with the reply, addresses are learnt from others' requests, the retry has no handler |
| DSR, `DSR/` | route cache, send buffer, request table, maintenance buffer | discover, reply from the target or a cache, forward, acknowledge, retransmit | lists of pending work tied to timers, cached routes that are stale |
| TCP, `TCP/` | socket, TCB with retransmission and out-of-order queues, congestion window, RTO events | open, accept, send, acknowledge, retransmit, close, reset | loss, reordering, early timers, failed handshakes and reconnection |
| OSPF, `OSPF/` | neighbor state, description and request lists, link state database, flood and acknowledgement lists | hello, database description, request, update, acknowledge, originate | two state machines that must agree although packets are lost, LSAs that change while they are exchanged |

`PROJECT.json` names the directories that are left out, each with its reason.

What makes the parts correct:

* AODV: a route is kept until its deadline and not beyond, with exactly one
  pending check; it is replaced by fresher information only; no device knows a
  sequence number of another that the other has not issued; a flood and a
  discovery end, and a packet that waits for a route leaves the buffer;
* 802.11: an exchange keeps its packet, an acknowledgement means delivery, retry
  counts belong to one packet, a sender does not stay where it is;
* ARP, DSR: a packet is buffered, sent or dropped, in one place; in ARP one request
  at a time is outstanding for an address, in DSR what waits has somebody asking
  for it;
* TCP: delivery in order and once, nothing acknowledged is missing, no stall;
* OSPF: neighbors agree on their roles, adjacencies form, databases agree;
* the handlers never use memory that is missing or freed.

The hazards, at the lines where they bite, are listed in `PROJECT.json`.

## 2. The modules

| Module | Models |
| --- | --- |
| `AodvTables` | the constants of `AODV.h`, the tables of a device and the C functions on them, as operators |
| `RouteCache` | the abstract specification of a route table: a soft-state cache |
| `AodvRouteTable` | route maintenance in one device, under messages of any contents |
| `AodvNetwork` | devices with all AODV handlers, the IP layer around them, the radio and the kernel |
| `WlanMac` | stations under DCF with their radios and the medium they share |
| `Arp` | the devices of a LAN that resolve each other's addresses |
| `Dsr` | devices that route by DSR over links that lose frames and break |
| `Tcp` | the two ends of a TCP connection and the network between them |
| `Ospf` | routers that become adjacent over point-to-point links |
| `MCAodvNetwork`, `MCWlanMac`, `MCArp`, `MCDsr`, `MCOspf` | topologies and traffic for TLC |
| `AodvTablesProofs` | lemmas about the operators of `AodvTables`, used by the next two |
| `AodvRouteTableProofs`, `AodvNetworkProofs`, `AodvDeliveryProofs`, `ArpProofs`, `DsrProofs`, `TcpProofs`, `OspfProofs` | the theorems (section 4) |

Definitions keep the names of the code without its prefixes. Definitions with a
suffix such as `_Late` are faulty variants of the one that follows; no
specification uses them. Each shows that a property can tell the code from a
plausible mistake.

### AODV

* A linked list keyed by a destination is a function whose domain is the set of
  destinations with an entry. The seen table is a set of pairs; nothing is ever
  removed from it, in the code either. A FIFO entry with an empty packet list
  and no entry are the same: `AddToFIFOBuffer` treats both as "send a RREQ".
* Time is in units of NODE_TRAVERSAL_TIME (40 ms): ACTIVE_ROUTE_TIMEOUT 75,
  HELLO_INTERVAL 25, NET_TRAVERSAL_TIME 70, DELETE_PERIOD 375.
* A device has one interface and all are in one subnet, so a device and its
  address are the same value; the early returns for packets of another network
  and for interfaces without AODV do not occur. Addresses are shared objects in
  the simulator, so the pointer comparison of RREP.c:69 is equality.
* `AodvNetwork` has one action per handler. `NetworkOut` is NETWORK_OUT:
  `RouteData`, `BufferData` and `DiscoverRoute` are the three branches of
  GeneralPacketProcessing, `SendControl` the control packets. `NetworkIn` is
  NETWORK_IN after the IP layer has decremented the TTL: `ProcessRREQ`,
  `ProcessRREP`, `ProcessRERR`, `ProcessData`. `Timer` is TIMER: `RetryRREQ`,
  `TransmitHello`, `ActiveRouteTimeout`. `MacDrop` is the callback of the 802.11
  layer when the last retry has failed.
* A pending NETWORK_OUT event is a record in `out`; `routed` says that the
  packet has a next hop already, in which case the IP layer does not call AODV.
  A second ForwardRREQ of the same packet (RREP.c:159, RREQ.c:344) adds an
  event for the packet that is already queued; the model sends it once, with
  the hop count incremented twice.
* `status = "undefined"` is reached when ForwardRREQ is called with a freed
  packet; the model says nothing of what follows.
* The radio is abstract here: a frame in the air is received within `MaxDelay`
  or lost. A unicast frame may be received and its acknowledgement lost, after
  which it may be received again or reported as dropped. The loss of broadcasts
  and of RREPs is not reported, DropNotification is set for data only.
* Events of the same time run in any order; the kernel's order is not known.
* The precursor removal loop of GenerateRERR is a set difference. HopCount has
  eight bits, which the type invariant shows is enough in the runs; sequence
  numbers and RREQ ids are natural numbers, a run issues far fewer than 2^32.

### 802.11, ARP and DSR

The three keep pending events in a set `ev`, each with the time left until it is
due; a step handles an event that is due first, and handlers of the same instant
run in any order. The state of a device is one record (`mac`, `arp`, `dsr`), the
C functions are operators from record to record, and an action is a whole
handler with everything it calls.

* `WlanMac`: an event is a timer (DIFS_END, BACKOFF, ACK_TIMEOUT, CTS_TIMEOUT), a
  frame on its way through a layer, or the end of a transmission. `Medium.c`
  decides who hears a frame and marks collisions, and calls back the MACs in
  range when the medium gets busy or idle; that callback's dispatcher is in the
  compiled library (external). A packet's size is known only relative to
  dot11RTSThreshold. `todo`, `sent`, `got`, `acked`, `dropped` and `fails` record
  what happened to packets; no handler reads them.
* `Arp`: addresses do not change, so a device stands for its IP and its MAC
  address. An event has its type (NETWORK_OUT, NETWORK_IN, TIMER) besides its
  subevent, since fn_NetSim_ARP_Run looks at the type first (`Step`): the retry is a
  TIMER event with the subevent of a request, which no case handles
  (`RetryIgnored`). A device asks again only when another packet for the address
  comes after the timeout. The buffer is a bag of packets: the code looks a packet up by its
  next hop, and the packets of a next hop leave together, sent or dropped, so
  their order makes no difference. `unheard` counts the requests since the device was last heard, for
  `DropEarned`, and `lost` notes whose request or reply was lost, for
  `EventuallySent`; no handler reads them.
* `Dsr`: the packets of a send or maintenance buffer entry are a set. A request
  carries the addresses it has passed, a reply the whole route. Time stamps are
  kept as the time left, so that the state space is finite. A data packet carries
  no source route: each device looks its next hop up in its own cache, as the
  code does.

### TCP and OSPF

* `Tcp`: a handler maps the record of an end to the next one; `out`, `arm` and
  `up` in it are what it sends, the timers it starts and what it hands to the
  application. Sequence numbers count segments. The network is a sequence of
  packets; a loss, a packet that overtakes and a timer that runs out early are
  faults, bounded by `FaultBound`. The application's packet goes into the socket
  interface at any time; TCP is told only when the interface was empty
  (`HandleTransportOut`, Application/APP_OUT.c:109), so a client that has given up
  its handshake is not told of later packets while the first is still there, and
  opens no second socket; one whose socket a reset closed after the interface was
  emptied does (`DialBound`). `crashed` is set where the code fails an
  assertion or uses freed memory, and nothing follows it.
* `Ospf`: a router with one neighbor per interface. Events that the code adds
  for the current time are executed with the handler that adds them. `delayed`
  is the setting isSendDelayedUpdate. `lost` notes which irreplaceable kinds of
  packets were lost, for the properties. Whether an LSA comes within
  minLSInterval of the stored instance is a choice. isRequestedLSAReceived reads
  a request item as an LSA header: its answer is a choice.

## 3. The runs

| Run | Instance | States | Shows |
| --- | --- | --- | --- |
| `route_table` | one device, two neighbours, all messages with three sequence numbers, two hop counts and two lifetimes | 34 007 | lifetimes and their events agree; sequence numbers only grow; the precursor list exists when it is read; the table implements `RouteCache` |
| `network_line` | a line a – b – c, three packets to c, one lost acknowledgement, one instant | 133 782 | every interleaving of discovery, replies by c and by b, multi-hop data, drops and route errors: nothing lost, numbers owned, floods marked, no route to oneself |
| `network_ladder` | a pair, two packets out of three flows (one of them the other way), no hello, 260 units, fairness | 205 602 | requests keep their timers; the buffer drains, by a route or at the end of the retry ladder, also when the two devices look for each other |
| `network_expiry` | a pair, hellos, 215 units | 273 747 | both tables are soft-state caches when fed with real traffic |
| `wlan_dcf` | three stations in a line; two hidden senders, a sender with two packets beside a hidden broadcast, or two stations that send to each other | 147 820 | RTS and packet stay together, ACK means delivery, one place for a packet, one timer of a kind, no sender stuck |
| `arp` | three devices, three packets from 1 to 2, one from 2 to 3 by way of 1, a limit of two requests | 69 785 | packets in one place, one request outstanding and somebody waiting for it, drops earned by unanswered requests, only a loss leaves a packet in the buffer |
| `dsr` | a triangle, two packets out of three, one lost frame, a link that breaks | 26 845 | routes in caches can be followed, waiting packets have a timer, no packet is only in the air, buffers empty |
| `tcp` | three packets, New Reno, delayed acknowledgements, two faults, two sockets | 31 039 | in order and once; nothing lost before a second socket; the sender never stalls; all delivered |
| `ospf` | two routers, one link, one lost packet, with and without delayed updates | 103 872 | agreement on the master, adjacency and database synchronisation |

**Bounds.** AODV: `MaxTime`/`SimTime` end the simulated time, `MaxData` the
packets, `MaxDelay` the time in the air, `MaxAckLoss` the lost acknowledgements.
The constants have the values of the code except RERR_LIMIT (1 for 10, so that a
few drops produce a route error), COUNTER_MOD (a smaller power of two for 2^32;
the counter only moves by one), the hello interval of `network_ladder`, and the
times of `route_table`, which are scaled to the smallest that keep their order;
the theorems hold for all. A retry ladder, from the first RREQ, has its timeouts
at 8, 22, 40, 60, 136 and 212 units, so 260 contains all of it, also for a packet
that starts at 40. In `network_line` all happens within the smallest timeout,
which is where a burst of packets, answers and errors competes.

802.11: the contention windows are 1 and 3 and the retry limits 2 and 1, so that
a window doubles, both limits are reached, and backoffs of different stations
end in the same slot; a queue of one packet is full with the second. ARP: the
limit is 2, reached when a second packet comes after the timeout of the first,
and a third packet may join either or start again; the next hop of one packet is
not its destination; the retry interval is as long as a request and its reply take,
so that the timeout and the reply are due in the same instant. DSR: the times
keep the order of the code's, the limits are 2 requests and 1 retransmission.
TCP: two faults are enough for a fast retransmission and for a handshake that is
given up, with packets left in the interface; three packets exceed the initial
window. A second socket or a reset in SYN_RECEIVED takes three faults, and with
three the space is infinite: two ends that are closing may acknowledge each
other's acknowledgements for ever. With these bounded, all four
properties were also checked with three faults and two packets (a client that
connects again after a reset included), the three invariants with three. The three invariants were
also checked with Old Tahoe, Tahoe and Reno and four packets. `NoneLost` is about
the states before either end opens a second socket (`OneSocket`): with four faults
it fails without that condition (section 5). OSPF: DDMax is 1,
so that a description takes several packets; `ReqBound` bounds the requests and
answers under way at once, which the short request timer (section 5) would otherwise let
grow without bound; InStep was also checked with two.

**Fairness.** The kernel runs the next event as long as there is one: weak
fairness of the next-state relation in `network_ladder`, of the steps that handle
pending events in the others (the sending of packets, losses and breaking links
are not fair). In `Ospf` it is stated per event, because the time of one event
never waits for another; three of the conjuncts have ENABLED written out as the
guard of the action. Nothing is assumed of the radio or of links; every frame may
be lost, within the bounds of `LossBound` and `FaultBound` where there is one.

**Deadlock** is checked in the AODV runs, where the end of a simulation is the
action `Over`. The other systems stop when all packets are dealt with and no
event is pending; there the check is off, and the liveness properties say that
they do not stop too early.

### Disagreements of code and documentation

Each of these runs checks one statement of a comment, and TLC finds a behaviour
of the code against it.

| Run | The statement | What the code does |
| --- | --- | --- |
| `claim_forward` | RREQ.c:282 "... else it forwards the RREQ" | a device without a route drops it silently |
| `claim_arp` | ARP/GenerateArpRequest.c:23 "buffer the packet till you get reply or RequestSentCount reaches ARP_RETRY_LIMIT" | the retry is a TIMER event that Arp.c:44 does not handle: after one lost request no other follows and the packet stays in the buffer |
| `claim_dsr` | DSR/SendBuffer.c:80 "transmits the packet if it has" | only the first target of the send buffer is looked up |

The metrics shipped with the scenarios agree with the first: no RREP is ever
forwarded.

## 4. The proofs

All theorems hold for every value of the constants that satisfies the named
assumptions: any number of devices, any links, any traffic, any timing.

### One route table

`AodvRouteTableProofs`, under `TimeAssumption` and the assumption of
`AodvRouteTable`:

* `TypeCorrect`, `TimersSafe`, `LifetimesSafe`, `FlagSafe`, `PrecursorsSafe`,
  `NeverStale`: the invariants of the run `route_table`;
* `CacheRefinement`: `Spec` implements `RouteCache!Spec`;
* `FresherRoutes`: the action property `FresherOnly`.

They rest on the inductive invariant `RouteInv`, the conjunction of the type
invariant, `TimersCoverRoutes`, `LifetimesBounded`, `SequenceFlagExact` and
`PrecursorsReady`. The parts need each other: GenerateRERR assigns a lifetime
instead of extending it, and only because no lifetime is beyond
`now + DELETE_PERIOD` does the assignment not move it before the pending check;
that a route is removed in time follows from the pending check, and that the
list of precursors exists when a late drop is reported from the history
variable `handedTo`. Every handler but the timeout is shown to be a step that
only *grows* the table (lemmas `InsertGood`, `UpdateGood`, `InvalidateGood` of
`AodvTablesProofs`: entries stay, lifetimes and numbers do not fall), which gives
both the invariant and the `Learn` step of the cache.

The assumption that matters is `2 * NET_TRAVERSAL_TIME <= DELETE_PERIOD` (140
and 375 in the code): a broken route is kept for longer than a reverse route.
The guard `life <= now + DELETE_PERIOD` on a received RREP is not an assumption
about the network: it is the theorem `NetworkRrepLifetime`.

### The network

`AodvNetworkProofs` proves of `AodvNetwork`, in addition under
`NetworkAssumption`:

| Theorem | Property |
| --- | --- |
| `NetworkSeqNotAhead` | `SeqNotAhead` |
| `NetworkNoSelfRoute` | `NoSelfRoute` |
| `NetworkFloodMarked` | `FloodMarked` |
| `NetworkRrepLifetime` | `RrepLifetimeBounded` |
| `NetworkDiscoveryArmed` | `DiscoveryArmed` |
| `NetworkCacheRefinement` | `ImplementsCache`, for the table of every device |

None of these is inductive: what a device stores comes out of packets, and what
a packet says out of the state its sender had when it was sent. The inductive
invariant `NetInv` (theorem `NetInvariant`) therefore speaks of every pending
event and every frame as well (`EventOK`, `CopyOK`, `PacketOK`): a packet says
nothing that is ahead of the device it is about, and whoever sends a RREQ has it
in its seen table. That this stays true while packets are delayed and repeated
is because the clock, the sequence numbers and the seen tables only grow
(`Monotone`; lemmas `PacketKept`, `TrafficKept`, `SeqKept`). A handler changes
one device, takes one event or frame and adds some (`OneDevice`); each has a
lemma `Step...` that shows what it adds to be in order. A route to oneself is
ruled out by the seen table: a device that hears its own RREQ back finds it
there. The same lemmas show what a step may do to a route table (`CacheStep`),
from which the refinement follows.

`NET_DIAMETER > TTL_THRESHOLD + 1` (35 and 7 in the code) is needed for
`DiscoveryArmed`: the first request for a destination goes out with a small TTL;
were it NET_DIAMETER already, its timeout would be computed from an entry of the
sent table that does not exist yet.

`AodvDeliveryProofs` proves `DataConserved` (`NetworkDataConserved`). The
property says in which kinds of places a packet is, and that is not inductive:
two events could hold the packet, which is one kind of place, and one of them be
sent, which makes two. `DataInv` counts the spots themselves (an event, a frame,
a position in a FIFO, delivered, dropped): every packet sent is at a spot, and at
one only as long as no acknowledgement was lost. Each handler leaves a packet
where it is (`Kept`), moves it from spot to spot (`Moved`), or, where a lost
acknowledgement leaves a frame that was received in the air, adds a spot.

### ARP

`ArpProofs`, under `ArpAssumption` (any LAN, any packets, any limit and times,
whether or not next hop and destination agree), proves one inductive invariant,
`ArpInv` (`ArpInvariant`), and from it

* `ArpPacketsAccounted`: `PacketsAccounted`. Its part `PlaceInv` says that a packet
  is counted once and only in the buffer of its own device;
* `ArpRoundOfFlag`: `RoundOfFlag`. Its part `RoundInv` is the property, in a form
  that speaks of single events: none is outstanding (`NoneIn`), or one (`OneIn`),
  then the flag is set and a packet waits. It lasts because a packet asks only when the flag
  is down, only the timeout or a reply lowers the flag, the timeout ends the
  round, and a reply puts the address into the table;
* `ArpDropEarned`: the action property `DropEarned`. Its part `EarnInv` says that
  the retry count of an unknown address is at most the number of requests since
  the device was last heard.

The properties say less of a packet whose next hop is not its destination
(`Direct`), since GenerateArpRequest then keeps flag and count in another entry
than the rest of the code (section 5).

### DSR

`DsrProofs`, under `DsrAssumption` (the links go both ways, times are natural
numbers, without any relation between them), proves two invariants.

`PacketsAccounted` (`DsrPacketsAccounted`) holds whatever
the route caches and request tables contain: a frame with the packet is never
the only place where it is. The invariant `DsrInv` adds to the property only the
shapes of the variables. The argument is in the lemmas about the operations on
the buffers: each keeps every packet but those the handler drops, counts as
acknowledged or hands to the network layer in the same step (`KeepsBut`), and a
packet taken from the network layer is put into one of the buffers
(`AddToSendBufferKeeps`, `AddToMaintBufferKeeps`).

`WaitingArmed` (`DsrWaitingArmed`) is proved under `OneTarget(t)`: all packets are
for one device t. The hypothesis is needed, as `claim_dsr` shows: the code
looks only the first target of the send buffer up, so that a reply can cancel a
timer and leave its packet. What makes it hold is the order in which a reply is
processed: the route goes into the cache, the send buffer is served, and only
then is the timer cancelled. For this to be safe every reply has to serve
the buffer, and `ArmedInv` says why it does: every request under way is for t, every
reply is a list that ends with t and has its reader in it, so what
UpdateRouteCache stores is a usable route to t; a send buffer has at most one
entry, of t, and while it is there the cache has no usable route, so a timeout
does not end quietly over waiting packets. Cached replies are joined from a request and a
cached route, so the invariant reaches into the lists: the lemmas before the
steps say what `SelectInSeq`, `SubSeq`, concatenation and the recursive function
`At` return, the last by the least number at which it would be wrong.

The model stops where the code would read through NULL, a timeout whose request
is gone (section 5); the theorems say nothing of what follows.

### TCP

`TcpProofs` proves `SenderAlive` (`SenderGoesOn`) for any number of packets, any
of the four congestion variants, with or without delayed acknowledgements, and
any number of losses, overtaking packets and early timers. The inductive invariant
`TcpInv` says of both ends what the property says of an established client, and
adds what makes it last: in every state with data under way each segment in
the retransmission queue has its event pending (`Timed`) and every number from
SND.UNA to SND.NXT is that of a segment in the queue (`Covered`), so that an
acknowledgement which takes segments out leaves the rest covered, and an empty
queue means that nothing is in flight; while a handshake is going on exactly the
SYN is (`Sound`). With an empty queue the window is open, send_segment takes what the
application has, and a station that has nothing left waits for it (`Idle`). A handler is a
chain of functions on the record of one end; a lemma for each says that it keeps
`Sound` and `Idle`, or that it touches nothing they read (`Same`). RCV.NXT after
check_segment_in_queue is a CHOOSE, shown to be well defined by the first gap in the
queue (`FirstGap`).

`NoneLost` (`NothingLost`) and `InOrderOnce` (`DeliveredInOrder`) are proved for the
same instances, for as long as neither end has opened a second socket
(`OneSocket`). Both follow from `StreamInv`: for some number D (`Stream`)

* the server's application has exactly the packets 1, 2, ..., D, so that the
  delivery has no gap either, and RCV.NXT is D + 2 (`Server`);
* a segment under way to the server is the SYN, an acknowledgement, or the packet
  that its sequence number stands for (`ToServer`), and none to the client
  acknowledges anything beyond D + 2 (`ToClient`);
* the client has its queue filled with every packet from SND.UNA to the last one
  it took from the application, and SND.UNA is not beyond D + 2 (`Client`);
* as long as D < Packets nobody sends a FIN or a reset.

An acknowledgement therefore deletes only what is delivered, and the numbers
that check_segment_in_queue passes and the segments that send_to_application
takes out are the same ones (`TextRun`, `AscendingRun`). Once D = Packets, closing,
resets and time-wait begin; the handlers then send no text and hand nothing up
(`Mild`), and only the delivered packets and what the segments carry are kept. The invariant cannot do without `OneSocket`: the reset of a
second socket closes the client's over data (section 5), and initial sequence
numbers are 50 apart, so that with more packets than that the segments of an
earlier connection are acceptable to the next.

### OSPF

`OspfProofs` proves `InStep` (`DatabaseExchangeInStep`) for any area: two neighbors
that both exchange descriptions agree which of them is the master, and the
master is at most one description ahead. The two ends learn about each other from
packets only, which may be lost and repeated, so `OspfInv` is about a pair of
neighbor structures together with the descriptions under way between them:
what one end may be in on its own (`Local`: its sequence number in ExStart is still
its first one, and master is who has the greater router id), what descriptions
from the master and from the slave may say (`FromMaster`, `FromSlave`: first ones
carry the first number, the others one that their sender has not passed), and
how far the ends may be apart (`Pace`: the slave enters Exchange first, with
the master's first number). A handler of one router changes one neighbor
structure (`Only`) and adds packets to its out lists; handlers that leave its role
alone (`Calm`, `SameRole`) are dealt with by one lemma, the others one by one.

### What is model-checked only

* Liveness: `BufferDrains`, `SenderGetsOn`, `EventuallySent`,
  `EventuallySettled`, `AllDelivered`, `AdjacencyForms`, `DatabasesAgree`. The
  prover has no rules for fairness.
* `AodvNetwork!TypeOK`: it bounds HopCount by 255, which holds in the runs and not
  for every constant, since the count grows by two per hop. `NetInv` has the types
  the other theorems need.
* `Tcp!InOrderOnce` after a second socket was opened: states of this kind were
  checked with three faults only (section 3); why no theorem covers them is said
  above.
* `Dsr!CacheUsable`: it depends on the timing, since a retry overwrites the
  identification by which an initiator recognises its own request, and a late
  copy of the older one is only kept out by being lost before the retry.
* `WlanMac`: that a packet, its RTS, its retry count and its timers stay together
  follows from the order in which interframe spaces, slots and frame lengths let
  the events happen, not from the handlers alone.
* `Ospf!CopiesFollow`: it is a property of one link, and not of an area, where an
  old LSA of a router can come back to it by another way.

## 5. Observations

Met while translating; the models behave this way unless it says otherwise.

**AODV.** No code sets the congestion flag of a RREP (RREP.c:32), although
CC-AODV_v12.2.pdf, p. 2, says that a RREP is issued "with the congestion flag
activated": the counter never grows and, being unsigned, wraps when it is
decremented. A broken route is kept and still found for DELETE_PERIOD
(AODV_RouteError.c:128; the comment at 110 says that it is deleted). An update
keeps the next hop of the entry (RouteTable.c:81; RREP.c:59 says that it adds the
next hop). The lifetime in a RREP is a duration that is used as an instant
(RREP.c:84; AODV.h:206). HopCount is incremented twice per hop (RREP.c:159,
RREQ.c:344; AODV.h:135). With a TTL of 1 ForwardRREQ frees the packet and its
caller goes on with it (RREQ.c:376–379, 344).

**802.11.** dNAV is never assigned. Transmission ids count per PHY, so that two
frames may have the same one. The medium marks the collision of a broadcast for
its first copy only. A CTS or ACK that a busy radio refuses leaves the MAC in
TXing_ACK or TXing_CTS (SenderGetsOn leaves these states out). A station whose
backoff was interrupted by a frame it then loses gets no callback for it.
A full queue makes add_to_queue return 0, after which isInterfaceUsed[-1] is
written. Received duplicates are not recognised: a packet whose ACK was lost
reaches the network layer twice.

**ARP.** GenerateArpRequest indexes flag and count by the destination of the
packet, Read_ARP_Table and the timeout by its next hop: for a packet to a router
the count that is compared with the limit is not the one that grows, and the flag
of its destination may stay set with no request under way. The retry event keeps the type TIMER_EVENT
(RequestTimeOut.c:111), which Arp.c:44–51 does not handle for that subevent: no
retry is ever sent, the count grows only when another packet for the address
comes after a timeout, and a packet whose request was lost stays in the buffer
until then (`claim_arp`). The same happens when the address is learnt from the
other device's request while the reply is lost. The buffer head that is read at
the limit without a test (RequestTimeOut.c:118) exists: a packet waits as long as
a round lasts (`RoundOfFlag`). Update does not store the head of an empty table
back.

**DSR.** Segments Left is never decremented, so the address list of a route error
is empty and the error ends where it was raised. The request ids of different
initiators are not told apart. A request whose cached route shares a device with
it is neither answered nor forwarded. ProcessRREQ notes a request twice. The timeout of a request uses the table
entry it looks up without a test (DSR/RouteRequest.c:97). An
acknowledgement clears all packets of its next hop, and does not reset the
retransmission count. The TTL of a data packet falls by two per hop.

**TCP.** A server that gives up after MaxSynRetries leaves an established client
that retransmits for ever, since nothing answers a segment without a socket
(AllDelivered excepts it). If it takes a late second SYN of that client instead,
on a new socket, it answers the client's next acknowledgement, which is outside
SND.UNA to SND.NXT, with a reset (TCP_Incoming.c:210), and the client closes its
socket with the data it has not got acknowledged. A reset in SYN_RECEIVED frees the retransmission queue
and keeps the pointer. A time-wait that is restarted twice ends with an event for
a TCB that is gone. The partial acknowledgement of New Reno may wrap the 16-bit
window. The count of duplicate acknowledgements is not reset by a new one outside
fast recovery. A FIN has no retransmission timer and a delayed acknowledgement no
timer. The sender does not look at the advertised window.

**OSPF.** SeqNumberMismatch, BadLSReq and Adjok have no handler. A description of
the Exchange state is never sent again: its retransmission is not implemented
(OSPF_LSUPDATE.c:606), and resend_DD_msg copies the packet received last instead
of the one sent last. If it is lost, the adjacency never forms (AdjacencyForms
excepts this). The retransmission timer of a flooded LSA is started for LSAs of
MaxAge only, so a lost update is not sent again either. Without delayed updates
an update that comes within minLSInterval of the stored instance is discarded
without an acknowledgement, and the databases stay different (DatabasesAgree is
about delayed updates). The timer of a request is RxmtInterval microseconds, not
seconds. An older instance than the stored one is taken for a newer one
(isMoreRecent is -1), which makes step 8 of OSPF_LSUPDATE.c unreachable. A newer
instance with the same links is not stored. The implied acknowledgement removes
the first LSA of the retransmission list with another sequence number
(OSPF_LSUPDATE.c:306). A refresh floods with no source interface and sends
nothing. A neighbor declared inactive keeps its sequence number and never becomes
adjacent again.

**RIP** (not modelled). An entry is replaced only if its metric is greater than
the new one plus one, infinity is not recognised, and the timeout and
garbage-collection timers walk another list, so routes never expire.

## 6. Not modelled

Metrics, traces, packet sizes and the freeing of memory, except where a freed
packet is used again. Several interfaces, several subnets, IPv6. The wrap of the
32-bit lifetime of a RREP after 4294 s. The movement of devices (any frame may be
lost at any time instead).

* 802.11: EDCA and TXOP, aggregation and block acknowledgement, rate adaptation,
  access points, IEEE 1609; their PHY tables are numeric.
* DSR: the link-layer acknowledgement, whose callback is in the compiled library.
* TCP: SACK, BIC, CUBIC, window scaling, time stamps, the arithmetic of the RTO.
* OSPF: ageing and MaxAge, inactivity and interfaces that go down, designated
  routers, network and summary LSAs (which end in fnNetSimError), areas, shortest
  paths and the routing table.
* The simulator's other protocols: LTE and 5G NR, cellular, cognitive radio,
  ZigBee, satellite and the rest. They are two thirds of the repository, do not
  take part in CC-AODV, and consist for the larger part of tables, numeric PHY
  models and message encodings, about which TLC has nothing to say.

## 7. Plan

Done: AODV with its refinement, the network with all handlers, the 802.11 MAC,
ARP, DSR, TCP, OSPF; proofs about the route table, the AODV network, ARP, DSR
(delivery and the timers of discovery), TCP (no stall, nothing lost,
order) and OSPF (agreement on the master).

Next, in this order:

1. Proofs about `WlanMac` from assumptions on its times that make the order of
   its events inductive: `ExchangeHeld`, `RetryOwned`.
2. The pending timer of a filled maintenance buffer entry in `Dsr`, the safety
   part of `EventuallySettled`; it needs the types of the request table.
3. The ageing of LSAs and the loss of a neighbor in `Ospf`; SACK in `Tcp`.
4. The abstract link that `WlanMac` implements and `AodvNetwork` assumes.
