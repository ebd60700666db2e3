----------------------------- MODULE AodvTables -----------------------------
(***************************************************************************)
(* The per-device tables of the AODV library and the C functions that read *)
(* and write them, as pure operators: a table goes in, the new table comes *)
(* out.  The state machines (AodvRouteTable, AodvNetwork) call them in the *)
(* order the event handlers do.                                            *)
(*                                                                         *)
(* Time is a natural number of NODE_TRAVERSAL_TIME units (40 ms in AODV.h) *)
(* when the constants have the values of the code.                         *)
(*                                                                         *)
(* A linked list keyed by a destination is a function whose DOMAIN is the  *)
(* set of destinations with an entry.  Each device has one AODV interface, *)
(* so a device and its IP address are the same value, an element of Node.  *)
(***************************************************************************)
EXTENDS Integers, Sequences, FiniteSets

CONSTANTS
    Node,                   \* the devices
    ACTIVE_ROUTE_TIMEOUT,   \* 75  (3000 ms)
    HELLO_INTERVAL,         \* 25  (1000 ms)
    NODE_TRAVERSAL_TIME,    \* 1   (40 ms)
    NET_DIAMETER,           \* 35
    RERR_LIMIT,             \* 10, the literal of RouteMaint.c
    CONGESTION_LIMIT,       \* 25, the literal of RREQ.c
    COUNTER_MOD             \* 2^32, the range of the unsigned int ncounter

ALLOWED_HELLO_LOSS == 2
RREQ_RETRIES == 2
TIMEOUT_BUFFER == 2
TTL_START == 1
TTL_INCREMENT == 2
TTL_THRESHOLD == 7

Max2(a, b) == IF a >= b THEN a ELSE b

NET_TRAVERSAL_TIME == 2 * NODE_TRAVERSAL_TIME * NET_DIAMETER
MY_ROUTE_TIMEOUT == 2 * ACTIVE_ROUTE_TIMEOUT
DELETE_PERIOD == 5 * Max2(ACTIVE_ROUTE_TIMEOUT, HELLO_INTERVAL)
RING_TRAVERSAL_TIME(ttl) == 2 * NODE_TRAVERSAL_TIME * (ttl + TIMEOUT_BUFFER)

\* What the code's values satisfy and the proofs use.  A broken route is
\* kept for DELETE_PERIOD, longer than a reverse route (5.6 s) or a hello.
ASSUME TimeAssumption ==
    /\ ACTIVE_ROUTE_TIMEOUT \in Nat \ {0}
    /\ HELLO_INTERVAL \in Nat \ {0}
    /\ NODE_TRAVERSAL_TIME \in Nat
    /\ NET_DIAMETER \in Nat
    /\ 2 * NET_TRAVERSAL_TIME <= DELETE_PERIOD

ASSUME CounterAssumption ==
    /\ RERR_LIMIT \in Nat \ {0}
    /\ CONGESTION_LIMIT \in Nat
    /\ COUNTER_MOD \in Nat \ {0}

-----------------------------------------------------------------------------
(* Route table: stru_NetSim_AODV_RouteTable.  seq is the                   *)
(* DestinationSequenceNumber, vseq the ValidDestinationSequenceNumberflag, *)
(* valid is routingFlags = AODV_RoutingFlag_Valid.                         *)

RouteEntry == [seq: Nat, vseq: BOOLEAN, hop: Nat, next: Node,
               life: Nat, valid: BOOLEAN]

IsRouteTable(rt) == /\ DOMAIN rt \subseteq Node
                    /\ rt \in [DOMAIN rt -> RouteEntry]

\* A pending ACTIVE_ROUTE_TIMEOUT event for the entry of dest.
RouteTimer == [dest: Node, at: Nat]

\* Definitions whose names end in a word after an underscore are faulty
\* variants of the definition that follows.  No specification uses them; they
\* show that the properties can tell the code from a plausible mistake in it.

\* Any other sequence number is taken for a newer one.
AcceptsRoute_Unordered(rt, ip, seqNumber, hopCount) ==
    \/ ip \notin DOMAIN rt
    \/ ~rt[ip].vseq
    \/ rt[ip].seq # seqNumber
    \/ hopCount + 1 < rt[ip].hop \/ ~rt[ip].valid

\* The comparison at the head of fn_NetSim_AODV_InsertInRouteTable: an
\* existing entry gives way to a newer sequence number, to a shorter path of
\* the same number, or to anything of the same number once it is InValid.
AcceptsRoute(rt, ip, seqNumber, hopCount) ==
    \/ ip \notin DOMAIN rt
    \/ ~rt[ip].vseq
    \/ rt[ip].seq < seqNumber
    \/ /\ rt[ip].seq = seqNumber
       /\ hopCount + 1 < rt[ip].hop \/ ~rt[ip].valid

\* The fresh entry of ROUTETABLE_ALLOC: zeroed, alive for ACTIVE_ROUTE_TIMEOUT.
FreshEntry(nextHop, t) ==
    [seq |-> 0, vseq |-> FALSE, hop |-> 0, next |-> nextHop,
     life |-> t + ACTIVE_ROUTE_TIMEOUT, valid |-> TRUE]

\* The flag is raised whatever the number is.
WriteEntry_Flagged(old, seqNumber, hopCount, lifeTime) ==
    [seq |-> seqNumber, vseq |-> TRUE, hop |-> hopCount, next |-> old.next,
     life |-> Max2(old.life, lifeTime), valid |-> TRUE]

\* What the assignments at the end of the function make of an entry; the
\* next hop is only written when the entry has none, so an old one stays.
WriteEntry(old, seqNumber, hopCount, lifeTime) ==
    [seq   |-> seqNumber,
     vseq  |-> old.vseq \/ seqNumber # 0,
     hop   |-> hopCount,
     next  |-> old.next,
     life  |-> Max2(old.life, lifeTime),
     valid |-> TRUE]

InsertInRouteTable(rt, ip, seqNumber, hopCount, nextHop, lifeTime, t) ==
    IF AcceptsRoute(rt, ip, seqNumber, hopCount)
    THEN [d \in DOMAIN rt \cup {ip} |->
            IF d # ip THEN rt[d]
            ELSE WriteEntry(IF ip \in DOMAIN rt THEN rt[ip]
                                                ELSE FreshEntry(nextHop, t),
                            seqNumber, hopCount, lifeTime)]
    ELSE rt

\* The expiry check comes one timeout late.
AddRouteTimer_Late(timers, rt, ip, t) ==
    IF ip \in DOMAIN rt THEN timers
    ELSE timers \cup {[dest |-> ip, at |-> t + 2 * ACTIVE_ROUTE_TIMEOUT]}

\* A new entry, and only a new one, schedules its expiry check.
AddRouteTimer(timers, rt, ip, t) ==
    IF ip \in DOMAIN rt THEN timers
    ELSE timers \cup {[dest |-> ip, at |-> t + ACTIVE_ROUTE_TIMEOUT]}

\* The lifetime is added instead of compared.
UpdateRouteTable_Adds(rt, ip, lifetime) ==
    [d \in DOMAIN rt |->
        IF rt[d].next = ip \/ d = ip
        THEN [rt[d] EXCEPT !.life = @ + lifetime] ELSE rt[d]]

\* fn_NetSim_AODV_UpdateRouteTable: every route to ip or through ip lives on.
UpdateRouteTable(rt, ip, lifetime) ==
    [d \in DOMAIN rt |->
        IF rt[d].next = ip \/ d = ip
        THEN [rt[d] EXCEPT !.life = Max2(rt[d].life, lifetime)]
        ELSE rt[d]]

\* fn_NetSim_AODV_CheckRouteFound: only the lifetime is looked at.
CheckRouteFound(rt, ip, t) == ip \in DOMAIN rt /\ rt[ip].life > t

\* fn_NetSim_AODV_FindNextHop, called for a destination that has an entry.
FindNextHop(rt, ip) == rt[ip].next

\* fnFindSequenceNumber
FindSequenceNumber(rt, ip) == IF ip \in DOMAIN rt THEN rt[ip].seq ELSE 0

\* The destinations fn_NetSim_AODV_GenerateRERR collects ...
RoutesThrough(rt, unreachable) == {d \in DOMAIN rt : rt[d].next = unreachable}

\* A broken route expires at once.
InvalidateRoutes_Now(rt, dests, t) ==
    [d \in DOMAIN rt |->
        IF d \in dests THEN [rt[d] EXCEPT !.valid = FALSE, !.life = t]
        ELSE rt[d]]

\* ... and what it and fn_NetSim_AODV_ProcessRERR do to each of them.
InvalidateRoutes(rt, dests, t) ==
    [d \in DOMAIN rt |->
        IF d \in dests
        THEN [rt[d] EXCEPT !.valid = FALSE, !.life = t + DELETE_PERIOD]
        ELSE rt[d]]

\* fn_NetSim_AODV_ActiveRouteTimeout, the LIST_FREE of an expired entry.
RemoveRoute(rt, ip) == [d \in DOMAIN rt \ {ip} |-> rt[d]]

-----------------------------------------------------------------------------
(* The congestion counter, an unsigned int that fn_NetSim_AODV_ProcessRREQ *)
(* reads back into an int.                                                 *)

CounterPlus(c) == (c + 1) % COUNTER_MOD
CounterMinus(c) == (c + COUNTER_MOD - 1) % COUNTER_MOD
AsInt(c) == IF 2 * c < COUNTER_MOD THEN c ELSE c - COUNTER_MOD

-----------------------------------------------------------------------------
(* RREQ sent table: stru_AODV_RREQ_Sent_Table.                             *)

SentEntry == [ttl: Nat, times: Nat, timeout: Nat]

\* fnIncreaseTTL: the expanding ring.
IncreaseTTL(sent, ip) ==
    IF ip \notin DOMAIN sent THEN TTL_START
    ELSE IF sent[ip].ttl >= TTL_THRESHOLD THEN NET_DIAMETER
    ELSE IF sent[ip].ttl + TTL_INCREMENT > TTL_THRESHOLD THEN TTL_THRESHOLD
    ELSE sent[ip].ttl + TTL_INCREMENT

\* fnGetTimeoutTime
GetTimeoutTime(ttl, count) ==
    IF ttl # NET_DIAMETER THEN RING_TRAVERSAL_TIME(ttl)
    ELSE count * NET_TRAVERSAL_TIME

\* The tries are never counted.
InsertInRREQSentTable_Uncounted(sent, ip, ttl, timeout) ==
    [d \in DOMAIN sent \cup {ip} |->
        IF d = ip THEN [ttl |-> ttl, timeout |-> timeout, times |-> 1]
        ELSE sent[d]]

\* fn_NetSim_AODV_InterstInRREQSentTable: the tries are counted only at the
\* full diameter.
InsertInRREQSentTable(sent, ip, ttl, timeout) ==
    LET times == IF ip \in DOMAIN sent THEN sent[ip].times ELSE 1
        entry == [ttl |-> ttl, timeout |-> timeout,
                  times |-> IF ttl = NET_DIAMETER THEN times + 1 ELSE times]
    IN  [d \in DOMAIN sent \cup {ip} |-> IF d = ip THEN entry ELSE sent[d]]

\* fnDeleteRREQSentTable, and the loop of fn_NetSim_AODV_ProcessRREP.
DeleteRREQSentTable(sent, ip) == [d \in DOMAIN sent \ {ip} |-> sent[d]]
-----------------------------------------------------------------------------
(* RREQ seen table: pairs of an originator and a RREQ id.  Nothing is ever *)
(* removed from it.                                                        *)

\* The counter is read before it is incremented.
InsertInRREQSeenTable_Early(seen, orig, id) == seen \cup {<<orig, id - 1>>}

\* fn_NetSim_AODV_InsertInRREQSeenTable
InsertInRREQSeenTable(seen, orig, id) == seen \cup {<<orig, id>>}

\* fnCheckRREQSeenTable
CheckRREQSeenTable(seen, orig, id) == <<orig, id>> \in seen

\* The event is later than the time kept in the sent table.
AddTimeOut_Late(timers, dest, at) ==
    timers \cup {[dest |-> dest, at |-> at + NODE_TRAVERSAL_TIME]}

\* fn_NetSim_AODV_AddTimeOut: a RREQ_TIMEOUT event for dest.
AddTimeOut(timers, dest, at) == timers \cup {[dest |-> dest, at |-> at]}
=============================================================================
