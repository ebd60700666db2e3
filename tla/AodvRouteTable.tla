--------------------------- MODULE AodvRouteTable ---------------------------
(***************************************************************************)
(* Route maintenance in one device: the part of AODV_DEVICE_VAR that the   *)
(* route lifetimes depend on, under messages with any contents.  An action *)
(* is what one event handler does to this state; what the handler sends is *)
(* in AodvNetwork.                                                         *)
(***************************************************************************)
EXTENDS AodvTables

CONSTANTS
    Dest,          \* the destinations messages are about
    SeqNumber,     \* the sequence numbers a message may carry
    HopNumber,     \* the hop counts a message may carry
    RrepLifetime,  \* the lifetimes a RREP may carry
    MaxTime        \* the end of the simulated time

ASSUME MessageAssumption ==
    /\ Dest \subseteq Node
    /\ SeqNumber \subseteq Nat
    /\ HopNumber \subseteq Nat
    /\ RrepLifetime \subseteq Nat
    /\ MaxTime \in Nat

VARIABLES
    now,            \* pstruEventDetails->dEventTime
    routeTable,     \* destination -> RouteEntry
    routeTimers,    \* the pending ACTIVE_ROUTE_TIMEOUT events
    precursors,     \* the IPs in precursorsList
    precAllocated,  \* precursorsList # NULL
    ncounter,       \* the congestion counter
    nRerrCount,     \* packet drops since the last RERR
    handedTo        \* next hops the MAC layer got data packets for

vars == <<now, routeTable, routeTimers, precursors, precAllocated, ncounter,
          nRerrCount, handedTo>>

\* The types of the state; the drop count stays within its limit.
TypeOK ==
    /\ now \in Nat
    /\ IsRouteTable(routeTable)
    /\ routeTimers \subseteq RouteTimer
    /\ precursors \subseteq Node
    /\ precAllocated \in BOOLEAN
    /\ ncounter \in 0..(COUNTER_MOD - 1)
    /\ nRerrCount \in 0..(RERR_LIMIT + 1)
    /\ handedTo \subseteq Node

\* fn_NetSim_AODV_Configure_F callocs the device variable.
Init ==
    /\ now = 0
    /\ routeTable = [d \in {} |-> 0]
    /\ routeTimers = {}
    /\ precursors = {}
    /\ precAllocated = FALSE
    /\ ncounter = 0
    /\ nRerrCount = 0
    /\ handedTo = {}

-----------------------------------------------------------------------------
\* The list is not allocated.
InsertInPrecursorsList_Null(ip) ==
    /\ precursors' = precursors \cup {ip}
    /\ UNCHANGED precAllocated

\* fn_NetSim_AODV_InsertInPrecursorsList
InsertInPrecursorsList(ip) ==
    /\ precursors' = precursors \cup {ip}
    /\ precAllocated' = TRUE

\* The hops make the lifetime longer.
ProcessRREQ_Longer(orig, oseq, hop, last) ==
    /\ InsertInPrecursorsList(last)
    /\ routeTable' = InsertInRouteTable(routeTable, orig, oseq, hop, last,
                        now + 2 * NET_TRAVERSAL_TIME
                            + 2 * hop * NODE_TRAVERSAL_TIME, now)
    /\ routeTimers' = AddRouteTimer(routeTimers, routeTable, orig, now)
    /\ UNCHANGED <<now, ncounter, nRerrCount, handedTo>>

\* fn_NetSim_AODV_ProcessRREQ, for a RREQ not seen before: the sender becomes
\* a precursor and the originator gets a reverse route.
ProcessRREQ(orig, oseq, hop, last) ==
    /\ InsertInPrecursorsList(last)
    /\ routeTable' = InsertInRouteTable(routeTable, orig, oseq, hop, last,
                        now + 2 * NET_TRAVERSAL_TIME
                            - 2 * hop * NODE_TRAVERSAL_TIME, now)
    /\ routeTimers' = AddRouteTimer(routeTimers, routeTable, orig, now)
    /\ UNCHANGED <<now, ncounter, nRerrCount, handedTo>>

\* fn_NetSim_AODV_ProcessRREP, for a RREP about another device.  The Lifetime
\* of the message, a duration, is taken for an instant.  A device puts at most
\* DELETE_PERIOD in it, or for a hello an instant within HELLO loss from now.
ProcessRREP(dest, dseq, hop, last, life, congestionflag) ==
    /\ life <= now + DELETE_PERIOD
    /\ ncounter' = IF congestionflag THEN CounterPlus(ncounter) ELSE ncounter
    /\ InsertInPrecursorsList(last)
    /\ routeTable' =
          UpdateRouteTable(
              InsertInRouteTable(routeTable, dest, dseq, hop, last,
                                 now + ACTIVE_ROUTE_TIMEOUT, now),
              last, life)
    /\ routeTimers' = AddRouteTimer(routeTimers, routeTable, dest, now)
    /\ UNCHANGED <<now, nRerrCount, handedTo>>

\* fn_NetSim_AODV_GeneralPacketProcessing with a route: the packet goes to
\* the MAC layer with a drop notification.
RouteDataOut(dest) ==
    /\ CheckRouteFound(routeTable, dest, now)
    /\ routeTable' = UpdateRouteTable(routeTable, dest,
                                      now + ACTIVE_ROUTE_TIMEOUT)
    /\ handedTo' = handedTo \cup {routeTable[dest].next}
    /\ UNCHANGED <<now, routeTimers, precursors, precAllocated, ncounter,
                   nRerrCount>>

\* The default branch of NETWORK_IN in fn_NetSim_AODV_Run, at the destination.
DataIn(src) ==
    /\ routeTable' = UpdateRouteTable(routeTable, src,
                                      now + ACTIVE_ROUTE_TIMEOUT)
    /\ UNCHANGED <<now, routeTimers, precursors, precAllocated, ncounter,
                   nRerrCount, handedTo>>

\* The same, at a device on the way.
DataTransit(src, dest) ==
    /\ routeTable' = UpdateRouteTable(
                         UpdateRouteTable(routeTable, dest,
                                          now + ACTIVE_ROUTE_TIMEOUT),
                         src, now + ACTIVE_ROUTE_TIMEOUT)
    /\ UNCHANGED <<now, routeTimers, precursors, precAllocated, ncounter,
                   nRerrCount, handedTo>>

\* fn_NetSim_AODV_GenerateRERR; it reads precursorsList->count without a test.
GenerateRERR(unreachable) ==
    /\ ncounter' = CounterMinus(ncounter)
    /\ routeTable' = InvalidateRoutes(routeTable,
                         RoutesThrough(routeTable, unreachable), now)
    /\ precursors' = precursors \ {unreachable}

\* The count is not reset by a RERR.
PacketDropNotification_Endless(nextHop) ==
    /\ nextHop \in handedTo
    /\ IF nRerrCount > RERR_LIMIT THEN GenerateRERR(nextHop)
       ELSE UNCHANGED <<ncounter, routeTable, precursors>>
    /\ nRerrCount' = nRerrCount + 1
    /\ UNCHANGED <<now, routeTimers, precAllocated, handedTo>>

\* fn_NetSim_AODV_PacketDropNotification, called by the MAC layer when the
\* last retry of a data packet has failed: every RERR_LIMIT-th drop or so.
PacketDropNotification(nextHop) ==
    /\ nextHop \in handedTo
    /\ IF nRerrCount > RERR_LIMIT
       THEN GenerateRERR(nextHop) /\ nRerrCount' = 2
       ELSE /\ nRerrCount' = nRerrCount + 1
            /\ UNCHANGED <<ncounter, routeTable, precursors>>
    /\ UNCHANGED <<now, routeTimers, precAllocated, handedTo>>

\* fn_NetSim_AODV_ProcessRERR, from the neighbour src.
ProcessRERR(src, dests) ==
    /\ routeTable' = InvalidateRoutes(routeTable,
                         dests \cap RoutesThrough(routeTable, src), now)
    /\ UNCHANGED <<now, routeTimers, precursors, precAllocated, ncounter,
                   nRerrCount, handedTo>>

\* The check is not repeated when the route lives on.
ActiveRouteTimeout_Once(timer) ==
    LET dest == timer.dest
        expired == /\ dest \in DOMAIN routeTable
                   /\ routeTable[dest].life <= now
    IN  /\ timer.at = now
        /\ routeTimers' = routeTimers \ {timer}
        /\ routeTable' = IF expired THEN RemoveRoute(routeTable, dest)
                                    ELSE routeTable
        /\ ncounter' = IF expired THEN CounterMinus(ncounter) ELSE ncounter
        /\ UNCHANGED <<now, precursors, precAllocated, nRerrCount, handedTo>>

\* fn_NetSim_AODV_ActiveRouteTimeout: delete the entry, or look again at its
\* new deadline.
ActiveRouteTimeout(timer) ==
    LET dest == timer.dest
        found == dest \in DOMAIN routeTable
        expired == found /\ routeTable[dest].life <= now
        again == IF found /\ ~expired
                 THEN {[dest |-> dest, at |-> routeTable[dest].life]} ELSE {}
    IN  /\ timer.at = now
        /\ routeTimers' = (routeTimers \ {timer}) \cup again
        /\ routeTable' = IF expired THEN RemoveRoute(routeTable, dest)
                                    ELSE routeTable
        /\ ncounter' = IF expired THEN CounterMinus(ncounter) ELSE ncounter
        /\ UNCHANGED <<now, precursors, precAllocated, nRerrCount, handedTo>>

\* The kernel runs the events in the order of their times.
Advance(t) ==
    /\ t > now
    /\ \A timer \in routeTimers : t <= timer.at
    /\ now' = t
    /\ UNCHANGED <<routeTable, routeTimers, precursors, precAllocated,
                   ncounter, nRerrCount, handedTo>>

Next ==
    \/ \E orig \in Dest, last \in Node, s \in SeqNumber, h \in HopNumber :
          ProcessRREQ(orig, s, h, last)
    \/ \E dest \in Dest, last \in Node, s \in SeqNumber, h \in HopNumber,
          life \in RrepLifetime, flag \in BOOLEAN :
          ProcessRREP(dest, s, h, last, life, flag)
    \/ \E dest \in Dest : RouteDataOut(dest)
    \/ \E src \in Node : DataIn(src)
    \/ \E src, dest \in Node : DataTransit(src, dest)
    \/ \E nextHop \in Node : PacketDropNotification(nextHop)
    \/ \E src \in Node, dests \in SUBSET Dest : ProcessRERR(src, dests)
    \/ \E timer \in routeTimers : ActiveRouteTimeout(timer)
    \/ \E t \in 0..MaxTime : Advance(t)

Spec == Init /\ [][Next]_vars

-----------------------------------------------------------------------------
(* What makes the component correct.                                       *)

\* Every route has exactly one pending expiry check, no later than its
\* deadline and not in the past, and no check outlives its route: entries are
\* neither leaked (InsertInRouteTable schedules only for new ones) nor checked
\* twice (ActiveRouteTimeout re-schedules itself).
TimersCoverRoutes ==
    /\ \A d \in DOMAIN routeTable :
          \E timer \in routeTimers :
             timer.dest = d /\ timer.at <= routeTable[d].life
    /\ \A timer \in routeTimers :
          timer.dest \in DOMAIN routeTable /\ now <= timer.at
    /\ \A t1, t2 \in routeTimers : t1.dest = t2.dest => t1 = t2

\* No lifetime reaches further than DELETE_PERIOD, so that the lifetime
\* GenerateRERR and ProcessRERR assign to a broken route never falls before
\* the pending check of that route.
LifetimesBounded ==
    \A d \in DOMAIN routeTable : routeTable[d].life <= now + DELETE_PERIOD

\* The flag that lets any update through stands for "number unknown": it is
\* raised exactly when the stored sequence number is not 0.
SequenceFlagExact ==
    \A d \in DOMAIN routeTable :
       routeTable[d].vseq <=> routeTable[d].seq # 0

\* The list GenerateRERR dereferences exists whenever a route does, and
\* whenever a drop notification can still arrive for a route that is gone.
PrecursorsReady ==
    DOMAIN routeTable # {} \/ handedTo # {} => precAllocated

\* A route past its deadline is never in the table: the lookup by
\* CheckRouteFound fails only at the very instant of the deadline.
NoStaleRoute == \A d \in DOMAIN routeTable : now <= routeTable[d].life

\* Entry new may stand where entry old stood.
Fresher(old, new) ==
    \/ <<new.seq, new.hop>> = <<old.seq, old.hop>>
    \/ new.seq > old.seq
    \/ /\ new.seq = old.seq
       /\ new.hop + 1 < old.hop \/ ~old.valid \/ old.seq = 0

\* A usable entry is only overwritten with fresher information: a larger
\* sequence number, or a path shorter by two hops or more of the same number.
FresherOnly ==
    [][\A d \in DOMAIN routeTable \cap DOMAIN routeTable' :
          Fresher(routeTable[d], routeTable'[d])]_vars

\* The table as the cache of RouteCache: flags, hop counts and timers hidden.
CacheView == [d \in DOMAIN routeTable |->
                 [seq |-> routeTable[d].seq, next |-> routeTable[d].next,
                  life |-> routeTable[d].life]]

RC == INSTANCE RouteCache WITH cache <- CacheView

\* The event-driven table is a soft-state cache: it never forgets a route
\* early, never keeps one too long, never shortens a deadline (a route error
\* included), never takes a sequence number back.
ImplementsCache == RC!Spec
=============================================================================
