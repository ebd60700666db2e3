------------------------ MODULE AodvRouteTableProofs ------------------------
(***************************************************************************)
(* Proofs about AodvRouteTable, for every number of devices and every      *)
(* value of the timeouts that satisfies TimeAssumption.                    *)
(***************************************************************************)
EXTENDS AodvRouteTable, AodvTablesProofs

\* The inductive invariant.
RouteInv ==
    /\ TypeOK
    /\ TimersCoverRoutes
    /\ LifetimesBounded
    /\ SequenceFlagExact
    /\ PrecursorsReady

-----------------------------------------------------------------------------
(* The steps.  An event handler other than the expiry check "learns": it   *)
(* extends the table and leaves it covered.  The expiry check and the      *)
(* clock are the other two kinds of step.                                  *)

\* The types of the variables beside the table and its timers.
Rest ==
    /\ precursors \subseteq Node
    /\ precAllocated \in BOOLEAN
    /\ ncounter \in 0..(COUNTER_MOD - 1)
    /\ nRerrCount \in 0..(RERR_LIMIT + 1)
    /\ handedTo \subseteq Node

Learns ==
    /\ now' = now
    /\ Good(routeTable', now)
    /\ Grows(routeTable, routeTable', now)
    /\ routeTimers' \subseteq RouteTimer
    /\ Covered(routeTable', routeTimers', now)

\* RouteInv, with the conjuncts about the table as predicates of the table.
LEMMA InvParts ==
    RouteInv <=> /\ now \in Nat
                 /\ Good(routeTable, now)
                 /\ routeTimers \subseteq RouteTimer
                 /\ Covered(routeTable, routeTimers, now)
                 /\ Rest
                 /\ PrecursorsReady
  BY DEF RouteInv, TypeOK, TimersCoverRoutes, LifetimesBounded,
         SequenceFlagExact, Good, Covered, Rest

\* fn_NetSim_AODV_ProcessRREQ learns.
LEMMA StepRREQ ==
    ASSUME RouteInv, NEW orig \in Dest, NEW last \in Node,
           NEW s \in SeqNumber, NEW h \in HopNumber,
           ProcessRREQ(orig, s, h, last)
    PROVE  Learns /\ Rest' /\ PrecursorsReady'
<1> USE InvParts
<1> DEFINE lt == now + 2 * NET_TRAVERSAL_TIME - 2 * h * NODE_TRAVERSAL_TIME
           r == InsertInRouteTable(routeTable, orig, s, h, last, lt, now)
<1>1. orig \in Node /\ s \in Nat /\ h \in Nat /\ now \in Nat
  BY MessageAssumption
<1>2. lt \in Int /\ lt <= now + DELETE_PERIOD
  BY <1>1, ReverseLifetime
<1>4. /\ routeTable' = r
      /\ r = InsertInRouteTable(routeTable, orig, s, h, last, lt, now)
  BY DEF ProcessRREQ
<1> HIDE DEF lt, r
<1>3. Good(r, now) /\ Grows(routeTable, r, now) /\ Adds(routeTable, r, orig)
  <2>1. Good(routeTable, now) /\ RouteArgs(orig, s, h, last, lt, now)
    BY <1>1, <1>2 DEF RouteArgs
  <2> QED
    BY <1>4, <2>1, InsertGood
<1>5. routeTimers' \subseteq RouteTimer /\ Covered(r, routeTimers', now)
  BY <1>1, <1>3, CoveredInsert DEF ProcessRREQ
<1>6. Learns
  BY <1>3, <1>4, <1>5 DEF Learns, ProcessRREQ
<1>7. Rest' /\ PrecursorsReady'
  BY DEF ProcessRREQ, InsertInPrecursorsList, Rest, PrecursorsReady
<1> QED
  BY <1>6, <1>7

\* fn_NetSim_AODV_ProcessRREP learns: an insertion, then an update.
LEMMA StepRREP ==
    ASSUME RouteInv, NEW dest \in Dest, NEW last \in Node,
           NEW s \in SeqNumber, NEW h \in HopNumber,
           NEW life \in RrepLifetime, NEW flag \in BOOLEAN,
           ProcessRREP(dest, s, h, last, life, flag)
    PROVE  Learns /\ Rest' /\ PrecursorsReady'
<1> USE InvParts
<1> DEFINE lt == now + ACTIVE_ROUTE_TIMEOUT
           r1 == InsertInRouteTable(routeTable, dest, s, h, last, lt, now)
           r2 == UpdateRouteTable(r1, last, life)
<1>1. /\ dest \in Node /\ s \in Nat /\ h \in Nat /\ now \in Nat
      /\ life \in Nat /\ life <= now + DELETE_PERIOD
  BY MessageAssumption DEF ProcessRREP
<1>2. lt \in Int /\ lt <= now + DELETE_PERIOD
  BY <1>1, Timeouts
<1>3. /\ routeTable' = r2
      /\ r1 = InsertInRouteTable(routeTable, dest, s, h, last, lt, now)
  BY DEF ProcessRREP
<1> HIDE DEF lt, r1
<1>4. Good(r1, now) /\ Grows(routeTable, r1, now) /\ Adds(routeTable, r1, dest)
  <2>1. Good(routeTable, now) /\ RouteArgs(dest, s, h, last, lt, now)
    BY <1>1, <1>2 DEF RouteArgs
  <2> QED
    BY <1>3, <2>1, InsertGood
<1>5. Good(r2, now) /\ Grows(r1, r2, now) /\ DOMAIN r2 = DOMAIN r1
  BY <1>1, <1>4, UpdateGood
<1> HIDE DEF r2
<1>6. Grows(routeTable, r2, now)
  BY <1>1, <1>4, <1>5, GrowsTransitive
<1>7. routeTimers' \subseteq RouteTimer /\ Covered(r2, routeTimers', now)
  <2>1. Adds(routeTable, r2, dest)
    BY <1>4, <1>5 DEF Adds
  <2> QED
    BY <1>1, <1>5, <1>6, <2>1, CoveredInsert DEF ProcessRREP
<1>8. Learns
  BY <1>3, <1>5, <1>6, <1>7 DEF Learns, ProcessRREP
<1>9. ncounter' \in 0..(COUNTER_MOD - 1)
  <2>1. CASE flag
    BY <2>1, CounterType DEF ProcessRREP, Rest
  <2>2. CASE ~flag
    BY <2>2 DEF ProcessRREP, Rest
  <2> QED
    BY <2>1, <2>2
<1>10. Rest' /\ PrecursorsReady'
  BY <1>9 DEF ProcessRREP, InsertInPrecursorsList, Rest, PrecursorsReady
<1> QED
  BY <1>8, <1>10

\* A step that only refreshes or breaks routes learns.
LEMMA StepPointwise ==
    ASSUME RouteInv, now' = now, routeTimers' = routeTimers,
           Good(routeTable', now), Grows(routeTable, routeTable', now),
           DOMAIN routeTable' = DOMAIN routeTable
    PROVE  Learns
  BY InvParts, CoveredKept DEF Learns

\* The lifetime an active route is given.
LEMMA ActiveLifetime ==
    ASSUME RouteInv
    PROVE  /\ now + ACTIVE_ROUTE_TIMEOUT \in Nat
           /\ now + ACTIVE_ROUTE_TIMEOUT <= now + DELETE_PERIOD
  BY InvParts, Timeouts

\* Routing a data packet learns; the route it uses shows that the precursor
\* list exists.
LEMMA StepDataOut ==
    ASSUME RouteInv, NEW dest \in Dest, RouteDataOut(dest)
    PROVE  Learns /\ Rest' /\ PrecursorsReady'
<1> USE InvParts
<1>1. /\ dest \in Node /\ now \in Nat
      /\ dest \in DOMAIN routeTable /\ routeTable[dest].next \in Node
  BY MessageAssumption
     DEF RouteDataOut, CheckRouteFound, Good, IsRouteTable, RouteEntry
<1>2. /\ Good(routeTable', now) /\ Grows(routeTable, routeTable', now)
      /\ DOMAIN routeTable' = DOMAIN routeTable
  BY <1>1, ActiveLifetime, UpdateGood DEF RouteDataOut
<1>3. Learns
  BY <1>2, StepPointwise DEF RouteDataOut
<1>4. Rest' /\ PrecursorsReady'
  BY <1>1 DEF RouteDataOut, Rest, PrecursorsReady
<1> QED
  BY <1>3, <1>4

\* Receiving a data packet learns.
LEMMA StepDataIn ==
    ASSUME RouteInv, NEW src \in Node, DataIn(src)
    PROVE  Learns /\ Rest' /\ PrecursorsReady'
<1> USE InvParts
<1>1. /\ Good(routeTable', now) /\ Grows(routeTable, routeTable', now)
      /\ DOMAIN routeTable' = DOMAIN routeTable
  BY ActiveLifetime, UpdateGood DEF DataIn
<1>2. Learns
  BY <1>1, StepPointwise DEF DataIn
<1>3. Rest' /\ PrecursorsReady'
  BY <1>1 DEF DataIn, Rest, PrecursorsReady
<1> QED
  BY <1>2, <1>3

\* Passing a data packet on learns: two updates.
LEMMA StepDataTransit ==
    ASSUME RouteInv, NEW src \in Node, NEW dest \in Node,
           DataTransit(src, dest)
    PROVE  Learns /\ Rest' /\ PrecursorsReady'
<1> USE InvParts
<1> DEFINE r == UpdateRouteTable(routeTable, dest, now + ACTIVE_ROUTE_TIMEOUT)
<1>1. Good(r, now) /\ Grows(routeTable, r, now) /\ DOMAIN r = DOMAIN routeTable
  BY ActiveLifetime, UpdateGood
<1>2. routeTable' = UpdateRouteTable(r, src, now + ACTIVE_ROUTE_TIMEOUT)
  BY DEF DataTransit
<1> HIDE DEF r
<1>3. /\ Good(routeTable', now) /\ Grows(r, routeTable', now)
      /\ DOMAIN routeTable' = DOMAIN r
  BY <1>1, <1>2, ActiveLifetime, UpdateGood
<1>4. Grows(routeTable, routeTable', now)
  BY <1>1, <1>3, GrowsTransitive
<1>5. Learns
  BY <1>1, <1>3, <1>4, StepPointwise DEF DataTransit
<1>6. Rest' /\ PrecursorsReady'
  BY <1>1, <1>3 DEF DataTransit, Rest, PrecursorsReady
<1> QED
  BY <1>5, <1>6

\* A drop notification learns, whether or not it generates a RERR.
LEMMA StepDrop ==
    ASSUME RouteInv, NEW nextHop \in Node, PacketDropNotification(nextHop)
    PROVE  Learns /\ Rest' /\ PrecursorsReady'
<1> USE InvParts
<1>1. CASE nRerrCount > RERR_LIMIT
  <2>1. GenerateRERR(nextHop) /\ nRerrCount' = 2
    BY <1>1 DEF PacketDropNotification
  <2>2. /\ Good(routeTable', now) /\ Grows(routeTable, routeTable', now)
        /\ DOMAIN routeTable' = DOMAIN routeTable
    BY <2>1, InvalidateGood DEF GenerateRERR
  <2>3. Learns
    BY <2>2, StepPointwise DEF PacketDropNotification
  <2>4. ncounter' \in 0..(COUNTER_MOD - 1)
    BY <2>1, CounterType DEF GenerateRERR, Rest
  <2>5. nRerrCount' \in 0..(RERR_LIMIT + 1)
    BY <2>1, CounterAssumption
  <2>6. Rest' /\ PrecursorsReady'
    BY <2>1, <2>2, <2>4, <2>5
       DEF PacketDropNotification, GenerateRERR, Rest, PrecursorsReady
  <2> QED
    BY <2>3, <2>6
<1>2. CASE ~(nRerrCount > RERR_LIMIT)
  <2>1. /\ nRerrCount' = nRerrCount + 1
        /\ UNCHANGED <<ncounter, routeTable, precursors>>
    BY <1>2 DEF PacketDropNotification
  <2>2. Learns
    <3>1. Grows(routeTable, routeTable, now)
      BY DEF Grows, Good, IsRouteTable, RouteEntry
    <3> QED
      BY <2>1, <3>1, StepPointwise DEF PacketDropNotification
  <2>3. nRerrCount' \in 0..(RERR_LIMIT + 1)
    BY <1>2, <2>1, CounterAssumption DEF Rest
  <2>4. Rest' /\ PrecursorsReady'
    BY <2>1, <2>3 DEF PacketDropNotification, Rest, PrecursorsReady
  <2> QED
    BY <2>2, <2>4
<1> QED
  BY <1>1, <1>2

\* A received RERR learns: it keeps the broken routes for DELETE_PERIOD.
LEMMA StepRERR ==
    ASSUME RouteInv, NEW src \in Node, NEW dests \in SUBSET Dest,
           ProcessRERR(src, dests)
    PROVE  Learns /\ Rest' /\ PrecursorsReady'
<1> USE InvParts
<1>1. /\ Good(routeTable', now) /\ Grows(routeTable, routeTable', now)
      /\ DOMAIN routeTable' = DOMAIN routeTable
  BY InvalidateGood DEF ProcessRERR
<1>2. Learns
  BY <1>1, StepPointwise DEF ProcessRERR
<1>3. Rest' /\ PrecursorsReady'
  BY <1>1 DEF ProcessRERR, Rest, PrecursorsReady
<1> QED
  BY <1>2, <1>3

\* The expiry check of an entry either forgets it exactly at its deadline or
\* moves the check there.
LEMMA StepTimeout ==
    ASSUME RouteInv, NEW timer \in routeTimers, ActiveRouteTimeout(timer)
    PROVE  /\ RouteInv'
           /\ now' = now
           /\ \/ routeTable' = routeTable
              \/ \E d \in DOMAIN routeTable :
                    /\ routeTable[d].life = now
                    /\ routeTable' = RemoveRoute(routeTable, d)
<1> USE InvParts
<1> DEFINE dest == timer.dest
           r == RemoveRoute(routeTable, dest)
           again == [dest |-> dest, at |-> routeTable[dest].life]
           rest == routeTimers \ {timer}
<1>1. timer.at = now /\ now' = now
  BY DEF ActiveRouteTimeout
<1>2. /\ dest \in DOMAIN routeTable /\ now \in Nat
      /\ routeTable[dest].life \in Nat /\ now <= routeTable[dest].life
      /\ Good(r, now) /\ Covered(r, rest, now)
      /\ rest \cup {again} \subseteq RouteTimer
      /\ Covered(routeTable, rest \cup {again}, now)
  BY <1>1, TimeoutGood
<1>3. UNCHANGED <<precursors, precAllocated, nRerrCount, handedTo>>
  BY DEF ActiveRouteTimeout
<1>4. CASE routeTable[dest].life <= now
  <2>1. /\ routeTimers' = rest /\ routeTable' = r
        /\ ncounter' = CounterMinus(ncounter)
    BY <1>2, <1>4 DEF ActiveRouteTimeout
  <2>2. ncounter' \in 0..(COUNTER_MOD - 1)
    BY <2>1, CounterType DEF Rest
  <2>3. Rest' /\ PrecursorsReady'
    BY <1>2, <1>3, <2>1, <2>2 DEF Rest, PrecursorsReady, RemoveRoute
  <2>4. RouteInv'
    BY <1>1, <1>2, <2>1, <2>3 DEF RouteInv, TypeOK, TimersCoverRoutes,
       LifetimesBounded, SequenceFlagExact, Good, Covered, Rest
  <2>5. routeTable[dest].life = now
    BY <1>2, <1>4
  <2> QED
    BY <1>1, <1>2, <2>1, <2>4, <2>5
<1>5. CASE ~(routeTable[dest].life <= now)
  <2>1. /\ routeTimers' = rest \cup {again} /\ routeTable' = routeTable
        /\ ncounter' = ncounter
    BY <1>2, <1>5 DEF ActiveRouteTimeout
  <2>2. Rest' /\ PrecursorsReady'
    BY <1>3, <2>1 DEF Rest, PrecursorsReady
  <2> HIDE DEF rest, again
  <2>3. RouteInv'
    BY <1>1, <1>2, <2>1, <2>2 DEF RouteInv, TypeOK, TimersCoverRoutes,
       LifetimesBounded, SequenceFlagExact, Good, Covered, Rest
  <2> QED
    BY <1>1, <2>1, <2>3
<1> QED
  BY <1>4, <1>5

\* The clock never passes a pending check, so it passes no deadline.
LEMMA StepAdvance ==
    ASSUME RouteInv, NEW t \in 0..MaxTime, Advance(t)
    PROVE  /\ RouteInv'
           /\ now' \in Nat /\ now' > now
           /\ routeTable' = routeTable
           /\ \A d \in DOMAIN routeTable : now' <= routeTable[d].life
<1> USE InvParts
<1>1. /\ now \in Nat /\ now' \in Nat /\ now' > now
      /\ UNCHANGED <<routeTable, routeTimers>>
      /\ \A timer \in routeTimers : now' <= timer.at
  BY MessageAssumption DEF Advance
<1>2. /\ Good(routeTable, now') /\ Covered(routeTable, routeTimers, now')
      /\ \A d \in DOMAIN routeTable : now' <= routeTable[d].life
  BY <1>1, ClockGood
<1>5. Rest' /\ PrecursorsReady'
  BY <1>1 DEF Advance, Rest, PrecursorsReady
<1>6. RouteInv'
  BY <1>1, <1>2, <1>5 DEF RouteInv, TypeOK, TimersCoverRoutes,
     LifetimesBounded, SequenceFlagExact, Good, Covered, Rest
<1> QED
  BY <1>1, <1>2, <1>6

\* A step that learns keeps the invariant.
LEMMA LearnsInv ==
    ASSUME RouteInv, Learns, Rest', PrecursorsReady'
    PROVE  RouteInv'
  BY InvParts DEF Learns, RouteInv, TypeOK, TimersCoverRoutes,
     LifetimesBounded, SequenceFlagExact, Good, Covered, Rest

\* Every step is of one of the three kinds.
LEMMA NextKinds ==
    ASSUME RouteInv, Next
    PROVE  \/ Learns /\ Rest' /\ PrecursorsReady'
           \/ \E timer \in routeTimers : ActiveRouteTimeout(timer)
           \/ \E t \in 0..MaxTime : Advance(t)
<1>1. CASE \E orig \in Dest, last \in Node, s \in SeqNumber, h \in HopNumber :
             ProcessRREQ(orig, s, h, last)
  BY <1>1, StepRREQ
<1>2. CASE \E dest \in Dest, last \in Node, s \in SeqNumber, h \in HopNumber,
              life \in RrepLifetime, flag \in BOOLEAN :
             ProcessRREP(dest, s, h, last, life, flag)
  BY <1>2, StepRREP
<1>3. CASE \E dest \in Dest : RouteDataOut(dest)
  BY <1>3, StepDataOut
<1>4. CASE \E src \in Node : DataIn(src)
  BY <1>4, StepDataIn
<1>5. CASE \E src, dest \in Node : DataTransit(src, dest)
  BY <1>5, StepDataTransit
<1>6. CASE \E nextHop \in Node : PacketDropNotification(nextHop)
  BY <1>6, StepDrop
<1>7. CASE \E src \in Node, dests \in SUBSET Dest : ProcessRERR(src, dests)
  BY <1>7, StepRERR
<1> QED
  BY <1>1, <1>2, <1>3, <1>4, <1>5, <1>6, <1>7 DEF Next

-----------------------------------------------------------------------------
(* The theorems.                                                           *)

\* The zeroed device variable of Configure_F satisfies the invariant.
LEMMA InitInv == Init => RouteInv
<1> SUFFICES ASSUME Init PROVE RouteInv
  OBVIOUS
<1>1. DOMAIN routeTable = {} /\ routeTimers = {} /\ handedTo = {}
  BY DEF Init
<1>2. IsRouteTable(routeTable)
  BY <1>1 DEF Init, IsRouteTable
<1>3. TypeOK
  <2>1. precAllocated \in BOOLEAN
    BY Zenon DEF Init
  <2>2. /\ now \in Nat /\ ncounter \in 0..(COUNTER_MOD - 1)
        /\ nRerrCount \in 0..(RERR_LIMIT + 1)
    BY CounterAssumption DEF Init
  <2> QED
    BY <1>2, <2>1, <2>2 DEF Init, TypeOK
<1> QED
  BY <1>1, <1>3 DEF RouteInv, TimersCoverRoutes, LifetimesBounded,
     SequenceFlagExact, PrecursorsReady

\* Every step of every handler keeps it.
LEMMA NextInv == RouteInv /\ [Next]_vars => RouteInv'
<1> SUFFICES ASSUME RouteInv, [Next]_vars PROVE RouteInv'
  OBVIOUS
<1>1. CASE Next
  <2>1. CASE Learns /\ Rest' /\ PrecursorsReady'
    BY <2>1, LearnsInv
  <2>2. CASE \E timer \in routeTimers : ActiveRouteTimeout(timer)
    BY <2>2, StepTimeout
  <2>3. CASE \E t \in 0..MaxTime : Advance(t)
    BY <2>3, StepAdvance
  <2> QED
    BY <1>1, <2>1, <2>2, <2>3, NextKinds
<1>2. CASE UNCHANGED vars
  BY <1>2 DEF vars, RouteInv, TypeOK, TimersCoverRoutes, LifetimesBounded,
     SequenceFlagExact, PrecursorsReady
<1> QED
  BY <1>1, <1>2

\* The inductive invariant of the route table holds throughout.
THEOREM RouteInvariant == Spec => []RouteInv
  BY InitInv, NextInv, PTL DEF Spec

\* The variables of the component keep their types.
THEOREM TypeCorrect == Spec => []TypeOK
<1>1. RouteInv => TypeOK
  BY DEF RouteInv
<1> QED
  BY <1>1, RouteInvariant, PTL

\* Each entry of the table has exactly one pending expiry check, in time.
THEOREM TimersSafe == Spec => []TimersCoverRoutes
<1>1. RouteInv => TimersCoverRoutes
  BY DEF RouteInv
<1> QED
  BY <1>1, RouteInvariant, PTL

\* A route past its deadline is never in the table.
THEOREM NeverStale == Spec => []NoStaleRoute
<1>1. RouteInv => NoStaleRoute
  <2> SUFFICES ASSUME RouteInv, NEW d \in DOMAIN routeTable
               PROVE  now <= routeTable[d].life
    BY DEF NoStaleRoute
  <2>1. PICK timer \in routeTimers :
          timer.dest = d /\ timer.at <= routeTable[d].life /\ now <= timer.at
    BY InvParts DEF Covered
  <2>2. timer.at \in Nat /\ routeTable[d].life \in Nat /\ now \in Nat
    BY InvParts DEF Good, IsRouteTable, RouteEntry, RouteTimer
  <2> QED
    BY <2>1, <2>2
<1> QED
  BY <1>1, RouteInvariant, PTL

\* No lifetime is beyond the one that GenerateRERR and ProcessRERR assign.
THEOREM LifetimesSafe == Spec => []LifetimesBounded
<1>1. RouteInv => LifetimesBounded
  BY DEF RouteInv
<1> QED
  BY <1>1, RouteInvariant, PTL

\* The flag of InsertInRouteTable is raised for the numbers other than 0.
THEOREM FlagSafe == Spec => []SequenceFlagExact
<1>1. RouteInv => SequenceFlagExact
  BY DEF RouteInv
<1> QED
  BY <1>1, RouteInvariant, PTL

\* GenerateRERR never dereferences a missing precursor list.
THEOREM PrecursorsSafe == Spec => []PrecursorsReady
<1>1. RouteInv => PrecursorsReady
  BY DEF RouteInv
<1> QED
  BY <1>1, RouteInvariant, PTL

\* The table with its timers implements the abstract soft-state cache: the
\* handlers map to Learn, the expiry check to Forget or to no step, and the
\* event order of the kernel to Tick.
THEOREM CacheRefinement == Spec => ImplementsCache
<1>1. Init => RC!Init
  <2> SUFFICES ASSUME Init PROVE RC!Init
    OBVIOUS
  <2>1. DOMAIN CacheView = {} /\ CacheView = [d \in DOMAIN CacheView |-> CacheView[d]]
    BY DEF Init, CacheView
  <2>2. CacheView = [d \in {} |-> 0]
    BY <2>1
  <2> QED
    BY <2>2 DEF Init, RC!Init
<1>2. RouteInv /\ [Next]_vars => [RC!Next]_(RC!vars)
  <2> SUFFICES ASSUME RouteInv, [Next]_vars
               PROVE  RC!Next \/ UNCHANGED <<now, CacheView>>
    BY DEF RC!vars
  <2>0. /\ DOMAIN CacheView = DOMAIN routeTable
        /\ DOMAIN CacheView' = DOMAIN routeTable'
        /\ \A d \in DOMAIN routeTable :
              /\ CacheView[d].seq = routeTable[d].seq
              /\ CacheView[d].next = routeTable[d].next
              /\ CacheView[d].life = routeTable[d].life
        /\ \A d \in DOMAIN routeTable' :
              /\ CacheView'[d] = [seq |-> routeTable'[d].seq,
                                  next |-> routeTable'[d].next,
                                  life |-> routeTable'[d].life]
              /\ CacheView'[d].seq = routeTable'[d].seq
              /\ CacheView'[d].next = routeTable'[d].next
              /\ CacheView'[d].life = routeTable'[d].life
    BY DEF CacheView
  <2>1. CASE Learns
    <3>1. DOMAIN CacheView \subseteq DOMAIN CacheView'
      BY <2>0, <2>1 DEF Learns, Grows
    <3>2. DOMAIN CacheView' \subseteq Node
      BY <2>0, <2>1 DEF Learns, Good, IsRouteTable
    <3>3. CacheView' \in [DOMAIN CacheView' -> RC!CacheEntry]
      <4>1. ASSUME NEW d \in DOMAIN routeTable'
            PROVE  CacheView'[d] \in RC!CacheEntry
        <5>1. /\ routeTable'[d].seq \in Nat /\ routeTable'[d].next \in Node
              /\ routeTable'[d].life \in Nat
          BY <2>1 DEF Learns, Good, IsRouteTable, RouteEntry
        <5> QED
          BY <2>0, <5>1 DEF RC!CacheEntry
      <4>2. CacheView' = [d \in DOMAIN CacheView' |-> CacheView'[d]]
        BY DEF CacheView
      <4> QED
        BY <2>0, <4>1, <4>2
    <3>4. /\ \A d \in DOMAIN CacheView :
                /\ CacheView'[d].next = CacheView[d].next
                /\ CacheView'[d].seq >= CacheView[d].seq
                /\ CacheView'[d].life >= CacheView[d].life
          /\ \A d \in DOMAIN CacheView' \ DOMAIN CacheView :
                CacheView'[d].life >= now + ACTIVE_ROUTE_TIMEOUT
      BY <2>0, <2>1 DEF Learns, Grows
    <3>5. RC!Learn
      BY <2>1, <3>1, <3>2, <3>3, <3>4 DEF Learns, RC!Learn
    <3> QED
      BY <3>5 DEF RC!Next
  <2>2. CASE \E timer \in routeTimers : ActiveRouteTimeout(timer)
    <3>1. /\ now' = now
          /\ \/ routeTable' = routeTable
             \/ \E d \in DOMAIN routeTable :
                   /\ routeTable[d].life = now
                   /\ routeTable' = RemoveRoute(routeTable, d)
      BY <2>2, StepTimeout
    <3>2. CASE routeTable' = routeTable
      BY <3>1, <3>2 DEF CacheView
    <3>3. ASSUME NEW d \in DOMAIN routeTable, routeTable[d].life = now,
                 routeTable' = RemoveRoute(routeTable, d)
          PROVE  RC!Next
      <4>1. CacheView' = [e \in DOMAIN CacheView \ {d} |-> CacheView[e]]
        BY <3>3 DEF CacheView, RemoveRoute
      <4>2. RC!Forget(d)
        BY <2>0, <3>1, <3>3, <4>1 DEF RC!Forget
      <4> QED
        BY <2>0, <4>2 DEF RC!Next
    <3> QED
      BY <3>1, <3>2, <3>3
  <2>3. CASE \E t \in 0..MaxTime : Advance(t)
    <3>1. /\ now' \in Nat /\ now' > now /\ routeTable' = routeTable
          /\ \A d \in DOMAIN routeTable : now' <= routeTable[d].life
      BY <2>3, StepAdvance
    <3>2. CacheView' = CacheView
      BY <3>1 DEF CacheView
    <3>3. RC!Tick
      BY <2>0, <3>1, <3>2 DEF RC!Tick
    <3> QED
      BY <3>3 DEF RC!Next
  <2>4. CASE UNCHANGED vars
    BY <2>4 DEF vars, CacheView
  <2> QED
    BY <2>1, <2>2, <2>3, <2>4, NextKinds
<1> QED
  BY <1>1, <1>2, RouteInvariant, PTL DEF Spec, ImplementsCache, RC!Spec

-----------------------------------------------------------------------------
(* The order in which information replaces information.                    *)

\* InsertInRouteTable writes over an entry only with fresher information.
LEMMA InsertFresher ==
    ASSUME NEW rt, NEW t, NEW ip, NEW s, NEW h, NEW nh, NEW lt, Good(rt, t),
           RouteArgs(ip, s, h, nh, lt, t),
           NEW r, r = InsertInRouteTable(rt, ip, s, h, nh, lt, t),
           NEW d \in DOMAIN rt
    PROVE  Fresher(rt[d], r[d])
<1>1. CASE ~AcceptsRoute(rt, ip, s, h) \/ d # ip
  <2>1. r[d] = rt[d]
    BY <1>1 DEF InsertInRouteTable
  <2> QED
    BY <2>1 DEF Fresher
<1>2. CASE AcceptsRoute(rt, ip, s, h) /\ d = ip
  <2>1. r[d] = WriteEntry(rt[d], s, h, lt)
    BY <1>2 DEF InsertInRouteTable
  <2>2. r[d].seq = s /\ r[d].hop = h
    BY <2>1 DEF WriteEntry
  <2>3. rt[d].seq \in Nat /\ (rt[d].vseq <=> rt[d].seq # 0) /\ s \in Nat
    BY DEF Good, IsRouteTable, RouteEntry, RouteArgs
  <2>4. \/ rt[d].seq = 0
        \/ rt[d].seq < s
        \/ rt[d].seq = s /\ (h + 1 < rt[d].hop \/ ~rt[d].valid)
    BY <1>2, <2>3 DEF AcceptsRoute
  <2> QED
    BY <2>2, <2>3, <2>4 DEF Fresher
<1> QED
  BY <1>1, <1>2

\* A usable route gives way only to fresher or shorter ones, whatever the
\* messages say and in whatever order they come.
THEOREM FresherRoutes == Spec => FresherOnly
<1> DEFINE Step == \A d \in DOMAIN routeTable \cap DOMAIN routeTable' :
                      Fresher(routeTable[d], routeTable'[d])
<1>1. RouteInv /\ [Next]_vars => Step \/ UNCHANGED vars
  <2> SUFFICES ASSUME RouteInv, Next,
                      NEW d \in DOMAIN routeTable \cap DOMAIN routeTable'
               PROVE  Fresher(routeTable[d], routeTable'[d])
    OBVIOUS
  <2> USE InvParts
  <2>0. ASSUME routeTable'[d].seq = routeTable[d].seq,
               routeTable'[d].hop = routeTable[d].hop
        PROVE  Fresher(routeTable[d], routeTable'[d])
    BY <2>0 DEF Fresher
  <2>1. ASSUME NEW orig \in Dest, NEW last \in Node, NEW s \in SeqNumber,
               NEW h \in HopNumber, ProcessRREQ(orig, s, h, last)
        PROVE  Fresher(routeTable[d], routeTable'[d])
    <3> DEFINE lt == now + 2 * NET_TRAVERSAL_TIME - 2 * h * NODE_TRAVERSAL_TIME
    <3>1. routeTable' = InsertInRouteTable(routeTable, orig, s, h, last, lt, now)
      BY <2>1 DEF ProcessRREQ
    <3>2. now \in Nat /\ h \in Nat /\ s \in Nat /\ orig \in Node
      BY MessageAssumption
    <3>3. lt \in Int /\ lt <= now + DELETE_PERIOD
      BY <3>2, ReverseLifetime
    <3> HIDE DEF lt
    <3>4. RouteArgs(orig, s, h, last, lt, now)
      BY <3>2, <3>3 DEF RouteArgs
    <3> QED
      BY <3>1, <3>4, InsertFresher
  <2>2. ASSUME NEW dest \in Dest, NEW last \in Node, NEW s \in SeqNumber,
               NEW h \in HopNumber, NEW life \in RrepLifetime,
               NEW flag \in BOOLEAN, ProcessRREP(dest, s, h, last, life, flag)
        PROVE  Fresher(routeTable[d], routeTable'[d])
    <3> DEFINE lt == now + ACTIVE_ROUTE_TIMEOUT
               r == InsertInRouteTable(routeTable, dest, s, h, last, lt, now)
    <3>1. /\ routeTable' = UpdateRouteTable(r, last, life)
          /\ r = InsertInRouteTable(routeTable, dest, s, h, last, lt, now)
      BY <2>2 DEF ProcessRREP
    <3>2. RouteArgs(dest, s, h, last, lt, now)
      BY MessageAssumption, Timeouts DEF RouteArgs
    <3> HIDE DEF lt, r
    <3>3. Good(r, now) /\ Grows(routeTable, r, now)
      BY <3>1, <3>2, InsertGood
    <3>4. Fresher(routeTable[d], r[d])
      BY <3>1, <3>2, InsertFresher
    <3>5. d \in DOMAIN r
      BY <3>3 DEF Grows
    <3>6. routeTable'[d].seq = r[d].seq /\ routeTable'[d].hop = r[d].hop
      BY <3>1, <3>3, <3>5, UpdateKeeps
    <3> QED
      BY <3>4, <3>6 DEF Fresher
  <2>3. ASSUME NEW dest \in Dest, RouteDataOut(dest)
        PROVE  Fresher(routeTable[d], routeTable'[d])
    BY <2>0, <2>3, UpdateKeeps DEF RouteDataOut
  <2>4. ASSUME NEW src \in Node, DataIn(src)
        PROVE  Fresher(routeTable[d], routeTable'[d])
    BY <2>0, <2>4, UpdateKeeps DEF DataIn
  <2>5. ASSUME NEW src \in Node, NEW dest \in Node, DataTransit(src, dest)
        PROVE  Fresher(routeTable[d], routeTable'[d])
    <3> DEFINE r == UpdateRouteTable(routeTable, dest,
                                     now + ACTIVE_ROUTE_TIMEOUT)
    <3>1. routeTable' = UpdateRouteTable(r, src, now + ACTIVE_ROUTE_TIMEOUT)
      BY <2>5 DEF DataTransit
    <3>2. Good(r, now) /\ DOMAIN r = DOMAIN routeTable
      BY ActiveLifetime, UpdateGood
    <3>3. r[d].seq = routeTable[d].seq /\ r[d].hop = routeTable[d].hop
      BY UpdateKeeps
    <3> HIDE DEF r
    <3>4. routeTable'[d].seq = r[d].seq /\ routeTable'[d].hop = r[d].hop
      BY <3>1, <3>2, UpdateKeeps
    <3> QED
      BY <2>0, <3>3, <3>4
  <2>6. ASSUME NEW nextHop \in Node, PacketDropNotification(nextHop)
        PROVE  Fresher(routeTable[d], routeTable'[d])
    <3>1. \/ routeTable' = routeTable
          \/ routeTable' = InvalidateRoutes(routeTable,
                              RoutesThrough(routeTable, nextHop), now)
      BY <2>6 DEF PacketDropNotification, GenerateRERR
    <3> QED
      BY <2>0, <3>1, InvalidateKeeps
  <2>7. ASSUME NEW src \in Node, NEW dests \in SUBSET Dest,
               ProcessRERR(src, dests)
        PROVE  Fresher(routeTable[d], routeTable'[d])
    BY <2>0, <2>7, InvalidateKeeps DEF ProcessRERR
  <2>8. ASSUME NEW timer \in routeTimers, ActiveRouteTimeout(timer)
        PROVE  Fresher(routeTable[d], routeTable'[d])
    BY <2>0, <2>8 DEF ActiveRouteTimeout, RemoveRoute
  <2>9. ASSUME NEW t \in 0..MaxTime, Advance(t)
        PROVE  Fresher(routeTable[d], routeTable'[d])
    BY <2>0, <2>9 DEF Advance
  <2> QED
    BY <2>1, <2>2, <2>3, <2>4, <2>5, <2>6, <2>7, <2>8, <2>9 DEF Next
<1>2. FresherOnly <=> [][Step]_vars
  BY DEF FresherOnly
<1> HIDE DEF Step
<1> QED
  BY <1>1, <1>2, RouteInvariant, PTL DEF Spec
=============================================================================
