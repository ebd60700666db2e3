-------------------------- MODULE AodvTablesProofs --------------------------
(***************************************************************************)
(* Lemmas about the operators of AodvTables, for every set of devices and  *)
(* every value of the timeouts that satisfies TimeAssumption: what they    *)
(* preserve of a route table and of the expiry checks pending for it.      *)
(***************************************************************************)
EXTENDS AodvTables, TLAPS

(* The parts of the inductive invariant that speak of the table alone, as  *)
(* predicates of a table, so that the lemmas can be about any table.       *)

Good(rt, t) ==
    /\ IsRouteTable(rt)
    /\ \A d \in DOMAIN rt : rt[d].life <= t + DELETE_PERIOD
    /\ \A d \in DOMAIN rt : rt[d].vseq <=> rt[d].seq # 0

\* Admissible arguments of InsertInRouteTable.
RouteArgs(ip, s, h, nh, lt, t) ==
    /\ ip \in Node /\ s \in Nat /\ h \in Nat /\ nh \in Node /\ t \in Nat
    /\ lt \in Int /\ lt <= t + DELETE_PERIOD

\* The table r extends the table rt: nothing is lost, shortened or taken back.
Grows(rt, r, t) ==
    /\ DOMAIN rt \subseteq DOMAIN r
    /\ \A d \in DOMAIN rt : /\ r[d].next = rt[d].next
                            /\ r[d].seq >= rt[d].seq
                            /\ r[d].life >= rt[d].life
    /\ \A d \in DOMAIN r \ DOMAIN rt : r[d].life >= t + ACTIVE_ROUTE_TIMEOUT

\* The table r has the entries of rt and one for ip.
Adds(rt, r, ip) == DOMAIN r = DOMAIN rt \cup {ip}

Covered(rt, timers, t) ==
    /\ \A d \in DOMAIN rt :
          \E timer \in timers : timer.dest = d /\ timer.at <= rt[d].life
    /\ \A timer \in timers : timer.dest \in DOMAIN rt /\ t <= timer.at
    /\ \A t1, t2 \in timers : t1.dest = t2.dest => t1 = t2

-----------------------------------------------------------------------------
(* The timeouts.                                                           *)

\* The derived timeouts are natural numbers in the order the code relies on.
LEMMA Timeouts ==
    /\ ACTIVE_ROUTE_TIMEOUT \in Nat /\ ACTIVE_ROUTE_TIMEOUT > 0
    /\ DELETE_PERIOD \in Nat
    /\ ACTIVE_ROUTE_TIMEOUT <= DELETE_PERIOD
    /\ 2 * NET_TRAVERSAL_TIME \in Nat
    /\ 2 * NET_TRAVERSAL_TIME <= DELETE_PERIOD
<1>1. NODE_TRAVERSAL_TIME \in Nat /\ NET_DIAMETER \in Nat
  BY TimeAssumption
<1>2. NET_TRAVERSAL_TIME \in Nat
  BY <1>1 DEF NET_TRAVERSAL_TIME
<1> QED
  BY <1>2, TimeAssumption DEF DELETE_PERIOD, Max2

\* The lifetime ProcessRREQ computes for a reverse route.
LEMMA ReverseLifetime ==
    ASSUME NEW t \in Nat, NEW h \in Nat
    PROVE  LET lt == t + 2 * NET_TRAVERSAL_TIME - 2 * h * NODE_TRAVERSAL_TIME
           IN  lt \in Int /\ lt <= t + DELETE_PERIOD
<1>1. NODE_TRAVERSAL_TIME \in Nat
  BY TimeAssumption
<1>2. 2 * h * NODE_TRAVERSAL_TIME \in Nat
  BY <1>1
<1> QED
  BY <1>2, Timeouts

-----------------------------------------------------------------------------
(* What the table operators preserve.                                      *)

\* The type of an entry built from its fields.
LEMMA EntryType ==
    ASSUME NEW s \in Nat, NEW b \in BOOLEAN, NEW h \in Nat, NEW nh \in Node,
           NEW l \in Nat, NEW v \in BOOLEAN
    PROVE  [seq |-> s, vseq |-> b, hop |-> h, next |-> nh,
            life |-> l, valid |-> v] \in RouteEntry
  BY DEF RouteEntry

\* InsertInRouteTable keeps a table well-formed, adds at most its
\* destination and never takes anything back from the entries.
LEMMA InsertGood ==
    ASSUME NEW rt, NEW t, NEW ip, NEW s, NEW h, NEW nh, NEW lt, Good(rt, t),
           RouteArgs(ip, s, h, nh, lt, t),
           NEW r, r = InsertInRouteTable(rt, ip, s, h, nh, lt, t)
    PROVE  Good(r, t) /\ Grows(rt, r, t) /\ Adds(rt, r, ip)
<1> USE DEF RouteArgs
<1> DEFINE old == IF ip \in DOMAIN rt THEN rt[ip] ELSE FreshEntry(nh, t)
           new == WriteEntry(old, s, h, lt)
<1>1. CASE ~AcceptsRoute(rt, ip, s, h)
  <2>1. r = rt
    BY <1>1 DEF InsertInRouteTable
  <2>2. ip \in DOMAIN rt
    BY <1>1 DEF AcceptsRoute
  <2>3. Grows(rt, rt, t)
    BY DEF Grows, Good, IsRouteTable, RouteEntry
  <2> QED
    BY <2>1, <2>2, <2>3 DEF Adds
<1>2. CASE AcceptsRoute(rt, ip, s, h)
  <2>1. r = [d \in DOMAIN rt \cup {ip} |-> IF d # ip THEN rt[d] ELSE new]
    BY <1>2 DEF InsertInRouteTable
  <2>2. old \in RouteEntry
    BY Timeouts DEF Good, IsRouteTable, RouteEntry, FreshEntry
  <2>3. /\ new \in RouteEntry
        /\ new.next = old.next
        /\ new.life >= old.life
        /\ new.seq = s
        /\ new.life = old.life \/ new.life = lt
        /\ new.vseq <=> (old.vseq \/ s # 0)
    <3> HIDE DEF old
    <3>1. /\ new.next = old.next /\ new.seq = s /\ new.hop = h
          /\ new.life = Max2(old.life, lt) /\ new.valid = TRUE
          /\ new.vseq = (old.vseq \/ s # 0)
      BY DEF WriteEntry
    <3>2. new = [seq |-> s, vseq |-> new.vseq, hop |-> h, next |-> old.next,
                 life |-> new.life, valid |-> TRUE]
      BY DEF WriteEntry
    <3>3. old.life \in Nat /\ old.next \in Node
      BY <2>2 DEF RouteEntry
    <3>4. new.vseq \in BOOLEAN /\ (new.vseq <=> (old.vseq \/ s # 0))
      <4> HIDE DEF new
      <4> QED
        BY <3>1, Zenon
    <3>5. /\ new.life \in Nat /\ new.life >= old.life
          /\ new.life = old.life \/ new.life = lt
      <4> HIDE DEF new
      <4> QED
        BY <3>1, <3>3 DEF Max2
    <3>6. new \in RouteEntry
      <4> HIDE DEF new
      <4> DEFINE b == new.vseq
                 l == new.life
      <4>1. b \in BOOLEAN /\ l \in Nat
        BY <3>4, <3>5
      <4>2. new = [seq |-> s, vseq |-> b, hop |-> h, next |-> old.next,
                   life |-> l, valid |-> TRUE]
        BY <3>2
      <4> HIDE DEF b, l
      <4> QED
        BY <3>3, <4>1, <4>2, EntryType, Zenon
    <3> HIDE DEF new
    <3> QED
      BY <3>1, <3>4, <3>5, <3>6
  <2>4. old.life <= t + DELETE_PERIOD /\ (old.vseq <=> old.seq # 0)
    BY Timeouts DEF Good, FreshEntry
  <2>5. s >= old.seq
    <3>1. CASE ip \notin DOMAIN rt
      BY <3>1 DEF FreshEntry
    <3>2. CASE ip \in DOMAIN rt
      <4>1. rt[ip].seq \in Nat /\ (rt[ip].vseq <=> rt[ip].seq # 0)
        BY <3>2 DEF Good, IsRouteTable, RouteEntry
      <4> QED
        BY <1>2, <3>2, <4>1 DEF AcceptsRoute
    <3> QED
      BY <3>1, <3>2
  <2>6. ip \notin DOMAIN rt => new.life >= t + ACTIVE_ROUTE_TIMEOUT
    <3> SUFFICES ASSUME ip \notin DOMAIN rt
                 PROVE  new.life >= t + ACTIVE_ROUTE_TIMEOUT
      OBVIOUS
    <3>1. old.life = t + ACTIVE_ROUTE_TIMEOUT
      BY DEF FreshEntry
    <3> QED
      BY <2>3, <3>1
  <2>7. ip \in DOMAIN rt => old = rt[ip]
    OBVIOUS
  <2>8. new.vseq <=> new.seq # 0
    <3>1. old.seq \in Nat /\ new.seq = s
      BY <2>2, <2>3 DEF RouteEntry
    <3> HIDE DEF new, old
    <3> QED
      BY <2>3, <2>4, <2>5, <3>1
  <2> HIDE DEF old, new
  <2>9. DOMAIN r = DOMAIN rt \cup {ip}
    BY <2>1
  <2>10. \A d \in DOMAIN rt : rt[d] \in RouteEntry
    BY DEF Good, IsRouteTable
  <2>11. \A d \in DOMAIN r : r[d] = IF d # ip THEN rt[d] ELSE new
    BY <2>1
  <2>12. Good(r, t)
    <3>1. \A d \in DOMAIN r : r[d] \in RouteEntry
      BY <2>3, <2>9, <2>10, <2>11
    <3>2. IsRouteTable(r)
      <4>1. r = [d \in DOMAIN r |-> r[d]]
        BY <2>1
      <4>2. DOMAIN r \subseteq Node
        BY <2>9 DEF Good, IsRouteTable
      <4> QED
        BY <3>1, <4>1, <4>2 DEF IsRouteTable
    <3>3. \A d \in DOMAIN r : r[d].life <= t + DELETE_PERIOD
      BY <2>3, <2>4, <2>9, <2>11 DEF Good
    <3>4. \A d \in DOMAIN r : r[d].vseq <=> r[d].seq # 0
      BY <2>8, <2>9, <2>11 DEF Good
    <3> QED
      BY <3>2, <3>3, <3>4 DEF Good
  <2>13. Grows(rt, r, t)
    <3>1. \A d \in DOMAIN rt : rt[d].seq \in Nat /\ rt[d].life \in Nat
      BY <2>10 DEF RouteEntry
    <3> QED
      BY <2>3, <2>5, <2>6, <2>7, <2>9, <2>11, <3>1 DEF Grows
  <2> QED
    BY <2>9, <2>12, <2>13 DEF Adds
<1> QED
  BY <1>1, <1>2

\* A function of the table entry by entry that keeps the type, the bound, the
\* sequence number and the next hop, and shortens no lifetime, is harmless.
LEMMA PointwiseGood ==
    ASSUME NEW rt, NEW r, NEW t \in Nat, Good(rt, t),
           r = [d \in DOMAIN rt |-> r[d]],
           \A d \in DOMAIN rt :
              /\ r[d] \in RouteEntry
              /\ r[d].life <= t + DELETE_PERIOD
              /\ r[d].life >= rt[d].life
              /\ r[d].next = rt[d].next
              /\ r[d].seq = rt[d].seq
              /\ r[d].vseq = rt[d].vseq
    PROVE  Good(r, t) /\ Grows(rt, r, t) /\ DOMAIN r = DOMAIN rt
<1>1. DOMAIN r = DOMAIN rt
  OBVIOUS
<1>2. IsRouteTable(r)
  BY <1>1 DEF Good, IsRouteTable
<1>3. \A d \in DOMAIN r : r[d].vseq <=> r[d].seq # 0
  BY <1>1 DEF Good
<1>4. Good(r, t)
  BY <1>1, <1>2, <1>3 DEF Good
<1>5. \A d \in DOMAIN rt : rt[d].seq \in Nat
  BY DEF Good, IsRouteTable, RouteEntry
<1>6. Grows(rt, r, t)
  BY <1>1, <1>5 DEF Grows
<1> QED
  BY <1>1, <1>4, <1>6

\* UpdateRouteTable only moves deadlines into the future.
LEMMA UpdateGood ==
    ASSUME NEW rt, NEW t \in Nat, Good(rt, t),
           NEW ip \in Node, NEW lt \in Nat, lt <= t + DELETE_PERIOD
    PROVE  LET r == UpdateRouteTable(rt, ip, lt)
           IN  Good(r, t) /\ Grows(rt, r, t) /\ DOMAIN r = DOMAIN rt
<1> DEFINE r == UpdateRouteTable(rt, ip, lt)
<1>1. r = [d \in DOMAIN rt |-> r[d]]
  BY DEF UpdateRouteTable
<1>2. ASSUME NEW d \in DOMAIN rt
      PROVE  /\ r[d] \in RouteEntry
             /\ r[d].life <= t + DELETE_PERIOD
             /\ r[d].life >= rt[d].life
             /\ r[d].next = rt[d].next
             /\ r[d].seq = rt[d].seq
             /\ r[d].vseq = rt[d].vseq
  <2>1. rt[d] \in RouteEntry /\ rt[d].life <= t + DELETE_PERIOD
    BY DEF Good, IsRouteTable
  <2>2. \/ r[d] = rt[d]
        \/ r[d] = [rt[d] EXCEPT !.life = Max2(rt[d].life, lt)]
    BY DEF UpdateRouteTable
  <2>3. CASE r[d] = rt[d]
    BY <2>1, <2>3 DEF RouteEntry
  <2>4. CASE r[d] = [rt[d] EXCEPT !.life = Max2(rt[d].life, lt)]
    <3> HIDE DEF r
    <3> QED
      BY <2>1, <2>4, Timeouts DEF RouteEntry, Max2
  <2> QED
    BY <2>2, <2>3, <2>4
<1> HIDE DEF r
<1> QED
  BY <1>1, <1>2, PointwiseGood DEF r

\* A route error does not shorten a lifetime either: none exceeds the
\* DELETE_PERIOD it assigns.
LEMMA InvalidateGood ==
    ASSUME NEW rt, NEW t \in Nat, Good(rt, t), NEW dests
    PROVE  LET r == InvalidateRoutes(rt, dests, t)
           IN  Good(r, t) /\ Grows(rt, r, t) /\ DOMAIN r = DOMAIN rt
<1> DEFINE r == InvalidateRoutes(rt, dests, t)
<1>1. r = [d \in DOMAIN rt |-> r[d]]
  BY DEF InvalidateRoutes
<1>2. ASSUME NEW d \in DOMAIN rt
      PROVE  /\ r[d] \in RouteEntry
             /\ r[d].life <= t + DELETE_PERIOD
             /\ r[d].life >= rt[d].life
             /\ r[d].next = rt[d].next
             /\ r[d].seq = rt[d].seq
             /\ r[d].vseq = rt[d].vseq
  <2>1. rt[d] \in RouteEntry /\ rt[d].life <= t + DELETE_PERIOD
    BY DEF Good, IsRouteTable
  <2>2. \/ r[d] = rt[d]
        \/ r[d] = [rt[d] EXCEPT !.valid = FALSE, !.life = t + DELETE_PERIOD]
    BY DEF InvalidateRoutes
  <2>3. CASE r[d] = rt[d]
    BY <2>1, <2>3 DEF RouteEntry
  <2>4. CASE r[d] = [rt[d] EXCEPT !.valid = FALSE, !.life = t + DELETE_PERIOD]
    <3> DEFINE e == rt[d]
               l == t + DELETE_PERIOD
    <3>1. l \in Nat
      BY Timeouts
    <3>2. r[d] = [e EXCEPT !.valid = FALSE, !.life = l]
      BY <2>4
    <3>3. e \in RouteEntry /\ e.life <= l
      BY <2>1
    <3> HIDE DEF e, l, r
    <3>4. /\ r[d] \in RouteEntry
          /\ r[d].life = l
          /\ r[d].next = e.next /\ r[d].seq = e.seq /\ r[d].vseq = e.vseq
      BY <3>1, <3>2, <3>3 DEF RouteEntry
    <3> QED
      BY <3>1, <3>3, <3>4 DEF e, l
  <2> QED
    BY <2>2, <2>3, <2>4
<1> HIDE DEF r
<1> QED
  BY <1>1, <1>2, PointwiseGood DEF r

\* Two steps that extend a table, one after the other, extend it.
LEMMA GrowsTransitive ==
    ASSUME NEW t \in Nat, NEW r1, NEW r2, NEW r3,
           Good(r1, t), Good(r2, t), Good(r3, t),
           Grows(r1, r2, t), Grows(r2, r3, t)
    PROVE  Grows(r1, r3, t)
<1>1. \A d \in DOMAIN r1 : r1[d].seq \in Nat /\ r1[d].life \in Nat
  BY DEF Good, IsRouteTable, RouteEntry
<1>2. \A d \in DOMAIN r2 : r2[d].seq \in Nat /\ r2[d].life \in Nat
  BY DEF Good, IsRouteTable, RouteEntry
<1>3. \A d \in DOMAIN r3 : r3[d].seq \in Nat /\ r3[d].life \in Nat
  BY DEF Good, IsRouteTable, RouteEntry
<1>4. \A d \in DOMAIN r1 : /\ r3[d].next = r1[d].next
                           /\ r3[d].seq >= r1[d].seq
                           /\ r3[d].life >= r1[d].life
  BY <1>1, <1>2, <1>3 DEF Grows
<1>5. \A d \in DOMAIN r3 \ DOMAIN r1 : r3[d].life >= t + ACTIVE_ROUTE_TIMEOUT
  BY <1>2, <1>3, Timeouts DEF Grows
<1> QED
  BY <1>4, <1>5 DEF Grows

\* The timers of a table cover every extension of it with the same entries.
LEMMA CoveredKept ==
    ASSUME NEW t \in Nat, NEW rt, NEW r, NEW timers,
           timers \subseteq RouteTimer, Good(rt, t), Good(r, t),
           Covered(rt, timers, t), Grows(rt, r, t), DOMAIN r = DOMAIN rt
    PROVE  Covered(r, timers, t)
<1>1. ASSUME NEW d \in DOMAIN r
      PROVE  \E timer \in timers : timer.dest = d /\ timer.at <= r[d].life
  <2>1. PICK timer \in timers : timer.dest = d /\ timer.at <= rt[d].life
    BY DEF Covered
  <2>2. rt[d].life \in Nat /\ r[d].life \in Nat /\ timer.at \in Nat
    BY DEF Good, IsRouteTable, RouteEntry, RouteTimer
  <2>3. rt[d].life <= r[d].life
    BY DEF Grows
  <2> QED
    BY <2>1, <2>2, <2>3
<1> QED
  BY <1>1 DEF Covered

\* The timer InsertInRouteTable adds for a new entry restores the cover.
LEMMA CoveredInsert ==
    ASSUME NEW t \in Nat, NEW rt, NEW r, NEW timers, NEW ip \in Node,
           timers \subseteq RouteTimer, Good(rt, t), Good(r, t),
           Covered(rt, timers, t), Grows(rt, r, t),
           Adds(rt, r, ip)
    PROVE  LET new == AddRouteTimer(timers, rt, ip, t)
           IN  new \subseteq RouteTimer /\ Covered(r, new, t)
<1> USE DEF Adds
<1>1. CASE ip \in DOMAIN rt
  BY <1>1, CoveredKept DEF AddRouteTimer
<1>2. CASE ip \notin DOMAIN rt
  <2> DEFINE tm == [dest |-> ip, at |-> t + ACTIVE_ROUTE_TIMEOUT]
             new == timers \cup {tm}
  <2>1. AddRouteTimer(timers, rt, ip, t) = new
    BY <1>2 DEF AddRouteTimer
  <2>2. tm \in RouteTimer /\ tm.dest = ip /\ tm.at = t + ACTIVE_ROUTE_TIMEOUT
    BY Timeouts DEF RouteTimer
  <2>3. \A timer \in timers : timer.dest # ip
    BY <1>2 DEF Covered
  <2> HIDE DEF tm
  <2>4. ASSUME NEW d \in DOMAIN r
        PROVE  \E timer \in new : timer.dest = d /\ timer.at <= r[d].life
    <3>1. CASE d = ip
      <4>1. r[d].life >= t + ACTIVE_ROUTE_TIMEOUT /\ r[d].life \in Nat
        BY <1>2, <3>1 DEF Grows, Good, IsRouteTable, RouteEntry
      <4> QED
        BY <2>2, <3>1, <4>1, Timeouts
    <3>2. CASE d # ip
      <4>1. d \in DOMAIN rt
        BY <3>2
      <4>2. PICK timer \in timers : timer.dest = d /\ timer.at <= rt[d].life
        BY <4>1 DEF Covered
      <4>3. /\ rt[d].life \in Nat /\ r[d].life \in Nat /\ timer.at \in Nat
            /\ rt[d].life <= r[d].life
        BY <4>1 DEF Good, IsRouteTable, RouteEntry, RouteTimer, Grows
      <4> QED
        BY <4>2, <4>3
    <3> QED
      BY <3>1, <3>2
  <2>5. \A timer \in new : timer.dest \in DOMAIN r /\ t <= timer.at
    BY <2>2, Timeouts DEF Covered
  <2>6. \A t1, t2 \in new : t1.dest = t2.dest => t1 = t2
    BY <2>2, <2>3 DEF Covered
  <2> QED
    BY <2>1, <2>2, <2>4, <2>5, <2>6 DEF Covered
<1> QED
  BY <1>1, <1>2

\* The counter stays an unsigned number of its width.
LEMMA CounterType ==
    ASSUME NEW c \in 0..(COUNTER_MOD - 1)
    PROVE  /\ CounterPlus(c) \in 0..(COUNTER_MOD - 1)
           /\ CounterMinus(c) \in 0..(COUNTER_MOD - 1)
  BY CounterAssumption DEF CounterPlus, CounterMinus

\* The other operators leave sequence numbers and hop counts alone.
LEMMA UpdateKeeps ==
    ASSUME NEW rt, NEW t, Good(rt, t), NEW ip, NEW lt, NEW d \in DOMAIN rt
    PROVE  LET r == UpdateRouteTable(rt, ip, lt)
           IN  r[d].seq = rt[d].seq /\ r[d].hop = rt[d].hop
<1>1. rt[d] \in RouteEntry
  BY DEF Good, IsRouteTable
<1> QED
  BY <1>1 DEF UpdateRouteTable, RouteEntry

\* A route error leaves them alone too.
LEMMA InvalidateKeeps ==
    ASSUME NEW rt, NEW t, Good(rt, t), NEW dests, NEW d \in DOMAIN rt
    PROVE  LET r == InvalidateRoutes(rt, dests, t)
           IN  r[d].seq = rt[d].seq /\ r[d].hop = rt[d].hop
<1>1. rt[d] \in RouteEntry
  BY DEF Good, IsRouteTable
<1> QED
  BY <1>1 DEF InvalidateRoutes, RouteEntry

\* The number of an entry after an insertion is the old one or the one given.
LEMMA InsertSeq ==
    ASSUME NEW rt, NEW t, NEW ip, NEW s, NEW h, NEW nh, NEW lt,
           NEW r, r = InsertInRouteTable(rt, ip, s, h, nh, lt, t),
           NEW d \in DOMAIN r
    PROVE  \/ d \in DOMAIN rt /\ r[d].seq = rt[d].seq
           \/ d = ip /\ r[d].seq = s
<1>1. CASE ~AcceptsRoute(rt, ip, s, h)
  BY <1>1 DEF InsertInRouteTable
<1>2. CASE AcceptsRoute(rt, ip, s, h)
  <2> DEFINE old == IF ip \in DOMAIN rt THEN rt[ip] ELSE FreshEntry(nh, t)
             new == WriteEntry(old, s, h, lt)
  <2>1. r = [e \in DOMAIN rt \cup {ip} |-> IF e # ip THEN rt[e] ELSE new]
    BY <1>2 DEF InsertInRouteTable
  <2>2. new.seq = s
    <3> HIDE DEF old
    <3> QED
      BY DEF WriteEntry
  <2> HIDE DEF new, old
  <2> QED
    BY <2>1, <2>2
<1> QED
  BY <1>1, <1>2

-----------------------------------------------------------------------------
(* The expanding ring.                                                     *)

\* A new TTL is a natural number on the ladder.
LEMMA IncreaseTTLType ==
    ASSUME NEW sent, NEW ip, ip \in DOMAIN sent => sent[ip] \in SentEntry
    PROVE  LET ttl == IncreaseTTL(sent, ip)
           IN  ttl \in Nat /\ (ttl <= TTL_THRESHOLD \/ ttl = NET_DIAMETER)
<1>1. NET_DIAMETER \in Nat
  BY TimeAssumption
<1>2. ip \in DOMAIN sent => sent[ip].ttl \in Nat
  BY DEF SentEntry
<1> QED
  BY <1>1, <1>2 DEF IncreaseTTL, TTL_START, TTL_THRESHOLD, TTL_INCREMENT

\* So is a timeout.
LEMMA TimeoutType ==
    ASSUME NEW ttl \in Nat, NEW count \in Nat
    PROVE  GetTimeoutTime(ttl, count) \in Nat
<1>1. NODE_TRAVERSAL_TIME \in Nat /\ NET_DIAMETER \in Nat
  BY TimeAssumption
<1>2. NET_TRAVERSAL_TIME \in Nat
  BY <1>1 DEF NET_TRAVERSAL_TIME
<1>3. count * NET_TRAVERSAL_TIME \in Nat
  BY <1>2
<1>4. RING_TRAVERSAL_TIME(ttl) \in Nat
  BY <1>1 DEF RING_TRAVERSAL_TIME, TIMEOUT_BUFFER
<1> QED
  BY <1>3, <1>4 DEF GetTimeoutTime

\* The sent table r is sent with an entry for ip; a try counts at the full
\* diameter only.
Entered(sent, r, ip, ttl, timeout) ==
    /\ DOMAIN r = DOMAIN sent \cup {ip}
    /\ \A d \in DOMAIN sent \ {ip} : r[d] = sent[d]
    /\ r[ip] \in SentEntry
    /\ r[ip].ttl = ttl /\ r[ip].timeout = timeout
    /\ LET times == IF ip \in DOMAIN sent THEN sent[ip].times ELSE 1
       IN  r[ip].times = IF ttl = NET_DIAMETER THEN times + 1 ELSE times

\* An insertion enters one RREQ.
LEMMA SentInsert ==
    ASSUME NEW sent, NEW ip, NEW ttl \in Nat, NEW timeout \in Nat,
           ip \in DOMAIN sent => sent[ip] \in SentEntry
    PROVE  Entered(sent, InsertInRREQSentTable(sent, ip, ttl, timeout),
                   ip, ttl, timeout)
<1> DEFINE times == IF ip \in DOMAIN sent THEN sent[ip].times ELSE 1
           n == IF ttl = NET_DIAMETER THEN times + 1 ELSE times
           entry == [ttl |-> ttl, timeout |-> timeout, times |-> n]
           r == InsertInRREQSentTable(sent, ip, ttl, timeout)
<1>1. r = [d \in DOMAIN sent \cup {ip} |-> IF d = ip THEN entry ELSE sent[d]]
  BY DEF InsertInRREQSentTable
<1>2. n \in Nat
  BY DEF SentEntry
<1> HIDE DEF n, r
<1>3. /\ entry \in SentEntry /\ entry.ttl = ttl /\ entry.timeout = timeout
      /\ entry.times = n
  BY <1>2 DEF SentEntry
<1> HIDE DEF entry
<1>4. /\ DOMAIN r = DOMAIN sent \cup {ip} /\ r[ip] = entry
      /\ \A d \in DOMAIN sent \ {ip} : r[d] = sent[d]
  BY <1>1
<1> QED
  BY <1>3, <1>4 DEF n, r, Entered

-----------------------------------------------------------------------------
(* The expiry check and the clock.                                         *)

\* The expiry check that is due finds its entry; it forgets it exactly at
\* its deadline or is repeated there.
LEMMA TimeoutGood ==
    ASSUME NEW t \in Nat, NEW rt, NEW timers, NEW timer \in timers,
           timers \subseteq RouteTimer, Good(rt, t),
           Covered(rt, timers, t), timer.at = t
    PROVE  LET d == timer.dest
               r == RemoveRoute(rt, d)
               again == [dest |-> d, at |-> rt[d].life]
               tms == (timers \ {timer}) \cup {again}
           IN  /\ d \in DOMAIN rt /\ d \in Node
               /\ rt[d].life \in Nat /\ t <= rt[d].life
               /\ Good(r, t) /\ Covered(r, timers \ {timer}, t)
               /\ tms \subseteq RouteTimer /\ Covered(rt, tms, t)
<1> DEFINE d == timer.dest
           r == RemoveRoute(rt, d)
           again == [dest |-> d, at |-> rt[d].life]
           rest == timers \ {timer}
           tms == rest \cup {again}
<1>1. /\ d \in DOMAIN rt /\ d \in Node
      /\ rt[d].life \in Nat /\ t <= rt[d].life
  <2>1. d \in DOMAIN rt
    BY DEF Covered
  <2>2. PICK t2 \in timers : t2.dest = d /\ t2.at <= rt[d].life
    BY <2>1 DEF Covered
  <2>3. t2 = timer
    BY <2>2 DEF Covered
  <2> QED
    BY <2>1, <2>2, <2>3 DEF Good, IsRouteTable, RouteEntry
<1>2. \A t2 \in rest : t2.dest # d
  BY DEF Covered
<1>3. \A e \in DOMAIN rt \ {d} :
         \E t2 \in rest : t2.dest = e /\ t2.at <= rt[e].life
  <2> SUFFICES ASSUME NEW e \in DOMAIN rt \ {d}
               PROVE  \E t2 \in rest : t2.dest = e /\ t2.at <= rt[e].life
    OBVIOUS
  <2>1. PICK t2 \in timers : t2.dest = e /\ t2.at <= rt[e].life
    BY DEF Covered
  <2>2. t2 # timer
    BY <2>1
  <2> QED
    BY <2>1, <2>2
<1>4. /\ DOMAIN r = DOMAIN rt \ {d}
      /\ \A e \in DOMAIN r : r[e] = rt[e]
      /\ r = [e \in DOMAIN r |-> r[e]]
  BY DEF RemoveRoute
<1>5. again \in RouteTimer /\ again.dest = d /\ again.at = rt[d].life
  BY <1>1 DEF RouteTimer
<1> HIDE DEF d, r, rest, again
<1>6. Good(r, t)
  BY <1>4 DEF Good, IsRouteTable
<1>7. Covered(r, rest, t)
  <2>1. \A t2 \in rest : t2.dest \in DOMAIN r /\ t <= t2.at
    BY <1>2, <1>4 DEF Covered, rest
  <2>2. \A t1, t2 \in rest : t1.dest = t2.dest => t1 = t2
    BY DEF Covered, rest
  <2> QED
    BY <1>3, <1>4, <2>1, <2>2 DEF Covered
<1>8. tms \subseteq RouteTimer
  BY <1>5 DEF rest
<1>9. Covered(rt, tms, t)
  <2>1. \A e \in DOMAIN rt :
           \E t2 \in tms : t2.dest = e /\ t2.at <= rt[e].life
    BY <1>1, <1>3, <1>5
  <2>2. \A t2 \in tms : t2.dest \in DOMAIN rt /\ t <= t2.at
    BY <1>1, <1>5 DEF Covered, rest
  <2>3. \A t1, t2 \in tms : t1.dest = t2.dest => t1 = t2
    BY <1>2, <1>5 DEF Covered, rest
  <2> QED
    BY <2>1, <2>2, <2>3 DEF Covered
<1> QED
  BY <1>1, <1>6, <1>7, <1>8, <1>9 DEF d, r, rest, again

\* A clock that passes no pending check passes no deadline.
LEMMA ClockGood ==
    ASSUME NEW t \in Nat, NEW u \in Nat, u > t, NEW rt, NEW timers,
           timers \subseteq RouteTimer, Good(rt, t),
           Covered(rt, timers, t), \A timer \in timers : u <= timer.at
    PROVE  /\ Good(rt, u) /\ Covered(rt, timers, u)
           /\ \A d \in DOMAIN rt : u <= rt[d].life
<1>1. \A d \in DOMAIN rt : rt[d].life \in Nat
  BY DEF Good, IsRouteTable, RouteEntry
<1>2. \A d \in DOMAIN rt : u <= rt[d].life
  <2> SUFFICES ASSUME NEW d \in DOMAIN rt PROVE u <= rt[d].life
    OBVIOUS
  <2>1. PICK timer \in timers : timer.dest = d /\ timer.at <= rt[d].life
    BY DEF Covered
  <2>2. timer.at \in Nat
    BY DEF RouteTimer
  <2> QED
    BY <1>1, <2>1, <2>2
<1>3. Good(rt, u)
  BY <1>1, Timeouts DEF Good
<1>4. Covered(rt, timers, u)
  BY DEF Covered
<1> QED
  BY <1>2, <1>3, <1>4
=============================================================================
