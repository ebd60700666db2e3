----------------------------- MODULE OspfProofs -----------------------------
(***************************************************************************)
(* Proof that the two ends of a link stay in step while they describe      *)
(* their databases (InStep of Ospf): for any routers and links, any first  *)
(* sequence numbers, and whatever is lost, repeated or late.               *)
(***************************************************************************)
EXTENDS Ospf, TLAPS, SequenceTheorems, FiniteSetTheorems, WellFoundedInduction,
        NaturalsInduction

-----------------------------------------------------------------------------
(* Shapes.                                                                 *)

RouterFields == {"id", "db", "isRouterLSTimer", "nbr", "update", "isFloodTimerSet",
                 "delayedAck", "out"}
NeighborFields == {"state", "DDSeqNo", "isMaster", "more", "lastrecv", "summary", "req",
                   "rxt", "ddTimer", "reqTimer"}

IsList(q) == q \in Seq(Range(q))

IsPacket(p) ==
    /\ p.type = "DD" => IsList(p.hdrs)
    /\ p.type = "LSREQ" => IsList(p.advs)
    /\ p.type = "LSU" => IsList(p.lsas)

IsPackets(q) == IsList(q) /\ \A p \in Range(q) : IsPacket(p)

IsNeighbor(n) == DOMAIN n = NeighborFields /\ IsList(n.summary) /\ IsList(n.req)

\* R has the shape of the data of router r.
IsRouter(R, r) ==
    /\ DOMAIN R = RouterFields /\ R.id = r
    /\ DOMAIN R.nbr = Peers(r) /\ \A s \in Peers(r) : IsNeighbor(R.nbr[s])
    /\ DOMAIN R.update = Peers(r) /\ \A s \in Peers(r) : IsList(R.update[s])
    /\ DOMAIN R.out = Peers(r) /\ \A s \in Peers(r) : IsPackets(R.out[s])

\* The database descriptions in a list of packets.
DDs(q) == {p \in Range(q) : p.type = "DD"}

\* A set of natural numbers has a least element.
LEMMA LeastNumber ==
    ASSUME NEW T, T \subseteq Nat, T # {}
    PROVE  \E x \in T : \A y \in T : x <= y
<1> DEFINE less == {p \in Nat \X Nat : p[1] < p[2]}
<1>1. IsWellFoundedOn(less, Nat)
  BY NatLessThanWellFounded DEF OpToRel
<1>2. \A x, y \in Nat : <<y, x>> \notin less => x <= y
  OBVIOUS
<1> HIDE DEF less
<1>3. PICK x \in T : \A y \in T : <<y, x>> \notin less
  BY <1>1, WFMin, Zenon
<1> QED
  BY <1>2, <1>3

\* The packets of two lists put together.
LEMMA ListConcat ==
    ASSUME NEW a, NEW b, IsList(a), IsList(b)
    PROVE  IsList(a \o b) /\ Range(a \o b) = Range(a) \cup Range(b)
           /\ DDs(a \o b) = DDs(a) \cup DDs(b)
<1> DEFINE S == Range(a) \cup Range(b)
<1>1. a \in Seq(S) /\ b \in Seq(S)
  BY SeqMonotonic DEF IsList
<1>2. Range(a \o b) = Range(a) \cup Range(b)
  BY <1>1, RangeConcatenation
<1>3. a \o b \in Seq(S)
  BY <1>1, ConcatProperties
<1> QED
  BY <1>2, <1>3 DEF IsList, DDs

\* A packet put after the others.
LEMMA ListAppend ==
    ASSUME NEW a, NEW p, IsList(a)
    PROVE  /\ IsList(Append(a, p)) /\ Range(Append(a, p)) = Range(a) \cup {p}
           /\ p.type # "DD" => DDs(Append(a, p)) = DDs(a)
           /\ p.type = "DD" => DDs(Append(a, p)) = DDs(a) \cup {p}
<1>1. Append(a, p) = a \o <<p>>
  BY AppendIsConcat DEF IsList
<1>2. <<p>> \in Seq(Range(<<p>>)) /\ Range(<<p>>) = {p}
  BY DEF Range
<1>3. IsList(<<p>>)
  BY <1>2 DEF IsList
<1>4. (p.type # "DD" => DDs(<<p>>) = {}) /\ (p.type = "DD" => DDs(<<p>>) = {p})
  BY <1>2 DEF DDs
<1>5. /\ IsList(a \o <<p>>) /\ Range(a \o <<p>>) = Range(a) \cup Range(<<p>>)
      /\ DDs(a \o <<p>>) = DDs(a) \cup DDs(<<p>>)
  BY <1>3, ListConcat
<1> QED
  BY <1>1, <1>2, <1>4, <1>5

\* The first packet taken from a list.
LEMMA ListTail ==
    ASSUME NEW a, IsList(a), a # <<>>
    PROVE  /\ IsList(Tail(a)) /\ Range(Tail(a)) \subseteq Range(a)
           /\ Head(a) \in Range(a) /\ DDs(Tail(a)) \subseteq DDs(a)
<1>1. /\ Len(a) \in Nat /\ DOMAIN a = 1..Len(a) /\ Len(a) > 0
      /\ Tail(a) \in Seq(Range(a))
      /\ Head(a) = a[1]
  BY HeadTailProperties, LenProperties DEF IsList
<1>2. Range(Tail(a)) \subseteq Range(a)
  BY <1>1, RangeOfSeq
<1>3. IsList(Tail(a))
  BY <1>1, SeqOfRange, Zenon DEF IsList
<1>4. Head(a) \in Range(a)
  BY <1>1 DEF Range
<1>5. DDs(Tail(a)) \subseteq DDs(a)
  BY <1>2 DEF DDs
<1> QED
  BY <1>2, <1>3, <1>4, <1>5

\* The empty list.
LEMMA ListEmpty == IsList(<<>>) /\ Range(<<>>) = {} /\ DDs(<<>>) = {}
  BY DEF IsList, DDs, Range

-----------------------------------------------------------------------------
(* Handlers that leave the database exchange alone.                        *)

\* From R to X a neighbor keeps its sequence number and its role, at most
\* becomes Full when it was Loading, and no description is sent.
Calm(R, X, r) ==
    /\ IsRouter(X, r)
    /\ \A s \in Peers(r) :
          /\ X.nbr[s].DDSeqNo = R.nbr[s].DDSeqNo /\ X.nbr[s].isMaster = R.nbr[s].isMaster
          /\ X.nbr[s].state = R.nbr[s].state
             \/ (R.nbr[s].state = "Loading" /\ X.nbr[s].state = "Full")
          /\ DDs(X.out[s]) = DDs(R.out[s])

\* Doing nothing is calm.
LEMMA CalmSame ==
    ASSUME NEW R, NEW r, IsRouter(R, r)
    PROVE  Calm(R, R, r)
  BY DEF Calm

\* Calm steps compose.
LEMMA CalmTrans ==
    ASSUME NEW R, NEW X, NEW Y, NEW r, Calm(R, X, r), Calm(X, Y, r)
    PROVE  Calm(R, Y, r)
  BY DEF Calm

\* A calm step keeps the shape of the data.
LEMMA CalmRouter ==
    ASSUME NEW R, NEW X, NEW r, Calm(R, X, r)
    PROVE  IsRouter(X, r)
  BY DEF Calm

\* A packet is put after those sent before.
LEMMA SendOut ==
    ASSUME NEW R, NEW r, NEW s \in Peers(r), NEW p, IsRouter(R, r), IsPacket(p)
    PROVE  LET X == OSPF_SEND_PACKET(R, s, p)
           IN  /\ IsRouter(X, r) /\ X.nbr = R.nbr
               /\ \A q \in Peers(r) : q # s => X.out[q] = R.out[q]
               /\ p.type # "DD" => DDs(X.out[s]) = DDs(R.out[s])
               /\ p.type = "DD" => DDs(X.out[s]) = DDs(R.out[s]) \cup {p}
<1> DEFINE X == OSPF_SEND_PACKET(R, s, p)
<1>1. /\ DOMAIN X = RouterFields /\ X.id = r /\ X.nbr = R.nbr /\ X.update = R.update
      /\ X.out = [R.out EXCEPT ![s] = Append(R.out[s], p)]
  BY DEF OSPF_SEND_PACKET, IsRouter, RouterFields
<1>2. /\ DOMAIN X.out = Peers(r) /\ X.out[s] = Append(R.out[s], p)
      /\ \A q \in Peers(r) : q # s => X.out[q] = R.out[q]
  BY <1>1 DEF IsRouter
<1> HIDE DEF X
<1>3. IsPackets(R.out[s]) /\ IsList(R.out[s])
  BY DEF IsRouter, IsPackets
<1>4. /\ IsList(X.out[s]) /\ Range(X.out[s]) = Range(R.out[s]) \cup {p}
      /\ p.type # "DD" => DDs(X.out[s]) = DDs(R.out[s])
      /\ p.type = "DD" => DDs(X.out[s]) = DDs(R.out[s]) \cup {p}
  BY <1>2, <1>3, ListAppend
<1>5. IsPackets(X.out[s])
  BY <1>3, <1>4 DEF IsPackets
<1>6. IsRouter(X, r)
  BY <1>1, <1>2, <1>5 DEF IsRouter
<1> QED
  BY <1>1, <1>2, <1>4, <1>6 DEF X

\* Sending a packet that is no description is calm (OSPF_SEND_PACKET).
LEMMA CalmSend ==
    ASSUME NEW R, NEW r, NEW s \in Peers(r), NEW p, IsRouter(R, r), IsPacket(p), p.type # "DD"
    PROVE  Calm(R, OSPF_SEND_PACKET(R, s, p), r)
<1> DEFINE X == OSPF_SEND_PACKET(R, s, p)
<1>1. /\ IsRouter(X, r) /\ X.nbr = R.nbr
      /\ \A q \in Peers(r) : q # s => X.out[q] = R.out[q]
      /\ DDs(X.out[s]) = DDs(R.out[s])
  BY SendOut
<1> HIDE DEF X
<1> QED
  BY <1>1 DEF Calm, X

\* X differs from R in fields that the exchange does not depend on.
LEMMA CalmFields ==
    ASSUME NEW R, NEW X, NEW r, IsRouter(R, r), DOMAIN X = RouterFields, X.id = r,
           X.nbr = R.nbr, X.out = R.out, X.update = R.update
    PROVE  Calm(R, X, r)
  BY DEF Calm, IsRouter

\* Scheduling the router LSA is calm.
LEMMA CalmSchedule ==
    ASSUME NEW R, NEW r, IsRouter(R, r)
    PROVE  Calm(R, ospf_lsa_schedule_routerLSA(R), r)
<1> DEFINE X == ospf_lsa_schedule_routerLSA(R)
<1>1. DOMAIN X = RouterFields /\ X.id = r /\ X.nbr = R.nbr /\ X.out = R.out /\ X.update = R.update
  BY DEF ospf_lsa_schedule_routerLSA, IsRouter, RouterFields
<1> QED
  BY <1>1, CalmFields

\* X differs from R in the update list of an interface.
LEMMA CalmUpdateList ==
    ASSUME NEW R, NEW r, NEW v, NEW s \in Peers(r), IsRouter(R, r), IsList(v)
    PROVE  Calm(R, [R EXCEPT !.update[s] = v], r)
  BY DEF Calm, IsRouter, RouterFields

\* X differs from R in one neighbor, where the exchange does not depend on it.
LEMMA CalmNeighbor ==
    ASSUME NEW R, NEW X, NEW r, NEW s \in Peers(r), NEW n, IsRouter(R, r), IsNeighbor(n),
           n.state = R.nbr[s].state, n.DDSeqNo = R.nbr[s].DDSeqNo,
           n.isMaster = R.nbr[s].isMaster, X = [R EXCEPT !.nbr[s] = n]
    PROVE  Calm(R, X, r)
  BY DEF Calm, IsRouter, RouterFields

-----------------------------------------------------------------------------
(* Lists.                                                                  *)

\* The position that a search returns, 0 when it finds nothing.
LEMMA SearchRange ==
    ASSUME NEW q, NEW a, IsList(q)
    PROVE  ospf_lsReq_searchFromList(q, a) \in 0..Len(q)
<1> DEFINE I == {i \in 1..Len(q) : q[i].adv = a}
<1>1. ospf_lsReq_searchFromList(q, a) = IF I # {} THEN Min(I) ELSE 0
  BY Zenon DEF ospf_lsReq_searchFromList, SelectInSeq
<1>2. Len(q) \in Nat
  BY LenProperties DEF IsList
<1>3. I # {} => Min(I) \in I
  <2>1. ASSUME I # {} PROVE \E x \in I : \A y \in I : x <= y
    <3>1. I \subseteq Nat
      BY <1>2
    <3> QED
      BY <2>1, <3>1, LeastNumber
  <2> QED
    BY <2>1 DEF Min
<1> QED
  BY <1>1, <1>2, <1>3

\* A list without one element is a list.
LEMMA ListRemoveAt ==
    ASSUME NEW q, IsList(q), NEW i \in 1..Len(q)
    PROVE  IsList(RemoveAt(q, i))
<1>1. SubSeq(q, 1, i - 1) \in Seq(Range(q))
  BY SubSeqProperties DEF IsList
<1>2. SubSeq(q, i + 1, Len(q)) \in Seq(Range(q))
  BY SubSeqProperties DEF IsList
<1>3. RemoveAt(q, i) \in Seq(Range(q))
  BY <1>1, <1>2, ConcatProperties DEF RemoveAt
<1> QED
  BY <1>3, SeqOfRange, Zenon DEF IsList

\* The request list with a header inserted is a list (ospf_lsreq_insertToList).
LEMMA ListInsert ==
    ASSUME NEW q, NEW h, IsList(q)
    PROVE  IsList(ospf_lsreq_insertToList(q, h))
  BY ListAppend DEF ospf_lsreq_insertToList

\* The update list with an LSA queued is a list (ospf_lsa_queueToFlood).
LEMMA ListQueue ==
    ASSUME NEW q, NEW lsa, IsList(q)
    PROVE  IsList(ospf_lsa_queueToFlood(q, lsa))
<1> DEFINE I == {i \in 1..Len(q) : q[i].adv = lsa.adv}
           i == IF I # {} THEN Min(I) ELSE 0
<1>1. SelectInSeq(q, LAMBDA l : l.adv = lsa.adv) = i
  BY Zenon DEF SelectInSeq
<1>2. i = ospf_lsReq_searchFromList(q, lsa.adv)
  BY Zenon DEF ospf_lsReq_searchFromList, SelectInSeq
<1>3. i \in 0..Len(q) /\ Len(q) \in Nat
  BY <1>2, SearchRange, LenProperties DEF IsList
<1> HIDE DEF i
<1>4. ospf_lsa_queueToFlood(q, lsa) \in {q, Append(q, lsa)} 
      \/ (i # 0 /\ ospf_lsa_queueToFlood(q, lsa) = Append(RemoveAt(q, i), lsa))
  BY <1>1 DEF ospf_lsa_queueToFlood
<1>5. IsList(Append(q, lsa))
  BY ListAppend
<1>6. ASSUME i # 0 PROVE IsList(Append(RemoveAt(q, i), lsa))
  BY <1>3, <1>6, ListRemoveAt, ListAppend
<1> QED
  BY <1>4, <1>5, <1>6
-----------------------------------------------------------------------------
(* Flooding and updates.                                                   *)

\* Flooding is calm: at most it completes Loading (ospf_lsa_flood).
LEMMA CalmFlood ==
    ASSUME NEW R, NEW r, NEW lsa, NEW src, IsRouter(R, r)
    PROVE  Calm(R, ospf_lsa_flood(R, lsa, src), r)
<1> DEFINE item(s) == ospf_lsReq_searchFromList(R.nbr[s].req, lsa.adv)
           pending(s) == Exchanging(R.nbr[s]) /\ R.nbr[s].state # "Full" /\ item(s) # 0
           newer(s) == pending(s) /\ ospf_lsa_compare(R.nbr[s].req[item(s)], lsa) < 0
           answered(s) == pending(s) /\ ~newer(s)
           req(s) == IF answered(s) THEN RemoveAt(R.nbr[s].req, item(s)) ELSE R.nbr[s].req
           done(s) == answered(s) /\ req(s) = <<>> /\ R.nbr[s].state = "Loading"
           add(s) == /\ Exchanging(R.nbr[s]) /\ ~newer(s) /\ s # src
                     /\ ~(done(s) /\ ospf_lsa_compare(R.nbr[s].req[item(s)], lsa) = 0)
           rxt(s) == Others(R.nbr[s].rxt, lsa.adv)
           nbr(s) == [R.nbr[s] EXCEPT !.req = req(s),
                                      !.rxt = IF add(s) THEN Append(rxt(s), lsa) ELSE rxt(s),
                                      !.state = IF done(s) THEN "Full" ELSE @]
           A == [R EXCEPT
                   !.nbr = [s \in DOMAIN @ |-> nbr(s)],
                   !.update = [s \in DOMAIN @ |->
                                 IF add(s) THEN ospf_lsa_queueToFlood(@[s], lsa) ELSE @[s]],
                   !.isFloodTimerSet = [s \in DOMAIN @ |-> @[s] \/ add(s)]]
<1>1. ospf_lsa_flood(R, lsa, src)
        = IF \E s \in DOMAIN R.nbr : done(s) THEN ospf_lsa_schedule_routerLSA(A) ELSE A
  BY Zenon DEF ospf_lsa_flood
<1>2. \A s : done(s) => R.nbr[s].state = "Loading"
  OBVIOUS
<1>3. \A s \in Peers(r) : IsList(req(s))
  <2>1. SUFFICES ASSUME NEW s \in Peers(r), item(s) # 0
                 PROVE  IsList(RemoveAt(R.nbr[s].req, item(s)))
    BY Zenon DEF IsRouter, IsNeighbor
  <2>2. IsList(R.nbr[s].req)
    BY DEF IsRouter, IsNeighbor
  <2>3. item(s) \in 0..Len(R.nbr[s].req) /\ Len(R.nbr[s].req) \in Nat
    BY <2>2, SearchRange, LenProperties DEF IsList
  <2> HIDE DEF item
  <2> QED
    BY <2>1, <2>2, <2>3, ListRemoveAt
<1> HIDE DEF item, pending, newer, answered, req, done, add, rxt
<1>4. \A s \in Peers(r) :
         /\ IsNeighbor(nbr(s))
         /\ nbr(s).DDSeqNo = R.nbr[s].DDSeqNo /\ nbr(s).isMaster = R.nbr[s].isMaster
         /\ nbr(s).state = R.nbr[s].state \/ (R.nbr[s].state = "Loading" /\ nbr(s).state = "Full")
  BY <1>2, <1>3 DEF IsRouter, IsNeighbor, NeighborFields
<1> HIDE DEF nbr
<1>5. Calm(R, A, r)
  <2>1. /\ DOMAIN A = RouterFields /\ A.id = r /\ A.out = R.out
        /\ A.nbr = [s \in Peers(r) |-> nbr(s)]
        /\ A.update = [s \in Peers(r) |->
                         IF add(s) THEN ospf_lsa_queueToFlood(R.update[s], lsa) ELSE R.update[s]]
    BY DEF IsRouter, RouterFields
  <2>2. \A s \in Peers(r) : IsList(A.update[s])
    BY <2>1, ListQueue DEF IsRouter
  <2> HIDE DEF A
  <2> QED
    BY <1>4, <2>1, <2>2 DEF Calm, IsRouter
<1> HIDE DEF A
<1>6. Calm(R, ospf_lsa_schedule_routerLSA(A), r)
  BY <1>5, CalmRouter, CalmSchedule, CalmTrans
<1> QED
  BY <1>1, <1>5, <1>6

\* Installing an LSA is calm (ospf_lsdb_install).
LEMMA CalmInstall ==
    ASSUME NEW R, NEW r, NEW lsa, IsRouter(R, r)
    PROVE  Calm(R, ospf_lsdb_install(R, lsa), r)
<1> DEFINE X == ospf_lsdb_install(R, lsa)
<1>1. DOMAIN X = RouterFields /\ X.id = r /\ X.nbr = R.nbr /\ X.out = R.out /\ X.update = R.update
  BY DEF ospf_lsdb_install, IsRouter, RouterFields
<1> QED
  BY <1>1, CalmFields

\* Updating the database is calm (ospf_lsdb_update).
LEMMA CalmUpdate ==
    ASSUME NEW R, NEW r, NEW s \in Peers(r), NEW lsa, NEW early, IsRouter(R, r)
    PROVE  Calm(R, ospf_lsdb_update(R, s, lsa, early), r)
<1> DEFINE F == ospf_lsa_flood(R, lsa, s)
           A == [F EXCEPT !.delayedAck[s] = Append(@, Header(lsa))]
           B == ospf_lsdb_install(A, lsa)
           C == [B EXCEPT !.db[lsa.adv].seq = lsa.seq + 1]
           D == ospf_lsa_schedule_routerLSA(C)
<1>1. ospf_lsdb_update(R, s, lsa, early) \in {R, B, D}
  BY DEF ospf_lsdb_update
<1>2. Calm(R, F, r)
  BY CalmFlood
<1> HIDE DEF F
<1>3. Calm(F, A, r)
  <2>1. IsRouter(F, r)
    BY <1>2, CalmRouter
  <2>2. DOMAIN A = RouterFields /\ A.id = r /\ A.nbr = F.nbr /\ A.out = F.out /\ A.update = F.update
    BY <2>1 DEF IsRouter, RouterFields
  <2> HIDE DEF A
  <2> QED
    BY <2>1, <2>2, CalmFields
<1> HIDE DEF A
<1>4. Calm(A, B, r)
  BY <1>3, CalmRouter, CalmInstall
<1> HIDE DEF B
<1>5. Calm(B, C, r)
  <2>1. IsRouter(B, r)
    BY <1>4, CalmRouter
  <2>2. DOMAIN C = RouterFields /\ C.id = r /\ C.nbr = B.nbr /\ C.out = B.out /\ C.update = B.update
    BY <2>1 DEF IsRouter, RouterFields
  <2> HIDE DEF C
  <2> QED
    BY <2>1, <2>2, CalmFields
<1> HIDE DEF C
<1>6. Calm(C, D, r)
  BY <1>5, CalmRouter, CalmSchedule
<1> HIDE DEF D
<1>7. Calm(R, B, r)
  BY <1>2, <1>3, <1>4, CalmTrans
<1>8. Calm(R, D, r)
  BY <1>5, <1>6, <1>7, CalmTrans
<1>9. Calm(R, R, r)
  BY CalmSame
<1> QED
  BY <1>1, <1>7, <1>8, <1>9

\* One LSA of an update is calm.
LEMMA CalmReceiveLsa ==
    ASSUME NEW R, NEW r, NEW s \in Peers(r), NEW lsa, NEW early, IsRouter(R, r)
    PROVE  Calm(R, ReceiveLsa(R, s, lsa, early).R, r)
<1> DEFINE U == ospf_lsdb_update(R, s, lsa, early)
           V == [R EXCEPT !.nbr[s].rxt = RemoveAt(@, OtherInstance(R.nbr[s].rxt, lsa))]
<1>1. ReceiveLsa(R, s, lsa, early).R \in {U, V, R}
  BY DEF ReceiveLsa
<1>2. Calm(R, U, r)
  BY CalmUpdate
<1>3. Calm(R, V, r)
  <2> DEFINE n == [R.nbr[s] EXCEPT !.rxt = RemoveAt(@, OtherInstance(R.nbr[s].rxt, lsa))]
  <2>1. V = [R EXCEPT !.nbr[s] = n]
    OBVIOUS
  <2>2. /\ IsNeighbor(n) /\ n.state = R.nbr[s].state /\ n.DDSeqNo = R.nbr[s].DDSeqNo
        /\ n.isMaster = R.nbr[s].isMaster
    BY DEF IsRouter, IsNeighbor, NeighborFields
  <2> HIDE DEF n, V
  <2> QED
    BY <2>1, <2>2, CalmNeighbor
<1>4. Calm(R, R, r)
  BY CalmSame
<1> QED
  BY <1>1, <1>2, <1>3, <1>4

\* The LSAs of an update: each one leaves the exchange alone, so all do.
LEMMA CalmReceiveLsas ==
    ASSUME NEW R, NEW r, NEW s \in Peers(r), NEW lsas, NEW early, IsRouter(R, r), IsList(lsas)
    PROVE  Calm(R, ReceiveLsas(R, s, lsas, early).R, r)
<1> DEFINE Step(x, i) ==
             Joined(x.acks, ReceiveLsa(x.R, s, lsas[i], lsas[i].adv \in early))
           Body(f, i) == IF i = 0 THEN [R |-> R, acks |-> <<>>] ELSE Step(f[i - 1], i)
           Upto(n, f) == f = [i \in 0..n |-> Body(f, i)]
           up == CHOOSE f : Upto(Len(lsas), f)
<1>1. Len(lsas) \in Nat
  BY LenProperties DEF IsList
<1>2. ReceiveLsas(R, s, lsas, early) = up[Len(lsas)]
  BY Zenon DEF ReceiveLsas
<1>3. \A x, i : Calm(x.R, Step(x, i).R, r) \/ ~IsRouter(x.R, r)
  BY CalmReceiveLsa DEF Joined
<1> HIDE DEF Step
<1>4. \A n \in Nat : \E f : Upto(n, f)
  <2> DEFINE T == {n \in Nat : ~\E f : Upto(n, f)}
  <2>1. SUFFICES ASSUME T # {} PROVE FALSE
    OBVIOUS
  <2>2. PICK n \in T : \A m \in T : n <= m
    BY <2>1, LeastNumber
  <2>3. n # 0
    <3> DEFINE f == [i \in 0..0 |-> [R |-> R, acks |-> <<>>]]
    <3>1. Upto(0, f)
      OBVIOUS
    <3> QED
      BY <2>2, <3>1
  <2>4. PICK f : Upto(n - 1, f)
    <3>1. n \in Nat /\ n - 1 \in Nat
      BY <2>3
    <3> HIDE DEF Upto
    <3>2. n - 1 \notin T
      <4> HIDE DEF T
      <4> QED
        BY <2>2, <3>1
    <3> QED
      BY <3>1, <3>2
  <2> DEFINE g == [i \in 0..n |-> IF i = n THEN Step(f[n - 1], n) ELSE f[i]]
  <2>5. \A i \in 0..n : g[i] = Body(g, i)
    BY <2>2, <2>3, <2>4
  <2>6. Upto(n, g)
    BY <2>5
  <2> QED
    BY <2>2, <2>6
<1>5. Upto(Len(lsas), up)
  BY <1>1, <1>4
<1> HIDE DEF up
<1>6. \A i \in 0..Len(lsas) : up[i] = Body(up, i)
  BY <1>5
<1>7. \A n \in 0..Len(lsas) : Calm(R, up[n].R, r)
  <2> DEFINE T == {n \in 0..Len(lsas) : ~Calm(R, up[n].R, r)}
  <2>1. SUFFICES ASSUME T # {} PROVE FALSE
    OBVIOUS
  <2>2. PICK n \in T : \A m \in T : n <= m
    <3>1. T \subseteq Nat
      BY <1>1
    <3> HIDE DEF T
    <3> QED
      BY <2>1, <3>1, LeastNumber
  <2>3. n # 0
    BY <1>1, <1>6, <2>2, CalmSame
  <2>4. Calm(R, up[n - 1].R, r)
    BY <1>1, <2>2, <2>3
  <2>5. Calm(up[n - 1].R, up[n].R, r)
    BY <1>1, <1>3, <1>6, <2>2, <2>3, <2>4, CalmRouter
  <2> QED
    BY <2>2, <2>4, <2>5, CalmTrans
<1> QED
  BY <1>1, <1>2, <1>7
\* The request list after a description stays a list.
LEMMA ListWanted ==
    ASSUME NEW R, NEW s, NEW dd, IsList(R.nbr[s].req), IsList(dd.hdrs)
    PROVE  IsList(Wanted(R, s, dd))
<1> DEFINE Step(q, i) == IF ospf_lsa_compare(R.db[dd.hdrs[i].adv], dd.hdrs[i]) > 0
                         THEN ospf_lsreq_insertToList(q, dd.hdrs[i]) ELSE q
           Body(f, i) == IF i = 0 THEN R.nbr[s].req ELSE Step(f[i - 1], i)
           Upto(n, f) == f = [i \in 0..n |-> Body(f, i)]
           up == CHOOSE f : Upto(Len(dd.hdrs), f)
<1>1. Len(dd.hdrs) \in Nat
  BY LenProperties DEF IsList
<1>2. Wanted(R, s, dd) = up[Len(dd.hdrs)]
  BY Zenon DEF Wanted
<1>3. \A q, i : IsList(q) => IsList(Step(q, i))
  BY ListInsert
<1> HIDE DEF Step
<1>4. \A n \in Nat : \E f : Upto(n, f)
  <2> DEFINE T == {n \in Nat : ~\E f : Upto(n, f)}
  <2>1. SUFFICES ASSUME T # {} PROVE FALSE
    OBVIOUS
  <2>2. PICK n \in T : \A m \in T : n <= m
    BY <2>1, LeastNumber
  <2>3. n # 0
    <3> DEFINE f == [i \in 0..0 |-> R.nbr[s].req]
    <3>1. Upto(0, f)
      OBVIOUS
    <3> QED
      BY <2>2, <3>1
  <2>4. PICK f : Upto(n - 1, f)
    <3>1. n \in Nat /\ n - 1 \in Nat
      BY <2>3
    <3> HIDE DEF Upto
    <3>2. n - 1 \notin T
      <4> HIDE DEF T
      <4> QED
        BY <2>2, <3>1
    <3> QED
      BY <3>1, <3>2
  <2> DEFINE g == [i \in 0..n |-> IF i = n THEN Step(f[n - 1], n) ELSE f[i]]
  <2>5. \A i \in 0..n : g[i] = Body(g, i)
    BY <2>2, <2>3, <2>4
  <2>6. Upto(n, g)
    BY <2>5
  <2> QED
    BY <2>2, <2>6
<1>5. Upto(Len(dd.hdrs), up)
  BY <1>1, <1>4
<1> HIDE DEF up
<1>6. \A i \in 0..Len(dd.hdrs) : up[i] = Body(up, i)
  BY <1>5
<1>7. \A n \in 0..Len(dd.hdrs) : IsList(up[n])
  <2> DEFINE T == {n \in 0..Len(dd.hdrs) : ~IsList(up[n])}
  <2>1. SUFFICES ASSUME T # {} PROVE FALSE
    OBVIOUS
  <2>2. PICK n \in T : \A m \in T : n <= m
    <3>1. T \subseteq Nat
      BY <1>1
    <3> HIDE DEF T
    <3> QED
      BY <2>1, <3>1, LeastNumber
  <2>3. n # 0
    BY <1>1, <1>6, <2>2
  <2>4. IsList(up[n - 1])
    BY <1>1, <2>2, <2>3
  <2> QED
    BY <1>1, <1>3, <1>6, <2>2, <2>3, <2>4
<1> QED
  BY <1>1, <1>2, <1>7

\* The update list with the requested LSAs stays a list.
LEMMA ListRequested ==
    ASSUME NEW R, NEW s, NEW advs, IsList(R.update[s]), IsList(advs)
    PROVE  IsList(QueueRequested(R, s, advs))
<1> DEFINE Step(q, i) == ospf_lsa_queueToFlood(q, R.db[advs[i]])
           Body(f, i) == IF i = 0 THEN R.update[s] ELSE Step(f[i - 1], i)
           Upto(n, f) == f = [i \in 0..n |-> Body(f, i)]
           up == CHOOSE f : Upto(Len(advs), f)
<1>1. Len(advs) \in Nat
  BY LenProperties DEF IsList
<1>2. QueueRequested(R, s, advs) = up[Len(advs)]
  BY Zenon DEF QueueRequested
<1>3. \A q, i : IsList(q) => IsList(Step(q, i))
  BY ListQueue
<1> HIDE DEF Step
<1>4. \A n \in Nat : \E f : Upto(n, f)
  <2> DEFINE T == {n \in Nat : ~\E f : Upto(n, f)}
  <2>1. SUFFICES ASSUME T # {} PROVE FALSE
    OBVIOUS
  <2>2. PICK n \in T : \A m \in T : n <= m
    BY <2>1, LeastNumber
  <2>3. n # 0
    <3> DEFINE f == [i \in 0..0 |-> R.update[s]]
    <3>1. Upto(0, f)
      OBVIOUS
    <3> QED
      BY <2>2, <3>1
  <2>4. PICK f : Upto(n - 1, f)
    <3>1. n \in Nat /\ n - 1 \in Nat
      BY <2>3
    <3> HIDE DEF Upto
    <3>2. n - 1 \notin T
      <4> HIDE DEF T
      <4> QED
        BY <2>2, <3>1
    <3> QED
      BY <3>1, <3>2
  <2> DEFINE g == [i \in 0..n |-> IF i = n THEN Step(f[n - 1], n) ELSE f[i]]
  <2>5. \A i \in 0..n : g[i] = Body(g, i)
    BY <2>2, <2>3, <2>4
  <2>6. Upto(n, g)
    BY <2>5
  <2> QED
    BY <2>2, <2>6
<1>5. Upto(Len(advs), up)
  BY <1>1, <1>4
<1> HIDE DEF up
<1>6. \A i \in 0..Len(advs) : up[i] = Body(up, i)
  BY <1>5
<1>7. \A n \in 0..Len(advs) : IsList(up[n])
  <2> DEFINE T == {n \in 0..Len(advs) : ~IsList(up[n])}
  <2>1. SUFFICES ASSUME T # {} PROVE FALSE
    OBVIOUS
  <2>2. PICK n \in T : \A m \in T : n <= m
    <3>1. T \subseteq Nat
      BY <1>1
    <3> HIDE DEF T
    <3> QED
      BY <2>1, <3>1, LeastNumber
  <2>3. n # 0
    BY <1>1, <1>6, <2>2
  <2>4. IsList(up[n - 1])
    BY <1>1, <2>2, <2>3
  <2> QED
    BY <1>1, <1>3, <1>6, <2>2, <2>3, <2>4
<1> QED
  BY <1>1, <1>2, <1>7

\* A finite set as a sequence.
LEMMA SetAsList ==
    ASSUME NEW S, IsFiniteSet(S)
    PROVE  SetToSeq(S) \in [1..Cardinality(S) -> S] /\ Cardinality(S) \in Nat
<1>1. Cardinality(S) \in Nat
  BY FS_CardinalityType
<1>2. ExistsBijection(1..Cardinality(S), S)
  BY FS_CountingElements, FS_NatBijection, FS_CardinalityType
<1>3. PICK f \in Bijection(1..Cardinality(S), S) : TRUE
  BY <1>2 DEF ExistsBijection
<1>4. f \in [1..Cardinality(S) -> S]
  BY <1>3 DEF Bijection, Injection
<1>5. IsInjective(f)
  BY <1>3, <1>4 DEF Bijection, Injection, IsInjective
<1> QED
  BY <1>1, <1>4, <1>5 DEF SetToSeq

\* The headers of the database are a list.
LEMMA ListDescribed ==
    ASSUME NEW R
    PROVE  IsList(Described(R))
<1> DEFINE S == {o \in Router : R.db[o].seq > 0}
           own == SetToSeq(S)
           d == [i \in DOMAIN own |-> Header(R.db[own[i]])]
<1>1. IsFiniteSet(S)
  BY OspfAssumption, FS_Subset
<1>2. DOMAIN own = 1..Cardinality(S) /\ Cardinality(S) \in Nat
  BY <1>1, SetAsList
<1>3. Described(R) = d
  BY Zenon DEF Described
<1> HIDE DEF own
<1>4. d = [i \in 1..Cardinality(S) |-> Header(R.db[own[i]])]
  BY <1>2
<1>5. DOMAIN d = 1..Cardinality(S) /\ \A i \in 1..Cardinality(S) : d[i] \in Range(d)
  BY <1>4, Zenon DEF Range
<1>6. d \in [1..Cardinality(S) -> Range(d)]
  BY <1>4, <1>5
<1> HIDE DEF d, S
<1>7. d \in Seq(Range(d))
  BY <1>2, <1>6
<1> QED
  BY <1>3, <1>7 DEF IsList
-----------------------------------------------------------------------------
(* Requests, updates and acknowledgements.                                 *)

\* What a request list asks for is a list.
LEMMA ListAdvs ==
    ASSUME NEW q, IsList(q)
    PROVE  IsList([i \in DOMAIN q |-> q[i].adv])
<1> DEFINE d == [i \in DOMAIN q |-> q[i].adv]
<1>1. DOMAIN q = 1..Len(q) /\ Len(q) \in Nat
  BY LenProperties DEF IsList
<1>2. d \in [1..Len(q) -> Range(d)]
  BY <1>1 DEF Range
<1>3. d \in Seq(Range(d))
  BY <1>1, <1>2, SeqDef
<1> QED
  BY <1>3 DEF IsList

\* Setting or clearing the request timer is calm.
LEMMA CalmReqTimer ==
    ASSUME NEW R, NEW r, NEW s \in Peers(r), NEW v, IsRouter(R, r)
    PROVE  Calm(R, [R EXCEPT !.nbr[s].reqTimer = v], r)
<1> DEFINE n == [R.nbr[s] EXCEPT !.reqTimer = v]
           X == [R EXCEPT !.nbr[s].reqTimer = v]
<1>1. X = [R EXCEPT !.nbr[s] = n]
  OBVIOUS
<1>2. /\ IsNeighbor(n) /\ n.state = R.nbr[s].state /\ n.DDSeqNo = R.nbr[s].DDSeqNo
      /\ n.isMaster = R.nbr[s].isMaster
  BY DEF IsRouter, IsNeighbor, NeighborFields
<1> HIDE DEF n, X
<1>3. Calm(R, X, r)
  BY <1>1, <1>2, CalmNeighbor
<1> QED
  BY <1>3 DEF X

\* Setting or clearing the description timer is calm.
LEMMA CalmDDTimer ==
    ASSUME NEW R, NEW r, NEW s \in Peers(r), NEW v, IsRouter(R, r)
    PROVE  /\ Calm(R, [R EXCEPT !.nbr[s].ddTimer = v], r)
           /\ [R EXCEPT !.nbr[s].ddTimer = v].out = R.out
           /\ \A q \in Peers(r) : q # s => [R EXCEPT !.nbr[s].ddTimer = v].nbr[q] = R.nbr[q]
<1> DEFINE n == [R.nbr[s] EXCEPT !.ddTimer = v]
           X == [R EXCEPT !.nbr[s].ddTimer = v]
<1>1. X = [R EXCEPT !.nbr[s] = n]
  OBVIOUS
<1>2. /\ IsNeighbor(n) /\ n.state = R.nbr[s].state /\ n.DDSeqNo = R.nbr[s].DDSeqNo
      /\ n.isMaster = R.nbr[s].isMaster
  BY DEF IsRouter, IsNeighbor, NeighborFields
<1> HIDE DEF n, X
<1>3. Calm(R, X, r)
  BY <1>1, <1>2, CalmNeighbor
<1>4. X.out = R.out /\ \A q \in Peers(r) : q # s => X.nbr[q] = R.nbr[q]
  BY <1>1 DEF IsRouter, RouterFields
<1> QED
  BY <1>3, <1>4 DEF X

\* Sending a request is calm (ospf_lsreq_send).
LEMMA CalmLsreqSend ==
    ASSUME NEW R, NEW r, NEW s \in Peers(r), IsRouter(R, r)
    PROVE  Calm(R, ospf_lsreq_send(R, s), r)
<1> DEFINE A == [R EXCEPT !.nbr[s].reqTimer = TRUE]
           p == [type |-> "LSREQ",
                 advs |-> [i \in DOMAIN R.nbr[s].req |-> R.nbr[s].req[i].adv]]
<1>1. ospf_lsreq_send(R, s) = OSPF_SEND_PACKET(A, s, p)
  BY Zenon DEF ospf_lsreq_send
<1>2. Calm(R, A, r)
  BY CalmReqTimer
<1>3. IsPacket(p) /\ p.type # "DD"
  <2>1. IsList(R.nbr[s].req)
    BY DEF IsRouter, IsNeighbor
  <2>2. IsList(p.advs)
    BY <2>1, ListAdvs
  <2> QED
    BY <2>2 DEF IsPacket
<1> HIDE DEF A, p
<1>4. Calm(A, OSPF_SEND_PACKET(A, s, p), r)
  BY <1>2, <1>3, CalmRouter, CalmSend
<1> QED
  BY <1>1, <1>2, <1>4, CalmTrans

\* A change to a state other than ExStart changes nothing else of a neighbor.
LEMMA ChangeState ==
    ASSUME NEW R, NEW r, NEW s \in Peers(r), NEW st, IsRouter(R, r), st # "ExStart"
    PROVE  LET X == ospf_neighbor_change_state(R, s, st)
           IN  /\ IsRouter(X, r) /\ X.out = R.out /\ X.update = R.update
               /\ X.nbr[s] = [R.nbr[s] EXCEPT !.state = st]
               /\ \A q \in Peers(r) : q # s => X.nbr[q] = R.nbr[q]
<1> DEFINE A == [R EXCEPT !.nbr[s].state = st]
           X == ospf_neighbor_change_state(R, s, st)
<1>1. X \in {A, ospf_lsa_schedule_routerLSA(A)}
  BY DEF ospf_neighbor_change_state
<1>2. /\ DOMAIN A = RouterFields /\ A.id = r /\ A.out = R.out /\ A.update = R.update
      /\ A.nbr = [R.nbr EXCEPT ![s] = [R.nbr[s] EXCEPT !.state = st]]
  BY DEF IsRouter, RouterFields
<1> HIDE DEF A
<1>3. /\ DOMAIN X = RouterFields /\ X.id = r /\ X.out = R.out /\ X.update = R.update
      /\ X.nbr = A.nbr
  BY <1>1, <1>2 DEF ospf_lsa_schedule_routerLSA, RouterFields
<1> HIDE DEF X
<1>4. /\ DOMAIN X.nbr = Peers(r) /\ X.nbr[s] = [R.nbr[s] EXCEPT !.state = st]
      /\ \A q \in Peers(r) : q # s => X.nbr[q] = R.nbr[q]
  BY <1>2, <1>3 DEF IsRouter
<1>5. IsNeighbor(X.nbr[s])
  BY <1>4 DEF IsRouter, IsNeighbor, NeighborFields
<1>6. IsRouter(X, r)
  BY <1>3, <1>4, <1>5 DEF IsRouter
<1> QED
  BY <1>3, <1>4, <1>6 DEF X

\* loadingDone is calm: the neighbor was Loading and becomes Full.
LEMMA CalmLoadingDone ==
    ASSUME NEW R, NEW r, NEW s \in Peers(r), IsRouter(R, r)
    PROVE  Calm(R, loadingDone(R, s), r)
<1>1. CASE R.nbr[s].state = "Loading"
  <2> DEFINE X == ospf_neighbor_change_state(R, s, "Full")
  <2>1. loadingDone(R, s) = X
    BY <1>1 DEF loadingDone
  <2>2. /\ IsRouter(X, r) /\ X.out = R.out
        /\ X.nbr[s] = [R.nbr[s] EXCEPT !.state = "Full"]
        /\ \A q \in Peers(r) : q # s => X.nbr[q] = R.nbr[q]
    BY ChangeState
  <2> HIDE DEF X
  <2>3. /\ X.nbr[s].state = "Full" /\ X.nbr[s].DDSeqNo = R.nbr[s].DDSeqNo
        /\ X.nbr[s].isMaster = R.nbr[s].isMaster
    BY <2>2 DEF IsRouter, IsNeighbor, NeighborFields
  <2> QED
    BY <1>1, <2>1, <2>2, <2>3 DEF Calm
<1>2. CASE R.nbr[s].state # "Loading"
  BY <1>2, CalmSame DEF loadingDone
<1> QED
  BY <1>1, <1>2

\* An update received is calm (ospf_handle_LSUPDATE).
LEMMA CalmLSUPDATE ==
    ASSUME NEW R, NEW r, NEW s \in Peers(r), NEW p, NEW early, NEW next,
           IsRouter(R, r), IsList(p.lsas)
    PROVE  Calm(R, ospf_handle_LSUPDATE(R, s, p, early, next), r)
<1> DEFINE all == ReceiveLsas(R, s, p.lsas, early)
           k == [type |-> "LSACK", hdrs |-> all.acks]
           A == SendAcks(all, s)
           B == [A EXCEPT !.nbr[s].reqTimer = FALSE]
<1>1. ospf_handle_LSUPDATE(R, s, p, early, next)
        \in {R, loadingDone(B, s), ospf_lsreq_send(A, s), A}
  BY Zenon DEF ospf_handle_LSUPDATE, Requests
<1>2. Calm(R, all.R, r)
  BY CalmReceiveLsas
<1>3. IsPacket(k) /\ k.type # "DD"
  BY DEF IsPacket
<1>4. A = IF all.acks = <<>> THEN all.R ELSE OSPF_SEND_PACKET(all.R, s, k)
  BY DEF SendAcks
<1> HIDE DEF all, k, A
<1>5. Calm(R, A, r)
  BY <1>2, <1>3, <1>4, CalmRouter, CalmSend, CalmTrans
<1>6. Calm(A, B, r)
  BY <1>5, CalmRouter, CalmReqTimer
<1> HIDE DEF B
<1>7. Calm(B, loadingDone(B, s), r)
  BY <1>6, CalmRouter, CalmLoadingDone
<1>8. Calm(R, loadingDone(B, s), r)
  BY <1>5, <1>6, <1>7, CalmTrans
<1>9. Calm(R, ospf_lsreq_send(A, s), r)
  BY <1>5, CalmRouter, CalmLsreqSend, CalmTrans
<1>10. Calm(R, R, r)
  BY CalmSame
<1> QED
  BY <1>1, <1>5, <1>8, <1>9, <1>10

\* Sending the update list is calm.
LEMMA CalmSendUpdates ==
    ASSUME NEW R, NEW r, NEW s \in Peers(r), IsRouter(R, r)
    PROVE  Calm(R, SendUpdates(R, s), r)
<1> DEFINE A == [R EXCEPT !.update[s] = <<>>]
           p == [type |-> "LSU", lsas |-> R.update[s]]
<1>1. SendUpdates(R, s) \in {R, OSPF_SEND_PACKET(A, s, p)}
  BY Zenon DEF SendUpdates
<1>2. Calm(R, A, r)
  BY CalmUpdateList, ListEmpty
<1>3. IsPacket(p) /\ p.type # "DD"
  BY DEF IsRouter, IsPacket
<1> HIDE DEF A, p
<1>4. Calm(A, OSPF_SEND_PACKET(A, s, p), r)
  BY <1>2, <1>3, CalmRouter, CalmSend
<1>5. Calm(R, R, r)
  BY CalmSame
<1> QED
  BY <1>1, <1>2, <1>4, <1>5, CalmTrans

\* Setting or clearing the flood timer is calm.
LEMMA CalmFloodFlag ==
    ASSUME NEW R, NEW r, NEW s, NEW v, IsRouter(R, r)
    PROVE  Calm(R, [R EXCEPT !.isFloodTimerSet[s] = v], r)
<1> DEFINE X == [R EXCEPT !.isFloodTimerSet[s] = v]
<1>1. DOMAIN X = RouterFields /\ X.id = r /\ X.nbr = R.nbr /\ X.out = R.out /\ X.update = R.update
  BY DEF IsRouter, RouterFields
<1> HIDE DEF X
<1>2. Calm(R, X, r)
  BY <1>1, CalmFields
<1> QED
  BY <1>2 DEF X

\* A request received is calm (ospf_handle_LSRequest).
LEMMA CalmLSRequest ==
    ASSUME NEW R, NEW r, NEW s \in Peers(r), NEW p, IsRouter(R, r), IsList(p.advs)
    PROVE  Calm(R, ospf_handle_LSRequest(R, s, p), r)
<1> DEFINE A == [R EXCEPT !.update[s] = QueueRequested(R, s, p.advs)]
           B == [A EXCEPT !.isFloodTimerSet[s] = TRUE]
<1>1. ospf_handle_LSRequest(R, s, p) \in {R, B, SendUpdates(A, s)}
  BY Zenon DEF ospf_handle_LSRequest
<1>2. Calm(R, A, r)
  <2>1. IsList(R.update[s])
    BY DEF IsRouter
  <2> QED
    BY <2>1, ListRequested, CalmUpdateList
<1> HIDE DEF A
<1>3. Calm(A, B, r)
  BY <1>2, CalmRouter, CalmFloodFlag
<1> HIDE DEF B
<1>4. Calm(A, SendUpdates(A, s), r)
  BY <1>2, CalmRouter, CalmSendUpdates
<1>5. Calm(R, R, r)
  BY CalmSame
<1> QED
  BY <1>1, <1>2, <1>3, <1>4, <1>5, CalmTrans

\* An acknowledgement received is calm (ospf_handle_LSAck).
LEMMA CalmLSAck ==
    ASSUME NEW R, NEW r, NEW s \in Peers(r), NEW p, IsRouter(R, r)
    PROVE  Calm(R, ospf_handle_LSAck(R, s, p), r)
<1> DEFINE v == AllAcknowledged(R.nbr[s].rxt, p.hdrs)
           n == [R.nbr[s] EXCEPT !.rxt = v]
           X == [R EXCEPT !.nbr[s].rxt = v]
<1>1. ospf_handle_LSAck(R, s, p) \in {R, X}
  BY Zenon DEF ospf_handle_LSAck
<1> HIDE DEF v
<1>2. X = [R EXCEPT !.nbr[s] = n]
  OBVIOUS
<1>3. /\ IsNeighbor(n) /\ n.state = R.nbr[s].state /\ n.DDSeqNo = R.nbr[s].DDSeqNo
      /\ n.isMaster = R.nbr[s].isMaster
  BY DEF IsRouter, IsNeighbor, NeighborFields
<1> HIDE DEF n, X
<1>4. Calm(R, X, r)
  BY <1>2, <1>3, CalmNeighbor
<1> QED
  BY <1>1, <1>4, CalmSame

\* Originating the router LSA is calm (ospf_rlsa_originateRouterLSA).
LEMMA CalmOriginate ==
    ASSUME NEW R, NEW r, IsRouter(R, r)
    PROVE  Calm(R, ospf_rlsa_originateRouterLSA(R), r)
<1> DEFINE full == {s \in DOMAIN R.nbr : R.nbr[s].state = "Full"}
           lsa == [adv |-> R.id, seq |-> R.db[R.id].seq + 1, links |-> full]
           A == [R EXCEPT !.isRouterLSTimer = FALSE]
           B == ospf_lsa_flood(A, lsa, R.id)
<1>1. ospf_rlsa_originateRouterLSA(R) = ospf_lsdb_install(B, lsa)
  BY Zenon DEF ospf_rlsa_originateRouterLSA
<1> HIDE DEF lsa
<1>2. Calm(R, A, r)
  <2>1. DOMAIN A = RouterFields /\ A.id = r /\ A.nbr = R.nbr /\ A.out = R.out /\ A.update = R.update
    BY DEF IsRouter, RouterFields
  <2> HIDE DEF A
  <2> QED
    BY <2>1, CalmFields
<1> HIDE DEF A
<1>3. Calm(A, B, r)
  BY <1>2, CalmRouter, CalmFlood
<1> HIDE DEF B
<1>4. Calm(B, ospf_lsdb_install(B, lsa), r)
  BY <1>3, CalmRouter, CalmInstall
<1> QED
  BY <1>1, <1>2, <1>3, <1>4, CalmTrans
-----------------------------------------------------------------------------
(* Handlers of the database exchange with neighbor s.                      *)

Only(R, X, r, s) ==
    /\ IsRouter(X, r)
    /\ \A q \in Peers(r) : q # s => X.nbr[q] = R.nbr[q] /\ X.out[q] = R.out[q]

SameRole(n, x) == x.state = n.state /\ x.DDSeqNo = n.DDSeqNo /\ x.isMaster = n.isMaster

\* The description that opens the negotiation, and one of the exchange.
IsFirst(d, r) == d.I /\ d.MS /\ d.seq = FirstSeq[r]
IsLater(d, n) == ~d.I /\ d.MS = n.isMaster /\ d.seq = n.DDSeqNo

\* Steps that concern neighbor s alone compose.
LEMMA OnlyTrans ==
    ASSUME NEW R, NEW X, NEW Y, NEW r, NEW s, Only(R, X, r, s), Only(X, Y, r, s)
    PROVE  Only(R, Y, r, s)
  BY DEF Only

\* Doing nothing concerns neighbor s alone.
LEMMA OnlySame ==
    ASSUME NEW R, NEW r, NEW s, IsRouter(R, r)
    PROVE  Only(R, R, r, s)
  BY DEF Only

\* A part of a list is a list.
LEMMA ListSubSeq ==
    ASSUME NEW q, IsList(q), NEW a \in Nat, NEW b \in Nat, a >= 1, b <= Len(q)
    PROVE  IsList(SubSeq(q, a, b))
<1>1. Len(q) \in Nat
  BY LenProperties DEF IsList
<1>2. \A i \in a..b : q[i] \in Range(q)
  <2>1. DOMAIN q = 1..Len(q)
    BY LenProperties DEF IsList
  <2> QED
    BY <1>1, <2>1 DEF Range
<1>3. SubSeq(q, a, b) \in Seq(Range(q))
  BY <1>2, SubSeqProperties
<1> QED
  BY <1>3, SeqOfRange, Zenon DEF IsList

\* X differs from R in neighbor s alone.
LEMMA OnlyNeighbor ==
    ASSUME NEW R, NEW X, NEW r, NEW s \in Peers(r), IsRouter(R, r), IsNeighbor(X.nbr[s]),
           DOMAIN X = RouterFields, X.id = r, X.out = R.out, X.update = R.update,
           DOMAIN X.nbr = Peers(r), \A q \in Peers(r) : q # s => X.nbr[q] = R.nbr[q]
    PROVE  Only(R, X, r, s)
  BY DEF IsRouter, Only

\* Sending a description to s concerns s alone.
LEMMA OnlySend ==
    ASSUME NEW R, NEW r, NEW s \in Peers(r), NEW p, IsRouter(R, r), IsPacket(p), p.type = "DD"
    PROVE  LET X == OSPF_SEND_PACKET(R, s, p)
           IN  /\ Only(R, X, r, s) /\ X.nbr[s] = R.nbr[s]
               /\ DDs(X.out[s]) = DDs(R.out[s]) \cup {p}
  BY SendOut DEF Only

\* What send_DD_msg sends and leaves as it is.
LEMMA SendDD ==
    ASSUME NEW R, NEW r, NEW s \in Peers(r), IsRouter(R, r)
    PROVE  LET X == send_DD_msg(R, s)
               n == R.nbr[s]
           IN  /\ Only(R, X, r, s) /\ SameRole(n, X.nbr[s])
               /\ \E d : /\ DDs(X.out[s]) = DDs(R.out[s]) \cup {d}
                         /\ d.seq = n.DDSeqNo
                         /\ n.state = "ExStart" => d.I /\ d.MS
                         /\ n.state # "ExStart" => IsLater(d, n)
<1> DEFINE n == R.nbr[s]
           k == IF DDMax < Len(n.summary) THEN DDMax ELSE Len(n.summary)
           rest == SubSeq(n.summary, k + 1, Len(n.summary))
           dd == IF n.state = "ExStart"
                 THEN [type |-> "DD", seq |-> n.DDSeqNo, I |-> TRUE, M |-> TRUE, MS |-> TRUE,
                       hdrs |-> <<>>]
                 ELSE [type |-> "DD", seq |-> n.DDSeqNo, I |-> FALSE, M |-> rest # <<>>,
                       MS |-> n.isMaster, hdrs |-> SubSeq(n.summary, 1, k)]
           m == [n EXCEPT !.more = dd.M,
                          !.summary = IF n.state = "ExStart" THEN @ ELSE rest]
           A == [R EXCEPT !.nbr[s].more = dd.M,
                          !.nbr[s].summary = IF n.state = "ExStart" THEN @ ELSE rest]
           X == OSPF_SEND_PACKET(A, s, dd)
<1>1. send_DD_msg(R, s) = X
  BY Zenon DEF send_DD_msg
<1>2. IsNeighbor(n) /\ IsList(n.summary) /\ Len(n.summary) \in Nat
  BY LenProperties DEF IsRouter, IsNeighbor, IsList
<1>3. k \in Nat /\ k <= Len(n.summary)
  BY <1>2, OspfAssumption
<1> HIDE DEF k
<1>4. IsList(rest) /\ IsList(SubSeq(n.summary, 1, k))
  BY <1>2, <1>3, ListSubSeq
<1>5. /\ dd.type = "DD" /\ IsPacket(dd) /\ dd.seq = n.DDSeqNo
      /\ n.state = "ExStart" => dd.I /\ dd.MS
      /\ n.state # "ExStart" => ~dd.I /\ dd.MS = n.isMaster
  BY <1>4, ListEmpty DEF IsPacket
<1> HIDE DEF rest, dd
<1>6. IsNeighbor(m) /\ SameRole(n, m)
  BY <1>2, <1>4 DEF IsNeighbor, NeighborFields, SameRole
<1>7. /\ DOMAIN A = RouterFields /\ A.id = r /\ A.out = R.out /\ A.update = R.update
      /\ DOMAIN A.nbr = Peers(r) /\ \A q \in Peers(r) : q # s => A.nbr[q] = R.nbr[q]
      /\ A.nbr[s] = m
  BY DEF IsRouter, RouterFields, IsNeighbor, NeighborFields
<1> HIDE DEF A, m, X, n
<1>8. Only(R, A, r, s) /\ A.nbr[s] = m /\ A.out = R.out
  BY <1>6, <1>7, OnlyNeighbor
<1>11. IsRouter(A, r)
  BY <1>8 DEF Only
<1>9. /\ Only(A, X, r, s) /\ X.nbr[s] = A.nbr[s]
      /\ DDs(X.out[s]) = DDs(A.out[s]) \cup {dd}
  <2>1. dd.type = "DD" /\ IsPacket(dd)
    BY <1>5
  <2> QED
    BY <1>11, <2>1, OnlySend DEF X
<1>10. Only(R, X, r, s) /\ SameRole(n, X.nbr[s]) /\ DDs(X.out[s]) = DDs(R.out[s]) \cup {dd}
  BY <1>6, <1>8, <1>9, OnlyTrans
<1> QED
  BY <1>1, <1>5, <1>10 DEF IsLater, n

\* The start of the negotiation.
LEMMA StartSending ==
    ASSUME NEW R, NEW r, NEW s \in Peers(r), IsRouter(R, r),
           R.nbr[s].state = "ExStart" => R.nbr[s].DDSeqNo = FirstSeq[r]
    PROVE  LET X == start_sending_dd_msg(R, s)
           IN  /\ Only(R, X, r, s) /\ SameRole(R.nbr[s], X.nbr[s])
               /\ \A d \in DDs(X.out[s]) :
                     d \in DDs(R.out[s]) \/ (R.nbr[s].state = "ExStart" /\ IsFirst(d, r))
<1>1. CASE R.nbr[s].state # "ExStart"
  <2>1. start_sending_dd_msg(R, s) = R
    BY <1>1 DEF start_sending_dd_msg
  <2> QED
    BY <2>1, OnlySame DEF SameRole
<1>2. CASE R.nbr[s].state = "ExStart"
  <2> DEFINE A == [R EXCEPT !.nbr[s].ddTimer = TRUE]
             X == send_DD_msg(A, s)
  <2>1. start_sending_dd_msg(R, s) = X
    BY <1>2 DEF start_sending_dd_msg
  <2>2. Only(R, A, r, s) /\ SameRole(R.nbr[s], A.nbr[s]) /\ A.out = R.out
    <3>1. /\ Calm(R, A, r) /\ A.out = R.out
          /\ \A q \in Peers(r) : q # s => A.nbr[q] = R.nbr[q]
      BY CalmDDTimer
    <3> HIDE DEF A
    <3> QED
      BY <1>2, <3>1 DEF Calm, Only, SameRole
  <2> HIDE DEF A
  <2>3. /\ Only(A, X, r, s) /\ SameRole(A.nbr[s], X.nbr[s])
        /\ \E d : /\ DDs(X.out[s]) = DDs(A.out[s]) \cup {d}
                  /\ d.seq = A.nbr[s].DDSeqNo
                  /\ A.nbr[s].state = "ExStart" => d.I /\ d.MS
    <3>1. IsRouter(A, r)
      BY <2>2 DEF Only
    <3> QED
      BY <3>1, SendDD, Zenon
  <2> HIDE DEF X
  <2>4. Only(R, X, r, s) /\ SameRole(R.nbr[s], X.nbr[s])
    BY <2>2, <2>3, OnlyTrans DEF SameRole
  <2>5. \A d \in DDs(X.out[s]) : d \in DDs(R.out[s]) \/ IsFirst(d, r)
    BY <1>2, <2>2, <2>3 DEF SameRole, IsFirst
  <2> QED
    BY <1>2, <2>1, <2>4, <2>5
<1> QED
  BY <1>1, <1>2
\* From Init on: the sequence number is taken from the clock and sent.
LEMMA TwoWay ==
    ASSUME NEW R, NEW r, NEW s \in Peers(r), IsRouter(R, r), R.nbr[s].DDSeqNo = 0,
           R.nbr[s].state = "Init"
    PROVE  LET X == twoWayReceived(R, s)
           IN  /\ Only(R, X, r, s) /\ X.nbr[s].state = "ExStart"
               /\ X.nbr[s].DDSeqNo = FirstSeq[r]
               /\ \A d \in DDs(X.out[s]) : d \in DDs(R.out[s]) \/ IsFirst(d, r)
<1> DEFINE A == [R EXCEPT !.nbr[s].state = "ExStart"]
           B == [A EXCEPT !.nbr[s].isMaster = TRUE, !.nbr[s].DDSeqNo = FirstSeq[A.id]]
           X == start_sending_dd_msg(B, s)
<1>1. /\ DOMAIN A = RouterFields /\ A.id = r /\ A.out = R.out /\ A.update = R.update
      /\ DOMAIN A.nbr = Peers(r) /\ \A q \in Peers(r) : q # s => A.nbr[q] = R.nbr[q]
      /\ A.nbr[s] = [R.nbr[s] EXCEPT !.state = "ExStart"]
  BY DEF IsRouter, RouterFields
<1>2. IsNeighbor(A.nbr[s]) /\ A.nbr[s].state = "ExStart" /\ A.nbr[s].DDSeqNo = 0
  BY <1>1 DEF IsRouter, IsNeighbor, NeighborFields
<1>3. twoWayReceived(R, s) = ospf_neighbor_attempt_adjacency(A, s)
  BY Zenon DEF twoWayReceived, ospf_neighbor_change_state
<1> HIDE DEF A
<1>4. Only(R, A, r, s) /\ IsRouter(A, r)
  BY <1>1, <1>2, OnlyNeighbor DEF Only
<1>5. twoWayReceived(R, s) = X
  BY <1>2, <1>3 DEF ospf_neighbor_attempt_adjacency
<1>6. /\ DOMAIN B = RouterFields /\ B.id = r /\ B.out = A.out /\ B.update = A.update
      /\ DOMAIN B.nbr = Peers(r) /\ \A q \in Peers(r) : q # s => B.nbr[q] = A.nbr[q]
      /\ B.nbr[s] = [A.nbr[s] EXCEPT !.isMaster = TRUE, !.DDSeqNo = FirstSeq[r]]
  BY <1>4 DEF IsRouter, IsNeighbor, RouterFields, NeighborFields
<1> HIDE DEF B
<1>7. IsNeighbor(B.nbr[s]) /\ B.nbr[s].state = "ExStart" /\ B.nbr[s].DDSeqNo = FirstSeq[r]
  BY <1>2, <1>6 DEF IsNeighbor, NeighborFields
<1>8. Only(A, B, r, s) /\ IsRouter(B, r)
  BY <1>4, <1>6, <1>7, OnlyNeighbor DEF Only
<1>9. /\ Only(B, X, r, s) /\ SameRole(B.nbr[s], X.nbr[s])
      /\ \A d \in DDs(X.out[s]) :
            d \in DDs(B.out[s]) \/ (B.nbr[s].state = "ExStart" /\ IsFirst(d, r))
  BY <1>7, <1>8, StartSending, Zenon
<1> HIDE DEF X
<1>10. Only(R, X, r, s)
  BY <1>4, <1>8, <1>9, OnlyTrans
<1>11. X.nbr[s].state = "ExStart" /\ X.nbr[s].DDSeqNo = FirstSeq[r]
  BY <1>7, <1>9 DEF SameRole
<1>12. B.out = R.out
  BY <1>1, <1>6
<1>13. \A d \in DDs(X.out[s]) : d \in DDs(R.out[s]) \/ IsFirst(d, r)
  BY <1>9, <1>12
<1> QED
  BY <1>5, <1>10, <1>11, <1>13

\* A calm step that only concerns s.
LEMMA OnlyLsreqSend ==
    ASSUME NEW R, NEW r, NEW s \in Peers(r), IsRouter(R, r)
    PROVE  LET X == ospf_lsreq_send(R, s)
           IN  Only(R, X, r, s) /\ SameRole(R.nbr[s], X.nbr[s]) /\ DDs(X.out[s]) = DDs(R.out[s])
<1> DEFINE A == [R EXCEPT !.nbr[s].reqTimer = TRUE]
           p == [type |-> "LSREQ",
                 advs |-> [i \in DOMAIN R.nbr[s].req |-> R.nbr[s].req[i].adv]]
           X == OSPF_SEND_PACKET(A, s, p)
<1>1. ospf_lsreq_send(R, s) = X
  BY Zenon DEF ospf_lsreq_send
<1>2. /\ DOMAIN A = RouterFields /\ A.id = r /\ A.out = R.out /\ A.update = R.update
      /\ DOMAIN A.nbr = Peers(r) /\ \A q \in Peers(r) : q # s => A.nbr[q] = R.nbr[q]
      /\ A.nbr[s] = [R.nbr[s] EXCEPT !.reqTimer = TRUE]
  BY DEF IsRouter, RouterFields
<1>3. IsPacket(p) /\ p.type # "DD"
  <2>1. IsList(R.nbr[s].req)
    BY DEF IsRouter, IsNeighbor
  <2>2. IsList(p.advs)
    BY <2>1, ListAdvs
  <2> QED
    BY <2>2 DEF IsPacket
<1> HIDE DEF A, p
<1>4. IsNeighbor(A.nbr[s]) /\ SameRole(R.nbr[s], A.nbr[s])
  BY <1>2 DEF IsRouter, IsNeighbor, NeighborFields, SameRole
<1>5. Only(R, A, r, s) /\ IsRouter(A, r)
  BY <1>2, <1>4, OnlyNeighbor DEF Only
<1>6. /\ IsRouter(X, r) /\ X.nbr = A.nbr
      /\ \A q \in Peers(r) : q # s => X.out[q] = A.out[q]
      /\ DDs(X.out[s]) = DDs(A.out[s])
  BY <1>3, <1>5, SendOut
<1> HIDE DEF X
<1> QED
  BY <1>1, <1>2, <1>4, <1>5, <1>6 DEF Only

\* The end of the exchange: Full, or Loading with a request sent.
LEMMA ExchangeDone ==
    ASSUME NEW R, NEW r, NEW s \in Peers(r), IsRouter(R, r), R.nbr[s].state = "Exchange"
    PROVE  LET X == exchangeDone(R, s)
           IN  /\ Only(R, X, r, s) /\ Exchanging(X.nbr[s]) /\ X.nbr[s].DDSeqNo = R.nbr[s].DDSeqNo
               /\ X.nbr[s].isMaster = R.nbr[s].isMaster /\ DDs(X.out[s]) = DDs(R.out[s])
<1> DEFINE F == ospf_neighbor_change_state(R, s, "Full")
           L == ospf_neighbor_change_state(R, s, "Loading")
<1>1. exchangeDone(R, s) \in {F, ospf_lsreq_send(L, s)}
  BY Zenon DEF exchangeDone
<1>2. /\ Only(R, F, r, s) /\ F.out = R.out /\ F.nbr[s] = [R.nbr[s] EXCEPT !.state = "Full"]
  BY ChangeState DEF Only
<1>3. /\ Only(R, L, r, s) /\ L.out = R.out /\ L.nbr[s] = [R.nbr[s] EXCEPT !.state = "Loading"]
  BY ChangeState DEF Only
<1> HIDE DEF F, L
<1>4. /\ Exchanging(F.nbr[s]) /\ F.nbr[s].DDSeqNo = R.nbr[s].DDSeqNo
      /\ F.nbr[s].isMaster = R.nbr[s].isMaster
  BY <1>2 DEF IsRouter, IsNeighbor, NeighborFields, Exchanging
<1>5. /\ Exchanging(L.nbr[s]) /\ L.nbr[s].DDSeqNo = R.nbr[s].DDSeqNo
      /\ L.nbr[s].isMaster = R.nbr[s].isMaster
  BY <1>3 DEF IsRouter, IsNeighbor, NeighborFields, Exchanging
<1> DEFINE Y == ospf_lsreq_send(L, s)
<1>6. Only(L, Y, r, s) /\ SameRole(L.nbr[s], Y.nbr[s]) /\ DDs(Y.out[s]) = DDs(L.out[s])
  <2>1. IsRouter(L, r)
    BY <1>3 DEF Only
  <2> QED
    BY <2>1, OnlyLsreqSend, Zenon
<1> HIDE DEF Y
<1>7. /\ Only(R, Y, r, s) /\ Exchanging(Y.nbr[s]) /\ Y.nbr[s].DDSeqNo = R.nbr[s].DDSeqNo
      /\ Y.nbr[s].isMaster = R.nbr[s].isMaster /\ DDs(Y.out[s]) = DDs(R.out[s])
  BY <1>3, <1>5, <1>6, OnlyTrans DEF SameRole, Exchanging
<1>8. CASE exchangeDone(R, s) = F
  BY <1>2, <1>4, <1>8
<1>9. CASE exchangeDone(R, s) = Y
  BY <1>7, <1>9
<1> QED
  BY <1>1, <1>8, <1>9 DEF Y

\* negotiationDone enters Exchange with the number and the role chosen before.
LEMMA NegotiationDone ==
    ASSUME NEW R, NEW r, NEW s \in Peers(r), IsRouter(R, r)
    PROVE  LET X == negotiationDone(R, s)
           IN  /\ Only(R, X, r, s) /\ X.out = R.out /\ X.nbr[s].state = "Exchange"
               /\ X.nbr[s].DDSeqNo = R.nbr[s].DDSeqNo /\ X.nbr[s].isMaster = R.nbr[s].isMaster
<1> DEFINE A == ospf_neighbor_change_state(R, s, "Exchange")
           X == [A EXCEPT !.nbr[s].summary = @ \o Described(R)]
<1>1. negotiationDone(R, s) = X
  BY Zenon DEF negotiationDone
<1>2. Only(R, A, r, s) /\ A.out = R.out /\ A.nbr[s] = [R.nbr[s] EXCEPT !.state = "Exchange"]
  BY ChangeState DEF Only
<1> HIDE DEF A
<1>3. IsRouter(A, r)
  BY <1>2 DEF Only
<1>4. /\ A.nbr[s].state = "Exchange" /\ A.nbr[s].DDSeqNo = R.nbr[s].DDSeqNo
      /\ A.nbr[s].isMaster = R.nbr[s].isMaster
  BY <1>2 DEF IsRouter, IsNeighbor, NeighborFields
<1>5. /\ DOMAIN X = RouterFields /\ X.id = r /\ X.out = A.out /\ X.update = A.update
      /\ DOMAIN X.nbr = Peers(r) /\ \A q \in Peers(r) : q # s => X.nbr[q] = A.nbr[q]
      /\ X.nbr[s] = [A.nbr[s] EXCEPT !.summary = @ \o Described(R)]
  BY <1>3 DEF IsRouter, RouterFields
<1> HIDE DEF X
<1>6. IsList(A.nbr[s].summary \o Described(R))
  <2>1. IsList(A.nbr[s].summary)
    BY <1>3 DEF IsRouter, IsNeighbor
  <2> QED
    BY <2>1, ListDescribed, ListConcat
<1>7. IsNeighbor(X.nbr[s]) /\ SameRole(A.nbr[s], X.nbr[s])
  BY <1>3, <1>5, <1>6 DEF IsRouter, IsNeighbor, NeighborFields, SameRole
<1>8. Only(A, X, r, s)
  BY <1>3, <1>5, <1>7, OnlyNeighbor
<1>9. Only(R, X, r, s)
  BY <1>2, <1>8, OnlyTrans
<1> QED
  BY <1>1, <1>2, <1>4, <1>5, <1>7, <1>9 DEF SameRole
\* One description processed in the Exchange state.
LEMMA ProcessDD ==
    ASSUME NEW R, NEW r, NEW s \in Peers(r), NEW dd, IsRouter(R, r), IsList(dd.hdrs),
           R.nbr[s].state = "Exchange"
    PROVE  LET X == ospf_process_DD(R, s, dd)
               n == R.nbr[s]
               x == X.nbr[s]
           IN  /\ Only(R, X, r, s) /\ Exchanging(x) /\ x.isMaster = n.isMaster
               /\ n.isMaster => x.DDSeqNo = n.DDSeqNo + 1
               /\ ~n.isMaster => x.DDSeqNo = dd.seq
               /\ \A d \in DDs(X.out[s]) : d \in DDs(R.out[s]) \/ IsLater(d, x)
<1> DEFINE A == [R EXCEPT !.nbr[s].req = Wanted(R, s, dd)]
           M == [A EXCEPT !.nbr[s].DDSeqNo = @ + 1]
           S == [A EXCEPT !.nbr[s].DDSeqNo = dd.seq]
           n == R.nbr[s]
           Moved(Y, no) == /\ Only(R, Y, r, s) /\ Y.out[s] = R.out[s] /\ Y.nbr[s].DDSeqNo = no
                           /\ Y.nbr[s].state = "Exchange" /\ Y.nbr[s].isMaster = n.isMaster
           Sent(Y, no) == /\ Only(R, Y, r, s) /\ Exchanging(Y.nbr[s])
                          /\ Y.nbr[s].isMaster = n.isMaster /\ Y.nbr[s].DDSeqNo = no
                          /\ \A d \in DDs(Y.out[s]) : d \in DDs(R.out[s]) \/ IsLater(d, Y.nbr[s])
<1>1. IF n.isMaster THEN ospf_process_DD(R, s, dd) \in {exchangeDone(M, s), send_DD_msg(M, s)}
      ELSE ospf_process_DD(R, s, dd) \in {exchangeDone(send_DD_msg(S, s), s), send_DD_msg(S, s)}
  BY Zenon DEF ospf_process_DD
<1>2. IsList(Wanted(R, s, dd))
  <2>1. IsList(R.nbr[s].req)
    BY DEF IsRouter, IsNeighbor
  <2> QED
    BY <2>1, ListWanted
<1>3. /\ DOMAIN A = RouterFields /\ A.id = r /\ A.out = R.out /\ A.update = R.update
      /\ DOMAIN A.nbr = Peers(r) /\ \A q \in Peers(r) : q # s => A.nbr[q] = R.nbr[q]
      /\ A.nbr[s] = [R.nbr[s] EXCEPT !.req = Wanted(R, s, dd)]
  BY DEF IsRouter, RouterFields
<1> HIDE DEF A
<1>4. IsNeighbor(A.nbr[s]) /\ SameRole(n, A.nbr[s])
  BY <1>2, <1>3 DEF IsRouter, IsNeighbor, NeighborFields, SameRole
<1>5. Only(R, A, r, s) /\ IsRouter(A, r)
  BY <1>3, <1>4, OnlyNeighbor DEF Only
<1>6. Moved(M, n.DDSeqNo + 1)
  <2>1. /\ DOMAIN M = RouterFields /\ M.id = r /\ M.out = A.out /\ M.update = A.update
        /\ DOMAIN M.nbr = Peers(r) /\ \A q \in Peers(r) : q # s => M.nbr[q] = A.nbr[q]
        /\ M.nbr[s] = [A.nbr[s] EXCEPT !.DDSeqNo = @ + 1]
    BY <1>5 DEF IsRouter, RouterFields
  <2> HIDE DEF M
  <2>2. IsNeighbor(M.nbr[s])
    BY <1>4, <2>1 DEF IsNeighbor, NeighborFields
  <2>3. /\ M.nbr[s].DDSeqNo = n.DDSeqNo + 1 /\ M.nbr[s].state = "Exchange"
        /\ M.nbr[s].isMaster = n.isMaster
    BY <1>4, <2>1 DEF IsNeighbor, NeighborFields, SameRole
  <2>4. Only(A, M, r, s)
    BY <1>5, <2>1, <2>2, OnlyNeighbor
  <2> QED
    BY <1>3, <1>5, <2>1, <2>3, <2>4, OnlyTrans
<1>7. Moved(S, dd.seq)
  <2>1. /\ DOMAIN S = RouterFields /\ S.id = r /\ S.out = A.out /\ S.update = A.update
        /\ DOMAIN S.nbr = Peers(r) /\ \A q \in Peers(r) : q # s => S.nbr[q] = A.nbr[q]
        /\ S.nbr[s] = [A.nbr[s] EXCEPT !.DDSeqNo = dd.seq]
    BY <1>5 DEF IsRouter, RouterFields
  <2> HIDE DEF S
  <2>2. IsNeighbor(S.nbr[s])
    BY <1>4, <2>1 DEF IsNeighbor, NeighborFields
  <2>3. /\ S.nbr[s].DDSeqNo = dd.seq /\ S.nbr[s].state = "Exchange"
        /\ S.nbr[s].isMaster = n.isMaster
    BY <1>4, <2>1 DEF IsNeighbor, NeighborFields, SameRole
  <2>4. Only(A, S, r, s)
    BY <1>5, <2>1, <2>2, OnlyNeighbor
  <2> QED
    BY <1>3, <1>5, <2>1, <2>3, <2>4, OnlyTrans
<1>8. ASSUME NEW Y, NEW no, Moved(Y, no)
      PROVE  LET Z == send_DD_msg(Y, s)
             IN  Sent(Z, no) /\ Z.nbr[s].state = "Exchange"
  <2> DEFINE Z == send_DD_msg(Y, s)
  <2>1. IsRouter(Y, r)
    BY <1>8 DEF Only
  <2>2. /\ Only(Y, Z, r, s) /\ SameRole(Y.nbr[s], Z.nbr[s])
        /\ \E d : /\ DDs(Z.out[s]) = DDs(Y.out[s]) \cup {d}
                  /\ Y.nbr[s].state # "ExStart" => IsLater(d, Y.nbr[s])
    BY <2>1, SendDD, Zenon
  <2> HIDE DEF Z
  <2>3. Only(R, Z, r, s)
    BY <1>8, <2>2, OnlyTrans
  <2>4. \A d \in DDs(Z.out[s]) : d \in DDs(R.out[s]) \/ IsLater(d, Z.nbr[s])
    BY <1>8, <2>2 DEF SameRole, IsLater
  <2>5. Sent(Z, no) /\ Z.nbr[s].state = "Exchange"
    BY <1>8, <2>2, <2>3, <2>4 DEF SameRole, Exchanging
  <2> QED
    BY <2>5 DEF Z
<1>9. ASSUME NEW Y, NEW no, Sent(Y, no), Y.nbr[s].state = "Exchange"
      PROVE  Sent(exchangeDone(Y, s), no)
  <2> DEFINE Z == exchangeDone(Y, s)
  <2>1. IsRouter(Y, r)
    BY <1>9 DEF Only
  <2>2. /\ Only(Y, Z, r, s) /\ Exchanging(Z.nbr[s]) /\ Z.nbr[s].DDSeqNo = Y.nbr[s].DDSeqNo
        /\ Z.nbr[s].isMaster = Y.nbr[s].isMaster /\ DDs(Z.out[s]) = DDs(Y.out[s])
    BY <1>9, <2>1, ExchangeDone, Zenon
  <2> HIDE DEF Z
  <2>3. Only(R, Z, r, s)
    BY <1>9, <2>2, OnlyTrans
  <2>4. Sent(Z, no)
    BY <1>9, <2>2, <2>3 DEF IsLater
  <2> QED
    BY <2>4 DEF Z
<1>10. Moved(M, n.DDSeqNo + 1) => Sent(M, n.DDSeqNo + 1) /\ M.nbr[s].state = "Exchange"
  <2> HIDE DEF M
  <2> QED
    BY DEF Exchanging
<1> HIDE DEF Sent, Moved, M, S, n
<1>11. CASE n.isMaster
  <2>1. Sent(ospf_process_DD(R, s, dd), n.DDSeqNo + 1)
    BY <1>1, <1>6, <1>8, <1>9, <1>10, <1>11
  <2> QED
    BY <1>11, <2>1 DEF Sent, n
<1>12. CASE ~n.isMaster
  <2>1. Sent(ospf_process_DD(R, s, dd), dd.seq)
    BY <1>1, <1>7, <1>8, <1>9, <1>12
  <2> QED
    BY <1>12, <2>1 DEF Sent, n
<1> QED
  BY <1>11, <1>12 DEF n
\* What a description dd from s makes of neighbor s of r: n becomes x, and D
\* are the descriptions sent in return.
Stay(n, x, D, dd) ==
    /\ SameRole(n, x) /\ D \subseteq {dd}
    /\ D # {} => Exchanging(n) /\ ~n.isMaster
Begin(n, x, D, r) ==
    /\ n.state = "Init" /\ x.state = "ExStart" /\ x.DDSeqNo = FirstSeq[r]
    /\ \A d \in D : IsFirst(d, r)
Yield(n, x, D, r, s, dd) ==
    /\ n.state \in {"Init", "ExStart"} /\ dd.I /\ dd.MS /\ s > r
    /\ Exchanging(x) /\ x.isMaster = FALSE /\ x.DDSeqNo = dd.seq
    /\ \A d \in D : IsFirst(d, r) \/ IsLater(d, x)
Lead(n, x, D, r, s, dd) ==
    /\ n.state \in {"Init", "ExStart"} /\ ~dd.I /\ ~dd.MS /\ s < r /\ dd.seq = FirstSeq[r]
    /\ Exchanging(x) /\ x.isMaster = TRUE /\ x.DDSeqNo = FirstSeq[r] + 1
    /\ \A d \in D : IsFirst(d, r) \/ IsLater(d, x)
Follow(n, x, D, dd) ==
    /\ Exchanging(n) /\ Exchanging(x) /\ x.isMaster = n.isMaster
    /\ ~dd.I /\ dd.MS # n.isMaster
    /\ n.isMaster => dd.seq = n.DDSeqNo /\ x.DDSeqNo = n.DDSeqNo + 1
    /\ ~n.isMaster => dd.seq = n.DDSeqNo + 1 /\ x.DDSeqNo = dd.seq
    /\ \A d \in D : IsLater(d, x)

Outcome(n, x, D, r, s, dd) ==
    \/ Stay(n, x, D, dd) \/ Begin(n, x, D, r) \/ Follow(n, x, D, dd)
    \/ Yield(n, x, D, r, s, dd) \/ Lead(n, x, D, r, s, dd)

\* Negotiation.
LEMMA ExStartDD ==
    ASSUME NEW R, NEW r, NEW s \in Peers(r), NEW dd, IsRouter(R, r), IsList(dd.hdrs),
           R.nbr[s].state = "ExStart", R.nbr[s].DDSeqNo = FirstSeq[r],
           \A d \in DDs(R.out[s]) : IsFirst(d, r)
    PROVE  LET X == process_dd_in_exstart_state(R, s, dd)
               x == X.nbr[s]
               D == DDs(X.out[s])
           IN  \/ X = R
               \/ /\ Only(R, X, r, s)
                  /\ Yield(R.nbr[s], x, D, r, s, dd) \/ Lead(R.nbr[s], x, D, r, s, dd)
<1> DEFINE n == R.nbr[s]
           yield == dd.I /\ dd.M /\ dd.MS /\ dd.hdrs = <<>> /\ s > R.id
           lead == ~dd.I /\ ~dd.MS /\ dd.seq = n.DDSeqNo /\ s < R.id
           A == [R EXCEPT !.nbr[s].DDSeqNo = dd.seq, !.nbr[s].isMaster = FALSE]
           B == [R EXCEPT !.nbr[s].isMaster = TRUE]
           X == process_dd_in_exstart_state(R, s, dd)
<1>1. /\ yield => X = ospf_process_DD(negotiationDone(A, s), s, dd)
      /\ ~yield /\ lead => X = ospf_process_DD(negotiationDone(B, s), s, dd)
      /\ ~yield /\ ~lead => X = R
  BY Zenon DEF process_dd_in_exstart_state
<1>2. R.id = r /\ IsNeighbor(R.nbr[s])
  BY DEF IsRouter
<1>3. /\ Only(R, A, r, s) /\ A.out = R.out /\ A.nbr[s].DDSeqNo = dd.seq
      /\ A.nbr[s].isMaster = FALSE
  <2>1. /\ DOMAIN A = RouterFields /\ A.id = r /\ A.out = R.out /\ A.update = R.update
        /\ DOMAIN A.nbr = Peers(r) /\ \A q \in Peers(r) : q # s => A.nbr[q] = R.nbr[q]
        /\ A.nbr[s] = [R.nbr[s] EXCEPT !.DDSeqNo = dd.seq, !.isMaster = FALSE]
    BY DEF IsRouter, RouterFields, IsNeighbor, NeighborFields
  <2> HIDE DEF A
  <2>2. IsNeighbor(A.nbr[s]) /\ A.nbr[s].DDSeqNo = dd.seq /\ A.nbr[s].isMaster = FALSE
    BY <1>2, <2>1 DEF IsNeighbor, NeighborFields
  <2> QED
    BY <2>1, <2>2, OnlyNeighbor
<1>4. /\ Only(R, B, r, s) /\ B.out = R.out /\ B.nbr[s].DDSeqNo = FirstSeq[r]
      /\ B.nbr[s].isMaster = TRUE
  <2>1. /\ DOMAIN B = RouterFields /\ B.id = r /\ B.out = R.out /\ B.update = R.update
        /\ DOMAIN B.nbr = Peers(r) /\ \A q \in Peers(r) : q # s => B.nbr[q] = R.nbr[q]
        /\ B.nbr[s] = [R.nbr[s] EXCEPT !.isMaster = TRUE]
    BY DEF IsRouter, RouterFields
  <2> HIDE DEF B
  <2>2. IsNeighbor(B.nbr[s]) /\ B.nbr[s].DDSeqNo = FirstSeq[r] /\ B.nbr[s].isMaster = TRUE
    BY <1>2, <2>1 DEF IsNeighbor, NeighborFields
  <2> QED
    BY <2>1, <2>2, OnlyNeighbor
<1> HIDE DEF A, B, X
<1>5. ASSUME NEW Y, Only(R, Y, r, s), Y.out = R.out, Y.nbr[s].isMaster \in BOOLEAN
      PROVE  LET Z == ospf_process_DD(negotiationDone(Y, s), s, dd)
             IN  /\ Only(R, Z, r, s) /\ Exchanging(Z.nbr[s])
                 /\ Z.nbr[s].isMaster = Y.nbr[s].isMaster
                 /\ Y.nbr[s].isMaster => Z.nbr[s].DDSeqNo = Y.nbr[s].DDSeqNo + 1
                 /\ ~Y.nbr[s].isMaster => Z.nbr[s].DDSeqNo = dd.seq
                 /\ \A d \in DDs(Z.out[s]) : IsFirst(d, r) \/ IsLater(d, Z.nbr[s])
  <2> DEFINE N == negotiationDone(Y, s)
             Z == ospf_process_DD(N, s, dd)
  <2>1. IsRouter(Y, r)
    BY <1>5 DEF Only
  <2>2. /\ Only(Y, N, r, s) /\ N.out = Y.out /\ N.nbr[s].state = "Exchange"
        /\ N.nbr[s].DDSeqNo = Y.nbr[s].DDSeqNo /\ N.nbr[s].isMaster = Y.nbr[s].isMaster
    BY <2>1, NegotiationDone, Zenon
  <2> HIDE DEF N
  <2>3. IsRouter(N, r)
    BY <2>2 DEF Only
  <2>4. /\ Only(N, Z, r, s) /\ Exchanging(Z.nbr[s]) /\ Z.nbr[s].isMaster = N.nbr[s].isMaster
        /\ N.nbr[s].isMaster => Z.nbr[s].DDSeqNo = N.nbr[s].DDSeqNo + 1
        /\ ~N.nbr[s].isMaster => Z.nbr[s].DDSeqNo = dd.seq
        /\ \A d \in DDs(Z.out[s]) : d \in DDs(N.out[s]) \/ IsLater(d, Z.nbr[s])
    BY <2>2, <2>3, ProcessDD, Zenon
  <2> HIDE DEF Z
  <2>5. Only(R, Z, r, s)
    BY <1>5, <2>2, <2>4, OnlyTrans
  <2>6. \A d \in DDs(Z.out[s]) : IsFirst(d, r) \/ IsLater(d, Z.nbr[s])
    BY <1>5, <2>2, <2>4
  <2> QED
    BY <2>2, <2>4, <2>5, <2>6 DEF Z, N
<1>6. CASE yield
  <2>1. X = ospf_process_DD(negotiationDone(A, s), s, dd)
    BY <1>1, <1>6
  <2>2. /\ Only(R, X, r, s) /\ Exchanging(X.nbr[s]) /\ X.nbr[s].isMaster = FALSE
        /\ X.nbr[s].DDSeqNo = dd.seq
        /\ \A d \in DDs(X.out[s]) : IsFirst(d, r) \/ IsLater(d, X.nbr[s])
    BY <1>3, <1>5, <2>1
  <2> QED
    BY <1>2, <1>6, <2>2 DEF Yield, X
<1>7. CASE ~yield /\ lead
  <2>1. X = ospf_process_DD(negotiationDone(B, s), s, dd)
    BY <1>1, <1>7
  <2>2. /\ Only(R, X, r, s) /\ Exchanging(X.nbr[s]) /\ X.nbr[s].isMaster = TRUE
        /\ X.nbr[s].DDSeqNo = FirstSeq[r] + 1
        /\ \A d \in DDs(X.out[s]) : IsFirst(d, r) \/ IsLater(d, X.nbr[s])
    BY <1>4, <1>5, <2>1
  <2> QED
    BY <1>2, <1>7, <2>2 DEF Lead, X
<1>8. CASE ~yield /\ ~lead
  BY <1>1, <1>8 DEF X
<1> QED
  BY <1>6, <1>7, <1>8
\* A description received.
LEMMA HandleDD ==
    ASSUME NEW R, NEW r, NEW s \in Peers(r), NEW dd, IsRouter(R, r), IsPacket(dd),
           dd.type = "DD", R.out[s] = <<>>,
           R.nbr[s].state \in {"Down", "Init", "ExStart", "Exchange", "Loading", "Full"},
           R.nbr[s].state = "Init" => R.nbr[s].DDSeqNo = 0,
           R.nbr[s].state = "ExStart" => R.nbr[s].DDSeqNo = FirstSeq[r]
    PROVE  LET X == ospf_handle_DD(R, s, dd)
           IN  Only(R, X, r, s) /\ Outcome(R.nbr[s], X.nbr[s], DDs(X.out[s]), r, s, dd)
<1> DEFINE n == R.nbr[s]
           dup == check_duplicate(n, dd)
           A == [R EXCEPT !.nbr[s].lastrecv = dd]
           X == ospf_handle_DD(R, s, dd)
<1>1. /\ n.state = "Down" => X = R
      /\ n.state = "Init" => X = process_dd_in_exstart_state(twoWayReceived(A, s), s, dd)
      /\ n.state = "ExStart" => X = process_dd_in_exstart_state(twoWayReceived(A, s), s, dd)
      /\ n.state = "Exchange" => X = process_dd_in_exchange_state(A, s, dd, dup)
      /\ n.state \in {"Loading", "Full"} => X = process_dd_in_loading_or_full_state(A, s, dup)
  BY DEF ospf_handle_DD
<1>2. DDs(R.out[s]) = {} /\ IsList(dd.hdrs)
  BY ListEmpty DEF IsPacket
<1>3. /\ Only(R, A, r, s) /\ A.out = R.out /\ SameRole(n, A.nbr[s])
      /\ A.nbr[s].lastrecv = dd
  <2>1. /\ DOMAIN A = RouterFields /\ A.id = r /\ A.out = R.out /\ A.update = R.update
        /\ DOMAIN A.nbr = Peers(r) /\ \A q \in Peers(r) : q # s => A.nbr[q] = R.nbr[q]
        /\ A.nbr[s] = [R.nbr[s] EXCEPT !.lastrecv = dd]
    BY DEF IsRouter, RouterFields
  <2> HIDE DEF A
  <2>2. IsNeighbor(A.nbr[s]) /\ SameRole(n, A.nbr[s]) /\ A.nbr[s].lastrecv = dd
    BY <2>1 DEF IsRouter, IsNeighbor, NeighborFields, SameRole
  <2> QED
    BY <2>1, <2>2, OnlyNeighbor
<1> HIDE DEF A, X, dup
<1>4. IsRouter(A, r)
  BY <1>3 DEF Only
<1>5. Only(R, X, r, s) /\ Outcome(n, X.nbr[s], DDs(X.out[s]), r, s, dd)
  <2>1. Only(R, R, r, s) /\ Stay(n, R.nbr[s], DDs(R.out[s]), dd)
    BY <1>2, OnlySame DEF Stay, SameRole
  <2>2. Stay(n, A.nbr[s], DDs(A.out[s]), dd)
    BY <1>2, <1>3 DEF Stay
  <2>3. CASE n.state = "Down"
    BY <1>1, <2>1, <2>3 DEF Outcome
  <2>4. ASSUME NEW Y, Only(R, Y, r, s), Y.nbr[s].state = "ExStart",
               Y.nbr[s].DDSeqNo = FirstSeq[r], \A d \in DDs(Y.out[s]) : IsFirst(d, r),
               Y.nbr[s].state = n.state \/ n.state = "Init", 
               Outcome(n, Y.nbr[s], DDs(Y.out[s]), r, s, dd),
               X = process_dd_in_exstart_state(Y, s, dd)
        PROVE  Only(R, X, r, s) /\ Outcome(n, X.nbr[s], DDs(X.out[s]), r, s, dd)
    <3>1. IsRouter(Y, r)
      BY <2>4 DEF Only
    <3>2. \/ X = Y
          \/ /\ Only(Y, X, r, s)
             /\ \/ Yield(Y.nbr[s], X.nbr[s], DDs(X.out[s]), r, s, dd)
                \/ Lead(Y.nbr[s], X.nbr[s], DDs(X.out[s]), r, s, dd)
      BY <1>2, <2>4, <3>1, ExStartDD
    <3>3. CASE X = Y
      BY <2>4, <3>3
    <3>4. CASE Only(Y, X, r, s) /\ Yield(Y.nbr[s], X.nbr[s], DDs(X.out[s]), r, s, dd)
      <4>1. Only(R, X, r, s)
        BY <2>4, <3>4, OnlyTrans
      <4>2. Yield(n, X.nbr[s], DDs(X.out[s]), r, s, dd)
        BY <2>4, <3>4 DEF Yield
      <4> QED
        BY <4>1, <4>2 DEF Outcome
    <3>5. CASE Only(Y, X, r, s) /\ Lead(Y.nbr[s], X.nbr[s], DDs(X.out[s]), r, s, dd)
      <4>1. Only(R, X, r, s)
        BY <2>4, <3>5, OnlyTrans
      <4>2. Lead(n, X.nbr[s], DDs(X.out[s]), r, s, dd)
        BY <2>4, <3>5 DEF Lead
      <4> QED
        BY <4>1, <4>2 DEF Outcome
    <3> QED
      BY <3>2, <3>3, <3>4, <3>5
  <2>5. CASE n.state = "Init"
    <3> DEFINE Y == twoWayReceived(A, s)
    <3>1. A.nbr[s].state = "Init" /\ A.nbr[s].DDSeqNo = 0
      BY <1>3, <2>5 DEF SameRole
    <3>2. /\ Only(A, Y, r, s) /\ Y.nbr[s].state = "ExStart" /\ Y.nbr[s].DDSeqNo = FirstSeq[r]
          /\ \A d \in DDs(Y.out[s]) : d \in DDs(A.out[s]) \/ IsFirst(d, r)
      BY <1>4, <3>1, TwoWay, Zenon
    <3>3. X = process_dd_in_exstart_state(Y, s, dd)
      BY <1>1, <2>5
    <3> HIDE DEF Y
    <3>4. Only(R, Y, r, s)
      BY <1>3, <3>2, OnlyTrans
    <3>5. \A d \in DDs(Y.out[s]) : IsFirst(d, r)
      BY <1>2, <1>3, <3>2
    <3>6. Outcome(n, Y.nbr[s], DDs(Y.out[s]), r, s, dd)
      BY <2>5, <3>2, <3>5 DEF Outcome, Begin
    <3> QED
      BY <2>4, <2>5, <3>2, <3>3, <3>4, <3>5, <3>6
  <2>6. CASE n.state = "ExStart"
    <3>1. A.nbr[s].state = "ExStart" /\ A.nbr[s].DDSeqNo = FirstSeq[r]
      BY <1>3, <2>6 DEF SameRole
    <3>2. twoWayReceived(A, s) = A
      BY <3>1 DEF twoWayReceived
    <3>3. Outcome(n, A.nbr[s], DDs(A.out[s]), r, s, dd)
      BY <2>2 DEF Outcome
    <3>4. DDs(A.out[s]) = {}
      BY <1>2, <1>3
    <3> QED
      BY <1>1, <1>3, <2>4, <2>6, <3>1, <3>2, <3>3, <3>4
  <2>7. ASSUME Exchanging(n), ~n.isMaster, X = resend_DD_msg(A, s)
        PROVE  Only(R, X, r, s) /\ Outcome(n, X.nbr[s], DDs(X.out[s]), r, s, dd)
    <3>1. X = OSPF_SEND_PACKET(A, s, dd)
      BY <1>3, <2>7 DEF resend_DD_msg
    <3>2. /\ Only(A, X, r, s) /\ X.nbr[s] = A.nbr[s]
          /\ DDs(X.out[s]) = DDs(A.out[s]) \cup {dd}
      BY <1>4, <3>1, OnlySend
    <3>3. Only(R, X, r, s)
      BY <1>3, <3>2, OnlyTrans
    <3>4. Stay(n, X.nbr[s], DDs(X.out[s]), dd)
      BY <1>2, <1>3, <2>7, <3>2 DEF Stay
    <3> QED
      BY <3>3, <3>4 DEF Outcome
  <2>8. ASSUME X = A
        PROVE  Only(R, X, r, s) /\ Outcome(n, X.nbr[s], DDs(X.out[s]), r, s, dd)
    BY <1>3, <2>2, <2>8 DEF Outcome
  <2>9. CASE n.state = "Exchange"
    <3> DEFINE a == A.nbr[s]
               inSequence == IF a.isMaster THEN dd.seq = a.DDSeqNo ELSE dd.seq = a.DDSeqNo + 1
    <3>1. SameRole(n, a) /\ a.state = "Exchange"
      BY <1>3, <2>9 DEF SameRole
    <3>2. \/ X = A
          \/ ~a.isMaster /\ X = resend_DD_msg(A, s)
          \/ dd.MS # a.isMaster /\ ~dd.I /\ inSequence /\ X = ospf_process_DD(A, s, dd)
      BY <1>1, <2>9 DEF process_dd_in_exchange_state
    <3>3. CASE X = A
      BY <2>8, <3>3
    <3>4. CASE ~a.isMaster /\ X = resend_DD_msg(A, s)
      BY <2>7, <2>9, <3>1, <3>4 DEF SameRole, Exchanging
    <3>5. CASE dd.MS # a.isMaster /\ ~dd.I /\ inSequence /\ X = ospf_process_DD(A, s, dd)
      <4>1. /\ Only(A, X, r, s) /\ Exchanging(X.nbr[s]) /\ X.nbr[s].isMaster = a.isMaster
            /\ a.isMaster => X.nbr[s].DDSeqNo = a.DDSeqNo + 1
            /\ ~a.isMaster => X.nbr[s].DDSeqNo = dd.seq
            /\ \A d \in DDs(X.out[s]) : d \in DDs(A.out[s]) \/ IsLater(d, X.nbr[s])
        <5> DEFINE Z == ospf_process_DD(A, s, dd)
        <5>1. /\ Only(A, Z, r, s) /\ Exchanging(Z.nbr[s]) /\ Z.nbr[s].isMaster = A.nbr[s].isMaster
              /\ A.nbr[s].isMaster => Z.nbr[s].DDSeqNo = A.nbr[s].DDSeqNo + 1
              /\ ~A.nbr[s].isMaster => Z.nbr[s].DDSeqNo = dd.seq
              /\ \A d \in DDs(Z.out[s]) : d \in DDs(A.out[s]) \/ IsLater(d, Z.nbr[s])
          BY <1>2, <1>4, <3>1, ProcessDD, Zenon
        <5> HIDE DEF Z
        <5>2. X = Z
          BY <3>5 DEF Z
        <5> QED
          BY <5>1, <5>2
      <4>2. Only(R, X, r, s)
        BY <1>3, <4>1, OnlyTrans
      <4>3. DDs(A.out[s]) = {}
        BY <1>2, <1>3
      <4>4. Follow(n, X.nbr[s], DDs(X.out[s]), dd)
        <5>1. Exchanging(n) /\ a.isMaster = n.isMaster /\ a.DDSeqNo = n.DDSeqNo
          BY <2>9, <3>1 DEF SameRole, Exchanging
        <5>2. /\ n.isMaster => dd.seq = n.DDSeqNo /\ X.nbr[s].DDSeqNo = n.DDSeqNo + 1
              /\ ~n.isMaster => dd.seq = n.DDSeqNo + 1 /\ X.nbr[s].DDSeqNo = dd.seq
          BY <3>5, <4>1, <5>1
        <5>3. \A d \in DDs(X.out[s]) : IsLater(d, X.nbr[s])
          BY <4>1, <4>3
        <5> HIDE DEF a, n
        <5> QED
          BY <3>5, <4>1, <5>1, <5>2, <5>3 DEF Follow
      <4> QED
        BY <4>2, <4>4 DEF Outcome
    <3> QED
      BY <3>2, <3>3, <3>4, <3>5
  <2>10. CASE n.state \in {"Loading", "Full"}
    <3>1. X = A \/ (~A.nbr[s].isMaster /\ X = resend_DD_msg(A, s))
      BY <1>1, <2>10 DEF process_dd_in_loading_or_full_state
    <3>2. A.nbr[s].isMaster = n.isMaster /\ Exchanging(n)
      BY <1>3, <2>10 DEF SameRole, Exchanging
    <3> QED
      BY <2>7, <2>8, <3>1, <3>2
  <2> QED
    BY <2>3, <2>5, <2>6, <2>9, <2>10
<1> QED
  BY <1>5 DEF X
\* What a hello from s, or the repetition of the first description, makes of
\* neighbor s.
Greeted(n, x, D, r) ==
    \/ SameRole(n, x) /\ D = {}
    \/ SameRole(n, x) /\ n.state = "ExStart" /\ \A d \in D : IsFirst(d, r)
    \/ n.state = "Down" /\ x.state = "Init" /\ x.DDSeqNo = n.DDSeqNo /\ D = {}
    \/ /\ n.state \in {"Down", "Init"} /\ x.state = "ExStart" /\ x.DDSeqNo = FirstSeq[r]
       /\ \A d \in D : IsFirst(d, r)

\* A hello received (ospf_process_hello).
LEMMA HandleHello ==
    ASSUME NEW R, NEW r, NEW s \in Peers(r), NEW p, IsRouter(R, r), R.out[s] = <<>>,
           R.nbr[s].state \in {"Down", "Init", "ExStart", "Exchange", "Loading", "Full"},
           R.nbr[s].state \in {"Down", "Init"} => R.nbr[s].DDSeqNo = 0
    PROVE  LET X == ospf_process_hello(R, s, p)
           IN  Only(R, X, r, s) /\ Greeted(R.nbr[s], X.nbr[s], DDs(X.out[s]), r)
<1> DEFINE A == helloReceived(R, s)
           n == R.nbr[s]
           X == ospf_process_hello(R, s, p)
<1>1. X \in {twoWayReceived(A, s), oneWay(A, s)}
  BY Zenon DEF ospf_process_hello
<1>2. DDs(R.out[s]) = {}
  BY ListEmpty
<1>3. /\ Only(R, A, r, s) /\ A.out = R.out
      /\ SameRole(n, A.nbr[s])
         \/ (n.state = "Down" /\ A.nbr[s].state = "Init" /\ A.nbr[s].DDSeqNo = n.DDSeqNo)
  <2>1. CASE n.state = "Down"
    <3> DEFINE C == ospf_neighbor_change_state(R, s, "Init")
    <3>1. A = C
      BY <2>1 DEF helloReceived
    <3>2. /\ IsRouter(C, r) /\ C.out = R.out /\ C.nbr[s] = [R.nbr[s] EXCEPT !.state = "Init"]
          /\ \A q \in Peers(r) : q # s => C.nbr[q] = R.nbr[q]
      BY ChangeState
    <3> HIDE DEF A, C
    <3>3. C.nbr[s].state = "Init" /\ C.nbr[s].DDSeqNo = n.DDSeqNo
      BY <3>2 DEF IsRouter, IsNeighbor, NeighborFields
    <3> QED
      BY <2>1, <3>1, <3>2, <3>3 DEF Only
  <2>2. CASE n.state # "Down"
    BY <2>2, OnlySame DEF helloReceived, SameRole
  <2> QED
    BY <2>1, <2>2
<1> HIDE DEF A, X
<1>4. IsRouter(A, r)
  BY <1>3 DEF Only
<1>5. A.nbr[s].state # "2Way"
  BY <1>3 DEF SameRole
<1>6. Greeted(n, A.nbr[s], DDs(A.out[s]), r)
  BY <1>2, <1>3 DEF Greeted
<1>7. oneWay(A, s) = A
  BY <1>5 DEF oneWay
<1>8. Only(R, X, r, s) /\ Greeted(n, X.nbr[s], DDs(X.out[s]), r)
  <2>1. CASE A.nbr[s].state # "Init"
    <3>1. twoWayReceived(A, s) = A
      BY <2>1 DEF twoWayReceived
    <3> QED
      BY <1>1, <1>3, <1>6, <1>7, <3>1
  <2>2. CASE A.nbr[s].state = "Init"
    <3> DEFINE Y == twoWayReceived(A, s)
    <3>1. A.nbr[s].DDSeqNo = 0 /\ n.state \in {"Down", "Init"}
      BY <1>3, <2>2 DEF SameRole
    <3>2. /\ Only(A, Y, r, s) /\ Y.nbr[s].state = "ExStart" /\ Y.nbr[s].DDSeqNo = FirstSeq[r]
          /\ \A d \in DDs(Y.out[s]) : d \in DDs(A.out[s]) \/ IsFirst(d, r)
      BY <1>4, <2>2, <3>1, TwoWay, Zenon
    <3> HIDE DEF Y
    <3>3. Only(R, Y, r, s)
      BY <1>3, <3>2, OnlyTrans
    <3>4. Greeted(n, Y.nbr[s], DDs(Y.out[s]), r)
      BY <1>2, <1>3, <3>1, <3>2 DEF Greeted
    <3> QED
      BY <1>1, <1>3, <1>6, <1>7, <3>3, <3>4 DEF Y
  <2> QED
    BY <2>1, <2>2
<1> QED
  BY <1>8 DEF X

\* The first description is repeated only in ExStart (OSPF_DD_RXMT_IN_EXSTART).
LEMMA HandleRxmt ==
    ASSUME NEW R, NEW r, NEW s \in Peers(r), IsRouter(R, r), R.out[s] = <<>>,
           R.nbr[s].state = "ExStart" => R.nbr[s].DDSeqNo = FirstSeq[r]
    PROVE  LET X == start_sending_dd_msg([R EXCEPT !.nbr[s].ddTimer = FALSE], s)
           IN  Only(R, X, r, s) /\ Greeted(R.nbr[s], X.nbr[s], DDs(X.out[s]), r)
<1> DEFINE A == [R EXCEPT !.nbr[s].ddTimer = FALSE]
           X == start_sending_dd_msg(A, s)
<1>1. /\ DOMAIN A = RouterFields /\ A.id = r /\ A.out = R.out /\ A.update = R.update
      /\ DOMAIN A.nbr = Peers(r) /\ \A q \in Peers(r) : q # s => A.nbr[q] = R.nbr[q]
      /\ A.nbr[s] = [R.nbr[s] EXCEPT !.ddTimer = FALSE]
  BY DEF IsRouter, RouterFields
<1> HIDE DEF A
<1>2. IsNeighbor(A.nbr[s]) /\ SameRole(R.nbr[s], A.nbr[s])
  BY <1>1 DEF IsRouter, IsNeighbor, NeighborFields, SameRole
<1>3. Only(R, A, r, s) /\ IsRouter(A, r)
  BY <1>1, <1>2, OnlyNeighbor DEF Only
<1>4. A.nbr[s].state = "ExStart" => A.nbr[s].DDSeqNo = FirstSeq[r]
  BY <1>2 DEF SameRole
<1>5. /\ Only(A, X, r, s) /\ SameRole(A.nbr[s], X.nbr[s])
      /\ \A d \in DDs(X.out[s]) :
            d \in DDs(A.out[s]) \/ (A.nbr[s].state = "ExStart" /\ IsFirst(d, r))
  BY <1>3, <1>4, StartSending, Zenon
<1> HIDE DEF X
<1>6. Only(R, X, r, s)
  BY <1>3, <1>5, OnlyTrans
<1>7. DDs(A.out[s]) = {}
  BY <1>1, ListEmpty
<1>8. SameRole(R.nbr[s], X.nbr[s])
  BY <1>2, <1>5 DEF SameRole
<1>9. \A d \in DDs(X.out[s]) : R.nbr[s].state = "ExStart" /\ IsFirst(d, r)
  BY <1>2, <1>5, <1>7 DEF SameRole
<1>10. Greeted(R.nbr[s], X.nbr[s], DDs(X.out[s]), r)
  BY <1>8, <1>9 DEF Greeted
<1> QED
  BY <1>6, <1>10 DEF X, A

-----------------------------------------------------------------------------
(* The invariant.                                                          *)

\* Neighbor s of r on its own.
Local(n, r, s) ==
    /\ n.state \in {"Down", "Init", "ExStart", "Exchange", "Loading", "Full"}
    /\ n.DDSeqNo \in Nat
    /\ n.state \in {"Down", "Init"} => n.DDSeqNo = 0
    /\ n.state = "ExStart" => n.DDSeqNo = FirstSeq[r]
    /\ Exchanging(n) /\ r > s => n.isMaster = TRUE
    /\ Exchanging(n) /\ r < s => n.isMaster = FALSE

\* The descriptions D on the way from r, the end with the greater id, whose
\* neighbor structure is n: the first ones carry r's first number, the others
\* one that r has not passed.
FromMaster(D, n, r) ==
    \A p \in D :
       /\ p.seq \in Nat /\ p.MS
       /\ p.I => p.seq = FirstSeq[r] /\ n.state \notin {"Down", "Init"}
       /\ ~p.I => p.seq <= n.DDSeqNo /\ Exchanging(n)

\* The descriptions on the way from the other end: those that do not claim to
\* be the master's are answers with a number the slave has reached.
FromSlave(D, n) ==
    \A p \in D : p.seq \in Nat /\ (p.MS \/ (~p.I /\ p.seq <= n.DDSeqNo /\ Exchanging(n)))

\* The slave leaves ExStart first, with the master's first number, and from
\* then on the master is at most one ahead.
Pace(n, m, r) ==
    /\ Exchanging(n) => Exchanging(m) /\ n.DDSeqNo \in {m.DDSeqNo, m.DDSeqNo + 1}
    /\ ~Exchanging(n) /\ Exchanging(m) => n.state = "ExStart" /\ m.DDSeqNo = FirstSeq[r]

Pair(n, m, D, E, r) == FromMaster(D, n, r) /\ FromSlave(E, m) /\ Pace(n, m, r)

Shape ==
    /\ DOMAIN rt = Router /\ DOMAIN link = Router
    /\ \A r \in Router : IsRouter(rt[r], r) /\ DOMAIN link[r] = Peers(r)
    /\ \A r \in Router : \A s \in Peers(r) : rt[r].out[s] = <<>> /\ IsPackets(link[r][s])

OspfInv ==
    /\ Shape
    /\ \A r \in Router : \A s \in Peers(r) :
          /\ Local(rt[r].nbr[s], r, s)
          /\ r > s => Pair(rt[r].nbr[s], rt[s].nbr[r], DDs(link[r][s]), DDs(link[s][r]), r)

\* The two ends of a link are different routers and each other's peers.
LEMMA PeersSymmetric ==
    ASSUME NEW r \in Router, NEW s \in Peers(r)
    PROVE  s \in Router /\ r \in Peers(s) /\ r # s /\ r \in Nat /\ s \in Nat /\ FirstSeq[r] \in Nat \ {0}
<1>1. s \in Router /\ {r, s} \in Link
  BY DEF Peers
<1>2. {r, s} = {s, r}
  OBVIOUS
<1>3. r \in Peers(s)
  BY <1>1, <1>2 DEF Peers
<1>4. r # s
  BY <1>1, OspfAssumption
<1> QED
  BY <1>1, <1>3, <1>4, OspfAssumption

\* The master receives a description.
LEMMA MasterMoves ==
    ASSUME NEW r \in Router, NEW s \in Peers(r), r > s, NEW n, NEW m, NEW x, NEW D, NEW E, NEW S,
           Local(n, r, s), Local(m, s, r), Pair(n, m, D, E, r), NEW dd \in E,
           Outcome(n, x, S, r, s, dd)
    PROVE  Local(x, r, s) /\ Pair(x, m, D \cup S, E, r)
<1>1. /\ r \in Nat /\ s \in Nat /\ FirstSeq[r] \in Nat \ {0} /\ ~(s > r) /\ ~(r < s)
  BY PeersSymmetric
<1>2. CASE Stay(n, x, S, dd)
  <2>1. S = {}
    BY <1>1, <1>2 DEF Stay, Local
  <2>2. SameRole(n, x)
    BY <1>2 DEF Stay
  <2>3. Local(x, r, s)
    BY <2>2 DEF Local, SameRole, Exchanging
  <2> QED
    BY <2>1, <2>2, <2>3 DEF Pair, FromMaster, Pace, SameRole, Exchanging
<1>3. CASE Begin(n, x, S, r)
  <2>1. Local(x, r, s)
    BY <1>1, <1>3 DEF Begin, Local, Exchanging
  <2>2. ~Exchanging(n) /\ ~Exchanging(x) /\ x.state = "ExStart" /\ n.state = "Init"
    BY <1>3 DEF Begin, Exchanging
  <2>3. ~Exchanging(m)
    BY <2>2 DEF Pair, Pace
  <2>4. Pace(x, m, r)
    BY <2>2, <2>3 DEF Pace
  <2>5. FromMaster(D \cup S, x, r)
    BY <1>1, <1>3, <2>2 DEF Begin, Pair, FromMaster, IsFirst, Exchanging
  <2> QED
    BY <2>1, <2>4, <2>5 DEF Pair
<1>4. CASE Yield(n, x, S, r, s, dd)
  BY <1>1, <1>4 DEF Yield
<1>5. CASE Lead(n, x, S, r, s, dd)
  <2>1. ~dd.MS /\ Exchanging(m) /\ dd.seq = FirstSeq[r] /\ ~Exchanging(n)
    BY <1>5 DEF Lead, Pair, FromSlave, Exchanging
  <2>2. n.state = "ExStart" /\ m.DDSeqNo = FirstSeq[r]
    BY <2>1 DEF Pair, Pace
  <2>3. Exchanging(x) /\ x.isMaster = TRUE /\ x.DDSeqNo = FirstSeq[r] + 1
    BY <1>5 DEF Lead
  <2>4. x.state \in {"Exchange", "Loading", "Full"}
    BY <2>3 DEF Exchanging
  <2>5. Local(x, r, s)
    BY <1>1, <2>3, <2>4 DEF Local
  <2>6. Pace(x, m, r)
    BY <2>1, <2>2, <2>3 DEF Pace
  <2>7. FromMaster(D, x, r)
    BY <1>1, <2>1, <2>3, <2>4 DEF Pair, FromMaster
  <2>8. FromMaster(S, x, r)
    BY <1>1, <1>5, <2>3, <2>4 DEF Lead, FromMaster, IsFirst, IsLater
  <2>9. FromMaster(D \cup S, x, r)
    BY <2>7, <2>8 DEF FromMaster
  <2> QED
    BY <2>5, <2>6, <2>9 DEF Pair
<1>6. CASE Follow(n, x, S, dd)
  <2>1. Exchanging(n) /\ Exchanging(x) /\ x.isMaster = n.isMaster /\ n.isMaster = TRUE
    BY <1>6 DEF Follow, Local
  <2>2. ~dd.I /\ ~dd.MS /\ dd.seq = n.DDSeqNo /\ x.DDSeqNo = n.DDSeqNo + 1
    BY <1>6, <2>1 DEF Follow
  <2>3. dd.seq <= m.DDSeqNo /\ Exchanging(m) /\ n.DDSeqNo \in {m.DDSeqNo, m.DDSeqNo + 1}
    BY <2>1, <2>2 DEF Pair, FromSlave, Pace
  <2>4. n.DDSeqNo \in Nat /\ m.DDSeqNo \in Nat /\ x.state \in {"Exchange", "Loading", "Full"}
    BY <2>1 DEF Local, Exchanging
  <2>5. x.DDSeqNo = m.DDSeqNo + 1 /\ x.DDSeqNo \in Nat
    BY <2>2, <2>3, <2>4
  <2>6. Local(x, r, s)
    BY <1>1, <2>1, <2>4, <2>5 DEF Local
  <2>7. Pace(x, m, r)
    BY <2>1, <2>3, <2>5 DEF Pace
  <2>8. FromMaster(D, x, r)
    BY <2>1, <2>2, <2>4 DEF Pair, FromMaster
  <2>9. FromMaster(S, x, r)
    BY <1>6, <2>1, <2>5 DEF Follow, FromMaster, IsLater
  <2>10. FromMaster(D \cup S, x, r)
    BY <2>8, <2>9 DEF FromMaster
  <2> QED
    BY <2>6, <2>7, <2>10 DEF Pair
<1> QED
  BY <1>2, <1>3, <1>4, <1>5, <1>6 DEF Outcome

\* The slave receives a description.
LEMMA SlaveMoves ==
    ASSUME NEW r \in Router, NEW s \in Peers(r), r > s, NEW n, NEW m, NEW x, NEW D, NEW E, NEW S,
           Local(n, r, s), Local(m, s, r), Pair(n, m, D, E, r), NEW dd \in D,
           Outcome(m, x, S, s, r, dd)
    PROVE  Local(x, s, r) /\ Pair(n, x, D, E \cup S, r)
<1>1. /\ r \in Nat /\ s \in Nat /\ FirstSeq[r] \in Nat \ {0} /\ FirstSeq[s] \in Nat \ {0}
      /\ s < r /\ ~(s > r) /\ ~(r < s)
  BY PeersSymmetric
<1>2. dd.MS /\ dd.seq \in Nat
  BY DEF Pair, FromMaster
<1>3. CASE Stay(m, x, S, dd)
  <2>1. SameRole(m, x) /\ S \subseteq {dd}
    BY <1>3 DEF Stay
  <2>2. Local(x, s, r)
    BY <2>1 DEF Local, SameRole, Exchanging
  <2>3. FromSlave(E \cup S, x)
    BY <1>2, <2>1 DEF Pair, FromSlave, SameRole, Exchanging
  <2> QED
    BY <2>1, <2>2, <2>3 DEF Pair, Pace, SameRole, Exchanging
<1>4. CASE Begin(m, x, S, s)
  <2>1. Local(x, s, r)
    BY <1>1, <1>4 DEF Begin, Local, Exchanging
  <2>2. ~Exchanging(m) /\ ~Exchanging(x)
    BY <1>4 DEF Begin, Exchanging
  <2>3. ~Exchanging(n)
    BY <2>2 DEF Pair, Pace
  <2>4. Pace(n, x, r)
    BY <2>2, <2>3 DEF Pace
  <2>5. FromSlave(E \cup S, x)
    BY <1>1, <1>4, <2>2 DEF Begin, Pair, FromSlave, IsFirst
  <2> QED
    BY <2>1, <2>4, <2>5 DEF Pair
<1>5. CASE Lead(m, x, S, s, r, dd)
  BY <1>1, <1>5 DEF Lead
<1>6. CASE Yield(m, x, S, s, r, dd)
  <2>1. dd.I /\ ~Exchanging(m) /\ Exchanging(x) /\ x.isMaster = FALSE /\ x.DDSeqNo = dd.seq
    BY <1>6 DEF Yield, Exchanging
  <2>2. dd.seq = FirstSeq[r] /\ n.state \notin {"Down", "Init"}
    BY <2>1 DEF Pair, FromMaster
  <2>3. ~Exchanging(n)
    BY <2>1 DEF Pair, Pace
  <2>4. n.state = "ExStart"
    BY <2>2, <2>3 DEF Local, Exchanging
  <2>5. x.state \in {"Exchange", "Loading", "Full"}
    BY <2>1 DEF Exchanging
  <2>6. Local(x, s, r)
    BY <1>1, <1>2, <2>1, <2>5 DEF Local
  <2>7. Pace(n, x, r)
    BY <2>1, <2>2, <2>3, <2>4 DEF Pace
  <2>8. FromSlave(E, x)
    BY <2>1 DEF Pair, FromSlave
  <2>9. FromSlave(S, x)
    BY <1>1, <1>2, <1>6, <2>1 DEF Yield, FromSlave, IsFirst, IsLater
  <2>10. FromSlave(E \cup S, x)
    BY <2>8, <2>9 DEF FromSlave
  <2> QED
    BY <2>6, <2>7, <2>10 DEF Pair
<1>7. CASE Follow(m, x, S, dd)
  <2>1. Exchanging(m) /\ Exchanging(x) /\ x.isMaster = m.isMaster /\ m.isMaster = FALSE
    BY <1>1, <1>7 DEF Follow, Local
  <2>2. ~dd.I /\ dd.seq = m.DDSeqNo + 1 /\ x.DDSeqNo = dd.seq
    BY <1>7, <2>1 DEF Follow
  <2>3. dd.seq <= n.DDSeqNo /\ Exchanging(n) /\ n.DDSeqNo \in {m.DDSeqNo, m.DDSeqNo + 1}
    BY <2>1, <2>2 DEF Pair, FromMaster, Pace
  <2>4. n.DDSeqNo \in Nat /\ m.DDSeqNo \in Nat /\ x.state \in {"Exchange", "Loading", "Full"}
    BY <2>1 DEF Local, Exchanging
  <2>5. x.DDSeqNo = n.DDSeqNo /\ x.DDSeqNo \in Nat /\ m.DDSeqNo <= x.DDSeqNo
    BY <2>2, <2>3, <2>4
  <2>6. Local(x, s, r)
    BY <1>1, <2>1, <2>4, <2>5 DEF Local
  <2>7. Pace(n, x, r)
    BY <2>1, <2>3, <2>5 DEF Pace
  <2>8. FromSlave(E, x)
    BY <2>1, <2>4, <2>5 DEF Pair, FromSlave
  <2>9. FromSlave(S, x)
    BY <1>7, <2>1, <2>5 DEF Follow, FromSlave, IsLater
  <2>10. FromSlave(E \cup S, x)
    BY <2>8, <2>9 DEF FromSlave
  <2> QED
    BY <2>6, <2>7, <2>10 DEF Pair
<1> QED
  BY <1>3, <1>4, <1>5, <1>6, <1>7 DEF Outcome
Settled(n, x) ==
    /\ x.DDSeqNo = n.DDSeqNo /\ x.isMaster = n.isMaster
    /\ x.state = n.state \/ (n.state = "Loading" /\ x.state = "Full")

\* Nothing happens to the exchange.
LEMMA SettledMoves ==
    ASSUME NEW r, NEW s, NEW n, NEW m, NEW x, NEW D, NEW E, Settled(n, x)
    PROVE  /\ Local(n, r, s) => Local(x, r, s)
           /\ Pair(n, m, D, E, r) => Pair(x, m, D, E, r)
           /\ Pair(m, n, D, E, s) => Pair(m, x, D, E, s)
<1>1. Exchanging(x) <=> Exchanging(n)
  BY DEF Settled, Exchanging
<1>2. Local(n, r, s) => Local(x, r, s)
  BY <1>1 DEF Local, Settled
<1>3. FromSlave(E, n) => FromSlave(E, x)
  BY <1>1 DEF FromSlave, Settled
<1>4. FromMaster(D, n, r) => FromMaster(D, x, r)
  BY <1>1 DEF FromMaster, Settled
<1>5. Pace(n, m, r) => Pace(x, m, r)
  BY <1>1 DEF Pace, Settled, Exchanging
<1>6. Pace(m, n, s) => Pace(m, x, s)
  BY <1>1 DEF Pace, Settled
<1> QED
  BY <1>2, <1>3, <1>4, <1>5, <1>6 DEF Pair

\* A greeting at the master's end.
LEMMA MasterGreeted ==
    ASSUME NEW r \in Router, NEW s \in Peers(r), r > s, NEW n, NEW m, NEW x, NEW D, NEW E, NEW S,
           Local(n, r, s), Pair(n, m, D, E, r), Greeted(n, x, S, r)
    PROVE  Local(x, r, s) /\ Pair(x, m, D \cup S, E, r)
<1>1. FirstSeq[r] \in Nat \ {0}
  BY PeersSymmetric
<1>2. CASE SameRole(n, x) /\ (S = {} \/ (n.state = "ExStart" /\ \A d \in S : IsFirst(d, r)))
  <2>1. Local(x, r, s)
    BY <1>2 DEF Local, SameRole, Exchanging
  <2>2. FromMaster(D, x, r) /\ Pace(x, m, r)
    BY <1>2 DEF Pair, FromMaster, Pace, SameRole, Exchanging
  <2>3. FromMaster(S, x, r)
    BY <1>1, <1>2 DEF FromMaster, IsFirst, SameRole
  <2>4. FromMaster(D \cup S, x, r)
    BY <2>2, <2>3 DEF FromMaster
  <2> QED
    BY <2>1, <2>2, <2>4 DEF Pair
<1>3. CASE n.state = "Down" /\ x.state = "Init" /\ x.DDSeqNo = n.DDSeqNo /\ S = {}
  <2>1. Local(x, r, s)
    BY <1>3 DEF Local, Exchanging
  <2>2. ~Exchanging(n) /\ ~Exchanging(x)
    BY <1>3 DEF Exchanging
  <2>3. Pace(x, m, r)
    BY <1>3, <2>2 DEF Pair, Pace
  <2>4. FromMaster(D \cup S, x, r)
    BY <1>3, <2>2 DEF Pair, FromMaster
  <2> QED
    BY <2>1, <2>3, <2>4 DEF Pair
<1>4. CASE /\ n.state \in {"Down", "Init"} /\ x.state = "ExStart" /\ x.DDSeqNo = FirstSeq[r]
           /\ \A d \in S : IsFirst(d, r)
  <2>1. Local(x, r, s)
    BY <1>1, <1>4 DEF Local, Exchanging
  <2>2. ~Exchanging(n) /\ ~Exchanging(x)
    BY <1>4 DEF Exchanging
  <2>3. Pace(x, m, r)
    BY <1>4, <2>2 DEF Pair, Pace
  <2>4. FromMaster(D, x, r)
    BY <1>4, <2>2 DEF Pair, FromMaster
  <2>5. FromMaster(S, x, r)
    BY <1>1, <1>4 DEF FromMaster, IsFirst
  <2>6. FromMaster(D \cup S, x, r)
    BY <2>4, <2>5 DEF FromMaster
  <2> QED
    BY <2>1, <2>3, <2>6 DEF Pair
<1> QED
  BY <1>2, <1>3, <1>4 DEF Greeted

\* A greeting at the slave's end.
LEMMA SlaveGreeted ==
    ASSUME NEW r \in Router, NEW s \in Peers(r), r > s, NEW n, NEW m, NEW x, NEW D, NEW E, NEW S,
           Local(m, s, r), Pair(n, m, D, E, r), Greeted(m, x, S, s)
    PROVE  Local(x, s, r) /\ Pair(n, x, D, E \cup S, r)
<1>1. FirstSeq[s] \in Nat \ {0}
  BY PeersSymmetric
<1>2. CASE SameRole(m, x) /\ (S = {} \/ (m.state = "ExStart" /\ \A d \in S : IsFirst(d, s)))
  <2>1. Local(x, s, r)
    BY <1>2 DEF Local, SameRole, Exchanging
  <2>2. FromSlave(E, x) /\ Pace(n, x, r)
    BY <1>2 DEF Pair, FromSlave, Pace, SameRole, Exchanging
  <2>3. FromSlave(S, x)
    BY <1>1, <1>2 DEF FromSlave, IsFirst
  <2>4. FromSlave(E \cup S, x)
    BY <2>2, <2>3 DEF FromSlave
  <2> QED
    BY <2>1, <2>2, <2>4 DEF Pair
<1>3. CASE m.state = "Down" /\ x.state = "Init" /\ x.DDSeqNo = m.DDSeqNo /\ S = {}
  <2>1. Local(x, s, r)
    BY <1>3 DEF Local, Exchanging
  <2>2. ~Exchanging(m) /\ ~Exchanging(x)
    BY <1>3 DEF Exchanging
  <2>3. Pace(n, x, r)
    BY <2>2 DEF Pair, Pace
  <2>4. FromSlave(E \cup S, x)
    BY <1>3, <2>2 DEF Pair, FromSlave
  <2> QED
    BY <2>1, <2>3, <2>4 DEF Pair
<1>4. CASE /\ m.state \in {"Down", "Init"} /\ x.state = "ExStart" /\ x.DDSeqNo = FirstSeq[s]
           /\ \A d \in S : IsFirst(d, s)
  <2>1. Local(x, s, r)
    BY <1>1, <1>4 DEF Local, Exchanging
  <2>2. ~Exchanging(m) /\ ~Exchanging(x)
    BY <1>4 DEF Exchanging
  <2>3. Pace(n, x, r)
    BY <2>2 DEF Pair, Pace
  <2>4. FromSlave(E \cup S, x)
    BY <1>1, <1>4, <2>2 DEF Pair, FromSlave, IsFirst
  <2> QED
    BY <2>1, <2>3, <2>4 DEF Pair
<1> QED
  BY <1>2, <1>3, <1>4 DEF Greeted

-----------------------------------------------------------------------------
(* Steps.                                                                  *)

\* The links that are left when router r has taken its packet.
Flight(f, r) ==
    /\ DOMAIN f = Router /\ f[r] = link[r]
    /\ \A q \in Router :
          /\ DOMAIN f[q] = Peers(q)
          /\ \A t \in Peers(q) : IsPackets(f[q][t]) /\ DDs(f[q][t]) \subseteq DDs(link[q][t])

\* X does not break the invariant between r and its neighbor q.
Good(X, r, q) ==
    /\ Local(X.nbr[q], r, q)
    /\ r > q => Pair(X.nbr[q], rt[q].nbr[r], DDs(link[r][q]) \cup DDs(X.out[q]),
                     DDs(link[q][r]), r)
    /\ q > r => Pair(rt[q].nbr[r], X.nbr[q], DDs(link[q][r]),
                     DDs(link[r][q]) \cup DDs(X.out[q]), q)

\* The state after r has become X.
LEMMA BecomesShape ==
    ASSUME Shape, NEW r \in Router, NEW X, NEW f, IsRouter(X, r), Flight(f, r), Becomes(r, X, f)
    PROVE  /\ Shape'
           /\ \A q \in Peers(r) :
                 /\ rt'[r].nbr[q] = X.nbr[q]
                 /\ DDs(link'[r][q]) = DDs(link[r][q]) \cup DDs(X.out[q])
           /\ \A q \in Router : q # r => rt'[q] = rt[q] /\ link'[q] = f[q]
<1> DEFINE Y == [X EXCEPT !.out = [s \in Peers(r) |-> <<>>]]
<1>1. /\ rt' = [rt EXCEPT ![r] = Y]
      /\ link' = [f EXCEPT ![r] = [s \in Peers(r) |-> f[r][s] \o X.out[s]]]
  BY DEF Becomes
<1>2. /\ IsRouter(Y, r) /\ Y.nbr = X.nbr /\ \A s \in Peers(r) : Y.out[s] = <<>>
  <2>1. /\ DOMAIN Y = RouterFields /\ Y.id = r /\ Y.nbr = X.nbr /\ Y.update = X.update
        /\ Y.out = [s \in Peers(r) |-> <<>>]
    BY DEF IsRouter, RouterFields
  <2> HIDE DEF Y
  <2>2. IsPackets(<<>>)
    BY ListEmpty DEF IsPackets
  <2> QED
    BY <2>1, <2>2 DEF IsRouter
<1> HIDE DEF Y
<1>3. /\ DOMAIN rt' = Router /\ rt'[r] = Y /\ \A q \in Router : q # r => rt'[q] = rt[q]
  BY <1>1 DEF Shape
<1>4. /\ DOMAIN link' = Router /\ link'[r] = [s \in Peers(r) |-> f[r][s] \o X.out[s]]
      /\ \A q \in Router : q # r => link'[q] = f[q]
  BY <1>1 DEF Flight
<1>5. \A s \in Peers(r) : /\ IsPackets(link'[r][s])
                          /\ DDs(link'[r][s]) = DDs(link[r][s]) \cup DDs(X.out[s])
  <2>1. SUFFICES ASSUME NEW s \in Peers(r)
                 PROVE  /\ IsPackets(link'[r][s])
                        /\ DDs(link'[r][s]) = DDs(link[r][s]) \cup DDs(X.out[s])
    OBVIOUS
  <2>2. link'[r][s] = link[r][s] \o X.out[s]
    BY <1>4 DEF Flight
  <2>3. IsPackets(link[r][s]) /\ IsPackets(X.out[s])
    BY DEF Shape, IsRouter
  <2>4. IsList(link[r][s]) /\ IsList(X.out[s])
    BY <2>3 DEF IsPackets
  <2>5. /\ IsList(link[r][s] \o X.out[s])
        /\ Range(link[r][s] \o X.out[s]) = Range(link[r][s]) \cup Range(X.out[s])
        /\ DDs(link[r][s] \o X.out[s]) = DDs(link[r][s]) \cup DDs(X.out[s])
    BY <2>4, ListConcat
  <2> QED
    BY <2>2, <2>3, <2>5 DEF IsPackets
<1>6. \A q \in Router : IsRouter(rt'[q], q) /\ DOMAIN link'[q] = Peers(q)
  BY <1>2, <1>3, <1>4 DEF Shape, Flight
<1>7. \A q \in Router : \A s \in Peers(q) : rt'[q].out[s] = <<>> /\ IsPackets(link'[q][s])
  <2>1. \A q \in Router : q # r => \A s \in Peers(q) : rt'[q].out[s] = <<>>
    BY <1>3 DEF Shape
  <2>2. \A q \in Router : q # r => \A s \in Peers(q) : IsPackets(link'[q][s])
    BY <1>4 DEF Flight
  <2>3. \A s \in Peers(r) : rt'[r].out[s] = <<>>
    BY <1>2, <1>3
  <2> QED
    BY <1>5, <2>1, <2>2, <2>3
<1>8. Shape'
  BY <1>3, <1>4, <1>6, <1>7 DEF Shape
<1> QED
  BY <1>2, <1>3, <1>4, <1>5, <1>8

\* Fewer packets on the way do no harm.
LEMMA PairSubset ==
    ASSUME NEW n, NEW m, NEW D, NEW E, NEW r, NEW D2, NEW E2, Pair(n, m, D, E, r),
           D2 \subseteq D, E2 \subseteq E
    PROVE  Pair(n, m, D2, E2, r)
  BY DEF Pair, FromMaster, FromSlave

\* A step of r keeps the invariant if it is good for each neighbor of r.
LEMMA Preserve ==
    ASSUME OspfInv, NEW r \in Router, NEW X, NEW f, IsRouter(X, r), Flight(f, r), Becomes(r, X, f),
           \A q \in Peers(r) : Good(X, r, q)
    PROVE  OspfInv'
<1>1. Shape
  BY DEF OspfInv
<1>2. /\ Shape'
      /\ \A q \in Peers(r) : /\ rt'[r].nbr[q] = X.nbr[q]
                             /\ DDs(link'[r][q]) = DDs(link[r][q]) \cup DDs(X.out[q])
      /\ \A q \in Router : q # r => rt'[q] = rt[q] /\ link'[q] = f[q]
  BY <1>1, BecomesShape
<1>3. \A q \in Router : \A t \in Peers(q) : q # r => DDs(link'[q][t]) \subseteq DDs(link[q][t])
  <2>1. \A q \in Router : \A t \in Peers(q) : DDs(f[q][t]) \subseteq DDs(link[q][t])
    BY DEF Flight
  <2> QED
    BY <1>2, <2>1
<1>4. SUFFICES ASSUME NEW a \in Router, NEW b \in Peers(a)
               PROVE  /\ Local(rt'[a].nbr[b], a, b)
                      /\ a > b => Pair(rt'[a].nbr[b], rt'[b].nbr[a], DDs(link'[a][b]),
                                       DDs(link'[b][a]), a)
  <2>1. OspfInv' <=> /\ Shape'
                     /\ \A a \in Router : \A b \in Peers(a) :
                           /\ Local(rt'[a].nbr[b], a, b)
                           /\ a > b => Pair(rt'[a].nbr[b], rt'[b].nbr[a], DDs(link'[a][b]),
                                            DDs(link'[b][a]), a)
    BY DEF OspfInv, Local, Pair, FromMaster, FromSlave, Pace, DDs
  <2> QED
    BY <1>2, <2>1
<1>5. b \in Router /\ a \in Peers(b) /\ a # b
  BY PeersSymmetric
<1>6. CASE a = r
  <2>1. Good(X, r, b)
    BY <1>6
  <2>2. rt'[b] = rt[b] /\ DDs(link'[b][a]) \subseteq DDs(link[b][a])
    BY <1>2, <1>3, <1>5, <1>6
  <2> QED
    BY <1>2, <1>6, <2>1, <2>2, PairSubset DEF Good
<1>7. CASE b = r
  <2>1. Good(X, r, a)
    BY <1>5, <1>7
  <2>2. rt'[a] = rt[a] /\ DDs(link'[a][b]) \subseteq DDs(link[a][b])
    BY <1>2, <1>3, <1>5, <1>7
  <2>3. Local(rt'[a].nbr[b], a, b)
    BY <2>2 DEF OspfInv
  <2> QED
    BY <1>2, <1>5, <1>7, <2>1, <2>2, <2>3, PairSubset DEF Good
<1>8. CASE a # r /\ b # r
  <2>1. /\ rt'[a] = rt[a] /\ DDs(link'[a][b]) \subseteq DDs(link[a][b])
        /\ rt'[b] = rt[b] /\ DDs(link'[b][a]) \subseteq DDs(link[b][a])
    BY <1>2, <1>3, <1>5, <1>8
  <2> QED
    BY <1>5, <2>1, PairSubset DEF OspfInv
<1> QED
  BY <1>6, <1>7, <1>8
\* A timer of r takes nothing from the links.
LEMMA FlightLink ==
    ASSUME Shape, NEW r \in Router
    PROVE  Flight(link, r)
  BY DEF Shape, Flight

\* A packet received by r leaves its link, and it is a packet of that link.
LEMMA FlightPopped ==
    ASSUME Shape, NEW r \in Router, NEW s \in Peers(r), link[s][r] # <<>>
    PROVE  /\ Flight(Popped(r, s), r)
           /\ IsPacket(Head(link[s][r]))
           /\ Head(link[s][r]).type = "DD" => Head(link[s][r]) \in DDs(link[s][r])
<1>1. s \in Router /\ r \in Peers(s) /\ r # s
  BY PeersSymmetric
<1> DEFINE q == link[s][r]
           f == Popped(r, s)
<1>2. IsPackets(q)
  BY <1>1 DEF Shape
<1>3. /\ IsList(Tail(q)) /\ Range(Tail(q)) \subseteq Range(q) /\ Head(q) \in Range(q)
      /\ DDs(Tail(q)) \subseteq DDs(q)
  BY <1>2, ListTail DEF IsPackets
<1>4. IsPackets(Tail(q))
  BY <1>2, <1>3 DEF IsPackets
<1>5. /\ DOMAIN f = Router /\ \A a \in Router : a # s => f[a] = link[a]
      /\ DOMAIN f[s] = Peers(s) /\ f[s][r] = Tail(q)
      /\ \A b \in Peers(s) : b # r => f[s][b] = link[s][b]
  BY <1>1 DEF Popped, Shape
<1> HIDE DEF f, q
<1>6. \A a \in Router : DOMAIN f[a] = Peers(a)
  BY <1>5 DEF Shape
<1>7. \A b \in Peers(s) : IsPackets(f[s][b]) /\ DDs(f[s][b]) \subseteq DDs(link[s][b])
  BY <1>1, <1>3, <1>4, <1>5 DEF Shape, q
<1>8. \A a \in Router : \A b \in Peers(a) :
         IsPackets(f[a][b]) /\ DDs(f[a][b]) \subseteq DDs(link[a][b])
  BY <1>5, <1>7 DEF Shape
<1>9. Flight(f, r)
  BY <1>1, <1>5, <1>6, <1>8 DEF Flight
<1>10. IsPacket(Head(q)) /\ (Head(q).type = "DD" => Head(q) \in DDs(q))
  BY <1>2, <1>3 DEF IsPackets, DDs
<1> QED
  BY <1>9, <1>10 DEF f, q

\* A calm step, whatever is taken from the links.
LEMMA CalmStep ==
    ASSUME OspfInv, NEW r \in Router, NEW X, NEW f, Calm(rt[r], X, r), Flight(f, r), Becomes(r, X, f)
    PROVE  OspfInv'
<1>1. IsRouter(X, r)
  BY CalmRouter
<1>2. ASSUME NEW q \in Peers(r) PROVE Good(X, r, q)
  <2>1. q \in Router /\ r \in Peers(q) /\ r # q
    BY PeersSymmetric
  <2>2. Settled(rt[r].nbr[q], X.nbr[q])
    BY DEF Calm, Settled
  <2>3. DDs(X.out[q]) = {}
    <3>1. rt[r].out[q] = <<>>
      BY DEF OspfInv, Shape
    <3>2. DDs(X.out[q]) = DDs(rt[r].out[q])
      BY DEF Calm
    <3> QED
      BY <3>1, <3>2, ListEmpty
  <2>4. /\ Local(rt[r].nbr[q], r, q)
        /\ r > q => Pair(rt[r].nbr[q], rt[q].nbr[r], DDs(link[r][q]), DDs(link[q][r]), r)
        /\ q > r => Pair(rt[q].nbr[r], rt[r].nbr[q], DDs(link[q][r]), DDs(link[r][q]), q)
    BY <2>1 DEF OspfInv
  <2>5. Local(X.nbr[q], r, q)
    BY <2>2, <2>4, SettledMoves
  <2>6. r > q => Pair(X.nbr[q], rt[q].nbr[r], DDs(link[r][q]), DDs(link[q][r]), r)
    BY <2>2, <2>4, SettledMoves
  <2>7. q > r => Pair(rt[q].nbr[r], X.nbr[q], DDs(link[q][r]), DDs(link[r][q]), q)
    BY <2>2, <2>4, SettledMoves
  <2> QED
    BY <2>3, <2>5, <2>6, <2>7 DEF Good
<1> QED
  BY <1>1, <1>2, Preserve

\* A step of the exchange with neighbor s.
LEMMA OnlyStep ==
    ASSUME OspfInv, NEW r \in Router, NEW s \in Peers(r), NEW X, NEW f, Only(rt[r], X, r, s),
           Good(X, r, s), Flight(f, r), Becomes(r, X, f)
    PROVE  OspfInv'
<1>1. IsRouter(X, r)
  BY DEF Only
<1>2. ASSUME NEW q \in Peers(r), q # s PROVE Good(X, r, q)
  <2>1. q \in Router /\ r \in Peers(q) /\ r # q
    BY PeersSymmetric
  <2>2. X.nbr[q] = rt[r].nbr[q] /\ X.out[q] = rt[r].out[q]
    BY <1>2 DEF Only
  <2>3. DDs(X.out[q]) = {}
    BY <2>2, ListEmpty DEF OspfInv, Shape
  <2>4. /\ Local(rt[r].nbr[q], r, q)
        /\ r > q => Pair(rt[r].nbr[q], rt[q].nbr[r], DDs(link[r][q]), DDs(link[q][r]), r)
        /\ q > r => Pair(rt[q].nbr[r], rt[r].nbr[q], DDs(link[q][r]), DDs(link[r][q]), q)
    BY <2>1 DEF OspfInv
  <2> QED
    BY <2>2, <2>3, <2>4 DEF Good
<1> QED
  BY <1>1, <1>2, Preserve

\* A hello or a repeated first description keeps the invariant.
LEMMA GreetedStep ==
    ASSUME OspfInv, NEW r \in Router, NEW s \in Peers(r), NEW X, NEW f, Only(rt[r], X, r, s),
           Greeted(rt[r].nbr[s], X.nbr[s], DDs(X.out[s]), r), Flight(f, r), Becomes(r, X, f)
    PROVE  OspfInv'
<1>1. s \in Router /\ r \in Peers(s) /\ r # s /\ r \in Nat /\ s \in Nat
  BY PeersSymmetric
<1>2. /\ Local(rt[r].nbr[s], r, s)
      /\ r > s => Pair(rt[r].nbr[s], rt[s].nbr[r], DDs(link[r][s]), DDs(link[s][r]), r)
      /\ s > r => Pair(rt[s].nbr[r], rt[r].nbr[s], DDs(link[s][r]), DDs(link[r][s]), s)
  BY <1>1 DEF OspfInv
<1>3. CASE r > s
  <2>1. /\ Local(X.nbr[s], r, s)
        /\ Pair(X.nbr[s], rt[s].nbr[r], DDs(link[r][s]) \cup DDs(X.out[s]), DDs(link[s][r]), r)
    BY <1>2, <1>3, MasterGreeted
  <2>2. Good(X, r, s)
    BY <1>1, <1>3, <2>1 DEF Good
  <2> QED
    BY <2>2, OnlyStep
<1>4. CASE s > r
  <2>1. /\ Local(X.nbr[s], r, s)
        /\ Pair(rt[s].nbr[r], X.nbr[s], DDs(link[s][r]), DDs(link[r][s]) \cup DDs(X.out[s]), s)
    BY <1>1, <1>2, <1>4, SlaveGreeted
  <2>2. Good(X, r, s)
    BY <1>1, <1>4, <2>1 DEF Good
  <2> QED
    BY <2>2, OnlyStep
<1> QED
  BY <1>1, <1>3, <1>4

\* A description received keeps the invariant.
LEMMA OutcomeStep ==
    ASSUME OspfInv, NEW r \in Router, NEW s \in Peers(r), NEW X, NEW f, Only(rt[r], X, r, s),
           NEW dd \in DDs(link[s][r]),
           Outcome(rt[r].nbr[s], X.nbr[s], DDs(X.out[s]), r, s, dd), Flight(f, r), Becomes(r, X, f)
    PROVE  OspfInv'
<1>1. s \in Router /\ r \in Peers(s) /\ r # s /\ r \in Nat /\ s \in Nat
  BY PeersSymmetric
<1>2. /\ Local(rt[r].nbr[s], r, s) /\ Local(rt[s].nbr[r], s, r)
      /\ r > s => Pair(rt[r].nbr[s], rt[s].nbr[r], DDs(link[r][s]), DDs(link[s][r]), r)
      /\ s > r => Pair(rt[s].nbr[r], rt[r].nbr[s], DDs(link[s][r]), DDs(link[r][s]), s)
  BY <1>1 DEF OspfInv
<1>3. CASE r > s
  <2>1. /\ Local(X.nbr[s], r, s)
        /\ Pair(X.nbr[s], rt[s].nbr[r], DDs(link[r][s]) \cup DDs(X.out[s]), DDs(link[s][r]), r)
    BY <1>2, <1>3, MasterMoves
  <2>2. Good(X, r, s)
    BY <1>1, <1>3, <2>1 DEF Good
  <2> QED
    BY <2>2, OnlyStep
<1>4. CASE s > r
  <2>1. /\ Local(X.nbr[s], r, s)
        /\ Pair(rt[s].nbr[r], X.nbr[s], DDs(link[s][r]), DDs(link[r][s]) \cup DDs(X.out[s]), s)
    BY <1>1, <1>2, <1>4, SlaveMoves
  <2>2. Good(X, r, s)
    BY <1>1, <1>4, <2>1 DEF Good
  <2> QED
    BY <2>2, OnlyStep
<1> QED
  BY <1>1, <1>3, <1>4

-----------------------------------------------------------------------------
(* Actions.                                                                *)

\* The invariant holds when the interfaces have come up.
LEMMA InitInv == Init => OspfInv
<1> SUFFICES ASSUME Init PROVE OspfInv
  OBVIOUS
<1>1. \A r \in Router : \A s \in Peers(r) : rt[r] = RouterData(r) /\ link[r][s] = <<>>
  BY DEF Init
<1>2. IsPackets(<<>>) /\ IsList(<<>>) /\ DDs(<<>>) = {}
  BY ListEmpty DEF IsPackets
<1>3. IsNeighbor(ospf_neighbor_new)
  BY <1>2 DEF IsNeighbor, NeighborFields, ospf_neighbor_new
<1>4. \A r \in Router :
         /\ IsRouter(RouterData(r), r)
         /\ \A s \in Peers(r) : /\ RouterData(r).out[s] = <<>>
                                /\ RouterData(r).nbr[s] = ospf_neighbor_new
  BY <1>2, <1>3 DEF RouterData, IsRouter, RouterFields
<1>5. Shape
  BY <1>2, <1>4 DEF Shape, Init
<1>6. ASSUME NEW r \in Router, NEW s \in Peers(r)
      PROVE  /\ Local(rt[r].nbr[s], r, s)
             /\ Pair(rt[r].nbr[s], rt[s].nbr[r], DDs(link[r][s]), DDs(link[s][r]), r)
  <2>1. s \in Router /\ r \in Peers(s)
    BY PeersSymmetric
  <2>2. /\ rt[r].nbr[s] = ospf_neighbor_new /\ rt[s].nbr[r] = ospf_neighbor_new
        /\ DDs(link[r][s]) = {} /\ DDs(link[s][r]) = {}
    BY <1>1, <1>2, <1>4, <2>1
  <2>3. ospf_neighbor_new.state = "Down" /\ ospf_neighbor_new.DDSeqNo = 0
    BY DEF ospf_neighbor_new
  <2>4. ~Exchanging(ospf_neighbor_new)
    BY <2>3 DEF Exchanging
  <2> QED
    BY <2>2, <2>3, <2>4 DEF Local, Pair, FromMaster, FromSlave, Pace
<1> QED
  BY <1>5, <1>6 DEF OspfInv

\* Every packet received keeps the invariant (Receive).
LEMMA ReceiveInv ==
    ASSUME OspfInv, NEW r \in Router, NEW s \in Peers(r), Receive(r, s)
    PROVE  OspfInv'
<1> DEFINE p == Head(link[s][r])
           f == Popped(r, s)
<1>1. Shape /\ IsRouter(rt[r], r) /\ rt[r].out[s] = <<>> /\ link[s][r] # <<>>
  BY DEF OspfInv, Shape, Receive
<1>2. Flight(f, r) /\ IsPacket(p) /\ (p.type = "DD" => p \in DDs(link[s][r]))
  BY <1>1, FlightPopped
<1>3. Local(rt[r].nbr[s], r, s)
  BY DEF OspfInv
<1> HIDE DEF f
<1>4. CASE p.type = "HELLO" /\ Becomes(r, ospf_process_hello(rt[r], s, p), f)
  <2> DEFINE X == ospf_process_hello(rt[r], s, p)
  <2>1. Only(rt[r], X, r, s) /\ Greeted(rt[r].nbr[s], X.nbr[s], DDs(X.out[s]), r)
    BY <1>1, <1>3, HandleHello DEF Local
  <2> HIDE DEF X
  <2>2. Becomes(r, X, f)
    BY <1>4 DEF X
  <2> QED
    BY <1>2, <2>1, <2>2, GreetedStep
<1>5. CASE p.type = "DD" /\ Becomes(r, ospf_handle_DD(rt[r], s, p), f)
  <2> DEFINE X == ospf_handle_DD(rt[r], s, p)
  <2>1. Only(rt[r], X, r, s) /\ Outcome(rt[r].nbr[s], X.nbr[s], DDs(X.out[s]), r, s, p)
    BY <1>1, <1>2, <1>3, <1>5, HandleDD DEF Local
  <2> HIDE DEF X
  <2>2. Becomes(r, X, f) /\ p \in DDs(link[s][r])
    BY <1>2, <1>5 DEF X
  <2> HIDE DEF p
  <2> QED
    BY <1>2, <2>1, <2>2, OutcomeStep
<1>6. CASE p.type = "LSREQ" /\ Becomes(r, ospf_handle_LSRequest(rt[r], s, p), f)
  <2>1. Calm(rt[r], ospf_handle_LSRequest(rt[r], s, p), r)
    BY <1>1, <1>2, <1>6, CalmLSRequest DEF IsPacket
  <2> QED
    BY <1>2, <1>6, <2>1, CalmStep
<1>7. CASE /\ p.type = "LSU"
           /\ \E next \in BOOLEAN, early \in SUBSET EarlyLsas(rt[r], p) :
                 Becomes(r, ospf_handle_LSUPDATE(rt[r], s, p, early, next), f)
  <2>1. PICK next \in BOOLEAN, early \in SUBSET EarlyLsas(rt[r], p) :
           Becomes(r, ospf_handle_LSUPDATE(rt[r], s, p, early, next), f)
    BY <1>7
  <2>2. Calm(rt[r], ospf_handle_LSUPDATE(rt[r], s, p, early, next), r)
    BY <1>1, <1>2, <1>7, CalmLSUPDATE DEF IsPacket
  <2> QED
    BY <1>2, <2>1, <2>2, CalmStep
<1>8. CASE p.type = "LSACK" /\ Becomes(r, ospf_handle_LSAck(rt[r], s, p), f)
  <2>1. Calm(rt[r], ospf_handle_LSAck(rt[r], s, p), r)
    BY <1>1, CalmLSAck
  <2> QED
    BY <1>2, <1>8, <2>1, CalmStep
<1> QED
  BY <1>4, <1>5, <1>6, <1>7, <1>8 DEF Receive, f

\* Every timer keeps the invariant.
LEMMA TimerInv ==
    ASSUME OspfInv, NEW r \in Router, NEW s \in Peers(r),
           \/ HelloTimer(r, s) \/ RxmtInExStart(r, s) \/ RxmtTimer(r, s)
           \/ FloodTimer(r, s) \/ DelayedAckTimer(r, s)
    PROVE  OspfInv'
<1>1. Shape /\ IsRouter(rt[r], r) /\ rt[r].out[s] = <<>> /\ Flight(link, r)
  BY FlightLink DEF OspfInv, Shape
<1>2. CASE HelloTimer(r, s)
  <2> DEFINE p == [type |-> "HELLO",
                   nbrs |-> {s} \cap {x \in Peers(r) : rt[r].nbr[x].state # "Down"}]
  <2>1. Becomes(r, OSPF_SEND_PACKET(rt[r], s, p), link)
    BY <1>2 DEF HelloTimer
  <2>2. IsPacket(p) /\ p.type # "DD"
    BY DEF IsPacket
  <2> HIDE DEF p
  <2>3. Calm(rt[r], OSPF_SEND_PACKET(rt[r], s, p), r)
    BY <1>1, <2>2, CalmSend
  <2> QED
    BY <1>1, <2>1, <2>3, CalmStep
<1>3. CASE RxmtInExStart(r, s)
  <2> DEFINE X == start_sending_dd_msg([rt[r] EXCEPT !.nbr[s].ddTimer = FALSE], s)
  <2>1. Becomes(r, X, link)
    BY <1>3 DEF RxmtInExStart
  <2>2. rt[r].nbr[s].state = "ExStart" => rt[r].nbr[s].DDSeqNo = FirstSeq[r]
    BY DEF OspfInv, Local
  <2>3. Only(rt[r], X, r, s) /\ Greeted(rt[r].nbr[s], X.nbr[s], DDs(X.out[s]), r)
    BY <1>1, <2>2, HandleRxmt
  <2> HIDE DEF X
  <2> QED
    BY <1>1, <2>1, <2>3, GreetedStep
<1>4. CASE RxmtTimer(r, s)
  <2> DEFINE R == [rt[r] EXCEPT !.nbr[s].reqTimer = FALSE]
             X == IF R.nbr[s].req = <<>> THEN R ELSE ospf_lsreq_send(R, s)
  <2>1. Becomes(r, X, link)
    BY <1>4 DEF RxmtTimer
  <2>2. Calm(rt[r], R, r)
    BY <1>1, CalmReqTimer
  <2> HIDE DEF R
  <2>3. Calm(R, ospf_lsreq_send(R, s), r)
    BY <2>2, CalmRouter, CalmLsreqSend
  <2>4. Calm(rt[r], X, r)
    BY <2>2, <2>3, CalmTrans
  <2> HIDE DEF X
  <2> QED
    BY <1>1, <2>1, <2>4, CalmStep
<1>5. CASE FloodTimer(r, s)
  <2> DEFINE R == [rt[r] EXCEPT !.isFloodTimerSet[s] = FALSE]
  <2>1. Becomes(r, SendUpdates(R, s), link)
    BY <1>5 DEF FloodTimer
  <2>2. Calm(rt[r], R, r)
    BY <1>1, CalmFloodFlag
  <2> HIDE DEF R
  <2>3. Calm(R, SendUpdates(R, s), r)
    BY <2>2, CalmRouter, CalmSendUpdates
  <2>4. Calm(rt[r], SendUpdates(R, s), r)
    BY <2>2, <2>3, CalmTrans
  <2> QED
    BY <1>1, <2>1, <2>4, CalmStep
<1>6. CASE DelayedAckTimer(r, s)
  <2> DEFINE R == [rt[r] EXCEPT !.delayedAck[s] = <<>>]
             p == [type |-> "LSACK", hdrs |-> rt[r].delayedAck[s]]
  <2>1. Becomes(r, OSPF_SEND_PACKET(R, s, p), link)
    BY <1>6 DEF DelayedAckTimer
  <2>2. Calm(rt[r], R, r)
    <3>1. /\ DOMAIN R = RouterFields /\ R.id = r /\ R.nbr = rt[r].nbr /\ R.out = rt[r].out
          /\ R.update = rt[r].update
      BY <1>1 DEF IsRouter, RouterFields
    <3> HIDE DEF R
    <3> QED
      BY <1>1, <3>1, CalmFields
  <2>3. IsPacket(p) /\ p.type # "DD"
    BY DEF IsPacket
  <2> HIDE DEF R, p
  <2>4. Calm(R, OSPF_SEND_PACKET(R, s, p), r)
    BY <2>2, <2>3, CalmRouter, CalmSend
  <2>5. Calm(rt[r], OSPF_SEND_PACKET(R, s, p), r)
    BY <2>2, <2>4, CalmTrans
  <2> QED
    BY <1>1, <2>1, <2>5, CalmStep
<1> QED
  BY <1>2, <1>3, <1>4, <1>5, <1>6

\* The loss of a packet keeps the invariant (Lose).
LEMMA LoseInv ==
    ASSUME OspfInv, NEW r \in Router, NEW s \in Peers(r), Lose(r, s)
    PROVE  OspfInv'
<1> DEFINE f == Popped(r, s)
<1>1. Shape /\ link[s][r] # <<>> /\ link' = f /\ rt' = rt
  BY DEF OspfInv, Lose
<1>2. Flight(f, r)
  BY <1>1, FlightPopped
<1> HIDE DEF f
<1>3. /\ DOMAIN link' = Router
      /\ \A q \in Router : /\ DOMAIN link'[q] = Peers(q)
                           /\ \A t \in Peers(q) : /\ IsPackets(link'[q][t])
                                                  /\ DDs(link'[q][t]) \subseteq DDs(link[q][t])
  BY <1>1, <1>2 DEF Flight
<1>4. Shape'
  BY <1>1, <1>3 DEF Shape
<1>5. ASSUME NEW a \in Router, NEW b \in Peers(a)
      PROVE  /\ Local(rt'[a].nbr[b], a, b)
             /\ a > b => Pair(rt'[a].nbr[b], rt'[b].nbr[a], DDs(link'[a][b]), DDs(link'[b][a]), a)
  <2>1. b \in Router /\ a \in Peers(b)
    BY PeersSymmetric
  <2>2. DDs(link'[a][b]) \subseteq DDs(link[a][b]) /\ DDs(link'[b][a]) \subseteq DDs(link[b][a])
    BY <1>3, <2>1
  <2> QED
    BY <1>1, <2>2, PairSubset DEF OspfInv
<1>6. OspfInv' <=> /\ Shape'
                   /\ \A a \in Router : \A b \in Peers(a) :
                         /\ Local(rt'[a].nbr[b], a, b)
                         /\ a > b => Pair(rt'[a].nbr[b], rt'[b].nbr[a], DDs(link'[a][b]),
                                          DDs(link'[b][a]), a)
  BY DEF OspfInv, Local, Pair, FromMaster, FromSlave, Pace, DDs
<1> QED
  BY <1>4, <1>5, <1>6

\* OspfInv is inductive.
THEOREM OspfInvariant == Spec => []OspfInv
<1>1. OspfInv /\ [Next]_vars => OspfInv'
  <2> SUFFICES ASSUME OspfInv, [Next]_vars PROVE OspfInv'
    OBVIOUS
  <2>1. ASSUME NEW r \in Router, ScheduleLSDB(r) PROVE OspfInv'
    <3>1. IsRouter(rt[r], r) /\ Flight(link, r)
      BY FlightLink DEF OspfInv, Shape
    <3>2. Becomes(r, ospf_rlsa_originateRouterLSA(rt[r]), link)
      BY <2>1 DEF ScheduleLSDB
    <3>3. Calm(rt[r], ospf_rlsa_originateRouterLSA(rt[r]), r)
      BY <3>1, CalmOriginate
    <3> QED
      BY <3>1, <3>2, <3>3, CalmStep
  <2>2. CASE UNCHANGED vars
    BY <2>2 DEF vars, OspfInv, Shape, Local, Pair, FromMaster, FromSlave, Pace, DDs
  <2> QED
    BY <2>1, <2>2, ReceiveInv, TimerInv, LoseInv DEF Next
<1> QED
  BY <1>1, InitInv, PTL DEF Spec

\* The two ends of a link agree on who is master and keep in step, for any
\* area, any clocks, and any loss, repetition or delay of the packets
\* (process_dd_in_exstart_state, process_dd_in_exchange_state).
THEOREM DatabaseExchangeInStep == Spec => []InStep
<1>1. OspfInv => InStep
  <2> SUFFICES ASSUME OspfInv, NEW l \in Link, NEW r \in l, NEW s \in l, r > s,
                      Exchanging(rt[r].nbr[s]), Exchanging(rt[s].nbr[r])
               PROVE  /\ rt[r].nbr[s].isMaster /\ ~rt[s].nbr[r].isMaster
                      /\ rt[r].nbr[s].DDSeqNo \in {rt[s].nbr[r].DDSeqNo, rt[s].nbr[r].DDSeqNo + 1}
    BY DEF InStep
  <2>1. r \in Router /\ s \in Router /\ l = {r, s} /\ r \in Nat /\ s \in Nat
    BY OspfAssumption
  <2>2. s \in Peers(r) /\ r \in Peers(s)
    <3>1. {s, r} = {r, s}
      OBVIOUS
    <3> QED
      BY <2>1, <3>1 DEF Peers
  <2>3. Local(rt[r].nbr[s], r, s) /\ Local(rt[s].nbr[r], s, r) /\ Pace(rt[r].nbr[s], rt[s].nbr[r], r)
    BY <2>1, <2>2 DEF OspfInv, Pair
  <2>4. rt[r].nbr[s].isMaster = TRUE /\ rt[s].nbr[r].isMaster = FALSE
    BY <2>1, <2>3 DEF Local
  <2> QED
    BY <2>3, <2>4 DEF Pace
<1> QED
  BY <1>1, OspfInvariant, PTL
=============================================================================
