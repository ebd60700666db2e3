-------------------------------- MODULE Ospf --------------------------------
(***************************************************************************)
(* OSPF (OSPF/): how two routers of an area become adjacent over a         *)
(* point-to-point link and bring their link state databases together:      *)
(* hello protocol, neighbor state machine, database description, link      *)
(* state request, update and acknowledgement, flooding of router LSAs.     *)
(*                                                                         *)
(* Every interface is point-to-point, so that a router has one neighbor    *)
(* per interface and both are named by the router at the other end.  LSAs  *)
(* do not age.  Links are first in first out and lose packets; pending     *)
(* timers run at any time, apart from the intervals that are far longer    *)
(* than the delay of a link (HelloTimer, RxmtInExStart).                   *)
(***************************************************************************)
EXTENDS Integers, Sequences, FiniteSets, SequencesExt

CONSTANTS
    Router,       \* router ids, numbers
    Link,         \* the links, sets of two routers
    FirstSeq,     \* FirstSeq[r]: the DD sequence number r's clock gives it
    DDMax,        \* OSPF_DD_MAX_LSA_COUNT
    ReqBound,     \* LS requests and answers waiting and in flight at once
    LossBound     \* packets that may be lost

ASSUME OspfAssumption ==
    /\ Router \subseteq Nat /\ IsFiniteSet(Router)
    /\ \A l \in Link : \E r, s \in Router : r # s /\ l = {r, s}
    /\ \A r \in Router : FirstSeq[r] \in Nat \ {0}
    /\ DDMax \in Nat \ {0} /\ ReqBound \in Nat \ {0} /\ LossBound \in Nat

VARIABLES
    rt,       \* OSPF_PDS, area and interfaces of each router
    link,     \* link[r][s]: packets on the way from r to s
    delayed,  \* isSendDelayedUpdate
    losses,   \* packets lost so far
    lost      \* the kinds among them that are not sent again

vars == <<rt, link, delayed, losses, lost>>

Peers(r) == {s \in Router : {r, s} \in Link}

-----------------------------------------------------------------------------
(* Data                                                                    *)

NoDD == [type |-> "none"]

\* OSPF_NEIGHBOR.  "more" is the M bit of IMMS; ddTimer and reqTimer tell of
\* a pending OSPF_DD_RXMT_IN_EXSTART event and of a pending OSPF_RXMTTIMER
\* event with the current LSReqTimerSequenceNumber.  All items of the request
\* list carry that number, which is left out.
ospf_neighbor_new ==
    [state |-> "Down", DDSeqNo |-> 0, isMaster |-> FALSE, more |-> FALSE, lastrecv |-> NoDD,
     summary |-> <<>>, req |-> <<>>, rxt |-> <<>>, ddTimer |-> FALSE, reqTimer |-> FALSE]

\* A router whose interfaces have just come up: its router LSA is scheduled.
\* db[o] is the router LSA of o, with sequence number 0 where there is none.
\* "out" collects what the running event sends.
RouterData(r) ==
    [id |-> r, db |-> [o \in Router |-> [adv |-> o, seq |-> 0, links |-> {}]],
     isRouterLSTimer |-> TRUE,
     nbr |-> [s \in Peers(r) |-> ospf_neighbor_new],
     update |-> [s \in Peers(r) |-> <<>>], isFloodTimerSet |-> [s \in Peers(r) |-> FALSE],
     delayedAck |-> [s \in Peers(r) |-> <<>>],
     out |-> [s \in Peers(r) |-> <<>>]]

Init ==
    /\ rt = [r \in Router |-> RouterData(r)]
    /\ link = [r \in Router |-> [s \in Peers(r) |-> <<>>]]
    /\ delayed \in BOOLEAN
    /\ losses = 0
    /\ lost = {}

OSPF_SEND_PACKET(R, s, p) == [R EXCEPT !.out[s] = Append(@, p)]

\* state >= OSPFNEIGHSTATE_Exchange in the order of the enumeration.
Exchanging(n) == n.state \in {"Exchange", "Full", "Loading"}

Header(l) == [adv |-> l.adv, seq |-> l.seq]

\* Without ages only the sequence numbers tell instances apart.
ospf_lsa_compare(old, new) ==
    CASE new.seq > old.seq -> 1 [] new.seq < old.seq -> -1 [] OTHER -> 0

ospf_lsa_schedule_routerLSA(R) == [R EXCEPT !.isRouterLSTimer = TRUE]

-----------------------------------------------------------------------------
(* Database description packets                                            *)

send_DD_msg(R, s) ==
    LET n == R.nbr[s]
        k == IF DDMax < Len(n.summary) THEN DDMax ELSE Len(n.summary)
        rest == SubSeq(n.summary, k + 1, Len(n.summary))
        dd == IF n.state = "ExStart"
              THEN [type |-> "DD", seq |-> n.DDSeqNo, I |-> TRUE, M |-> TRUE, MS |-> TRUE,
                    hdrs |-> <<>>]
              ELSE [type |-> "DD", seq |-> n.DDSeqNo, I |-> FALSE, M |-> rest # <<>>,
                    MS |-> n.isMaster, hdrs |-> SubSeq(n.summary, 1, k)]
    IN OSPF_SEND_PACKET(
          [R EXCEPT !.nbr[s].more = dd.M,
                    !.nbr[s].summary = IF n.state = "ExStart" THEN @ ELSE rest], s, dd)

\* Mutant: the first description is not repeated.
start_sending_dd_msg_Once(R, s) ==
    IF R.nbr[s].state # "ExStart" THEN R ELSE send_DD_msg(R, s)

start_sending_dd_msg(R, s) ==
    IF R.nbr[s].state # "ExStart" THEN R
    ELSE send_DD_msg([R EXCEPT !.nbr[s].ddTimer = TRUE], s)

ospf_neighbor_attempt_adjacency(R, s) ==
    IF R.nbr[s].DDSeqNo # 0 THEN [R EXCEPT !.nbr[s].DDSeqNo = @ + 1]
    ELSE start_sending_dd_msg([R EXCEPT !.nbr[s].isMaster = TRUE,
                                        !.nbr[s].DDSeqNo = FirstSeq[R.id]], s)

\* On a point-to-point interface the NEIGHBORCHANGE event changes nothing.
ospf_neighbor_change_state(R, s, st) ==
    LET n == R.nbr[s]
        A == [R EXCEPT !.nbr[s].state = st]
        B == IF n.state # st /\ st = "ExStart" THEN ospf_neighbor_attempt_adjacency(A, s) ELSE A
    IN IF (n.state = "Full") # (st = "Full") THEN ospf_lsa_schedule_routerLSA(B) ELSE B

twoWayReceived(R, s) ==
    IF R.nbr[s].state = "Init" THEN ospf_neighbor_change_state(R, s, "ExStart") ELSE R

oneWay(R, s) ==
    IF R.nbr[s].state = "2Way" THEN ospf_neighbor_change_state(R, s, "Init") ELSE R

helloReceived(R, s) ==
    IF R.nbr[s].state = "Down" THEN ospf_neighbor_change_state(R, s, "Init") ELSE R

ospf_process_hello(R, s, p) ==
    LET A == helloReceived(R, s)
    IN IF R.id \in p.nbrs THEN twoWayReceived(A, s) ELSE oneWay(A, s)

ospf_lsreq_send(R, s) ==
    OSPF_SEND_PACKET([R EXCEPT !.nbr[s].reqTimer = TRUE], s,
                     [type |-> "LSREQ", advs |-> [i \in DOMAIN R.nbr[s].req |-> R.nbr[s].req[i].adv]])

\* The headers of the LSAs in the database.
Described(R) ==
    LET own == SetToSeq({o \in Router : R.db[o].seq > 0})
    IN [i \in DOMAIN own |-> Header(R.db[own[i]])]

negotiationDone(R, s) ==
    [ospf_neighbor_change_state(R, s, "Exchange") EXCEPT !.nbr[s].summary = @ \o Described(R)]

exchangeDone(R, s) ==
    CASE R.nbr[s].state # "Exchange" -> R
      [] R.nbr[s].state = "Exchange" /\ R.nbr[s].req = <<>> -> ospf_neighbor_change_state(R, s, "Full")
      [] OTHER -> ospf_lsreq_send(ospf_neighbor_change_state(R, s, "Loading"), s)

ospf_lsReq_searchFromList(req, adv) == SelectInSeq(req, LAMBDA h : h.adv = adv)

ospf_lsreq_insertToList(req, h) ==
    IF ospf_lsReq_searchFromList(req, h.adv) # 0 THEN req ELSE Append(req, h)

\* The request list with the headers of dd that are newer than the stored
\* LSAs: upto[i] is the list after the first i headers.
Wanted(R, s, dd) ==
    LET upto[i \in 0..Len(dd.hdrs)] ==
          IF i = 0 THEN R.nbr[s].req
          ELSE IF ospf_lsa_compare(R.db[dd.hdrs[i].adv], dd.hdrs[i]) > 0
               THEN ospf_lsreq_insertToList(upto[i - 1], dd.hdrs[i]) ELSE upto[i - 1]
    IN upto[Len(dd.hdrs)]

\* The ExchangeDone event is added for the current time and so comes next.
ospf_process_DD(R, s, dd) ==
    LET A == [R EXCEPT !.nbr[s].req = Wanted(R, s, dd)]
        master == [A EXCEPT !.nbr[s].DDSeqNo = @ + 1]
        slave == send_DD_msg([A EXCEPT !.nbr[s].DDSeqNo = dd.seq], s)
    IN IF R.nbr[s].isMaster
       THEN IF ~R.nbr[s].more /\ ~dd.M THEN exchangeDone(master, s) ELSE send_DD_msg(master, s)
       ELSE IF ~dd.M /\ slave.nbr[s].summary = <<>> THEN exchangeDone(slave, s) ELSE slave

\* Mutant: the ids are not compared before giving way.
process_dd_in_exstart_state_NoCompare(R, s, dd) ==
    LET yield == dd.I /\ dd.M /\ dd.MS /\ dd.hdrs = <<>>
        lead == ~dd.I /\ ~dd.MS /\ dd.seq = R.nbr[s].DDSeqNo /\ s < R.id
        master == ~yield
    IN IF yield \/ lead
       THEN ospf_process_DD(
              negotiationDone([R EXCEPT !.nbr[s].DDSeqNo = dd.seq, !.nbr[s].isMaster = master], s),
              s, dd)
       ELSE R

\* Negotiation: the neighbor with the greater id becomes the master.
process_dd_in_exstart_state(R, s, dd) ==
    LET n == R.nbr[s]
        yield == dd.I /\ dd.M /\ dd.MS /\ dd.hdrs = <<>> /\ s > R.id
        lead == ~dd.I /\ ~dd.MS /\ dd.seq = n.DDSeqNo /\ s < R.id
    IN CASE yield -> ospf_process_DD(negotiationDone([R EXCEPT !.nbr[s].DDSeqNo = dd.seq,
                                                               !.nbr[s].isMaster = FALSE], s), s, dd)
         [] ~yield /\ lead ->
              ospf_process_DD(negotiationDone([R EXCEPT !.nbr[s].isMaster = TRUE], s), s, dd)
         [] OTHER -> R

\* resend_DD_msg copies the packet received last, not the one sent last.
resend_DD_msg(R, s) == OSPF_SEND_PACKET(R, s, R.nbr[s].lastrecv)

\* SeqNumberMismatch has no handler: the packet is just not processed.
process_dd_in_exchange_state(R, s, dd, isDuplicate) ==
    LET n == R.nbr[s]
        inSequence == IF n.isMaster THEN dd.seq = n.DDSeqNo ELSE dd.seq = n.DDSeqNo + 1
    IN CASE isDuplicate -> IF n.isMaster THEN R ELSE resend_DD_msg(R, s)
         [] ~isDuplicate /\ dd.MS # n.isMaster /\ ~dd.I /\ inSequence -> ospf_process_DD(R, s, dd)
         [] OTHER -> R

\* A duplicate comes before the dead interval is over.
process_dd_in_loading_or_full_state(R, s, isDuplicate) ==
    IF isDuplicate /\ ~R.nbr[s].isMaster THEN resend_DD_msg(R, s) ELSE R

check_duplicate(n, dd) ==
    LET o == n.lastrecv
    IN o # NoDD /\ <<dd.seq, dd.I, dd.M, dd.MS>> = <<o.seq, o.I, o.M, o.MS>>

ospf_handle_DD(R, s, dd) ==
    LET n == R.nbr[s]
        dup == check_duplicate(n, dd)
        A == [R EXCEPT !.nbr[s].lastrecv = dd]
    IN CASE n.state \in {"Down", "2Way"} -> R
         [] n.state \in {"Init", "ExStart"} -> process_dd_in_exstart_state(twoWayReceived(A, s), s, dd)
         [] n.state = "Exchange" -> process_dd_in_exchange_state(A, s, dd, dup)
         [] OTHER -> process_dd_in_loading_or_full_state(A, s, dup)

-----------------------------------------------------------------------------
(* Flooding and the database                                               *)

\* Mutant: the instance queued first is kept.
ospf_lsa_queueToFlood_First(list, lsa) ==
    IF SelectInSeq(list, LAMBDA l : l.adv = lsa.adv) = 0 THEN Append(list, lsa) ELSE list

\* The interface's update list keeps one instance of an LSA, the newest.
ospf_lsa_queueToFlood(list, lsa) ==
    LET i == SelectInSeq(list, LAMBDA l : l.adv = lsa.adv)
    IN CASE i = 0 -> Append(list, lsa)
         [] i # 0 /\ ospf_lsa_compare(list[i], lsa) > 0 -> Append(RemoveAt(list, i), lsa)
         [] OTHER -> list

\* A list without the instances of an LSA.
Others(list, adv) == SelectSeq(list, LAMBDA l : l.adv # adv)

\* The LSA goes to every neighbor from Exchange on but the one it came from,
\* and into its retransmission list, for which no timer is started.  It takes
\* the request it answers from the request list, which may complete Loading.
ospf_lsa_flood(R, lsa, src) ==
    LET item(s) == ospf_lsReq_searchFromList(R.nbr[s].req, lsa.adv)
        pending(s) == Exchanging(R.nbr[s]) /\ R.nbr[s].state # "Full" /\ item(s) # 0
        newer(s) == pending(s) /\ ospf_lsa_compare(R.nbr[s].req[item(s)], lsa) < 0
        answered(s) == pending(s) /\ ~newer(s)
        req(s) == IF answered(s) THEN RemoveAt(R.nbr[s].req, item(s)) ELSE R.nbr[s].req
        done(s) == answered(s) /\ req(s) = <<>> /\ R.nbr[s].state = "Loading"
        add(s) == /\ Exchanging(R.nbr[s]) /\ ~newer(s) /\ s # src
                  /\ ~(done(s) /\ ospf_lsa_compare(R.nbr[s].req[item(s)], lsa) = 0)
        rxt(s) == Others(R.nbr[s].rxt, lsa.adv)
        nbr(s) == [R.nbr[s] EXCEPT !.req = req(s),
                                   !.rxt = IF add(s) THEN Append(rxt(s), lsa) ELSE rxt(s),
                                   !.state = IF done(s) THEN "Full" ELSE @]
        A == [R EXCEPT
                !.nbr = [s \in DOMAIN @ |-> nbr(s)],
                !.update = [s \in DOMAIN @ |->
                              IF add(s) THEN ospf_lsa_queueToFlood(@[s], lsa) ELSE @[s]],
                !.isFloodTimerSet = [s \in DOMAIN @ |-> @[s] \/ add(s)]]
    IN IF \E s \in DOMAIN R.nbr : done(s) THEN ospf_lsa_schedule_routerLSA(A) ELSE A

\* A newer instance with the same links is not stored.
ospf_lsdb_install(R, lsa) ==
    IF R.db[lsa.adv].seq = 0 \/ R.db[lsa.adv].links # lsa.links
    THEN [R EXCEPT !.db[lsa.adv] = lsa] ELSE R

\* "early": the stored instance is younger than minLSInterval.
ospf_lsdb_update(R, s, lsa, early) ==
    LET A == [ospf_lsa_flood(R, lsa, s) EXCEPT !.delayedAck[s] = Append(@, Header(lsa))]
        B == ospf_lsdb_install(A, lsa)
    IN CASE R.db[lsa.adv].seq # 0 /\ lsa.adv # R.id /\ early -> R
         [] lsa.adv = R.id ->
              ospf_lsa_schedule_routerLSA([B EXCEPT !.db[lsa.adv].seq = lsa.seq + 1])
         [] OTHER -> B

OtherInstance(list, lsa) == SelectInSeq(list, LAMBDA l : ospf_lsa_compare(l, lsa) # 0)

\* One LSA of an update.  An LSA the router has is acknowledged, or taken for
\* the acknowledgement of the first LSA of the retransmission list with
\* another sequence number, whatever LSA that is.
ReceiveLsa(R, s, lsa, early) ==
    LET old == R.db[lsa.adv]
        i == OtherInstance(R.nbr[s].rxt, lsa)
    IN CASE old.seq = 0 \/ ospf_lsa_compare(old, lsa) # 0 ->
              [R |-> ospf_lsdb_update(R, s, lsa, early), acks |-> <<>>]
         [] old.seq # 0 /\ ospf_lsa_compare(old, lsa) = 0 /\ i # 0 ->
              [R |-> [R EXCEPT !.nbr[s].rxt = RemoveAt(@, i)], acks |-> <<>>]
         [] OTHER -> [R |-> R, acks |-> <<Header(lsa)>>]

\* The LSAs of an update one after the other: upto[i] is after the first i.
Joined(acks, x) == [R |-> x.R, acks |-> acks \o x.acks]
ReceiveLsas(R, s, lsas, early) ==
    LET upto[i \in 0..Len(lsas)] ==
          IF i = 0 THEN [R |-> R, acks |-> <<>>]
          ELSE Joined(upto[i - 1].acks,
                      ReceiveLsa(upto[i - 1].R, s, lsas[i], lsas[i].adv \in early))
    IN upto[Len(lsas)]

loadingDone(R, s) ==
    IF R.nbr[s].state = "Loading" THEN ospf_neighbor_change_state(R, s, "Full") ELSE R

SendAcks(all, s) ==
    IF all.acks = <<>> THEN all.R
    ELSE OSPF_SEND_PACKET(all.R, s, [type |-> "LSACK", hdrs |-> all.acks])

Requests(A, s, next) ==
    CASE A.nbr[s].req = <<>> -> loadingDone([A EXCEPT !.nbr[s].reqTimer = FALSE], s)
      [] A.nbr[s].req # <<>> /\ next -> ospf_lsreq_send(A, s)
      [] OTHER -> A

\* isRequestedLSAReceived reads an item of the request list as if it were an
\* LSA header, so that its answer, "next", is arbitrary.  The call of BadLSReq
\* for an LSA that is both stored and requested is left out: a request is for
\* a newer instance than the stored one and leaves the list when that comes.
ospf_handle_LSUPDATE(R, s, p, early, next) ==
    IF Exchanging(R.nbr[s])
    THEN Requests(SendAcks(ReceiveLsas(R, s, p.lsas, early), s), s, next) ELSE R

SendUpdates(R, s) ==
    IF R.update[s] = <<>> THEN R
    ELSE OSPF_SEND_PACKET([R EXCEPT !.update[s] = <<>>], s, [type |-> "LSU", lsas |-> R.update[s]])

\* A requested LSA is in the database: only ageing takes one out.
QueueRequested(R, s, advs) ==
    LET upto[i \in 0..Len(advs)] ==
          IF i = 0 THEN R.update[s] ELSE ospf_lsa_queueToFlood(upto[i - 1], R.db[advs[i]])
    IN upto[Len(advs)]

ospf_handle_LSRequest(R, s, p) ==
    LET A == [R EXCEPT !.update[s] = QueueRequested(R, s, p.advs)]
    IN CASE ~Exchanging(R.nbr[s]) -> R
         [] Exchanging(R.nbr[s]) /\ delayed -> [A EXCEPT !.isFloodTimerSet[s] = TRUE]
         [] OTHER -> SendUpdates(A, s)

Acknowledged(list, h) ==
    LET i == SelectInSeq(list, LAMBDA l : Header(l) = h) IN IF i = 0 THEN list ELSE RemoveAt(list, i)
AllAcknowledged(list, hdrs) == FoldLeft(Acknowledged, list, hdrs)

ospf_handle_LSAck(R, s, p) ==
    IF Exchanging(R.nbr[s])
    THEN [R EXCEPT !.nbr[s].rxt = AllAcknowledged(R.nbr[s].rxt, p.hdrs)] ELSE R

\* Mutant: the sequence number starts at 1 and stays there.
ospf_rlsa_originateRouterLSA_SameSeq(R) ==
    LET full == {s \in DOMAIN R.nbr : R.nbr[s].state = "Full"}
        lsa == [adv |-> R.id, seq |-> 1, links |-> full]
    IN ospf_lsdb_install(ospf_lsa_flood([R EXCEPT !.isRouterLSTimer = FALSE], lsa, R.id), lsa)

ospf_rlsa_originateRouterLSA(R) ==
    LET full == {s \in DOMAIN R.nbr : R.nbr[s].state = "Full"}
        lsa == [adv |-> R.id, seq |-> R.db[R.id].seq + 1, links |-> full]
    IN ospf_lsdb_install(ospf_lsa_flood([R EXCEPT !.isRouterLSTimer = FALSE], lsa, R.id), lsa)

-----------------------------------------------------------------------------
(* Actions                                                                 *)

\* Router r becomes R; "flight" is the state of the links without what R sends.
Becomes(r, R, flight) ==
    \E X \in {R} :
       /\ rt' = [rt EXCEPT ![r] = [X EXCEPT !.out = [s \in Peers(r) |-> <<>>]]]
       /\ link' = [flight EXCEPT ![r] = [s \in Peers(r) |-> flight[r][s] \o X.out[s]]]
       /\ UNCHANGED <<delayed, losses, lost>>

InFlight(r, s, t) == Cardinality({i \in DOMAIN link[r][s] : link[r][s][i].type = t})

\* The hello interval is far longer than a hello takes to arrive.  A neighbor
\* above Init does not change with a hello, which is then left out.
HelloDue(r, s) == InFlight(r, s, "HELLO") = 0 /\ rt[s].nbr[r].state \in {"Down", "Init"}

HelloTimer(r, s) ==
    /\ HelloDue(r, s)
    /\ Becomes(r, OSPF_SEND_PACKET(rt[r], s,
                    [type |-> "HELLO", nbrs |-> {s} \cap {x \in Peers(r) : rt[r].nbr[x].state # "Down"}]),
               link)

\* A first-in first-out list without its first element.
Popped(r, s) == [link EXCEPT ![s][r] = Tail(@)]

\* With delayed updates the flood timer keeps the instances of an LSA that
\* arrive on a link minLSInterval apart.
EarlyLsas(R, p) ==
    IF delayed THEN {} ELSE {l.adv : l \in {l \in Range(p.lsas) : R.db[l.adv].seq # 0}}

Receive(r, s) ==
    /\ link[s][r] # <<>>
    /\ LET p == Head(link[s][r])
       IN \/ /\ p.type = "HELLO"
             /\ Becomes(r, ospf_process_hello(rt[r], s, p), Popped(r, s))
          \/ /\ p.type = "DD"
             /\ Becomes(r, ospf_handle_DD(rt[r], s, p), Popped(r, s))
          \/ /\ p.type = "LSREQ"
             /\ Becomes(r, ospf_handle_LSRequest(rt[r], s, p), Popped(r, s))
          \/ /\ p.type = "LSU"
             /\ \E next \in BOOLEAN, early \in SUBSET EarlyLsas(rt[r], p) :
                   Becomes(r, ospf_handle_LSUPDATE(rt[r], s, p, early, next), Popped(r, s))
          \/ /\ p.type = "LSACK"
             /\ Becomes(r, ospf_handle_LSAck(rt[r], s, p), Popped(r, s))

First(r, s) == Cardinality({i \in DOMAIN link[r][s] : link[r][s][i].type = "DD" /\ link[r][s][i].I})

\* OSPF_DD_RXMT_IN_EXSTART, after RxmtInterval seconds: the description sent
\* before has arrived, and at most one copy came back.
RxmtInExStart(r, s) ==
    /\ rt[r].nbr[s].ddTimer
    /\ First(r, s) = 0 /\ First(s, r) < 2
    /\ Becomes(r, start_sending_dd_msg([rt[r] EXCEPT !.nbr[s].ddTimer = FALSE], s), link)

\* OSPF_RXMTTIMER of a link state request, after RxmtInterval microseconds.
RxmtTimer(r, s) ==
    /\ rt[r].nbr[s].reqTimer
    /\ rt[r].nbr[s].req # <<>> =>
          InFlight(r, s, "LSREQ") + Len(rt[s].update[r]) + InFlight(s, r, "LSU") < ReqBound
    /\ LET R == [rt[r] EXCEPT !.nbr[s].reqTimer = FALSE]
       IN Becomes(r, IF R.nbr[s].req = <<>> THEN R ELSE ospf_lsreq_send(R, s), link)

FloodTimer(r, s) ==
    /\ rt[r].isFloodTimerSet[s]
    /\ Becomes(r, SendUpdates([rt[r] EXCEPT !.isFloodTimerSet[s] = FALSE], s), link)

DelayedAckTimer(r, s) ==
    /\ rt[r].delayedAck[s] # <<>>
    /\ Becomes(r, OSPF_SEND_PACKET([rt[r] EXCEPT !.delayedAck[s] = <<>>], s,
                                   [type |-> "LSACK", hdrs |-> rt[r].delayedAck[s]]), link)

ScheduleLSDB(r) ==
    /\ rt[r].isRouterLSTimer
    /\ Becomes(r, ospf_rlsa_originateRouterLSA(rt[r]), link)

\* Nothing sends a description of the Exchange state or an update again.
Lose(r, s) ==
    /\ losses < LossBound /\ link[s][r] # <<>>
    /\ LET p == Head(link[s][r])
           again == p.type \in {"HELLO", "LSREQ", "LSACK"} \/ (p.type = "DD" /\ p.I)
       IN lost' = IF again THEN lost ELSE lost \cup {p.type}
    /\ link' = Popped(r, s)
    /\ losses' = losses + 1
    /\ UNCHANGED <<rt, delayed>>

Next ==
    \E r \in Router :
       \/ ScheduleLSDB(r)
       \/ \E s \in Peers(r) :
             \/ HelloTimer(r, s) \/ Receive(r, s) \/ RxmtInExStart(r, s) \/ RxmtTimer(r, s)
             \/ FloodTimer(r, s) \/ DelayedAckTimer(r, s) \/ Lose(r, s)

\* The kernel executes every pending event in the end.  The first three are
\* weak fairness with ENABLED written out: these actions change the state
\* whenever their guards hold, and TLC need not compute the handler to know.
Fairness ==
    \A r \in Router :
       /\ []<>~rt[r].isRouterLSTimer \/ []<><<ScheduleLSDB(r)>>_vars
       /\ \A s \in Peers(r) :
             /\ []<>(link[s][r] = <<>>) \/ []<><<Receive(r, s)>>_vars
             /\ []<>~HelloDue(r, s) \/ []<><<HelloTimer(r, s)>>_vars
             /\ WF_vars(RxmtInExStart(r, s)) /\ WF_vars(RxmtTimer(r, s))
             /\ WF_vars(FloodTimer(r, s)) /\ WF_vars(DelayedAckTimer(r, s))

Spec == Init /\ [][Next]_vars /\ Fairness

-----------------------------------------------------------------------------
(* Properties                                                              *)

\* The two ends of a link agree on who is master once both describe their
\* databases, and the sequence numbers keep in step, whatever is repeated or
\* lost (process_dd_in_exstart_state, ospf_process_DD).
InStep ==
    \A l \in Link : \A r, s \in l :
       LET n == rt[r].nbr[s]
           m == rt[s].nbr[r]
       IN r > s /\ Exchanging(n) /\ Exchanging(m) =>
             /\ n.isMaster /\ ~m.isMaster
             /\ n.DDSeqNo \in {m.DDSeqNo, m.DDSeqNo + 1}

\* A copy of a router LSA is never newer than the originator's, and equal
\* sequence numbers mean equal links (ospf_lsdb_install does not store a newer
\* instance with the same links).  This is a property of a link: where an old
\* LSA of its own can come back to a router by another way, the router stores
\* the links of that copy under its new number.
CopiesFollow ==
    \A r, o \in Router :
       /\ rt[r].db[o].seq <= rt[o].db[o].seq
       /\ rt[r].db[o].seq = rt[o].db[o].seq => rt[r].db[o].links = rt[o].db[o].links

Adjacent == \A r \in Router : \A s \in Peers(r) : rt[r].nbr[s].state = "Full"

\* An adjacency forms and stays unless a description of the Exchange state is
\* lost: hellos, the first descriptions, requests and their answers may be.
AdjacencyForms == <>[](Adjacent \/ "DD" \in lost)

\* With delayed updates, if no update is lost either, the databases become
\* equal and hold every link.
DatabasesAgree ==
    <>[](\/ lost # {} \/ ~delayed
         \/ \A r, o \in Router : rt[r].db[o] = rt[o].db[o] /\ rt[o].db[o].links = Peers(o))
=============================================================================
