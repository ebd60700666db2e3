----------------------------- MODULE TcpProofs -----------------------------
(***************************************************************************)
(* Proofs about TCP for any number of packets, any variant of the          *)
(* congestion window and any faults.                                       *)
(*                                                                         *)
(* An established sender can always go on (SenderAlive).  This is not      *)
(* inductive: when an acknowledgement empties the retransmission queue,    *)
(* whether something is sent next depends on the window being open, which  *)
(* it is because the queue covers all of SND.UNA .. SND.NXT - 1.  The      *)
(* invariant (Sound, Idle) says so of both ends, from the first SYN on,    *)
(* and that timers are not cancelled before the connection closes.         *)
(*                                                                         *)
(* Nothing is lost, and what is delivered is in order and delivered once   *)
(* (NoneLost, InOrderOnce), while neither end opens a second socket.  The  *)
(* invariant (Stream) names the number D of packets delivered: RCV.NXT of  *)
(* the server is D + 2, no acknowledgement in the network is beyond it,    *)
(* and while D < Packets the client's queue holds all from SND.UNA on; no  *)
(* FIN or reset exists before the last packet is delivered (Client,        *)
(* Server, ToServer, ToClient).  What happens after that sends no text     *)
(* and hands nothing up (Mild).                                            *)
(***************************************************************************)
EXTENDS Tcp, FiniteSetTheorems, FunctionTheorems, SequenceTheorems, NaturalsInduction, TLAPS

Device == {"c", "s"}

Message ==
    [to : Device, fl : SUBSET {"S", "A", "F", "R"}, seq : Int, ack : Int, pkt : Nat]

Opening == {"SynSent", "SynRcvd"}
Live == Opening \cup {"Estab"}

\* Types of what the argument reads of a socket.
TcbType(e) ==
    /\ DOMAIN e = DOMAIN NoSocket
    /\ e.avail \in Nat /\ e.fetched \in Nat /\ e.fetched <= e.avail /\ e.dials \in Nat
    /\ e.iss \in Int /\ e.una \in Int /\ e.nxt \in Int /\ e.rcv \in Int
    /\ e.cwnd \in Int /\ e.ssth \in Int /\ e.recover \in Int
    /\ e.rq \subseteq Message
    /\ e.ooo \subseteq Message /\ IsFiniteSet(e.ooo)
    /\ e.out \in Seq(Message) /\ e.arm \in Seq(Int)
    /\ e.cancel \in BOOLEAN /\ e.waitFromApp \in BOOLEAN
    /\ e.isAPPClose \in BOOLEAN /\ e.crash \in BOOLEAN

\* Every unacknowledged segment has a timer: pending (T) or about to start.
Timed(e, T) == \A m \in e.rq : m.seq \in T \cup Range(e.arm)

\* Every number sent and not acknowledged belongs to a segment of the queue.
Covered(e) ==
    /\ e.una <= e.nxt
    /\ \A i \in e.una..(e.nxt - 1) : \E m \in e.rq : m.seq = i /\ get_seg_len(m) = 1

Sound(e, T) ==
    /\ e.st \in Live => ~e.cancel /\ Timed(e, T) /\ Covered(e)
    /\ e.st \in Opening => ~e.waitFromApp /\ e.una = e.iss /\ e.nxt = e.iss + 1

Idle(e) == e.st = "Estab" /\ e.rq = {} => e.waitFromApp /\ e.avail = e.fetched

\* What every handler keeps of a socket, T being the timers left pending.
Good(e, T) == TcbType(e) /\ (e.crash \/ (Sound(e, T) /\ Idle(e)))

\* What Sound and Idle read.
Core(e) ==
    <<e.st, e.cancel, e.rq, e.arm, e.una, e.nxt, e.iss, e.waitFromApp, e.avail,
      e.fetched, e.crash>>

\* f differs from e in nothing that keeps the sender going.
Same(e, f) == TcbType(f) /\ Core(f) = Core(e)

\* Nor in what the receiving half has, and sends copies only of segments that
\* are in the queue: what happens in the congestion window.
Rest(e) == <<e.dials, e.isAPPClose, e.rcv, e.ooo, e.up, e.tw>>
Quiet(e, f) ==
    /\ Same(e, f) /\ Rest(f) = Rest(e)
    /\ Range(f.out) \subseteq Range(e.out) \cup e.rq

-----------------------------------------------------------------------------
(* Lemmas about numbers, lists and segments *)

\* The smaller of two integers.
LEMMA MinTwo ==
    ASSUME NEW a \in Int, NEW b \in Int
    PROVE  Min({a, b}) \in Int /\ Min({a, b}) = IF a <= b THEN a ELSE b
<1>1. PICK x \in {a, b} : \A y \in {a, b} : x <= y
  OBVIOUS
<1>2. Min({a, b}) \in {a, b} /\ \A y \in {a, b} : Min({a, b}) <= y
  BY <1>1 DEF Min
<1> QED
  BY <1>2

\* The larger of two integers.
LEMMA MaxTwo ==
    ASSUME NEW a \in Int, NEW b \in Int
    PROVE  Max({a, b}) \in Int /\ Max({a, b}) = IF a >= b THEN a ELSE b
<1>1. PICK x \in {a, b} : \A y \in {a, b} : x >= y
  OBVIOUS
<1>2. Max({a, b}) \in {a, b} /\ \A y \in {a, b} : Max({a, b}) >= y
  BY <1>1 DEF Max
<1> QED
  BY <1>2

\* A non-empty set of naturals has a least element.
LEMMA LeastNumber ==
    ASSUME NEW T, T \subseteq Nat, T # {}
    PROVE  \E x \in T : \A y \in T : x <= y
<1> DEFINE less == {p \in Nat \X Nat : p[1] < p[2]}
<1>1. IsWellFoundedOn(less, Nat)
  BY NatLessThanWellFounded DEF OpToRel
<1>2. \A x, y \in Nat : <<y, x>> \notin less => x <= y
  OBVIOUS
<1> HIDE DEF less
<1>3. PICK x \in T : \A y \in T : <<y, x>> \notin less
  BY <1>1, WFMin, Zenon
<1> QED
  BY <1>2, <1>3

\* What Append does to a list and to the set of its elements.
LEMMA AppendRange ==
    ASSUME NEW S, NEW q \in Seq(S), NEW x \in S
    PROVE  Append(q, x) \in Seq(S) /\ Range(Append(q, x)) = Range(q) \cup {x}
<1>1. /\ Append(q, x) \in Seq(S) /\ Len(Append(q, x)) = Len(q) + 1
      /\ \A i \in 1..Len(q) : Append(q, x)[i] = q[i]
      /\ Append(q, x)[Len(q) + 1] = x
  BY AppendProperties
<1>2. DOMAIN q = 1..Len(q) /\ DOMAIN Append(q, x) = 1..(Len(q) + 1) /\ Len(q) \in Nat
  BY <1>1
<1> QED
  BY <1>1, <1>2 DEF Range

\* The same of concatenation.
LEMMA ConcatRange ==
    ASSUME NEW S, NEW p \in Seq(S), NEW q \in Seq(S)
    PROVE  p \o q \in Seq(S) /\ Range(p \o q) = Range(p) \cup Range(q)
<1>1. /\ p \o q \in Seq(S) /\ Len(p \o q) = Len(p) + Len(q)
      /\ \A i \in 1..(Len(p) + Len(q)) :
            (p \o q)[i] = IF i <= Len(p) THEN p[i] ELSE q[i - Len(p)]
  BY ConcatProperties
<1>2. /\ DOMAIN p = 1..Len(p) /\ DOMAIN q = 1..Len(q)
      /\ DOMAIN (p \o q) = 1..(Len(p) + Len(q)) /\ Len(p) \in Nat /\ Len(q) \in Nat
  BY <1>1
<1>3. Range(p \o q) \subseteq Range(p) \cup Range(q)
  <2> SUFFICES ASSUME NEW i \in 1..(Len(p) + Len(q)) PROVE (p \o q)[i] \in Range(p) \cup Range(q)
    BY <1>2 DEF Range
  <2>1. CASE i <= Len(p)
    BY <1>1, <1>2, <2>1 DEF Range
  <2>2. CASE ~(i <= Len(p))
    <3>1. i - Len(p) \in 1..Len(q) /\ (p \o q)[i] = q[i - Len(p)]
      BY <1>1, <1>2, <2>2
    <3> QED
      BY <1>2, <3>1 DEF Range
  <2> QED
    BY <2>1, <2>2
<1>4. Range(p) \subseteq Range(p \o q)
  BY <1>1, <1>2 DEF Range
<1>5. Range(q) \subseteq Range(p \o q)
  <2> SUFFICES ASSUME NEW i \in 1..Len(q) PROVE q[i] \in Range(p \o q)
    BY <1>2 DEF Range
  <2>1. i + Len(p) \in 1..(Len(p) + Len(q)) /\ (p \o q)[i + Len(p)] = q[i]
    BY <1>1, <1>2
  <2> QED
    BY <1>2, <2>1 DEF Range
<1> QED
  BY <1>1, <1>3, <1>4, <1>5

\* A list without its i-th element.
LEMMA RemoveAtRange ==
    ASSUME NEW S, NEW q \in Seq(S), NEW i \in 1..Len(q)
    PROVE  RemoveAt(q, i) \in Seq(S) /\ Range(q) \subseteq Range(RemoveAt(q, i)) \cup {q[i]}
<1> DEFINE a == SubSeq(q, 1, i - 1)
           b == SubSeq(q, i + 1, Len(q))
<1>1. /\ a \in Seq(S) /\ b \in Seq(S)
      /\ Len(a) = i - 1 /\ \A j \in 1..(i - 1) : a[j] = q[j]
      /\ Len(b) = Len(q) - i /\ \A j \in 1..(Len(q) - i) : b[j] = q[i + j]
  BY SubSeqProperties
<1>2. RemoveAt(q, i) = a \o b
  BY DEF RemoveAt
<1>3. DOMAIN a = 1..(i - 1) /\ DOMAIN b = 1..(Len(q) - i) /\ DOMAIN q = 1..Len(q) /\ Len(q) \in Nat
  BY <1>1
<1> HIDE DEF a, b
<1>4. RemoveAt(q, i) \in Seq(S) /\ Range(RemoveAt(q, i)) = Range(a) \cup Range(b)
  BY <1>1, <1>2, ConcatRange
<1>5. ASSUME NEW j \in 1..Len(q), j # i PROVE q[j] \in Range(a) \cup Range(b)
  <2>1. CASE j < i
    <3>1. j \in 1..(i - 1)
      BY <1>3, <2>1
    <3>2. a[j] = q[j]
      BY <1>1, <3>1
    <3> QED
      BY <1>3, <3>1, <3>2 DEF Range
  <2>2. CASE j > i
    <3> DEFINE k == j - i
    <3>1. k \in 1..(Len(q) - i) /\ i + k = j
      BY <1>3, <1>5, <2>2
    <3> HIDE DEF k
    <3>2. b[k] = q[j]
      BY <1>1, <3>1
    <3> QED
      BY <1>3, <3>1, <3>2 DEF Range
  <2> QED
    BY <1>5, <2>1, <2>2
<1> QED
  BY <1>3, <1>4, <1>5 DEF Range

\* A packet or a segment that the code makes.
LEMMA SegMessage ==
    ASSUME NEW d, NEW fl \in SUBSET {"S", "A", "F", "R"}, NEW seq \in Int, NEW ack \in Int,
           NEW pkt \in Nat
    PROVE  /\ Seg(d, fl, seq, ack, pkt) \in Message
           /\ Seg(d, fl, seq, ack, pkt).seq = seq
           /\ get_seg_len(Seg(d, fl, seq, ack, pkt)) = IF "S" \in fl \/ pkt > 0 THEN 1 ELSE 0
  BY DEF Seg, Message, Device, Peer, get_seg_len

\* The length of a segment is 0 or 1.
LEMMA SegLen ==
    ASSUME NEW m
    PROVE  get_seg_len(m) \in {0, 1}
  BY DEF get_seg_len

-----------------------------------------------------------------------------
(* Steps that leave Sound and Idle alone *)

\* A change of other fields keeps a socket good.
LEMMA SameGood ==
    ASSUME NEW e, NEW f, NEW T, Same(e, f)
    PROVE  /\ Sound(e, T) => Sound(f, T)
           /\ Idle(e) => Idle(f)
           /\ Good(e, T) => Good(f, T)
<1>1. /\ f.st = e.st /\ f.cancel = e.cancel /\ f.rq = e.rq /\ f.arm = e.arm /\ f.una = e.una
      /\ f.nxt = e.nxt /\ f.iss = e.iss /\ f.waitFromApp = e.waitFromApp
      /\ f.avail = e.avail /\ f.fetched = e.fetched /\ f.crash = e.crash /\ TcbType(f)
  BY DEF Same, Core
<1>2. Timed(f, T) = Timed(e, T) /\ Covered(f) = Covered(e)
  BY <1>1 DEF Timed, Covered
<1>3. Sound(e, T) => Sound(f, T)
  BY <1>1, <1>2 DEF Sound
<1>4. Idle(e) => Idle(f)
  BY <1>1 DEF Idle
<1> QED
  BY <1>1, <1>3, <1>4 DEF Good

\* Doing nothing changes nothing.
LEMMA SameRefl ==
    ASSUME NEW e, TcbType(e)
    PROVE  Same(e, e)
  BY DEF Same

\* Two such changes after one another.
LEMMA SameTrans ==
    ASSUME NEW e, NEW f, NEW g, Same(e, f), Same(f, g)
    PROVE  Same(e, g)
  BY DEF Same

\* The same for changes of the congestion window.
LEMMA QuietRefl ==
    ASSUME NEW e, TcbType(e)
    PROVE  Quiet(e, e)
  BY DEF Quiet, Same

\* Two of them: the queue is the same for both.
LEMMA QuietTrans ==
    ASSUME NEW e, NEW f, NEW g, Quiet(e, f), Quiet(f, g)
    PROVE  Quiet(e, g)
<1>1. f.rq = e.rq
  BY DEF Quiet, Same, Core
<1> QED
  BY <1>1 DEF Quiet, Same

\* The fields of a socket.
LEMMA Fields ==
    DOMAIN NoSocket =
       {"st", "avail", "fetched", "dials", "iss", "una", "nxt", "rcv", "irs", "rq", "ooo",
        "syn", "cancel", "ackedLast", "cwnd", "ssth", "dup", "fr", "recover", "waitFromApp",
        "isAPPClose", "tw", "twAgain", "out", "arm", "up", "crash"}
  BY DEF NoSocket

\* Handing a packet to the network layer.
LEMMA SendSame ==
    ASSUME NEW e, TcbType(e), NEW m \in Message
    PROVE  Same(e, send_to_network(e, m))
<1>1. Append(e.out, m) \in Seq(Message)
  BY AppendRange DEF TcbType
<1> QED
  BY <1>1, Fields DEF send_to_network, Same, Core, TcbType

\* Acknowledgements, FINs and resets are sent without a timer.
LEMMA ControlSame ==
    ASSUME NEW d, NEW e, TcbType(e), NEW seq \in Int, NEW ack \in Int, NEW m \in Message, NEW c
    PROVE  /\ Same(e, send_ack(d, e, seq, ack)) /\ Same(e, send_fin_ack(d, e, seq, ack))
           /\ Same(e, send_fin(d, e)) /\ Same(e, send_rst(d, e, m, c))
<1>1. Same(e, send_ack(d, e, seq, ack))
  BY SendSame, SegMessage DEF send_ack
<1>2. Same(e, send_fin_ack(d, e, seq, ack))
  BY SendSame, SegMessage DEF send_fin_ack
<1>3. Same(e, send_fin(d, e))
  <2> DEFINE n == IF e.iss + 1 = e.nxt THEN e.nxt + 1 ELSE e.nxt
  <2>1. n \in Int
    BY DEF TcbType
  <2> HIDE DEF n
  <2>2. Same(e, send_to_network(e, Seg(d, {"F"}, n, 0, 0)))
    BY <2>1, SendSame, SegMessage
  <2> QED
    BY <2>2 DEF send_fin, n
<1>4. m.seq + 2 \in Int /\ m.ack \in Int
  BY DEF Message
<1>5. Same(e, send_rst(d, e, m, c))
  BY <1>4, SendSame, SegMessage DEF send_rst
<1> QED
  BY <1>1, <1>2, <1>3, <1>5

-----------------------------------------------------------------------------
(* The congestion window *)

\* Remainders modulo U16 and halves are integers.
LEMMA Remainder ==
    ASSUME NEW a \in Int
    PROVE  a % U16 \in 0..(U16 - 1) /\ a % U16 \in Int /\ a \div 2 \in Int
  BY DEF U16

\* The window stays an integer and nothing else changes.
LEMMA CwndQuiet ==
    ASSUME NEW e, TcbType(e), NEW w \in Int
    PROVE  Quiet(e, set_cwnd(e, w)) /\ Quiet(e, increase_cwnd(e, w))
<1>1. w % U16 \in Int
  BY Remainder
<1>2. Min({e.cwnd + w, U16 - 1}) \in Int
  <2>1. e.cwnd + w \in Int /\ U16 - 1 \in Int
    BY DEF TcbType, U16
  <2> QED
    BY <2>1, MinTwo
<1>3. Quiet(e, set_cwnd(e, w))
  BY <1>1, Fields DEF set_cwnd, Quiet, Same, Rest, Core, TcbType
<1>4. Quiet(e, increase_cwnd(e, w))
  BY <1>2, Fields DEF increase_cwnd, Quiet, Same, Rest, Core, TcbType
<1> QED
  BY <1>3, <1>4

\* Other congestion fields.
LEMMA SsthQuiet ==
    ASSUME NEW e, TcbType(e), NEW t \in Int, NEW b
    PROVE  Quiet(e, [e EXCEPT !.ssth = t, !.fr = b])
  BY Fields DEF Quiet, Same, Rest, Core, TcbType

\* The fields a timeout sets.
LEMMA TimeoutQuiet ==
    ASSUME NEW e, TcbType(e), NEW t \in Int, NEW r \in Int, NEW b
    PROVE  Quiet(e, [e EXCEPT !.ssth = t, !.recover = r, !.fr = b])
  BY Fields DEF Quiet, Same, Rest, Core, TcbType

\* The end of the recovery.
LEMMA RecoverQuiet ==
    ASSUME NEW e, TcbType(e), NEW r \in Int
    PROVE  Quiet(e, [e EXCEPT !.recover = r])
  BY Fields DEF Quiet, Same, Rest, Core, TcbType

\* The recovery flag.
LEMMA FrQuiet ==
    ASSUME NEW e, TcbType(e), NEW b
    PROVE  Quiet(e, [e EXCEPT !.fr = b])
  BY Fields DEF Quiet, Same, Rest, Core, TcbType

\* The count of duplicates.
LEMMA DupQuiet ==
    ASSUME NEW e, TcbType(e), NEW n
    PROVE  Quiet(e, [e EXCEPT !.dup = n])
  BY Fields DEF Quiet, Same, Rest, Core, TcbType

\* Both at the end of a recovery.
LEMMA FrDupQuiet ==
    ASSUME NEW e, TcbType(e), NEW b, NEW n
    PROVE  Quiet(e, [e EXCEPT !.fr = b, !.dup = n])
  BY Fields DEF Quiet, Same, Rest, Core, TcbType

\* The receiver's next number.
LEMMA RcvSame ==
    ASSUME NEW e, TcbType(e), NEW n \in Int
    PROVE  Same(e, [e EXCEPT !.rcv = n])
  BY Fields DEF Same, Core, TcbType

\* The segments that wait for earlier ones, and what goes to the application.
LEMMA OooSame ==
    ASSUME NEW e, TcbType(e), NEW Q, Q \subseteq Message, IsFiniteSet(Q), NEW u
    PROVE  Same(e, [e EXCEPT !.ooo = Q, !.up = u])
  BY Fields DEF Same, Core, TcbType

\* FlightSize is a number of segments.
LEMMA FlightType ==
    ASSUME NEW e, TcbType(e)
    PROVE  FlightSize(e) \in Int /\ Max({FlightSize(e) \div 2, 2}) \in Int
<1>1. e.nxt - e.una \in Int
  BY DEF TcbType
<1>2. FlightSize(e) \in Int
  BY <1>1, Remainder DEF FlightSize
<1> DEFINE h == FlightSize(e) \div 2
<1>3. h \in Int
  BY <1>2, Remainder
<1> HIDE DEF h
<1>4. Max({h, 2}) \in Int
  BY <1>3, MaxTwo
<1> QED
  BY <1>2, <1>4 DEF h

\* What a retransmission timer does to the window.
LEMMA RtoQuiet ==
    ASSUME NEW e, TcbType(e)
    PROVE  Quiet(e, congestion_rto_timeout(e))
<1> DEFINE t == Max({FlightSize(e) \div 2, 2})
           r == IF Variant = "NEWRENO" THEN e.nxt ELSE e.recover
           b == e.fr /\ Variant # "NEWRENO"
           g == [e EXCEPT !.ssth = t, !.recover = r, !.fr = b]
<1>1. t \in Int /\ r \in Int
  BY FlightType DEF TcbType
<1>2. congestion_rto_timeout(e) = set_cwnd(g, LW)
  BY Zenon DEF congestion_rto_timeout
<1> HIDE DEF t, r, b
<1>3. Quiet(e, g)
  BY <1>1, TimeoutQuiet
<1> HIDE DEF g
<1>4. Quiet(g, set_cwnd(g, LW))
  BY <1>3, CwndQuiet DEF Quiet, Same, LW
<1> QED
  BY <1>2, <1>3, <1>4, QuietTrans

\* slowStart, congestion avoidance and a duplicate more.
LEMMA GrowQuiet ==
    ASSUME NEW e, TcbType(e), NEW m \in Message, NEW due
    PROVE  Quiet(e, Grow(e, m, due)) /\ Quiet(e, CountDup(e))
<1>1. m.ack - e.una \in Int
  BY DEF Message, TcbType
<1>2. Min({(m.ack - e.una) % U16, 1}) \in Int
  BY <1>1, Remainder, MinTwo
<1>3. Quiet(e, slowStart(e, m))
  BY <1>2, CwndQuiet DEF slowStart
<1>4. Quiet(e, Grow(e, m, due))
  BY <1>3, QuietRefl, Zenon DEF Grow, CongestionAvoidance
<1>5. Quiet(e, CountDup(e))
  BY DupQuiet DEF CountDup
<1> QED
  BY <1>4, <1>5

\* A segment is sent again and keeps its place and its timer.
LEMMA ResendQuiet ==
    ASSUME NEW e, TcbType(e), NEW seq
    PROVE  Quiet(e, resend_segment_without_timeout(e, seq))
<1>1. CASE isSegmentInQueue(e.rq, seq)
  <2> DEFINE m == get_segment_from_queue(e.rq, seq)
             f == send_to_network(e, m)
  <2>1. m \in e.rq
    BY <1>1 DEF isSegmentInQueue, get_segment_from_queue
  <2>2. m \in Message
    BY <2>1 DEF TcbType
  <2> HIDE DEF m
  <2>3. Same(e, f)
    BY <2>2, SendSame
  <2>4. f = [e EXCEPT !.out = Append(@, m)]
    BY DEF send_to_network
  <2>5. Rest(f) = Rest(e) /\ f.out = Append(e.out, m)
    BY <2>4, Fields DEF Rest, TcbType
  <2>6. Range(Append(e.out, m)) = Range(e.out) \cup {m}
    <3>1. e.out \in Seq(Message)
      BY DEF TcbType
    <3> QED
      BY <2>2, <3>1, AppendRange
  <2>7. Quiet(e, f)
    BY <2>1, <2>3, <2>5, <2>6 DEF Quiet
  <2> QED
    BY <1>1, <2>7 DEF resend_segment_without_timeout, m
<1>2. CASE ~isSegmentInQueue(e.rq, seq)
  BY <1>2, QuietRefl DEF resend_segment_without_timeout
<1> QED
  BY <1>1, <1>2

\* Fast retransmission (FastRetransmit).
LEMMA RetransmitQuiet ==
    ASSUME NEW e, TcbType(e), NEW m \in Message
    PROVE  Quiet(e, FastRetransmit(e, m))
<1>1. CASE e.dup = TCP_DupThresh
  <2> DEFINE t == Max({FlightSize(e) \div 2, 2})
             b == Variant \in {"RENO", "NEWRENO"}
             f == [e EXCEPT !.ssth = t, !.fr = b]
             g == set_cwnd(f, t + TCP_DupThresh)
             h == resend_segment_without_timeout(g, m.ack)
  <2>1. t \in Int
    BY FlightType
  <2>2. t + TCP_DupThresh \in Int
    BY <2>1 DEF TCP_DupThresh
  <2>3. Quiet(e, f)
    <3> HIDE DEF t, b
    <3> QED
      BY <2>1, SsthQuiet
  <2> HIDE DEF f, t
  <2>4. Quiet(f, g)
    BY <2>2, <2>3, CwndQuiet DEF Quiet, Same, Rest
  <2> HIDE DEF g
  <2>5. Quiet(g, h)
    BY <2>4, ResendQuiet DEF Quiet, Same, Rest
  <2>6. FastRetransmit(e, m) = h
    BY <1>1 DEF FastRetransmit, h, g, f, t
  <2> HIDE DEF h
  <2> QED
    BY <2>3, <2>4, <2>5, <2>6, QuietTrans
<1>2. CASE e.dup # TCP_DupThresh
  BY <1>2, CwndQuiet DEF FastRetransmit
<1> QED
  BY <1>1, <1>2

\* The end of a recovery (FastRecovery, newReno_FastRecovery).
LEMMA RecoveryQuiet ==
    ASSUME NEW e, TcbType(e), NEW m \in Message
    PROVE  Quiet(e, FastRecovery(e)) /\ Quiet(e, newReno_FastRecovery(e, m))
<1> DEFINE f == [e EXCEPT !.dup = 0]
           g == [f EXCEPT !.fr = FALSE]
           w == Min({e.ssth, Max({FlightSize(e), 1}) + 1})
           v == (m.ack - e.recover) % U16
           k == [e EXCEPT !.fr = FALSE, !.dup = 0]
<1>1. Quiet(e, FastRecovery(e))
  <2>1. Quiet(e, k) /\ e.ssth \in Int
    BY FrDupQuiet DEF TcbType
  <2> HIDE DEF k
  <2>2. Quiet(k, set_cwnd(k, e.ssth))
    BY <2>1, CwndQuiet DEF Quiet, Same, Rest
  <2>3. Quiet(e, set_cwnd(k, e.ssth))
    BY <2>1, <2>2, QuietTrans, Zenon
  <2> QED
    BY <2>3, Zenon DEF FastRecovery, k
<1>2. Quiet(e, f)
  BY DupQuiet
<1>3. w \in Int /\ v \in Int
  <2>1. Max({FlightSize(e), 1}) \in Int
    <3>1. FlightSize(e) \in Int
      BY FlightType, Zenon
    <3> QED
      BY ONLY <3>1, MaxTwo
  <2>2. Max({FlightSize(e), 1}) + 1 \in Int /\ e.ssth \in Int /\ m.ack - e.recover \in Int
    <3>1. e.ssth \in Int /\ e.recover \in Int
      BY DEF TcbType
    <3>2. m.ack \in Int
      BY DEF Message
    <3> QED
      BY ONLY <2>1, <3>1, <3>2
  <2> QED
    BY <2>2, MinTwo, Remainder
<1> HIDE DEF f, w, v
<1>4. Quiet(f, g)
  BY <1>2, FrQuiet DEF Quiet, Same, Rest
<1> HIDE DEF g
<1>5. Quiet(g, set_cwnd(g, w))
  BY <1>3, <1>4, CwndQuiet DEF Quiet, Same, Rest
<1>6. Quiet(f, increase_cwnd(f, v))
  BY <1>2, <1>3, CwndQuiet DEF Quiet, Same, Rest
<1>7. Quiet(increase_cwnd(f, v), resend_segment_without_timeout(increase_cwnd(f, v), m.ack))
  BY <1>6, ResendQuiet DEF Quiet, Same, Rest
<1>8. Quiet(e, set_cwnd(g, w))
  BY <1>2, <1>4, <1>5, QuietTrans
<1>9. Quiet(e, resend_segment_without_timeout(increase_cwnd(f, v), m.ack))
  BY <1>2, <1>6, <1>7, QuietTrans
<1>10. \/ newReno_FastRecovery(e, m) = set_cwnd(g, w)
       \/ newReno_FastRecovery(e, m) = resend_segment_without_timeout(increase_cwnd(f, v), m.ack)
  BY Zenon DEF newReno_FastRecovery, f, g, w, v
<1> QED
  BY <1>1, <1>8, <1>9, <1>10

\* Whatever the variant does with an acknowledgement (ack_received), it
\* changes the window and may send a copy.
LEMMA AckReceivedQuiet ==
    ASSUME NEW e, TcbType(e), NEW m \in Message, NEW due
    PROVE  Quiet(e, ack_received(e, m, due))
<1> DEFINE f == CountDup(e)
           r == [f EXCEPT !.recover = f.nxt]
           z == [e EXCEPT !.dup = 0]
<1>1. Quiet(e, f) /\ Quiet(e, Grow(e, m, due))
  BY GrowQuiet
<1>2. Quiet(e, set_cwnd(z, LW))
  <2>1. Quiet(e, z)
    BY DupQuiet
  <2> HIDE DEF z
  <2>2. Quiet(z, set_cwnd(z, LW))
    BY <2>1, CwndQuiet DEF Quiet, Same, Rest, LW
  <2> QED
    BY <2>1, <2>2, QuietTrans
<1> HIDE DEF f
<1>3. Quiet(e, FastRetransmit(f, m))
  BY <1>1, RetransmitQuiet, QuietTrans DEF Quiet, Same, Rest
<1>4. Quiet(e, FastRetransmit(r, m))
  <2>1. f.nxt \in Int
    BY <1>1 DEF Quiet, Same, Rest, TcbType
  <2>2. Quiet(f, r)
    BY <1>1, <2>1, RecoverQuiet DEF Quiet, Same, Rest
  <2> HIDE DEF r
  <2>3. Quiet(r, FastRetransmit(r, m))
    BY <2>2, RetransmitQuiet DEF Quiet, Same, Rest
  <2> QED
    BY <1>1, <2>2, <2>3, QuietTrans
<1>5. Quiet(e, FastRecovery(e)) /\ Quiet(e, newReno_FastRecovery(e, m))
  BY RecoveryQuiet
<1>6. Quiet(e, tahoe_ack_received(e, m, due))
  <2>1. tahoe_ack_received(e, m, due) \in {f, FastRetransmit(f, m), set_cwnd(z, LW), Grow(e, m, due)}
    BY Zenon DEF tahoe_ack_received, f
  <2> QED
    BY <1>1, <1>2, <1>3, <2>1
<1>7. Quiet(e, reno_ack_received(e, m, due))
  <2>1. reno_ack_received(e, m, due) \in {f, FastRetransmit(f, m), FastRecovery(e), Grow(e, m, due)}
    BY Zenon DEF reno_ack_received, f
  <2> QED
    BY <1>1, <1>3, <1>5, <2>1
<1>8. Quiet(e, newreno_ack_received(e, m, due))
  <2>1. newreno_ack_received(e, m, due) \in
          {f, FastRetransmit(r, m), newReno_FastRecovery(e, m), Grow(e, m, due)}
    BY Zenon DEF newreno_ack_received, f
  <2> HIDE DEF r
  <2> QED
    BY <1>1, <1>4, <1>5, <2>1
<1>9. ack_received(e, m, due) \in {Grow(e, m, due), tahoe_ack_received(e, m, due),
                                   reno_ack_received(e, m, due), newreno_ack_received(e, m, due)}
  BY Zenon DEF ack_received
<1> QED
  BY <1>1, <1>6, <1>7, <1>8, <1>9
-----------------------------------------------------------------------------
(* Sending *)

\* A socket in another state than the three of Live promises nothing.
LEMMA ClosedGood ==
    ASSUME NEW f, NEW T, TcbType(f), f.st \notin Live
    PROVE  Good(f, T)
  BY DEF Good, Sound, Idle, Live, Opening

\* send_segment keeps the queue covered and timed.  Where it leaves an
\* established sender with nothing unacknowledged, the interface was empty.
LEMMA SendSegment ==
    ASSUME NEW d, NEW e, NEW T, TcbType(e), e.st \notin Opening, e.crash \/ Sound(e, T)
    PROVE  LET X == send_segment(d, e)
           IN  /\ TcbType(X) /\ (X.crash \/ Sound(X, T))
               /\ X.st \in {e.st, "FinWait1"} /\ e.rq \subseteq X.rq
               /\ X.st = "Estab" /\ ~X.crash /\ X.rq = {} =>
                     /\ e.avail = e.fetched /\ X.avail = X.fetched /\ X.waitFromApp
<1> DEFINE w == e.avail - e.fetched
           k == e.una + e.cwnd - e.nxt
           n == Max({0, Min({w, k})})
           new == [i \in 1..n |-> Seg(d, {}, e.nxt + i - 1, 0, e.fetched + i)]
           seqs == [i \in 1..n |-> new[i].seq]
           h == [e EXCEPT !.out = @ \o new, !.rq = @ \cup {new[i] : i \in 1..n},
                   !.arm = @ \o seqs,
                   !.nxt = @ + n, !.fetched = @ + n,
                   !.waitFromApp = @ \/ w = 0,
                   !.isAPPClose = @ \/ (n > 0 /\ e.fetched + n = Packets),
                   !.crash = @ \/ e.cwnd < 1]
           X == send_segment(d, e)
<1>0. /\ e.una \in Int /\ e.nxt \in Int /\ e.cwnd \in Int
      /\ e.avail \in Nat /\ e.fetched \in Nat /\ e.fetched <= e.avail
  BY DEF TcbType
<1>1. X = IF h.isAPPClose THEN tcp_close(d, h) ELSE h
  BY DEF send_segment
<1> HIDE DEF X
<1>2. /\ n \in Nat /\ n <= w /\ w \in Nat /\ k \in Int
      /\ n = 0 => w = 0 \/ k <= 0
  <2>1. w \in Nat /\ k \in Int
    BY ONLY <1>0
  <2> HIDE DEF w, k
  <2>2. Min({w, k}) \in Int /\ Min({w, k}) = IF w <= k THEN w ELSE k
    BY <2>1, MinTwo
  <2>3. n \in Int /\ n = IF 0 >= Min({w, k}) THEN 0 ELSE Min({w, k})
    BY <2>2, MaxTwo
  <2> QED
    BY <2>1, <2>2, <2>3
<1> HIDE DEF n
<1>3. ASSUME NEW i \in 1..n
      PROVE  /\ new[i] \in Message /\ new[i].seq = e.nxt + i - 1 /\ get_seg_len(new[i]) = 1
             /\ seqs[i] = e.nxt + i - 1
  <2>1. e.nxt + i - 1 \in Int /\ e.fetched + i \in Nat /\ e.fetched + i > 0
    BY <1>0, <1>2
  <2>2. new[i] = Seg(d, {}, e.nxt + i - 1, 0, e.fetched + i)
    OBVIOUS
  <2> QED
    BY <2>1, <2>2, SegMessage
<1>4. new \in Seq(Message) /\ seqs \in Seq(Int) /\ DOMAIN seqs = 1..n
  <2>1. e.nxt \in Int
    BY DEF TcbType
  <2>2. new \in [1..n -> Message]
    BY <1>3
  <2>3. seqs \in [1..n -> Int]
    BY <1>2, <1>3, <2>1
  <2> QED
    BY <1>2, <2>2, <2>3
<1> HIDE DEF new, seqs
<1>5. /\ e.out \o new \in Seq(Message) /\ e.arm \o seqs \in Seq(Int)
      /\ Range(e.arm \o seqs) = Range(e.arm) \cup Range(seqs)
  BY <1>4, ConcatRange DEF TcbType
<1>6. /\ DOMAIN h = DOMAIN e /\ h.st = e.st /\ h.una = e.una /\ h.iss = e.iss
      /\ h.cancel = e.cancel /\ h.avail = e.avail /\ h.dials = e.dials /\ h.rcv = e.rcv
      /\ h.cwnd = e.cwnd /\ h.ssth = e.ssth /\ h.recover = e.recover /\ h.ooo = e.ooo
      /\ h.out = e.out \o new /\ h.arm = e.arm \o seqs
      /\ h.rq = e.rq \cup {new[i] : i \in 1..n}
      /\ h.nxt = e.nxt + n /\ h.fetched = e.fetched + n
      /\ h.waitFromApp = (e.waitFromApp \/ w = 0)
      /\ h.isAPPClose = (e.isAPPClose \/ (n > 0 /\ e.fetched + n = Packets))
      /\ h.crash = (e.crash \/ e.cwnd < 1)
  BY Fields DEF TcbType
<1> HIDE DEF h
<1>7. TcbType(h)
  <2>1. h.rq \subseteq Message
    BY <1>3, <1>6 DEF TcbType
  <2>2. h.fetched \in Nat /\ h.fetched <= h.avail /\ h.nxt \in Int
    <3>1. h.fetched = e.fetched + n /\ h.avail = e.avail /\ h.nxt = e.nxt + n
      BY <1>6
    <3>2. n \in Nat /\ n <= e.avail - e.fetched
      BY <1>2
    <3> QED
      BY ONLY <1>0, <3>1, <3>2
  <2>3. /\ h.waitFromApp \in BOOLEAN /\ h.isAPPClose \in BOOLEAN /\ h.crash \in BOOLEAN
    BY <1>6
  <2> QED
    BY <1>5, <1>6, <2>1, <2>2, <2>3 DEF TcbType
<1>8. ASSUME ~h.crash PROVE Sound(h, T)
  <2>1. Sound(e, T)
    BY <1>6, <1>8
  <2>2. ASSUME h.st \in Live PROVE ~h.cancel /\ Timed(h, T) /\ Covered(h)
    <3>1. ~e.cancel /\ Timed(e, T) /\ Covered(e)
      BY <1>6, <2>1, <2>2 DEF Sound
    <3>2. ~h.cancel
      BY <1>6, <3>1
    <3>3. Timed(h, T)
      <4> SUFFICES ASSUME NEW m \in h.rq PROVE m.seq \in T \cup Range(h.arm)
        BY DEF Timed
      <4>1. CASE m \in e.rq
        BY <1>5, <1>6, <3>1, <4>1 DEF Timed
      <4>2. CASE m \notin e.rq
        <5>1. PICK i \in 1..n : m = new[i]
          BY <1>6, <4>2
        <5>2. seqs[i] \in Range(seqs) /\ m.seq = seqs[i]
          BY <1>3, <1>4, <5>1 DEF Range
        <5> QED
          BY <1>5, <1>6, <5>2
      <4> QED
        BY <4>1, <4>2
    <3>4. Covered(h)
      <4>0. e.una \in Int /\ e.nxt \in Int
        BY DEF TcbType
      <4>1. h.una <= h.nxt
        BY <1>2, <1>6, <3>1, <4>0 DEF Covered
      <4>2. ASSUME NEW i \in h.una..(h.nxt - 1)
            PROVE  \E m \in h.rq : m.seq = i /\ get_seg_len(m) = 1
        <5>1. CASE i < e.nxt
          <6>1. i \in e.una..(e.nxt - 1)
            BY <1>6, <4>0, <5>1
          <6>2. PICK m \in e.rq : m.seq = i /\ get_seg_len(m) = 1
            BY ONLY <3>1, <6>1 DEF Covered
          <6>3. m \in h.rq
            BY <1>6
          <6> QED
            BY ONLY <6>2, <6>3
        <5>2. CASE i >= e.nxt
          <6> DEFINE j == i - e.nxt + 1
          <6>1. j \in 1..n /\ e.nxt + j - 1 = i
            <7>1. h.nxt = e.nxt + n /\ n \in Nat /\ i \in Int /\ i < h.nxt
              BY <1>2, <1>6, <4>0
            <7> QED
              BY ONLY <4>0, <5>2, <7>1
          <6> HIDE DEF j
          <6>2. new[j] \in h.rq /\ new[j].seq = i /\ get_seg_len(new[j]) = 1
            BY <1>3, <1>6, <6>1
          <6> QED
            BY <6>2
        <5> QED
          BY <1>6, <4>0, <5>1, <5>2
      <4> QED
        BY <4>1, <4>2 DEF Covered
    <3> QED
      BY <3>2, <3>3, <3>4
  <2>3. h.st \notin Opening
    BY <1>6
  <2> QED
    BY <2>2, <2>3 DEF Sound
<1>9. ASSUME h.st = "Estab", ~h.crash, h.rq = {}
      PROVE  e.avail = e.fetched /\ h.avail = h.fetched /\ h.waitFromApp
  <2>1. n = 0
    <3>1. \A i \in 1..n : new[i] \in h.rq
      BY <1>6
    <3> QED
      BY <1>2, <1>9, <3>1
  <2>2. e.una = e.nxt
    <3>1. Covered(h) /\ h.una \in Int /\ h.nxt \in Int
      BY <1>7, <1>8, <1>9 DEF Sound, Live, TcbType
    <3>2. h.una <= h.nxt /\ ~(h.una \in h.una..(h.nxt - 1))
      BY <1>9, <3>1 DEF Covered
    <3> QED
      BY <1>0, <1>6, <2>1, <3>1, <3>2
  <2>3. ~(e.cwnd < 1)
    BY <1>6, <1>9
  <2>4. w = 0
    BY <1>0, <1>2, <2>1, <2>2, <2>3
  <2>5. e.avail = e.fetched /\ h.avail = h.fetched
    BY <1>0, <1>6, <2>1, <2>4
  <2>6. h.waitFromApp
    BY <1>6, <2>4
  <2> QED
    BY <2>5, <2>6
<1> HIDE DEF w, k
<1>10. CASE X = h
  BY <1>6, <1>7, <1>8, <1>9, <1>10 DEF X
<1>11. CASE X # h
  <2>1. h.rq = {} /\ X = tcp_change_state(send_fin(d, h), "FinWait1")
    BY <1>1, <1>11 DEF tcp_close
  <2>2. Same(h, send_fin(d, h))
    <3>1. Seg("c", {}, 0, 0, 0) \in Message
      BY SegMessage
    <3> QED
      BY <1>7, <3>1, ControlSame
  <2>3. TcbType(X) /\ X.st = "FinWait1" /\ X.rq = h.rq
    BY <2>1, <2>2, Fields DEF Same, tcp_change_state, Core, TcbType
  <2>4. Sound(X, T)
    BY <2>3 DEF Sound, Live, Opening
  <2> QED
    BY <1>6, <2>1, <2>3, <2>4 DEF X
<1> QED
  BY <1>10, <1>11
\* A segment sent with a timer (send_to_network, add_timeout_event).
LEMMA TimedSend ==
    ASSUME NEW e, TcbType(e), NEW m \in Message
    PROVE  LET X == SendTimed(e, m)
           IN  /\ TcbType(X) /\ X.rq = e.rq \cup {m}
               /\ Range(X.arm) = Range(e.arm) \cup {m.seq}
               /\ X.st = e.st /\ X.cancel = e.cancel /\ X.una = e.una /\ X.nxt = e.nxt
               /\ X.iss = e.iss /\ X.waitFromApp = e.waitFromApp /\ X.avail = e.avail
               /\ X.fetched = e.fetched /\ X.crash = e.crash
<1> DEFINE f == send_to_network(e, m)
           X == add_timeout_event(f, m)
<1>1. Same(e, f)
  BY SendSame
<1>2. X = SendTimed(e, m)
  BY DEF SendTimed
<1> HIDE DEF f
<1>3. TcbType(f) /\ m.seq \in Int
  BY <1>1 DEF Same, Message
<1>4. /\ Append(f.arm, m.seq) \in Seq(Int)
      /\ Range(Append(f.arm, m.seq)) = Range(f.arm) \cup {m.seq}
  <2>1. f.arm \in Seq(Int)
    BY <1>3 DEF TcbType
  <2> QED
    BY <1>3, <2>1, AppendRange
<1>5. /\ TcbType(X) /\ X.rq = f.rq \cup {m} /\ X.arm = Append(f.arm, m.seq)
      /\ X.st = f.st /\ X.cancel = f.cancel /\ X.una = f.una /\ X.nxt = f.nxt
      /\ X.iss = f.iss /\ X.waitFromApp = f.waitFromApp /\ X.avail = f.avail
      /\ X.fetched = f.fetched /\ X.crash = f.crash
  BY <1>3, <1>4, Fields DEF add_timeout_event, TcbType
<1> HIDE DEF X
<1>6. /\ f.st = e.st /\ f.cancel = e.cancel /\ f.rq = e.rq /\ f.arm = e.arm /\ f.una = e.una
      /\ f.nxt = e.nxt /\ f.iss = e.iss /\ f.waitFromApp = e.waitFromApp
      /\ f.avail = e.avail /\ f.fetched = e.fetched /\ f.crash = e.crash
  BY <1>1 DEF Same, Core
<1> QED
  BY <1>2, <1>4, <1>5, <1>6

-----------------------------------------------------------------------------
(* The handshake *)

\* What is left of a socket without its TCB.
LEMMA ApartType ==
    ASSUME NEW e, TcbType(e)
    PROVE  LET X == Apart(e)
           IN  /\ TcbType(X) /\ X.st = "None" /\ X.rq = {} /\ X.arm = <<>> /\ X.cancel = FALSE
               /\ X.waitFromApp = FALSE /\ X.crash = FALSE
<1>1. IsFiniteSet({}) /\ <<>> \in Seq(Int)
  BY FS_EmptySet
<1> QED
  BY <1>1, Fields DEF Apart, NoSocket, TcbType

\* What delete_tcb sets after it has set a socket apart.
LEMMA DeletedType ==
    ASSUME NEW a, TcbType(a), NEW w \in BOOLEAN, NEW c \in BOOLEAN
    PROVE  /\ TcbType([a EXCEPT !.st = "NoTcb", !.waitFromApp = w, !.isAPPClose = c])
           /\ [a EXCEPT !.st = "NoTcb", !.waitFromApp = w, !.isAPPClose = c].st = "NoTcb"
  BY Fields DEF TcbType

\* A socket that is closed, or loses its TCB.
LEMMA ClosedSocket ==
    ASSUME NEW e, NEW T, TcbType(e)
    PROVE  Good(tcp_close_socket(e), T) /\ Good(delete_tcb(e), T)
<1>1. TcbType(Apart(e)) /\ Apart(e).st = "None"
  BY ApartType
<1>2. Good(tcp_close_socket(e), T)
  BY <1>1, ClosedGood DEF tcp_close_socket, Live, Opening
<1>3. TcbType(delete_tcb(e)) /\ delete_tcb(e).st = "NoTcb"
  <2> DEFINE a == Apart(e)
  <2>1. TcbType(a)
    BY <1>1
  <2>2. delete_tcb(e) = [a EXCEPT !.st = "NoTcb", !.waitFromApp = e.waitFromApp,
                                  !.isAPPClose = e.isAPPClose]
    BY DEF delete_tcb
  <2>3. e.waitFromApp \in BOOLEAN /\ e.isAPPClose \in BOOLEAN
    BY DEF TcbType
  <2> HIDE DEF a
  <2> DEFINE f == [a EXCEPT !.st = "NoTcb", !.waitFromApp = e.waitFromApp,
                            !.isAPPClose = e.isAPPClose]
  <2>4. TcbType(f) /\ f.st = "NoTcb"
    BY <2>1, <2>3, DeletedType
  <2> HIDE DEF f
  <2>5. delete_tcb(e) = f
    BY <2>2 DEF f
  <2> QED
    BY <2>4, <2>5
<1>4. Good(delete_tcb(e), T)
  BY <1>3, ClosedGood DEF Live, Opening
<1> QED
  BY <1>2, <1>4

\* A new TCB (create_TCB).
LEMMA NewTcb ==
    ASSUME NEW d, NEW e, TcbType(e)
    PROVE  LET X == create_TCB(d, e)
           IN  /\ TcbType(X) /\ X.rq = {} /\ X.arm = <<>> /\ X.cancel = FALSE
               /\ X.waitFromApp = FALSE /\ X.crash = FALSE
<1> DEFINE a == Apart(e)
           i == calculate_initial_seq_num(d, e.dials + 1)
           r == IF Variant = "NEWRENO" THEN i ELSE 0
<1>1. /\ TcbType(a) /\ a.rq = {} /\ a.arm = <<>> /\ a.cancel = FALSE
      /\ a.waitFromApp = FALSE /\ a.crash = FALSE
  BY ApartType
<1>2. e.dials \in Nat
  BY DEF TcbType
<1>3. i \in Int
  BY <1>2 DEF calculate_initial_seq_num
<1>4. r \in Int /\ InitSSThresh \in Int
  BY <1>3, TcpAssumption
<1>5. create_TCB(d, e) = [a EXCEPT !.dials = @ + 1, !.iss = i, !.cwnd = InitSSThresh,
                                   !.ssth = InitSSThresh, !.recover = r]
  BY Zenon DEF create_TCB
<1> DEFINE X == create_TCB(d, e)
<1> HIDE DEF a, i, r, X
<1>6. a.dials + 1 \in Nat
  <2>1. a.dials \in Nat
    BY <1>1 DEF TcbType
  <2> QED
    BY <2>1
<1>7. DOMAIN a = DOMAIN NoSocket
  BY <1>1 DEF TcbType
<1>8. /\ DOMAIN X = DOMAIN NoSocket /\ X.dials = a.dials + 1 /\ X.iss = i
      /\ X.cwnd = InitSSThresh /\ X.ssth = InitSSThresh /\ X.recover = r
      /\ X.st = a.st /\ X.avail = a.avail /\ X.fetched = a.fetched /\ X.una = a.una
      /\ X.nxt = a.nxt /\ X.rcv = a.rcv /\ X.rq = a.rq /\ X.ooo = a.ooo /\ X.out = a.out
      /\ X.arm = a.arm /\ X.cancel = a.cancel /\ X.waitFromApp = a.waitFromApp
      /\ X.isAPPClose = a.isAPPClose /\ X.crash = a.crash
  BY <1>5, <1>7, Fields DEF X
<1>9. TcbType(X)
  BY <1>1, <1>3, <1>4, <1>6, <1>8 DEF TcbType
<1> QED
  BY <1>1, <1>8, <1>9 DEF X

\* The first SYN of a connection, or the answer to one.
LEMMA OpenGood ==
    ASSUME NEW e, NEW T, TcbType(e), NEW m \in Message, e.st \in Opening, e.rq = {},
           e.cancel = FALSE, e.waitFromApp = FALSE, e.una = e.iss, e.nxt = e.iss + 1,
           m.seq = e.iss, get_seg_len(m) = 1
    PROVE  Good(SendTimed(e, m), T)
<1> DEFINE X == SendTimed(e, m)
<1>1. /\ TcbType(X) /\ X.rq = {m} /\ m.seq \in Range(X.arm) /\ X.st = e.st
      /\ X.cancel = FALSE /\ X.una = e.una /\ X.nxt = e.nxt /\ X.iss = e.iss
      /\ X.waitFromApp = FALSE
  BY TimedSend
<1> HIDE DEF X
<1>2. Timed(X, T)
  BY <1>1 DEF Timed
<1>3. e.iss \in Int
  BY DEF TcbType
<1>4. \A i \in X.una..(X.nxt - 1) : i = m.seq
  BY <1>1, <1>3
<1>5. X.una <= X.nxt
  BY <1>1, <1>3
<1>6. Covered(X)
  BY <1>1, <1>4, <1>5 DEF Covered
<1>7. Sound(X, T)
  BY <1>1, <1>2, <1>6 DEF Sound
<1>8. Idle(X)
  BY <1>1 DEF Idle
<1> QED
  BY <1>1, <1>7, <1>8 DEF Good, X

\* The client opens a connection (tcp_active_open).
LEMMA ActiveOpen ==
    ASSUME NEW d, NEW e, NEW T, TcbType(e)
    PROVE  Good(tcp_active_open(d, e), T)
<1> DEFINE t == create_TCB(d, e)
           f == [t EXCEPT !.una = t.iss, !.nxt = t.iss + 1, !.st = "SynSent", !.syn = @ + 1]
           m == Seg(d, {"S"}, t.iss, 0, 0)
<1>1. /\ TcbType(t) /\ t.rq = {} /\ t.cancel = FALSE /\ t.waitFromApp = FALSE
  BY NewTcb
<1>2. tcp_active_open(d, e) = SendTimed(f, m)
  BY DEF tcp_active_open, send_syn
<1> HIDE DEF t
<1>3. t.iss \in Int /\ t.iss + 1 \in Int
  <2>1. t.iss \in Int
    BY <1>1 DEF TcbType
  <2> QED
    BY <2>1
<1>4. /\ TcbType(f) /\ f.rq = {} /\ f.cancel = FALSE /\ f.waitFromApp = FALSE
      /\ f.una = f.iss /\ f.nxt = f.iss + 1 /\ f.st = "SynSent" /\ f.iss = t.iss
  BY <1>1, <1>3, Fields DEF TcbType
<1>5. m \in Message /\ m.seq = t.iss /\ get_seg_len(m) = 1
  BY <1>3, SegMessage
<1> HIDE DEF f, m
<1> QED
  BY <1>2, <1>4, <1>5, OpenGood DEF Opening

\* The server answers a SYN (tcp_accept).
LEMMA Accept ==
    ASSUME NEW d, NEW e, NEW T, TcbType(e), NEW p \in Message
    PROVE  Good(tcp_accept(d, e, p), T)
<1> DEFINE t == create_TCB(d, e)
           c == congestion_set_MSS(t)
           f == [c EXCEPT !.rcv = p.seq + 1, !.irs = p.seq, !.st = "SynRcvd",
                          !.una = t.iss, !.nxt = t.iss + 1, !.syn = @ + 1]
           m == Seg(d, {"S", "A"}, t.iss, f.rcv, 0)
<1>1. /\ TcbType(t) /\ t.rq = {} /\ t.cancel = FALSE /\ t.waitFromApp = FALSE
  BY NewTcb
<1>2. tcp_accept(d, e, p) = SendTimed(f, m)
  BY DEF tcp_accept, rcv_SYN
<1> HIDE DEF t
<1>3. t.iss \in Int /\ t.iss + 1 \in Int /\ p.seq + 1 \in Int
  <2>1. t.iss \in Int /\ p.seq \in Int
    BY <1>1 DEF TcbType, Message
  <2> QED
    BY <2>1
<1>4. Same(t, c)
  BY <1>1, CwndQuiet DEF Quiet, congestion_set_MSS, IW
<1> HIDE DEF c
<1>5. /\ TcbType(c) /\ c.rq = {} /\ c.cancel = FALSE /\ c.waitFromApp = FALSE /\ c.iss = t.iss
  BY <1>1, <1>4 DEF Same, Core
<1>6. /\ TcbType(f) /\ f.rq = {} /\ f.cancel = FALSE /\ f.waitFromApp = FALSE
      /\ f.una = f.iss /\ f.nxt = f.iss + 1 /\ f.st = "SynRcvd" /\ f.iss = t.iss
      /\ f.rcv \in Int
  BY <1>3, <1>5, Fields DEF TcbType
<1> HIDE DEF f
<1>7. m \in Message /\ m.seq = t.iss /\ get_seg_len(m) = 1
  BY <1>3, <1>6, SegMessage
<1> HIDE DEF m
<1> QED
  BY <1>2, <1>6, <1>7, OpenGood DEF Opening
\* Where the program has crashed nothing more is promised.
LEMMA CrashGood ==
    ASSUME NEW e, NEW T, TcbType(e)
    PROVE  Good([e EXCEPT !.crash = TRUE], T)
  BY Fields DEF Good, TcbType

\* In LISTEN a connection only answers or crashes.
LEMMA ListenGood ==
    ASSUME NEW d, NEW e, NEW T, Good(e, T), NEW m \in Message
    PROVE  Good(packet_arrives_at_listen_state(d, e, m), T)
<1>1. TcbType(e)
  BY DEF Good
<1>2. Good(send_rst(d, e, m, 0), T) /\ Good(send_rst(d, e, m, 2), T)
  <2>1. 0 \in Int
    OBVIOUS
  <2>2. Same(e, send_rst(d, e, m, 0)) /\ Same(e, send_rst(d, e, m, 2))
    BY <1>1, <2>1, ControlSame, Zenon
  <2> QED
    BY <2>2, SameGood
<1>3. Good([e EXCEPT !.crash = TRUE], T)
  BY <1>1, CrashGood
<1>4. packet_arrives_at_listen_state(d, e, m) \in
        {e, send_rst(d, e, m, 0), send_rst(d, e, m, 2), [e EXCEPT !.crash = TRUE]}
  BY Zenon DEF packet_arrives_at_listen_state
<1> QED
  BY <1>2, <1>3, <1>4

\* A SYN-ACK establishes the connection and lets the first segments go.
LEMMA SynSentGood ==
    ASSUME NEW d, NEW e, NEW T, Good(e, T), NEW m \in Message, e.st = "SynSent"
    PROVE  Good(packet_arrives_at_synsent_state(d, e, m), T)
<1> DEFINE wrong == "A" \in m.fl /\ (m.ack <= e.iss \/ m.ack > e.nxt)
           ok == ~wrong /\ "A" \in m.fl /\ e.una <= m.ack /\ m.ack <= e.nxt
           q == delete_segment_from_queue(e.rq, m.ack)
           c == [e EXCEPT !.rcv = m.seq + 1, !.irs = m.seq, !.una = m.ack, !.rq = q]
           f == congestion_set_MSS(c)
           a == send_ack(d, f, f.nxt, f.rcv)
           b == tcp_change_state(a, "Estab")
           Y == send_segment(d, b)
           X == packet_arrives_at_synsent_state(d, e, m)
<1>1. /\ TcbType(e) /\ e.una \in Int /\ e.nxt \in Int /\ e.iss \in Int
      /\ m.seq \in Int /\ m.ack \in Int /\ m.seq + 1 \in Int
  <2>1. TcbType(e) /\ e.una \in Int /\ e.nxt \in Int /\ e.iss \in Int
        /\ m.seq \in Int /\ m.ack \in Int
    BY DEF Good, TcbType, Message
  <2> QED
    BY <2>1
<1>2. \/ X = send_rst(d, e, m, 0)
      \/ X = [e EXCEPT !.crash = TRUE]
      \/ ok /\ X = Y
      \/ X = e
  BY Zenon DEF packet_arrives_at_synsent_state
<1> HIDE DEF X
<1>3. CASE X = send_rst(d, e, m, 0)
  <2>1. Same(e, send_rst(d, e, m, 0))
    <3>1. 0 \in Int
      OBVIOUS
    <3> QED
      BY <1>1, <3>1, ControlSame, Zenon
  <2> QED
    BY <1>3, <2>1, SameGood DEF X
<1>4. CASE X = [e EXCEPT !.crash = TRUE]
  BY <1>1, <1>4, CrashGood DEF X
<1>5. CASE ok /\ X = Y
  <2>1. /\ TcbType(c) /\ c.cancel = e.cancel /\ c.rq = q /\ c.arm = e.arm /\ c.una = m.ack
        /\ c.nxt = e.nxt /\ c.waitFromApp = e.waitFromApp /\ c.crash = e.crash
    <3>1. q \subseteq Message
      BY <1>1 DEF delete_segment_from_queue, TcbType
    <3> QED
      BY <1>1, <3>1, Fields DEF TcbType
  <2> HIDE DEF c
  <2>2. Same(c, f)
    BY <2>1, CwndQuiet DEF Quiet, congestion_set_MSS, IW
  <2> HIDE DEF f
  <2>3. Same(f, a)
    <3>1. TcbType(f) /\ f.nxt \in Int /\ f.rcv \in Int
      BY <2>2 DEF Same, TcbType
    <3>2. ASSUME NEW n \in Int, NEW k \in Int PROVE Same(f, send_ack(d, f, n, k))
      BY <3>1, SendSame, SegMessage DEF send_ack
    <3> QED
      BY <3>1, <3>2
  <2> HIDE DEF a
  <2>4. Same(c, a)
    BY <2>2, <2>3, SameTrans
  <2>5. /\ TcbType(b) /\ b.st = "Estab" /\ b.cancel = e.cancel /\ b.rq = q /\ b.arm = e.arm
        /\ b.una = m.ack /\ b.nxt = e.nxt /\ b.crash = e.crash
    BY <2>1, <2>4, Fields DEF Same, Core, tcp_change_state, TcbType
  <2> HIDE DEF b
  <2>6. b.crash \/ Sound(b, T)
    <3> SUFFICES ASSUME ~b.crash PROVE Sound(b, T)
      OBVIOUS
    <3>1. /\ ~e.cancel /\ Timed(e, T) /\ e.una = e.iss /\ e.nxt = e.iss + 1
      BY <2>5 DEF Good, Sound, Live, Opening
    <3>2. ~b.cancel
      BY <2>5, <3>1
    <3>3. Timed(b, T)
      BY <2>5, <3>1 DEF Timed, delete_segment_from_queue
    <3>4. m.ack = e.nxt
      BY <1>1, <1>5, <3>1
    <3>5. b.una <= b.nxt /\ \A i \in b.una..(b.nxt - 1) : FALSE
      BY <1>1, <2>5, <3>4
    <3>6. Covered(b)
      BY <3>5 DEF Covered
    <3> QED
      BY <2>5, <3>2, <3>3, <3>6 DEF Sound, Opening
  <2>7. b.st \notin Opening
    BY <2>5 DEF Opening
  <2>8. TcbType(Y) /\ (Y.crash \/ Sound(Y, T)) /\ (Y.crash \/ Idle(Y))
    BY <2>5, <2>6, <2>7, SendSegment DEF Idle
  <2> QED
    BY <1>5, <2>8 DEF X, Good
<1>6. CASE X = e
  BY <1>6 DEF X
<1> QED
  BY <1>2, <1>3, <1>4, <1>5, <1>6

-----------------------------------------------------------------------------
(* The retransmission timer *)

\* The segment whose timer ran out is sent and timed again.
LEMMA SentAgain ==
    ASSUME NEW e, NEW f, NEW T, NEW n, Same(e, f), Sound(e, T \cup {n}), Idle(e),
           NEW m \in e.rq, m.seq = n
    PROVE  Good(SendTimed(f, m), T)
<1> DEFINE X == SendTimed(f, m)
<1>1. /\ TcbType(f) /\ f.st = e.st /\ f.cancel = e.cancel /\ f.rq = e.rq /\ f.arm = e.arm
      /\ f.una = e.una /\ f.nxt = e.nxt /\ f.iss = e.iss /\ f.waitFromApp = e.waitFromApp
      /\ f.avail = e.avail /\ f.fetched = e.fetched /\ f.crash = e.crash
  BY DEF Same, Core
<1>2. m \in Message
  BY <1>1 DEF TcbType
<1>3. /\ TcbType(X) /\ X.rq = e.rq /\ Range(X.arm) = Range(e.arm) \cup {n}
      /\ X.st = e.st /\ X.cancel = e.cancel /\ X.una = e.una /\ X.nxt = e.nxt
      /\ X.iss = e.iss /\ X.waitFromApp = e.waitFromApp /\ X.avail = e.avail
      /\ X.fetched = e.fetched
  <2>1. /\ TcbType(X) /\ X.rq = f.rq \cup {m} /\ Range(X.arm) = Range(f.arm) \cup {m.seq}
        /\ X.st = f.st /\ X.cancel = f.cancel /\ X.una = f.una /\ X.nxt = f.nxt
        /\ X.iss = f.iss /\ X.waitFromApp = f.waitFromApp /\ X.avail = f.avail
        /\ X.fetched = f.fetched
    <3>1. TcbType(f)
      BY <1>1
    <3> QED
      BY ONLY <1>2, <3>1, TimedSend
  <2> HIDE DEF X
  <2>2. f.rq \cup {m} = e.rq
    BY <1>1
  <2> QED
    BY <1>1, <2>1, <2>2
<1> HIDE DEF X
<1>4. Timed(e, T \cup {n}) => Timed(X, T)
  BY <1>3 DEF Timed
<1>5. Covered(e) => Covered(X)
  BY <1>3 DEF Covered
<1>6. Sound(X, T)
  BY <1>3, <1>4, <1>5 DEF Sound
<1>7. Idle(X)
  BY <1>3 DEF Idle
<1> QED
  BY <1>3, <1>6, <1>7 DEF Good, X

\* A SYN is repeated or the socket is closed (resend_syn).
LEMMA ResendSynGood ==
    ASSUME NEW e, NEW T, NEW n, TcbType(e), Sound(e, T \cup {n}), Idle(e),
           NEW m \in e.rq, m.seq = n
    PROVE  Good(resend_syn(e, m), T)
<1> DEFINE f == [e EXCEPT !.una = e.iss, !.nxt = e.iss + 1, !.syn = @ + 1]
<1>1. \/ resend_syn(e, m) = [e EXCEPT !.crash = TRUE]
      \/ e.st \in Opening /\ resend_syn(e, m) = SendTimed(f, m)
      \/ resend_syn(e, m) = tcp_close_socket(e)
  BY Zenon DEF resend_syn, Opening
<1>2. CASE e.st \in Opening /\ resend_syn(e, m) = SendTimed(f, m)
  <2>1. e.una = e.iss /\ e.nxt = e.iss + 1
    BY <1>2 DEF Sound
  <2>2. Same(e, f)
    BY <2>1, Fields DEF Same, Core, TcbType
  <2> HIDE DEF f
  <2> QED
    BY <1>2, <2>2, SentAgain
<1> QED
  BY <1>1, <1>2, CrashGood, ClosedSocket

\* The RTO event of segment n (handle_rto_timer): the event is spent, and the
\* segment timed again if it is still unacknowledged.
LEMMA RtoGood ==
    ASSUME NEW e, NEW T, NEW n, Good(e, T \cup {n}), ~e.crash
    PROVE  Good(handle_rto_timer(e, n), T)
<1>1. TcbType(e) /\ Sound(e, T \cup {n}) /\ Idle(e)
  BY DEF Good
<1>2. CASE e.st \in {"None", "NoTcb"} \/ e.cancel
  <2>1. handle_rto_timer(e, n) = e
    BY <1>2, Zenon DEF handle_rto_timer
  <2>2. e.st \notin Live
    BY <1>1, <1>2 DEF Sound, Live, Opening
  <2> QED
    BY <1>1, <2>1, <2>2, ClosedGood
<1>3. CASE ~(e.st \in {"None", "NoTcb"} \/ e.cancel) /\ e.st = "Listen"
  BY <1>1, <1>3, CrashGood DEF handle_rto_timer
<1>4. CASE ~(e.st \in {"None", "NoTcb"} \/ e.cancel) /\ e.st # "Listen"
  <2>1. CASE ~isSegmentInQueue(e.rq, n)
    <3>1. handle_rto_timer(e, n) = e
      BY <1>4, <2>1 DEF handle_rto_timer
    <3>2. Timed(e, T \cup {n}) => Timed(e, T)
      BY <2>1 DEF Timed, isSegmentInQueue
    <3>3. Sound(e, T)
      BY <1>1, <3>2 DEF Sound
    <3> QED
      BY <1>1, <3>1, <3>3 DEF Good
  <2>2. CASE isSegmentInQueue(e.rq, n)
    <3> DEFINE m == get_segment_from_queue(e.rq, n)
               f == congestion_rto_timeout(e)
    <3>1. m \in e.rq /\ m.seq = n
      BY <2>2 DEF isSegmentInQueue, get_segment_from_queue
    <3>2. handle_rto_timer(e, n) = IF "S" \in m.fl THEN resend_syn(e, m) ELSE SendTimed(f, m)
      BY <1>4, <2>2 DEF handle_rto_timer
    <3> HIDE DEF m
    <3>3. Same(e, f)
      BY <1>1, RtoQuiet DEF Quiet
    <3> HIDE DEF f
    <3>4. CASE "S" \in m.fl
      BY <1>1, <3>1, <3>2, <3>4, ResendSynGood
    <3>5. CASE "S" \notin m.fl
      BY <1>1, <3>1, <3>2, <3>3, <3>5, SentAgain
    <3> QED
      BY <3>4, <3>5
  <2> QED
    BY <2>1, <2>2
<1> QED
  BY <1>2, <1>3, <1>4
-----------------------------------------------------------------------------
(* Segments of a connection *)

\* What AckThenSend does to a socket whose connection is not being opened:
\* an acknowledgement of something new takes just what it covers out of the
\* queue, and more is sent.
LEMMA AckThenSendGood ==
    ASSUME NEW d, NEW e, NEW T, TcbType(e), e.st \notin Opening, e.crash \/ Sound(e, T),
           NEW m \in Message, NEW due, e.crash \/ Acks(e, m) \/ Idle(e)
    PROVE  LET X == AckThenSend(d, e, m, due)
           IN  Good(X, T) /\ X.st \in {e.st, "FinWait1"}
<1> DEFINE f == ack_received(e, m, due)
           q == delete_segment_from_queue(f.rq, m.ack)
           g == [f EXCEPT !.una = m.ack, !.rq = q]
           X == AckThenSend(d, e, m, due)
<1>1. Same(e, f)
  BY AckReceivedQuiet DEF Quiet
<1>2. /\ Acks(e, m) => X = send_segment(d, g)
      /\ ~Acks(e, m) => X \in {send_ack(d, f, m.seq, m.ack), f}
  <2>1. e.nxt \in Int /\ m.ack \in Int
    BY DEF TcbType, Message
  <2>2. Acks(e, m) => ~(m.ack > e.nxt)
    BY <2>1 DEF Acks
  <2> HIDE DEF f, q
  <2>3. process_ack_in_establishedState(d, e, m, due) =
          CASE Acks(e, m) -> g
            [] m.ack > e.nxt -> send_ack(d, f, m.seq, m.ack)
            [] OTHER -> f
    BY DEF process_ack_in_establishedState, f, q
  <2>4. CASE Acks(e, m)
    <3>1. process_ack_in_establishedState(d, e, m, due) = g
      BY <2>2, <2>3, <2>4
    <3> QED
      BY <2>4, <3>1 DEF AckThenSend
  <2>5. CASE ~Acks(e, m)
    BY <2>3, <2>5 DEF AckThenSend
  <2> QED
    BY <2>4, <2>5
<1> HIDE DEF f, X
<1>3. /\ TcbType(f) /\ f.st = e.st /\ f.cancel = e.cancel /\ f.rq = e.rq /\ f.arm = e.arm
      /\ f.una = e.una /\ f.nxt = e.nxt /\ f.iss = e.iss /\ f.waitFromApp = e.waitFromApp
      /\ f.avail = e.avail /\ f.fetched = e.fetched /\ f.crash = e.crash
  BY <1>1 DEF Same, Core
<1>4. CASE Acks(e, m)
  <2>1. /\ e.una \in Int /\ e.nxt \in Int /\ m.ack \in Int
        /\ e.una < m.ack /\ m.ack <= e.nxt
    BY <1>4 DEF Acks, TcbType, Message
  <2>2. q \subseteq Message /\ \A k \in e.rq : k.seq + get_seg_len(k) > m.ack => k \in q
    BY <1>3 DEF delete_segment_from_queue, TcbType
  <2>3. q \subseteq e.rq
    BY <1>3 DEF delete_segment_from_queue
  <2> HIDE DEF q
  <2>4. /\ TcbType(g) /\ g.st = e.st /\ g.cancel = e.cancel /\ g.rq = q /\ g.arm = e.arm
        /\ g.una = m.ack /\ g.nxt = e.nxt /\ g.crash = e.crash
    BY <1>3, <2>1, <2>2, Fields DEF TcbType
  <2> HIDE DEF g
  <2>5. g.crash \/ Sound(g, T)
    <3> SUFFICES ASSUME ~g.crash PROVE Sound(g, T)
      OBVIOUS
    <3>1. Sound(e, T)
      BY <2>4
    <3>2. ASSUME g.st \in Live PROVE ~g.cancel /\ Timed(g, T) /\ Covered(g)
      <4>1. ~e.cancel /\ Timed(e, T) /\ Covered(e)
        BY <2>4, <3>1, <3>2 DEF Sound
      <4>2. Timed(g, T)
        BY <2>3, <2>4, <4>1 DEF Timed
      <4>3. ASSUME NEW i \in g.una..(g.nxt - 1)
            PROVE  \E k \in g.rq : k.seq = i /\ get_seg_len(k) = 1
        <5>1. i \in e.una..(e.nxt - 1) /\ i + 1 > m.ack /\ i \in Int
          BY <2>1, <2>4
        <5>2. PICK k \in e.rq : k.seq = i /\ get_seg_len(k) = 1
          BY <4>1, <5>1 DEF Covered
        <5> QED
          BY <2>2, <2>4, <5>1, <5>2
      <4>4. Covered(g)
        BY <2>1, <2>4, <4>3 DEF Covered
      <4> QED
        BY <2>4, <4>1, <4>2, <4>4
    <3>3. g.st \notin Opening
      BY <2>4
    <3> QED
      BY <3>2, <3>3 DEF Sound
  <2> DEFINE Y == send_segment(d, g)
  <2>6. /\ TcbType(Y) /\ (Y.crash \/ Sound(Y, T)) /\ (Y.crash \/ Idle(Y))
        /\ Y.st \in {e.st, "FinWait1"}
    BY <2>4, <2>5, SendSegment DEF Idle
  <2>7. X = Y
    BY <1>2, <1>4
  <2> HIDE DEF Y
  <2> QED
    BY <2>6, <2>7 DEF Good, X
<1>5. CASE ~Acks(e, m)
  <2>1. Same(e, send_ack(d, f, m.seq, m.ack))
    <3>1. m.seq \in Int /\ m.ack \in Int
      BY DEF Message
    <3>2. Same(f, send_ack(d, f, m.seq, m.ack))
      BY <1>3, <3>1, SendSame, SegMessage DEF send_ack
    <3> QED
      BY <1>1, <3>2, SameTrans
  <2>2. Same(e, X)
    BY <1>1, <1>2, <1>5, <2>1
  <2>3. Good(e, T)
    BY <1>5 DEF Good
  <2>4. X.st = e.st
    BY <2>2 DEF Same, Core
  <2> QED
    BY <2>2, <2>3, <2>4, SameGood DEF X
<1> QED
  BY <1>4, <1>5

\* A state other than the three of Live: any change of state among those.
LEMMA LeaveGood ==
    ASSUME NEW e, NEW T, TcbType(e), NEW st, st \notin Live, NEW n, NEW b \in BOOLEAN
    PROVE  /\ Good(tcp_change_state(e, st), T)
           /\ Good([e EXCEPT !.st = st, !.cancel = b], T)
           /\ Good(tcp_change_state(start_timewait_timer(e), st), T)
           /\ Good(start_timewait_timer(tcp_change_state(e, st)), T)
<1>1. Good(tcp_change_state(e, st), T)
  <2> DEFINE X == tcp_change_state(e, st)
  <2>1. TcbType(X) /\ X.st = st
    BY Fields DEF tcp_change_state, TcbType
  <2> HIDE DEF X
  <2> QED
    BY <2>1, ClosedGood DEF X
<1>2. Good([e EXCEPT !.st = st, !.cancel = b], T)
  <2> DEFINE X == [e EXCEPT !.st = st, !.cancel = b]
  <2>1. TcbType(X) /\ X.st = st
    BY Fields DEF TcbType
  <2> HIDE DEF X
  <2> QED
    BY <2>1, ClosedGood DEF X
<1>3. Good(tcp_change_state(start_timewait_timer(e), st), T)
  <2> DEFINE X == tcp_change_state(start_timewait_timer(e), st)
  <2>1. TcbType(X) /\ X.st = st
    BY Fields DEF tcp_change_state, start_timewait_timer, TcbType
  <2> HIDE DEF X
  <2> QED
    BY <2>1, ClosedGood DEF X
<1>4. Good(start_timewait_timer(tcp_change_state(e, st)), T)
  <2> DEFINE X == start_timewait_timer(tcp_change_state(e, st))
  <2>1. TcbType(X) /\ X.st = st
    BY Fields DEF tcp_change_state, start_timewait_timer, TcbType
  <2> HIDE DEF X
  <2> QED
    BY <2>1, ClosedGood DEF X
<1> QED
  BY <1>1, <1>2, <1>3, <1>4

\* The acknowledgement of a SYN-ACK: the connection is established, and what
\* the opening state promised is what an established sender needs.
LEMMA Established ==
    ASSUME NEW e, NEW T, Good(e, T), e.st = "SynRcvd"
    PROVE  LET f == tcp_change_state(e, "Estab")
           IN  /\ TcbType(f) /\ f.st = "Estab" /\ f.crash = e.crash
               /\ (f.crash \/ Sound(f, T)) /\ (f.crash \/ Idle(f))
<1> DEFINE f == tcp_change_state(e, "Estab")
<1>1. /\ TcbType(f) /\ f.st = "Estab" /\ f.cancel = e.cancel /\ f.rq = e.rq /\ f.arm = e.arm
      /\ f.una = e.una /\ f.nxt = e.nxt /\ f.iss = e.iss /\ f.crash = e.crash
  BY Fields DEF Good, tcp_change_state, TcbType
<1> HIDE DEF f
<1>2. ASSUME ~f.crash PROVE Sound(f, T) /\ Idle(f)
  <2>1. ~e.cancel /\ Timed(e, T) /\ Covered(e) /\ e.una = e.iss /\ e.nxt = e.iss + 1
    BY <1>1, <1>2 DEF Good, Sound, Live, Opening
  <2>2. Timed(f, T) /\ Covered(f) /\ ~f.cancel
    BY <1>1, <2>1 DEF Timed, Covered
  <2>3. e.iss \in Int
    BY DEF Good, TcbType
  <2>4. e.iss \in e.una..(e.nxt - 1)
    BY <2>1, <2>3
  <2>5. f.rq # {}
    BY <1>1, <2>1, <2>4 DEF Covered
  <2> QED
    BY <1>1, <2>2, <2>5 DEF Sound, Idle, Live, Opening
<1> QED
  BY <1>1, <1>2 DEF f
\* A finite queue has a gap: from any number r there is a first one that no
\* segment of the queue has, not more than the queue's length away.  This is
\* where check_segment_in_queue stops.
LEMMA FirstGap ==
    ASSUME NEW Q, Q \subseteq Message, IsFiniteSet(Q), NEW r \in Int
    PROVE  /\ r + Cardinality(Q) \in Int
           /\ \E n \in r .. (r + Cardinality(Q)) :
                 /\ \A i \in r .. (n - 1) : \E q \in Q : q.seq = i /\ get_seg_len(q) > 0
                 /\ ~\E q \in Q : q.seq = n /\ get_seg_len(q) > 0
<1> DEFINE c == Cardinality(Q)
           Has(i) == \E q \in Q : q.seq = i /\ get_seg_len(q) > 0
           D == {k \in 0..c : ~Has(r + k)}
<1>1. c \in Nat
  BY FS_CardinalityType
<1>2. D # {}
  <2> SUFFICES ASSUME D = {} PROVE FALSE
    OBVIOUS
  <2> DEFINE f == [k \in 0..c |-> CHOOSE q \in Q : q.seq = r + k]
  <2>1. ASSUME NEW k \in 0..c PROVE f[k] \in Q /\ f[k].seq = r + k
    <3>1. \E q \in Q : q.seq = r + k
      OBVIOUS
    <3> QED
      BY <3>1
  <2>2. f \in [0..c -> Q]
    BY <2>1
  <2> HIDE DEF f
  <2>3. IsFiniteSet(0..c) /\ Cardinality(0..c) = c + 1
    BY <1>1, FS_Interval
  <2>4. c < Cardinality(0..c)
    BY <1>1, <2>3
  <2>5. \E x, y \in 0..c : x # y /\ f[x] = f[y]
    <3> DEFINE S == 0..c
    <3>1. f \in [S -> Q] /\ IsFiniteSet(S) /\ Cardinality(Q) < Cardinality(S)
      BY <2>2, <2>3, <2>4
    <3> HIDE DEF S
    <3>2. \E x, y \in S : x # y /\ f[x] = f[y]
      BY ONLY IsFiniteSet(Q), <3>1, FS_PigeonHole, Zenon
    <3> QED
      BY <3>2 DEF S
  <2> QED
    BY <1>1, <2>1, <2>5
<1>3. PICK k \in D : \A j \in D : k <= j
  <2>1. D \subseteq Nat
    BY <1>1
  <2> HIDE DEF D
  <2> QED
    BY <1>2, <2>1, LeastNumber, Zenon
<1> HIDE DEF Has
<1>4. k \in 0..c /\ ~Has(r + k) /\ r + k \in r .. (r + c)
  BY <1>1, <1>3
<1>5. ASSUME NEW i \in r .. (r + k - 1) PROVE Has(i)
  <2>1. i - r \in 0..c /\ i - r < k /\ r + (i - r) = i
    BY <1>1, <1>4
  <2>2. i - r \notin D
    BY <1>1, <1>3, <1>4, <2>1
  <2> QED
    BY <2>1, <2>2
<1> HIDE DEF D
<1>6. /\ r + k \in r .. (r + c)
      /\ \A i \in r .. ((r + k) - 1) : Has(i)
      /\ ~Has(r + k)
  BY <1>4, <1>5
<1>7. r + c \in Int
  BY <1>1
<1>8. \E n \in r .. (r + c) : (\A i \in r .. (n - 1) : Has(i)) /\ ~Has(n)
  <2> DEFINE z == r + k
  <2> HIDE DEF z
  <2>1. z \in r .. (r + c) /\ (\A i \in r .. (z - 1) : Has(i)) /\ ~Has(z)
    BY <1>6, Zenon DEF z
  <2> QED
    BY <2>1, Zenon
<1> QED
  BY <1>7, <1>8, Zenon DEF Has

\* RCV.NXT moves, and the segment may be kept (check_segment).
LEMMA CheckSame ==
    ASSUME NEW e, TcbType(e), NEW m \in Message
    PROVE  Same(e, check_segment(e, m))
<1> DEFINE f == [e EXCEPT !.rcv = @ + get_seg_len(m)]
           g == [e EXCEPT !.ooo = @ \cup {m}]
<1>1. Same(e, f)
  <2>1. e.rcv \in Int /\ get_seg_len(m) \in Int
    BY SegLen DEF TcbType
  <2>2. e.rcv + get_seg_len(m) \in Int
    BY <2>1
  <2> QED
    BY <2>2, Fields DEF Same, Core, TcbType
<1>2. Same(e, g)
  <2>1. e.ooo \cup {m} \subseteq Message /\ IsFiniteSet(e.ooo \cup {m})
    BY FS_AddElement DEF TcbType
  <2> QED
    BY <2>1, Fields DEF Same, Core, TcbType
<1> HIDE DEF f, g
<1>3. Same(f, check_segment_in_queue(f))
  <2> DEFINE n == CHOOSE n \in f.rcv .. (f.rcv + Cardinality(f.ooo)) :
                    /\ \A i \in f.rcv .. (n - 1) : \E q \in f.ooo : q.seq = i /\ get_seg_len(q) > 0
                    /\ ~\E q \in f.ooo : q.seq = n /\ get_seg_len(q) > 0
  <2>1. /\ TcbType(f) /\ f.rcv \in Int /\ f.ooo \subseteq Message /\ IsFiniteSet(f.ooo)
    BY <1>1 DEF Same, TcbType
  <2>2. f.rcv + Cardinality(f.ooo) \in Int /\ n \in f.rcv .. (f.rcv + Cardinality(f.ooo))
    BY <2>1, FirstGap
  <2>3. check_segment_in_queue(f) = [f EXCEPT !.rcv = n]
    BY DEF check_segment_in_queue
  <2> HIDE DEF n
  <2>4. n \in Int
    BY <2>1, <2>2
  <2> QED
    BY ONLY <2>1, <2>3, <2>4, RcvSame
<1>4. Same(e, check_segment_in_queue(f))
  BY <1>1, <1>3, SameTrans
<1>5. check_segment(e, m) \in {check_segment_in_queue(f), e, g}
  BY Zenon DEF check_segment, f, g
<1> QED
  BY <1>2, <1>4, <1>5, SameRefl

\* The segment's text: reordering, acknowledgement and delivery concern the
\* receiving half of the connection only.
LEMMA TextSame ==
    ASSUME NEW d, NEW e, TcbType(e), NEW m \in Message, NEW due
    PROVE  Same(e, Text(d, e, m, due))
<1> DEFINE inorder == e.rcv = m.seq
           f == check_segment(e, m)
           g == IF inorder THEN NoteAck(f, due) ELSE f
           h == IF (inorder => send_ack_or_not(e, due)) /\ "F" \notin m.fl
                THEN send_ack(d, g, g.nxt, g.rcv) ELSE g
<1>1. Text(d, e, m, due) = IF inorder THEN send_to_application(h, m) ELSE h
  BY DEF Text
<1>2. Same(e, f)
  BY CheckSame
<1> HIDE DEF f
<1>3. Same(f, NoteAck(f, due))
  <2> DEFINE b == send_ack_or_not(f, due)
  <2>1. NoteAck(f, due) = IF Delayed THEN [f EXCEPT !.ackedLast = b] ELSE f
    BY DEF NoteAck
  <2> HIDE DEF b
  <2>2. Same(f, [f EXCEPT !.ackedLast = b])
    BY <1>2, Fields DEF Same, Core, TcbType
  <2> QED
    BY <1>2, <2>1, <2>2 DEF Same
<1>4. Same(e, g)
  BY <1>2, <1>3, SameTrans
<1> HIDE DEF g
<1>5. Same(g, send_ack(d, g, g.nxt, g.rcv))
  <2>1. TcbType(g) /\ g.nxt \in Int /\ g.rcv \in Int
    BY <1>4 DEF Same, TcbType
  <2>2. ASSUME NEW n \in Int, NEW k \in Int PROVE Same(g, send_ack(d, g, n, k))
    BY <2>1, SendSame, SegMessage DEF send_ack
  <2> QED
    BY <2>1, <2>2
<1>6. Same(e, h)
  BY <1>4, <1>5, SameTrans
<1> HIDE DEF h
<1>7. Same(h, send_to_application(h, m))
  <2> DEFINE passed == {q \in h.ooo : q.seq < h.rcv}
             u == Ascending({m} \cup passed)
  <2>1. send_to_application(h, m) = [h EXCEPT !.ooo = @ \ passed, !.up = u]
    BY Zenon DEF send_to_application
  <2>2. TcbType(h)
    BY <1>6 DEF Same
  <2>3. h.ooo \ passed \subseteq Message /\ IsFiniteSet(h.ooo \ passed)
    <3> HIDE DEF passed
    <3>1. h.ooo \subseteq Message /\ IsFiniteSet(h.ooo)
      BY <2>2 DEF TcbType
    <3>2. h.ooo \ passed \in SUBSET h.ooo
      OBVIOUS
    <3> QED
      BY <3>1, <3>2, FS_Subset
  <2> HIDE DEF passed, u
  <2> QED
    <3> DEFINE Q == h.ooo \ passed
               k == [h EXCEPT !.ooo = Q, !.up = u]
    <3>1. send_to_application(h, m) = k
      BY <2>1
    <3> HIDE DEF Q
    <3>2. Same(h, k)
      BY <2>2, <2>3, OooSame DEF Q
    <3> HIDE DEF k
    <3> QED
      BY <3>1, <3>2
<1>8. Same(e, send_to_application(h, m))
  BY <1>6, <1>7, SameTrans
<1> QED
  BY <1>1, <1>6, <1>8
\* An acknowledgement in any state of a connection (process_ack_packet).
LEMMA AckGood ==
    ASSUME NEW d, NEW e, NEW T, Good(e, T), e.st # "SynSent", NEW m \in Message, NEW due
    PROVE  Good(process_ack_packet(d, e, m, due), T)
<1> DEFINE X == process_ack_packet(d, e, m, due)
           f == tcp_change_state(e, "Estab")
           g == AckThenSend(d, e, m, due)
           w == [start_timewait_timer(send_fin_ack(d, e, m.seq, m.ack)) EXCEPT !.twAgain = TRUE]
<1>1. TcbType(e) /\ (e.crash \/ Sound(e, T)) /\ (e.crash \/ Idle(e))
  BY DEF Good
<1>2. CASE e.st = "SynRcvd"
  <2>1. /\ TcbType(f) /\ f.st = "Estab" /\ f.crash = e.crash
        /\ (f.crash \/ Sound(f, T)) /\ (f.crash \/ Idle(f))
    BY <1>2, Established
  <2>2. X = IF e.una <= m.ack /\ m.ack <= e.nxt THEN AckThenSend(d, f, m, due)
            ELSE send_rst(d, e, m, 1)
    BY <1>2 DEF process_ack_packet
  <2> HIDE DEF f, X
  <2>3. f.st \notin Opening
    BY <2>1 DEF Opening
  <2>4. Good(AckThenSend(d, f, m, due), T)
    BY <2>1, <2>3, AckThenSendGood
  <2>5. Good(send_rst(d, e, m, 1), T)
    <3>1. 0 \in Int
      OBVIOUS
    <3>2. Same(e, send_rst(d, e, m, 1))
      BY <1>1, <3>1, ControlSame, Zenon
    <3> QED
      BY <3>2, SameGood
  <2> QED
    BY <2>2, <2>4, <2>5 DEF X
<1>3. CASE e.st # "SynRcvd"
  <2>1. e.st \notin Opening
    BY <1>3 DEF Opening
  <2>2. Good(g, T)
    BY <1>1, <2>1, AckThenSendGood
  <2>3. TcbType(g)
    BY <2>2 DEF Good
  <2>4. CASE e.st \in {"Estab", "FinWait2", "CloseWait"}
    BY <2>2, <2>4 DEF process_ack_packet
  <2>5. CASE e.st = "FinWait1"
    <3>1. X = IF "F" \in m.fl THEN tcp_change_state(g, "FinWait2") ELSE g
      BY <2>5 DEF process_ack_packet
    <3> HIDE DEF g, X
    <3>2. Good(tcp_change_state(g, "FinWait2"), T)
      BY <2>3, LeaveGood DEF Live, Opening
    <3> QED
      BY <2>2, <3>1, <3>2 DEF X
  <2>6. CASE e.st = "Closing"
    <3>1. X = IF "F" \in m.fl THEN tcp_change_state(start_timewait_timer(g), "TimeWait") ELSE g
      BY <2>6 DEF process_ack_packet
    <3> HIDE DEF g, X
    <3>2. Good(tcp_change_state(start_timewait_timer(g), "TimeWait"), T)
      BY <2>3, LeaveGood DEF Live, Opening
    <3> QED
      BY <2>2, <3>1, <3>2 DEF X
  <2>7. CASE e.st = "LastAck"
    <3>1. X = delete_tcb(e)
      BY <2>7 DEF process_ack_packet
    <3> QED
      BY <1>1, <3>1, ClosedSocket
  <2>8. CASE e.st \notin {"Estab", "FinWait2", "CloseWait", "FinWait1", "Closing", "LastAck"}
    <3> DEFINE z == send_fin_ack(d, e, m.seq, m.ack)
    <3>1. X = w
      BY <1>3, <2>8 DEF process_ack_packet
    <3>2. Same(e, z)
      <4>1. m.seq \in Int /\ m.ack \in Int
        BY DEF Message
      <4> QED
        BY <1>1, <4>1, ControlSame
    <3> HIDE DEF z
    <3>3. TcbType(z) /\ z.st = e.st
      BY <3>2 DEF Same, Core
    <3>4. TcbType(w) /\ w.st = e.st
      <4>1. w = [start_timewait_timer(z) EXCEPT !.twAgain = TRUE]
        BY DEF z
      <4> HIDE DEF w
      <4> QED
        BY <3>3, <4>1, Fields DEF start_timewait_timer, TcbType
    <3>5. e.st \notin Live
      BY <1>3, <2>8 DEF Live, Opening
    <3> HIDE DEF w
    <3>6. Good(w, T)
      BY <3>4, <3>5, ClosedGood
    <3> QED
      BY <3>1, <3>6
  <2> QED
    BY <2>4, <2>5, <2>6, <2>7, <2>8
<1> QED
  BY <1>2, <1>3

\* A FIN takes the connection out of the three states (process_fin_packet).
LEMMA FinGood ==
    ASSUME NEW d, NEW e, NEW T, Good(e, T), e.st # "SynSent", NEW m \in Message
    PROVE  Good(process_fin_packet(d, e, m), T)
<1> DEFINE X == process_fin_packet(d, e, m)
           a == send_fin_ack(d, e, e.nxt, e.rcv)
           b == send_fin(d, a)
           c == tcp_change_state(e, "Closing")
           z == start_timewait_timer(tcp_change_state(e, "TimeWait"))
           w == [start_timewait_timer(e) EXCEPT !.twAgain = TRUE]
<1>1. TcbType(e) /\ e.nxt \in Int /\ e.rcv \in Int
  BY DEF Good, TcbType
<1>2. m.seq + 1 \in Int /\ e.nxt + 1 \in Int
  <2>1. m.seq \in Int
    BY DEF Message
  <2> QED
    BY <1>1, <2>1
<1>3. \/ e.st \in {"SynRcvd", "Estab"} /\ X = [b EXCEPT !.st = "LastAck", !.cancel = TRUE]
      \/ X = send_fin_ack(d, c, e.nxt, e.rcv)
      \/ X = send_ack(d, z, e.nxt + 1, m.seq + 1)
      \/ e.st = "TimeWait" /\ X = w
      \/ X = e
  BY Zenon DEF process_fin_packet
<1> HIDE DEF X
<1>4. CASE X = [b EXCEPT !.st = "LastAck", !.cancel = TRUE]
  <2>1. Same(e, a)
    BY <1>1, SendSame, SegMessage DEF send_fin_ack
  <2> HIDE DEF a
  <2>2. Same(a, b)
    <3>1. TcbType(a) /\ 0 \in Int
      BY <2>1 DEF Same
    <3>2. Seg("c", {}, 0, 0, 0) \in Message
      BY SegMessage
    <3> QED
      BY <3>1, <3>2, ControlSame, Zenon
  <2> HIDE DEF b
  <2>3. TcbType(b)
    BY <2>2 DEF Same
  <2>4. Good([b EXCEPT !.st = "LastAck", !.cancel = TRUE], T)
    BY <2>3, LeaveGood DEF Live, Opening
  <2> QED
    BY <1>4, <2>4 DEF X
<1>5. CASE X = send_fin_ack(d, c, e.nxt, e.rcv)
  <2>1. Good(c, T)
    BY <1>1, LeaveGood DEF Live, Opening
  <2> HIDE DEF c
  <2>2. Same(c, send_fin_ack(d, c, e.nxt, e.rcv))
    BY <1>1, <2>1, SendSame, SegMessage DEF send_fin_ack, Good
  <2> QED
    BY <1>5, <2>1, <2>2, SameGood DEF X
<1>6. CASE X = send_ack(d, z, e.nxt + 1, m.seq + 1)
  <2>1. Good(z, T)
    BY <1>1, LeaveGood DEF Live, Opening
  <2> HIDE DEF z
  <2>2. Same(z, send_ack(d, z, e.nxt + 1, m.seq + 1))
    BY <1>2, <2>1, SendSame, SegMessage DEF send_ack, Good
  <2> QED
    BY <1>6, <2>1, <2>2, SameGood DEF X
<1>7. CASE e.st = "TimeWait" /\ X = w
  <2>1. TcbType(w) /\ w.st = "TimeWait"
    BY <1>1, <1>7, Fields DEF start_timewait_timer, TcbType
  <2> HIDE DEF w
  <2> QED
    BY <1>7, <2>1, ClosedGood DEF X, Live, Opening
<1>8. CASE X = e
  BY <1>8 DEF X
<1> QED
  BY <1>3, <1>4, <1>5, <1>6, <1>7, <1>8

\* A packet in a state with a connection (packet_arrives_at_incoming_tcp).
LEMMA IncomingGood ==
    ASSUME NEW d, NEW e, NEW T, Good(e, T), e.st # "SynSent", NEW m \in Message, NEW due
    PROVE  Good(packet_arrives_at_incoming_tcp(d, e, m, due), T)
<1> DEFINE X == packet_arrives_at_incoming_tcp(d, e, m, due)
           f == IF e.st \in {"Estab", "FinWait1", "FinWait2"} THEN Text(d, e, m, due) ELSE e
<1>1. TcbType(e) /\ e.nxt \in Int /\ e.rcv \in Int
  BY DEF Good, TcbType
<1>2. Good(send_ack(d, e, e.nxt, e.rcv), T)
  <2>1. Same(e, send_ack(d, e, e.nxt, e.rcv))
    BY <1>1, SendSame, SegMessage DEF send_ack
  <2> QED
    BY <2>1, SameGood
<1>3. Good(process_rst_packet(e), T) /\ Good(process_syn_packet(e), T)
  <2>1. Good(tcp_change_state(e, "Listen"), T)
    BY <1>1, LeaveGood DEF Live, Opening
  <2>2. Good(tcp_close_socket(e), T)
    BY <1>1, ClosedSocket
  <2> QED
    BY <2>1, <2>2 DEF process_rst_packet, process_syn_packet
<1>4. Good(process_ack_packet(d, e, m, due), T)
  BY AckGood
<1>5. Good(process_segment_text(d, e, m, due), T)
  <2>1. process_segment_text(d, e, m, due) = IF "F" \in m.fl THEN process_fin_packet(d, f, m) ELSE f
    BY DEF process_segment_text
  <2>2. Same(e, f)
    BY <1>1, TextSame, SameRefl
  <2> HIDE DEF f
  <2>3. Good(f, T) /\ f.st # "SynSent"
    BY <2>2, SameGood DEF Same, Core
  <2> QED
    BY <2>1, <2>3, FinGood
<1>6. X \in {e, send_ack(d, e, e.nxt, e.rcv), process_rst_packet(e), process_syn_packet(e),
             process_ack_packet(d, e, m, due), process_segment_text(d, e, m, due)}
  BY Zenon DEF packet_arrives_at_incoming_tcp
<1> QED
  BY <1>2, <1>3, <1>4, <1>5, <1>6

\* A packet from the network (packet_arrive_from_network_layer).
LEMMA NetworkGood ==
    ASSUME NEW d, NEW e, NEW T, Good(e, T), NEW m \in Message, NEW due
    PROVE  Good(packet_arrive_from_network_layer(d, e, m, due), T)
<1> DEFINE X == packet_arrive_from_network_layer(d, e, m, due)
<1>1. TcbType(e)
  BY DEF Good
<1>2. \/ X \in {e, tcp_accept(d, e, m), packet_arrives_at_listen_state(d, e, m)}
      \/ e.st = "SynSent" /\ X = packet_arrives_at_synsent_state(d, e, m)
      \/ e.st # "SynSent" /\ X = packet_arrives_at_incoming_tcp(d, e, m, due)
  BY Zenon DEF packet_arrive_from_network_layer
<1> HIDE DEF X
<1>3. Good(tcp_accept(d, e, m), T) /\ Good(packet_arrives_at_listen_state(d, e, m), T)
  BY <1>1, Accept, ListenGood
<1>4. e.st = "SynSent" => Good(packet_arrives_at_synsent_state(d, e, m), T)
  BY SynSentGood
<1>5. e.st # "SynSent" => Good(packet_arrives_at_incoming_tcp(d, e, m, due), T)
  BY IncomingGood
<1> QED
  BY <1>2, <1>3, <1>4, <1>5 DEF X
-----------------------------------------------------------------------------
(* The application's packet and the TIME-WAIT timer *)

\* A packet is sent when TCP waits for one, and otherwise something is in
\* flight whose acknowledgement will send it.
LEMMA ApplicationGood ==
    ASSUME NEW e, NEW T, Good(e, T), ~e.crash
    PROVE  Good(packet_arrive_from_application_layer([e EXCEPT !.avail = @ + 1]), T)
<1> DEFINE a == [e EXCEPT !.avail = @ + 1]
           s == send_segment("c", a)
           X == packet_arrive_from_application_layer(a)
<1>1. TcbType(e) /\ Sound(e, T) /\ Idle(e)
  BY DEF Good
<1>2. e.avail \in Nat /\ e.fetched \in Nat /\ e.fetched <= e.avail /\ e.waitFromApp \in BOOLEAN
  BY <1>1 DEF TcbType
<1>3. e.avail + 1 \in Nat /\ e.fetched <= e.avail + 1
  BY <1>2
<1>4. /\ TcbType(a) /\ a.st = e.st /\ a.cancel = e.cancel /\ a.rq = e.rq /\ a.arm = e.arm
      /\ a.una = e.una /\ a.nxt = e.nxt /\ a.iss = e.iss /\ a.waitFromApp = e.waitFromApp
      /\ a.avail = e.avail + 1 /\ a.fetched = e.fetched /\ a.crash = e.crash
  BY <1>1, <1>3, Fields DEF TcbType
<1>5. \/ X = tcp_active_open("c", a)
      \/ X = [a EXCEPT !.crash = TRUE]
      \/ a.waitFromApp /\ X = [s EXCEPT !.waitFromApp = FALSE]
      \/ ~a.waitFromApp /\ X = a
  BY Zenon DEF packet_arrive_from_application_layer
<1> HIDE DEF a, X
<1>6. Sound(a, T)
  <2>1. (Timed(e, T) => Timed(a, T)) /\ (Covered(e) => Covered(a))
    BY <1>4 DEF Timed, Covered
  <2> QED
    BY <1>1, <1>4, <2>1 DEF Sound
<1>7. ASSUME X = tcp_active_open("c", a) PROVE Good(X, T)
  BY <1>4, <1>7, ActiveOpen
<1>8. ASSUME X = [a EXCEPT !.crash = TRUE] PROVE Good(X, T)
  BY <1>4, <1>8, CrashGood
<1>9. ASSUME a.waitFromApp /\ X = [s EXCEPT !.waitFromApp = FALSE] PROVE Good(X, T)
  <2>1. a.st \notin Opening
    BY <1>6, <1>9 DEF Sound
  <2>2. /\ TcbType(s) /\ (s.crash \/ Sound(s, T))
        /\ s.st \in {a.st, "FinWait1"} /\ a.rq \subseteq s.rq
        /\ s.st = "Estab" /\ ~s.crash /\ s.rq = {} => a.avail = a.fetched
    BY <1>4, <1>6, <2>1, SendSegment
  <2> HIDE DEF s
  <2>3. /\ TcbType(X) /\ X.st = s.st /\ X.cancel = s.cancel /\ X.rq = s.rq /\ X.arm = s.arm
        /\ X.una = s.una /\ X.nxt = s.nxt /\ X.iss = s.iss /\ X.crash = s.crash
    BY <1>9, <2>2, Fields DEF TcbType
  <2>4. ASSUME ~X.crash PROVE Sound(X, T) /\ Idle(X)
    <3>1. Sound(s, T)
      BY <2>2, <2>3, <2>4
    <3>2. (Timed(s, T) => Timed(X, T)) /\ (Covered(s) => Covered(X))
      BY <2>3 DEF Timed, Covered
    <3>3. X.st \notin Opening
      BY <2>1, <2>2, <2>3 DEF Opening
    <3>4. Sound(X, T)
      BY <2>3, <3>1, <3>2, <3>3 DEF Sound
    <3>5. ASSUME X.st = "Estab", X.rq = {} PROVE FALSE
      <4>1. a.avail = a.fetched /\ e.st = "Estab" /\ e.rq = {}
        BY <1>4, <2>2, <2>3, <2>4, <3>5
      <4>2. e.avail = e.fetched
        BY <1>1, <4>1 DEF Idle
      <4> QED
        BY <1>2, <1>4, <4>1, <4>2
    <3> QED
      BY <3>4, <3>5 DEF Idle
  <2> QED
    BY <2>3, <2>4 DEF Good
<1>10. ASSUME ~a.waitFromApp /\ X = a PROVE Good(X, T)
  <2>1. Idle(a)
    BY <1>1, <1>4, <1>10 DEF Idle
  <2> QED
    BY <1>4, <1>6, <1>10, <2>1 DEF Good
<1>11. Good(X, T)
  BY <1>5, <1>7, <1>8, <1>9, <1>10
<1> QED
  BY <1>11 DEF X, a

\* A packet joins others in the socket interface: while one is there something
\* is in flight.
LEMMA JoinGood ==
    ASSUME NEW e, NEW T, Good(e, T), ~e.crash, e.avail # e.fetched
    PROVE  Good([e EXCEPT !.avail = @ + 1], T)
<1> DEFINE a == [e EXCEPT !.avail = @ + 1]
<1>1. TcbType(e) /\ Sound(e, T) /\ Idle(e)
  BY DEF Good
<1>2. e.avail \in Nat /\ e.fetched \in Nat /\ e.fetched <= e.avail
  BY <1>1 DEF TcbType
<1>3. e.avail + 1 \in Nat /\ e.fetched <= e.avail + 1
  BY <1>2
<1>4. /\ TcbType(a) /\ a.st = e.st /\ a.cancel = e.cancel /\ a.rq = e.rq /\ a.arm = e.arm
      /\ a.una = e.una /\ a.nxt = e.nxt /\ a.iss = e.iss /\ a.waitFromApp = e.waitFromApp
  BY <1>1, <1>3, Fields DEF TcbType
<1> HIDE DEF a
<1>5. (Timed(e, T) => Timed(a, T)) /\ (Covered(e) => Covered(a))
  BY <1>4 DEF Timed, Covered
<1>6. Sound(a, T)
  BY <1>1, <1>4, <1>5 DEF Sound
<1>7. Idle(a)
  BY <1>1, <1>4 DEF Idle
<1>8. Good(a, T)
  BY <1>4, <1>6, <1>7 DEF Good
<1> QED
  BY <1>8 DEF a

\* The end of TIME-WAIT.
LEMMA TimeWaitGood ==
    ASSUME NEW e, NEW T, Good(e, T)
    PROVE  Good(handle_time_wait_timeout([e EXCEPT !.tw = @ - 1]), T)
<1> DEFINE a == [e EXCEPT !.tw = @ - 1]
           b == [a EXCEPT !.twAgain = FALSE]
<1>1. Same(e, a)
  BY Fields DEF Good, Same, Core, TcbType
<1>2. handle_time_wait_timeout(a) \in {[a EXCEPT !.crash = TRUE], b, delete_tcb(a)}
  BY Zenon DEF handle_time_wait_timeout
<1> HIDE DEF a
<1>3. TcbType(a)
  BY <1>1 DEF Same
<1>4. Same(a, b)
  BY <1>3, Fields DEF Same, Core, TcbType
<1>5. Good(b, T)
  BY <1>1, <1>4, SameTrans, SameGood
<1>6. Good([a EXCEPT !.crash = TRUE], T) /\ Good(delete_tcb(a), T)
  BY <1>3, CrashGood, ClosedSocket
<1> HIDE DEF b
<1>7. Good(handle_time_wait_timeout(a), T)
  BY <1>2, <1>5, <1>6
<1> QED
  BY <1>7 DEF a

-----------------------------------------------------------------------------
(* The inductive invariant *)

\* The numbers of device d's pending timers among those of the list q.
Pending(d, q) == {t[2] : t \in {u \in Range(q) : u[1] = d}}

TcpInv ==
    /\ net \in Seq(Message)
    /\ timers \in Seq(Device \X Int)
    /\ DOMAIN ep = Device
    /\ \A d \in Device :
          /\ TcbType(ep[d]) /\ ep[d].arm = <<>> /\ ep[d].out = <<>> /\ ep[d].crash = FALSE
          /\ ~crashed => Sound(ep[d], Pending(d, timers)) /\ Idle(ep[d])

\* What is proved of a device's record carries over to the next state, whose
\* timers are those left pending and those the handler started.
LEMMA BecomesInv ==
    ASSUME TcpInv, ~crashed, NEW d \in Device, NEW f, NEW rest \in Seq(Message),
           NEW pending \in Seq(Device \X Int), Good(f, Pending(d, pending)),
           \A q \in Device \ {d} : Pending(q, timers) \subseteq Pending(q, pending),
           Becomes(d, f, rest, pending)
    PROVE  TcpInv'
<1> DEFINE g == [f EXCEPT !.out = <<>>, !.arm = <<>>, !.up = <<>>, !.crash = FALSE]
           armed == [i \in DOMAIN f.arm |-> <<d, f.arm[i]>>]
<1>1. /\ ep' = [ep EXCEPT ![d] = g] /\ net' = rest \o f.out
      /\ timers' = pending \o armed /\ crashed' = f.crash
  BY DEF Becomes
<1>2. TcbType(f) /\ f.arm \in Seq(Int) /\ f.out \in Seq(Message)
  BY DEF Good, TcbType
<1>3. net' \in Seq(Message)
  BY <1>1, <1>2, ConcatRange
<1>4. /\ armed \in Seq(Device \X Int)
      /\ \A i \in DOMAIN f.arm : armed[i] = <<d, f.arm[i]>>
      /\ DOMAIN armed = DOMAIN f.arm
  <2>1. DOMAIN f.arm = 1..Len(f.arm) /\ Len(f.arm) \in Nat /\ \A i \in 1..Len(f.arm) : f.arm[i] \in Int
    BY <1>2
  <2>2. armed \in [1..Len(f.arm) -> Device \X Int]
    BY <2>1
  <2> QED
    BY <2>1, <2>2
<1> HIDE DEF armed
<1>5. timers' \in Seq(Device \X Int) /\ Range(timers') = Range(pending) \cup Range(armed)
  BY <1>1, <1>4, ConcatRange
<1>6. \A q \in Device : Pending(q, pending) \subseteq Pending(q, timers')
  BY <1>5 DEF Pending
<1>7. Range(f.arm) \subseteq Pending(d, timers')
  <2> SUFFICES ASSUME NEW i \in DOMAIN f.arm PROVE f.arm[i] \in Pending(d, timers')
    BY DEF Range
  <2>1. <<d, f.arm[i]>> \in Range(timers')
    BY <1>4, <1>5 DEF Range
  <2>2. <<d, f.arm[i]>> \in {u \in Range(timers') : u[1] = d}
    BY <2>1
  <2> QED
    BY <2>2 DEF Pending
<1>8. /\ TcbType(g) /\ g.st = f.st /\ g.cancel = f.cancel /\ g.rq = f.rq
      /\ g.una = f.una /\ g.nxt = f.nxt /\ g.iss = f.iss /\ g.waitFromApp = f.waitFromApp
      /\ g.avail = f.avail /\ g.fetched = f.fetched
      /\ g.crash = FALSE /\ g.arm = <<>> /\ g.out = <<>>
  BY <1>2, Fields DEF TcbType
<1> HIDE DEF g
<1>9. ASSUME ~f.crash PROVE Sound(g, Pending(d, timers')) /\ Idle(g)
  <2>1. Sound(f, Pending(d, pending)) /\ Idle(f)
    BY <1>9 DEF Good
  <2>2. Timed(f, Pending(d, pending)) => Timed(g, Pending(d, timers'))
    <3> SUFFICES ASSUME Timed(f, Pending(d, pending)), NEW m \in g.rq
                 PROVE  m.seq \in Pending(d, timers')
      BY DEF Timed
    <3>1. m.seq \in Pending(d, pending) \cup Range(f.arm)
      BY <1>8 DEF Timed
    <3> QED
      BY <1>6, <1>7, <3>1
  <2>3. Covered(f) => Covered(g)
    BY <1>8 DEF Covered
  <2>4. Sound(g, Pending(d, timers'))
    BY <1>8, <2>1, <2>2, <2>3 DEF Sound
  <2>5. Idle(g)
    BY <1>8, <2>1 DEF Idle
  <2> QED
    BY <2>4, <2>5
<1>10. DOMAIN ep' = Device /\ ep'[d] = g /\ \A q \in Device \ {d} : ep'[q] = ep[q]
  BY <1>1 DEF TcpInv
<1>11. ASSUME NEW q \in Device
       PROVE  /\ TcbType(ep'[q]) /\ ep'[q].arm = <<>> /\ ep'[q].out = <<>> /\ ep'[q].crash = FALSE
              /\ ~f.crash => Sound(ep'[q], Pending(q, timers')) /\ Idle(ep'[q])
  <2>1. CASE q = d
    BY <1>8, <1>9, <1>10, <2>1
  <2>2. CASE q # d
    <3>1. /\ TcbType(ep[q]) /\ ep[q].arm = <<>> /\ ep[q].out = <<>> /\ ep[q].crash = FALSE
          /\ Sound(ep[q], Pending(q, timers)) /\ Idle(ep[q]) /\ ep'[q] = ep[q]
      BY <1>10, <2>2 DEF TcpInv
    <3>2. Pending(q, timers) \subseteq Pending(q, timers')
      BY <1>6, <2>2
    <3>3. Timed(ep[q], Pending(q, timers)) => Timed(ep[q], Pending(q, timers'))
      BY <3>2 DEF Timed
    <3>4. Sound(ep[q], Pending(q, timers'))
      BY <3>1, <3>3 DEF Sound
    <3> QED
      BY <3>1, <3>4
  <2> QED
    BY <2>1, <2>2
<1>12. /\ \A q \in Device :
            /\ TcbType(ep'[q]) /\ ep'[q].arm = <<>> /\ ep'[q].out = <<>> /\ ep'[q].crash = FALSE
            /\ ~crashed' => Sound(ep'[q], Pending(q, timers')) /\ Idle(ep'[q])
  BY <1>1, <1>11
<1> QED
  BY <1>3, <1>5, <1>10, <1>12 DEF TcpInv
\* A good record, from the invariant.
LEMMA InvGood ==
    ASSUME TcpInv, ~crashed, NEW d \in Device
    PROVE  Good(ep[d], Pending(d, timers)) /\ ~ep[d].crash
  BY DEF TcpInv, Good

\* At the start there are no connections.
LEMMA InitInv == Init => TcpInv
<1> SUFFICES ASSUME Init PROVE TcpInv
  OBVIOUS
<1>1. /\ ep = [d \in {"c", "s"} |-> NoSocket] /\ timers = <<>> /\ net = <<>>
  BY DEF Init
<1>2. IsFiniteSet({})
  BY FS_EmptySet
<1>3. TcbType(NoSocket) /\ NoSocket.arm = <<>> /\ NoSocket.out = <<>> /\ NoSocket.crash = FALSE
      /\ NoSocket.st = "None"
  BY <1>2 DEF NoSocket, TcbType
<1>4. \A T : Sound(NoSocket, T) /\ Idle(NoSocket)
  BY <1>3 DEF Sound, Idle, Live, Opening
<1> QED
  BY <1>1, <1>3, <1>4 DEF TcpInv, Device

\* The application generates a packet.
LEMMA ApplicationInv ==
    ASSUME TcpInv, HandleTransportOut
    PROVE  TcpInv'
<1> DEFINE j == [ep["c"] EXCEPT !.avail = @ + 1]
           f == packet_arrive_from_application_layer(j)
<1>1. ~crashed /\ "c" \in Device
  BY DEF HandleTransportOut, Device
<1>2. Good(ep["c"], Pending("c", timers)) /\ ~ep["c"].crash
  BY <1>1, InvGood
<1>3. CASE Becomes("c", f, net, timers)
  <2>1. Good(f, Pending("c", timers))
    BY <1>2, ApplicationGood
  <2> HIDE DEF f
  <2> QED
    BY <1>1, <1>3, <2>1, BecomesInv DEF TcpInv
<1>4. CASE ep["c"].avail # ep["c"].fetched /\ Becomes("c", j, net, timers)
  <2>1. Good(j, Pending("c", timers))
    BY <1>2, <1>4, JoinGood
  <2> HIDE DEF j
  <2> QED
    BY <1>1, <1>4, <2>1, BecomesInv DEF TcpInv
<1> QED
  BY <1>3, <1>4, Zenon DEF HandleTransportOut

\* A packet arrives.
LEMMA ReceiveInv ==
    ASSUME TcpInv, NEW i \in DOMAIN net, HandleTransportIn(i)
    PROVE  TcpInv'
<1> DEFINE m == net[i]
           d == m.to
<1>1. m \in Message /\ d \in Device /\ RemoveAt(net, i) \in Seq(Message) /\ timers \in Seq(Device \X Int)
  <2>1. net \in Seq(Message) /\ timers \in Seq(Device \X Int)
    BY DEF TcpInv
  <2>2. i \in 1..Len(net)
    BY <2>1
  <2>3. net[i] \in Message
    BY <2>1, <2>2
  <2> QED
    BY <2>1, <2>2, <2>3, RemoveAtRange DEF Message
<1>2. PICK due \in BOOLEAN :
        Becomes(d, packet_arrive_from_network_layer(d, ep[d], m, due), RemoveAt(net, i), timers)
  BY DEF HandleTransportIn
<1>3. ~crashed
  BY DEF HandleTransportIn
<1> DEFINE f == packet_arrive_from_network_layer(d, ep[d], m, due)
<1> HIDE DEF m, d
<1>4. Good(f, Pending(d, timers))
  BY <1>1, <1>3, InvGood, NetworkGood
<1> HIDE DEF f
<1>5. Becomes(d, f, RemoveAt(net, i), timers)
  BY <1>2 DEF f
<1> QED
  BY <1>1, <1>3, <1>4, <1>5, BecomesInv

\* A packet is lost.
LEMMA LoseInv ==
    ASSUME TcpInv, NEW i \in DOMAIN net, Lose(i)
    PROVE  TcpInv'
<1>1. net \in Seq(Message)
  BY DEF TcpInv
<1>2. i \in 1..Len(net)
  BY <1>1
<1>3. net' \in Seq(Message) /\ UNCHANGED <<ep, timers, crashed>>
  BY <1>1, <1>2, RemoveAtRange DEF Lose
<1> QED
  BY <1>3 DEF TcpInv

\* A retransmission timer runs out.
LEMMA TimerInv ==
    ASSUME TcpInv, NEW i \in DOMAIN timers, RtoTimeout(i)
    PROVE  TcpInv'
<1> DEFINE d == timers[i][1]
           n == timers[i][2]
           q == RemoveAt(timers, i)
           f == handle_rto_timer(ep[d], n)
<1>1. timers \in Seq(Device \X Int) /\ net \in Seq(Message)
  BY DEF TcpInv
<1>2. i \in 1..Len(timers)
  BY <1>1
<1>3. timers[i] \in Device \X Int
  BY <1>1, <1>2
<1>4. d \in Device /\ timers[i] = <<d, n>>
  BY <1>3
<1>5. q \in Seq(Device \X Int) /\ Range(timers) \subseteq Range(q) \cup {timers[i]}
  BY <1>1, <1>2, RemoveAtRange
<1>6. ~crashed /\ Becomes(d, f, net, q)
  BY DEF RtoTimeout
<1>7. Good(ep[d], Pending(d, timers)) /\ ~ep[d].crash
  BY <1>4, <1>6, InvGood
<1> HIDE DEF d, n, q
<1>8. Pending(d, timers) \subseteq Pending(d, q) \cup {n}
  BY <1>4, <1>5 DEF Pending
<1>9. \A p \in Device \ {d} : Pending(p, timers) \subseteq Pending(p, q)
  BY <1>4, <1>5 DEF Pending
<1>10. Good(ep[d], Pending(d, q) \cup {n})
  <2>1. Timed(ep[d], Pending(d, timers)) => Timed(ep[d], Pending(d, q) \cup {n})
    BY <1>8 DEF Timed
  <2> QED
    BY <1>7, <2>1 DEF Good, Sound
<1>11. Good(f, Pending(d, q))
  BY <1>7, <1>10, RtoGood
<1> HIDE DEF f
<1> QED
  BY <1>1, <1>4, <1>5, <1>6, <1>9, <1>11, BecomesInv

\* TIME-WAIT ends.
LEMMA TimeWaitInv ==
    ASSUME TcpInv, NEW d \in {"c", "s"}, TimeWaitTimeout(d)
    PROVE  TcpInv'
<1> DEFINE f == handle_time_wait_timeout([ep[d] EXCEPT !.tw = @ - 1])
<1>1. d \in Device /\ ~crashed /\ Becomes(d, f, net, timers)
  BY DEF TimeWaitTimeout, Device
<1>2. Good(f, Pending(d, timers))
  BY <1>1, InvGood, TimeWaitGood
<1> HIDE DEF f
<1> QED
  BY <1>1, <1>2, BecomesInv DEF TcpInv

\* Both ends keep the queue covered and timed, and no established sender is
\* idle with something to send, whatever is lost, overtaken or sent again.
THEOREM TcpInvariant == Spec => []TcpInv
<1>1. Init => TcpInv
  BY InitInv
<1>2. TcpInv /\ [Next]_vars => TcpInv'
  <2> SUFFICES ASSUME TcpInv, [Next]_vars PROVE TcpInv'
    OBVIOUS
  <2>1. CASE HandleTransportOut
    BY <2>1, ApplicationInv
  <2>2. CASE Receive
    BY <2>2, ReceiveInv DEF Receive
  <2>3. CASE \E i \in DOMAIN net : Lose(i)
    BY <2>3, LoseInv
  <2>4. CASE Timer
    BY <2>4, TimerInv DEF Timer
  <2>5. CASE TimeWait
    BY <2>5, TimeWaitInv DEF TimeWait
  <2>6. CASE UNCHANGED vars
    BY <2>6 DEF vars, TcpInv
  <2> QED
    BY <2>1, <2>2, <2>3, <2>4, <2>5, <2>6 DEF Next
<1> QED
  BY <1>1, <1>2, PTL DEF Spec

\* An established sender always has the timer of every unacknowledged segment
\* pending, and leaves no packet waiting when nothing is in flight.
THEOREM SenderGoesOn == Spec => []SenderAlive
<1>1. TcpInv => SenderAlive
  <2> SUFFICES ASSUME TcpInv, ep["c"].st = "Estab", ~crashed
               PROVE  /\ \A m \in ep["c"].rq : <<"c", m.seq>> \in ToSet(timers)
                      /\ ep["c"].rq = {} => ep["c"].waitFromApp /\ ep["c"].avail = ep["c"].fetched
    BY DEF SenderAlive
  <2> DEFINE e == ep["c"]
  <2>1. "c" \in Device
    BY DEF Device
  <2>2. Sound(e, Pending("c", timers)) /\ Idle(e) /\ e.arm = <<>>
    BY <2>1 DEF TcpInv
  <2>3. ASSUME NEW m \in e.rq PROVE <<"c", m.seq>> \in ToSet(timers)
    <3>1. Timed(e, Pending("c", timers))
      BY <2>2 DEF Sound, Live
    <3>2. m.seq \in Pending("c", timers)
      BY <2>2, <3>1 DEF Timed, Range
    <3>3. PICK u \in Range(timers) : u[1] = "c" /\ m.seq = u[2]
      BY <3>2 DEF Pending
    <3>4. u \in Device \X Int
      <4>1. timers \in Seq(Device \X Int)
        BY DEF TcpInv
      <4> QED
        BY <3>3, <4>1 DEF Range
    <3>5. u = <<"c", m.seq>>
      BY <3>3, <3>4
    <3> QED
      BY <3>3, <3>5 DEF Range, ToSet
  <2> QED
    BY <2>2, <2>3 DEF Idle
<1> QED
  BY <1>1, TcpInvariant, PTL

-----------------------------------------------------------------------------
(* What the handlers change of the receiving half, and what they send *)

\* f differs from e in what it sends, one of M, and in the congestion window.
Sends(e, f, M) ==
    /\ Same(e, f) /\ Rest(f) = Rest(e)
    /\ Range(f.out) \subseteq Range(e.out) \cup M

\* Segments without text of their own: acknowledgements, FINs and resets.
Controls(d) == {m \in Message : m.to = Peer(d) /\ m.pkt = 0 /\ "S" \notin m.fl}

\* Segment i of those that send_segment makes.
Segment(d, e, i) == Seg(d, {}, e.nxt + i - 1, 0, e.fetched + i)

\* Handing a packet to the network layer.
LEMMA SendsOne ==
    ASSUME NEW e, TcbType(e), NEW m \in Message
    PROVE  Sends(e, send_to_network(e, m), {m})
<1> DEFINE f == send_to_network(e, m)
<1>1. Same(e, f)
  BY SendSame
<1>2. f = [e EXCEPT !.out = Append(@, m)]
  BY DEF send_to_network
<1>3. Rest(f) = Rest(e) /\ f.out = Append(e.out, m)
  BY <1>2, Fields DEF Rest, TcbType
<1>4. Range(Append(e.out, m)) = Range(e.out) \cup {m}
  <2>1. e.out \in Seq(Message)
    BY DEF TcbType
  <2> QED
    BY <2>1, AppendRange
<1> QED
  BY <1>1, <1>3, <1>4 DEF Sends

\* Sending less, and after one another.
LEMMA SendsTrans ==
    ASSUME NEW e, NEW f, NEW g, NEW M, NEW N, Sends(e, f, M), Sends(f, g, N)
    PROVE  Sends(e, g, M \cup N)
  BY DEF Sends, Same

\* The set of what is sent may be larger.
LEMMA SendsMore ==
    ASSUME NEW e, NEW f, NEW M, NEW N, Sends(e, f, M), M \subseteq N
    PROVE  Sends(e, f, N)
  BY DEF Sends

\* An acknowledgement, a FIN or a reset is sent.
LEMMA ControlSends ==
    ASSUME NEW d \in Device, NEW e, TcbType(e), NEW seq \in Int, NEW ack \in Int,
           NEW m \in Message, NEW c
    PROVE  /\ Sends(e, send_ack(d, e, seq, ack), {Seg(d, {"A"}, seq, ack, 0)})
           /\ Sends(e, send_ack(d, e, seq, ack), Controls(d))
           /\ Sends(e, send_fin_ack(d, e, seq, ack), Controls(d))
           /\ Sends(e, send_fin(d, e), Controls(d))
           /\ Sends(e, send_rst(d, e, m, c), Controls(d))
<1>1. ASSUME NEW fl \in SUBSET {"A", "F", "R"}, NEW n \in Int, NEW k \in Int
      PROVE  Seg(d, fl, n, k, 0) \in Message /\ Seg(d, fl, n, k, 0) \in Controls(d)
  <2>1. fl \in SUBSET {"S", "A", "F", "R"} /\ 0 \in Nat
    OBVIOUS
  <2>2. Seg(d, fl, n, k, 0) \in Message
    BY <2>1, SegMessage
  <2> QED
    BY <2>2 DEF Controls, Seg
<1>2. ASSUME NEW fl \in SUBSET {"A", "F", "R"}, NEW n \in Int, NEW k \in Int
      PROVE  /\ Sends(e, send_to_network(e, Seg(d, fl, n, k, 0)), {Seg(d, fl, n, k, 0)})
             /\ Sends(e, send_to_network(e, Seg(d, fl, n, k, 0)), Controls(d))
  <2> DEFINE s == Seg(d, fl, n, k, 0)
  <2>1. s \in Message /\ {s} \subseteq Controls(d)
    BY <1>1
  <2> HIDE DEF s
  <2>2. Sends(e, send_to_network(e, s), {s})
    BY <2>1, SendsOne
  <2> QED
    BY <2>1, <2>2, SendsMore DEF s
<1>3. /\ Sends(e, send_ack(d, e, seq, ack), {Seg(d, {"A"}, seq, ack, 0)})
      /\ Sends(e, send_ack(d, e, seq, ack), Controls(d))
  BY <1>2 DEF send_ack
<1>4. Sends(e, send_fin_ack(d, e, seq, ack), Controls(d))
  BY <1>2 DEF send_fin_ack
<1>5. Sends(e, send_fin(d, e), Controls(d))
  <2> DEFINE n == IF e.iss + 1 = e.nxt THEN e.nxt + 1 ELSE e.nxt
  <2>1. n \in Int
    BY DEF TcbType
  <2> HIDE DEF n
  <2>2. {"F"} \in SUBSET {"A", "F", "R"} /\ 0 \in Int
    OBVIOUS
  <2>3. Sends(e, send_to_network(e, Seg(d, {"F"}, n, 0, 0)), Controls(d))
    BY <1>2, <2>1, <2>2, Zenon
  <2> QED
    BY <2>3 DEF send_fin, n
<1>6. Sends(e, send_rst(d, e, m, c), Controls(d))
  <2>1. m.seq + 2 \in Int /\ m.ack \in Int
    <3>1. m.seq \in Int /\ m.ack \in Int
      BY DEF Message
    <3> QED
      BY <3>1
  <2>2. {"R"} \in SUBSET {"A", "F", "R"} /\ {"R", "A"} \in SUBSET {"A", "F", "R"} /\ 0 \in Int
    OBVIOUS
  <2>3. /\ Sends(e, send_to_network(e, Seg(d, {"R"}, m.ack, 0, 0)), Controls(d))
        /\ Sends(e, send_to_network(e, Seg(d, {"R", "A"}, 0, m.seq + 2, 0)), Controls(d))
    BY <1>2, <2>1, <2>2, Zenon
  <2> QED
    BY <2>3 DEF send_rst
<1> QED
  BY <1>3, <1>4, <1>5, <1>6

\* A copy of a segment of the queue, and all that concerns the window.
LEMMA QuietSends ==
    ASSUME NEW e, NEW f, Quiet(e, f)
    PROVE  Sends(e, f, e.rq)
  BY DEF Quiet, Sends

\* What send_segment does: the next n packets of the interface become
\* segments, which are sent, queued and timed; and when the last packet of the
\* application is among them or was before, and the queue is empty, a FIN.
LEMMA Segments ==
    ASSUME NEW d \in Device, NEW e, TcbType(e)
    PROVE  LET X == send_segment(d, e)
           IN  \E n \in 0..(e.avail - e.fetched) :
                 /\ TcbType(X)
                 /\ X.nxt = e.nxt + n /\ X.fetched = e.fetched + n /\ X.avail = e.avail
                 /\ X.rq = e.rq \cup {Segment(d, e, i) : i \in 1..n}
                 /\ Range(X.out) \subseteq
                      Range(e.out) \cup {Segment(d, e, i) : i \in 1..n} \cup Controls(d)
                 /\ X.una = e.una /\ X.iss = e.iss /\ X.rcv = e.rcv /\ X.dials = e.dials
                 /\ X.ooo = e.ooo /\ X.up = e.up /\ X.tw = e.tw
                 /\ X.isAPPClose = (e.isAPPClose \/ (n > 0 /\ e.fetched + n = Packets))
                 /\ \/ /\ X.st = e.st
                       /\ Range(X.out) \subseteq Range(e.out) \cup {Segment(d, e, i) : i \in 1..n}
                    \/ X.st = "FinWait1" /\ X.isAPPClose /\ X.rq = {}
<1> DEFINE w == e.avail - e.fetched
           k == e.una + e.cwnd - e.nxt
           n == Max({0, Min({w, k})})
           new == [i \in 1..n |-> Seg(d, {}, e.nxt + i - 1, 0, e.fetched + i)]
           seqs == [i \in 1..n |-> new[i].seq]
           h == [e EXCEPT !.out = @ \o new, !.rq = @ \cup {new[i] : i \in 1..n},
                   !.arm = @ \o seqs,
                   !.nxt = @ + n, !.fetched = @ + n,
                   !.waitFromApp = @ \/ w = 0,
                   !.isAPPClose = @ \/ (n > 0 /\ e.fetched + n = Packets),
                   !.crash = @ \/ e.cwnd < 1]
           X == send_segment(d, e)
           S == {Segment(d, e, i) : i \in 1..n}
<1>0. /\ e.una \in Int /\ e.nxt \in Int /\ e.cwnd \in Int
      /\ e.avail \in Nat /\ e.fetched \in Nat /\ e.fetched <= e.avail
  BY DEF TcbType
<1>1. X = IF h.isAPPClose THEN tcp_close(d, h) ELSE h
  BY DEF send_segment
<1> HIDE DEF X
<1>2. n \in Nat /\ n <= w /\ w \in Nat
  <2>1. w \in Nat /\ k \in Int
    BY ONLY <1>0
  <2> HIDE DEF w, k
  <2>2. Min({w, k}) \in Int /\ Min({w, k}) = IF w <= k THEN w ELSE k
    BY <2>1, MinTwo
  <2>3. n \in Int /\ n = IF 0 >= Min({w, k}) THEN 0 ELSE Min({w, k})
    BY <2>2, MaxTwo
  <2> QED
    BY <2>1, <2>2, <2>3
<1> HIDE DEF n
<1>3. ASSUME NEW i \in 1..n
      PROVE  new[i] \in Message /\ new[i] = Segment(d, e, i) /\ seqs[i] \in Int
  <2>1. e.nxt + i - 1 \in Int /\ e.fetched + i \in Nat
    BY <1>0, <1>2
  <2>2. new[i] = Seg(d, {}, e.nxt + i - 1, 0, e.fetched + i)
    OBVIOUS
  <2> QED
    BY <2>1, <2>2, SegMessage DEF Segment
<1>4. new \in Seq(Message) /\ seqs \in Seq(Int) /\ Range(new) = S /\ {new[i] : i \in 1..n} = S
  <2>1. new \in [1..n -> Message]
    BY <1>3
  <2>2. seqs \in [1..n -> Int]
    BY <1>3
  <2>3. DOMAIN new = 1..n
    OBVIOUS
  <2> HIDE DEF new
  <2>4. Range(new) = S /\ {new[i] : i \in 1..n} = S
    BY <1>3, <2>3 DEF Range
  <2>5. new \in Seq(Message) /\ seqs \in Seq(Int)
    BY <1>2, <2>1, <2>2
  <2> QED
    BY <2>4, <2>5
<1>5. S \subseteq Message
  BY <1>3
<1> HIDE DEF new, seqs, S
<1>6. /\ e.out \o new \in Seq(Message) /\ e.arm \o seqs \in Seq(Int)
      /\ Range(e.out \o new) = Range(e.out) \cup S
  BY <1>4, ConcatRange DEF TcbType
<1>7. /\ DOMAIN h = DOMAIN e /\ h.st = e.st /\ h.una = e.una /\ h.iss = e.iss
      /\ h.cancel = e.cancel /\ h.avail = e.avail /\ h.dials = e.dials /\ h.rcv = e.rcv
      /\ h.cwnd = e.cwnd /\ h.ssth = e.ssth /\ h.recover = e.recover /\ h.ooo = e.ooo
      /\ h.up = e.up /\ h.tw = e.tw
      /\ h.out = e.out \o new /\ h.arm = e.arm \o seqs
      /\ h.rq = e.rq \cup {new[i] : i \in 1..n}
      /\ h.nxt = e.nxt + n /\ h.fetched = e.fetched + n
      /\ h.waitFromApp = (e.waitFromApp \/ w = 0)
      /\ h.isAPPClose = (e.isAPPClose \/ (n > 0 /\ e.fetched + n = Packets))
      /\ h.crash = (e.crash \/ e.cwnd < 1)
  BY Fields DEF TcbType
<1> HIDE DEF h
<1>8. h.rq = e.rq \cup S
  BY <1>4, <1>7
<1>9. TcbType(h)
  <2>1. h.rq \subseteq Message
    BY <1>5, <1>8 DEF TcbType
  <2>2. h.fetched \in Nat /\ h.fetched <= h.avail /\ h.nxt \in Int
    <3>1. h.fetched = e.fetched + n /\ h.avail = e.avail /\ h.nxt = e.nxt + n
      BY <1>7
    <3>2. n \in Nat /\ n <= e.avail - e.fetched
      BY <1>2
    <3> QED
      BY ONLY <1>0, <3>1, <3>2
  <2>3. h.waitFromApp \in BOOLEAN /\ h.isAPPClose \in BOOLEAN /\ h.crash \in BOOLEAN
    BY <1>7
  <2> QED
    BY <1>6, <1>7, <2>1, <2>2, <2>3 DEF TcbType
<1> DEFINE Shape(Y) ==
             /\ TcbType(Y)
             /\ Y.nxt = e.nxt + n /\ Y.fetched = e.fetched + n /\ Y.avail = e.avail
             /\ Y.rq = e.rq \cup S
             /\ Range(Y.out) \subseteq Range(e.out) \cup S \cup Controls(d)
             /\ Y.una = e.una /\ Y.iss = e.iss /\ Y.rcv = e.rcv /\ Y.dials = e.dials
             /\ Y.ooo = e.ooo /\ Y.up = e.up /\ Y.tw = e.tw
             /\ Y.isAPPClose = (e.isAPPClose \/ (n > 0 /\ e.fetched + n = Packets))
             /\ \/ Y.st = e.st /\ Range(Y.out) \subseteq Range(e.out) \cup S
                \/ Y.st = "FinWait1" /\ Y.isAPPClose /\ Y.rq = {}
<1>10. ASSUME X = h PROVE Shape(X)
  BY <1>6, <1>7, <1>8, <1>9, <1>10
<1>11. ASSUME X # h PROVE Shape(X)
  <2> DEFINE g == send_fin(d, h)
  <2>1. h.isAPPClose /\ h.rq = {} /\ X = tcp_change_state(g, "FinWait1")
    BY <1>1, <1>11 DEF tcp_close
  <2>2. Sends(h, g, Controls(d))
    <3>1. Seg("c", {}, 0, 0, 0) \in Message /\ 0 \in Int
      BY SegMessage
    <3> QED
      BY <1>9, <3>1, ControlSends, Zenon
  <2> HIDE DEF g
  <2>3. /\ TcbType(g) /\ g.nxt = h.nxt /\ g.fetched = h.fetched /\ g.avail = h.avail
        /\ g.rq = h.rq /\ g.una = h.una /\ g.iss = h.iss /\ g.rcv = h.rcv /\ g.dials = h.dials
        /\ g.ooo = h.ooo /\ g.up = h.up /\ g.tw = h.tw /\ g.isAPPClose = h.isAPPClose
        /\ Range(g.out) \subseteq Range(h.out) \cup Controls(d)
    BY <2>2 DEF Sends, Same, Core, Rest
  <2>4. /\ TcbType(X) /\ X.st = "FinWait1" /\ X.rq = g.rq /\ X.nxt = g.nxt /\ X.fetched = g.fetched
        /\ X.avail = g.avail /\ X.out = g.out /\ X.una = g.una /\ X.iss = g.iss /\ X.rcv = g.rcv
        /\ X.dials = g.dials /\ X.ooo = g.ooo /\ X.up = g.up /\ X.tw = g.tw
        /\ X.isAPPClose = g.isAPPClose
    BY <2>1, <2>3, Fields DEF tcp_change_state, TcbType
  <2> QED
    BY <1>6, <1>7, <1>8, <2>1, <2>3, <2>4
<1>12. Shape(X)
  BY <1>10, <1>11
<1>13. n \in 0..(e.avail - e.fetched)
  BY <1>2
<1> QED
  BY <1>12, <1>13 DEF X, S
-----------------------------------------------------------------------------
(* A socket is opened by tcp_active_open and tcp_accept only *)

\* f has the fields of a socket, and as many connections were opened.
Kept(e, f) == DOMAIN f = DOMAIN NoSocket /\ f.dials = e.dials

\* One change after another.
LEMMA KeptTrans ==
    ASSUME NEW e, NEW f, NEW g, Kept(e, f), Kept(f, g)
    PROVE  Kept(e, g)
  BY DEF Kept

\* Changes of single fields.
LEMMA KeptField ==
    ASSUME NEW e, DOMAIN e = DOMAIN NoSocket, NEW a, NEW b, NEW m
    PROVE  /\ Kept(e, e) /\ Kept(e, send_to_network(e, m)) /\ Kept(e, tcp_change_state(e, a))
           /\ Kept(e, add_timeout_event(e, m)) /\ Kept(e, SendTimed(e, m))
           /\ Kept(e, [e EXCEPT !.una = a, !.rq = b]) /\ Kept(e, [e EXCEPT !.crash = a])
           /\ Kept(e, [e EXCEPT !.waitFromApp = a]) /\ Kept(e, [e EXCEPT !.avail = a])
           /\ Kept(e, [e EXCEPT !.tw = a]) /\ Kept(e, [e EXCEPT !.twAgain = a])
           /\ Kept(e, [e EXCEPT !.st = a, !.cancel = b]) /\ Kept(e, start_timewait_timer(e))
           /\ Kept(e, [e EXCEPT !.rcv = a]) /\ Kept(e, [e EXCEPT !.ooo = a])
           /\ Kept(e, [e EXCEPT !.ooo = a, !.up = b]) /\ Kept(e, [e EXCEPT !.ackedLast = a])
           /\ Kept(e, set_cwnd(e, a))
  BY Fields DEF Kept, send_to_network, tcp_change_state, add_timeout_event, SendTimed,
                start_timewait_timer, set_cwnd

\* Segments without text.
LEMMA KeptControl ==
    ASSUME NEW e, DOMAIN e = DOMAIN NoSocket, NEW d, NEW seq, NEW ack, NEW m, NEW c
    PROVE  /\ Kept(e, send_ack(d, e, seq, ack)) /\ Kept(e, send_fin_ack(d, e, seq, ack))
           /\ Kept(e, send_fin(d, e)) /\ Kept(e, send_rst(d, e, m, c))
  BY KeptField DEF send_ack, send_fin_ack, send_fin, send_rst

\* Closing.
LEMMA KeptClose ==
    ASSUME NEW e, DOMAIN e = DOMAIN NoSocket
    PROVE  Kept(e, tcp_close_socket(e)) /\ Kept(e, delete_tcb(e))
<1>1. Kept(e, Apart(e))
  BY Fields DEF Kept, Apart, NoSocket
<1> DEFINE a == Apart(e)
<1>2. Kept(a, [a EXCEPT !.st = "NoTcb", !.waitFromApp = e.waitFromApp, !.isAPPClose = e.isAPPClose])
  <2>1. DOMAIN a = DOMAIN NoSocket
    BY <1>1 DEF Kept
  <2> HIDE DEF a
  <2> QED
    BY <2>1, Fields DEF Kept
<1> QED
  BY <1>1, <1>2, KeptTrans DEF tcp_close_socket, delete_tcb

\* Sending.
LEMMA KeptSegments ==
    ASSUME NEW e, DOMAIN e = DOMAIN NoSocket, NEW d
    PROVE  Kept(e, send_segment(d, e))
<1> DEFINE w == e.avail - e.fetched
           n == Max({0, Min({w, e.una + e.cwnd - e.nxt})})
           new == [i \in 1..n |-> Seg(d, {}, e.nxt + i - 1, 0, e.fetched + i)]
           h == [e EXCEPT !.out = @ \o new, !.rq = @ \cup {new[i] : i \in 1..n},
                   !.arm = @ \o [i \in 1..n |-> new[i].seq],
                   !.nxt = @ + n, !.fetched = @ + n,
                   !.waitFromApp = @ \/ w = 0,
                   !.isAPPClose = @ \/ (n > 0 /\ e.fetched + n = Packets),
                   !.crash = @ \/ e.cwnd < 1]
           X == send_segment(d, e)
<1>1. X = IF h.isAPPClose THEN tcp_close(d, h) ELSE h
  BY DEF send_segment
<1> HIDE DEF X, w, n, new
<1>2. Kept(e, h)
  BY Fields DEF Kept
<1> HIDE DEF h
<1>3. Kept(h, send_fin(d, h))
  BY <1>2, KeptControl DEF Kept
<1>4. Kept(send_fin(d, h), tcp_change_state(send_fin(d, h), "FinWait1"))
  <2> DEFINE g == send_fin(d, h)
  <2>1. DOMAIN g = DOMAIN NoSocket
    BY <1>3 DEF Kept
  <2> HIDE DEF g
  <2>2. Kept(g, tcp_change_state(g, "FinWait1"))
    BY <2>1, KeptField
  <2> QED
    BY <2>2 DEF g
<1>5. X \in {h, tcp_change_state(send_fin(d, h), "FinWait1")}
  BY <1>1, Zenon DEF tcp_close
<1> QED
  BY <1>2, <1>3, <1>4, <1>5, KeptTrans DEF X

\* The initial window and the one after a timeout.
LEMMA KeptWindow ==
    ASSUME NEW e, DOMAIN e = DOMAIN NoSocket
    PROVE  Kept(e, congestion_set_MSS(e)) /\ Kept(e, congestion_rto_timeout(e))
<1> DEFINE g == [e EXCEPT !.ssth = Max({FlightSize(e) \div 2, 2}),
                          !.recover = IF Variant = "NEWRENO" THEN e.nxt ELSE e.recover,
                          !.fr = e.fr /\ Variant # "NEWRENO"]
<1>1. Kept(e, congestion_set_MSS(e))
  BY KeptField DEF congestion_set_MSS
<1>2. Kept(e, g)
  BY Fields DEF Kept
<1>3. congestion_rto_timeout(e) = set_cwnd(g, LW)
  BY Zenon DEF congestion_rto_timeout
<1> HIDE DEF g
<1>4. Kept(g, set_cwnd(g, LW))
  BY <1>2, KeptField DEF Kept
<1> QED
  BY <1>1, <1>2, <1>3, <1>4, KeptTrans

\* An acknowledgement and what it lets go.
LEMMA KeptAck ==
    ASSUME NEW e, TcbType(e), NEW d, NEW m \in Message, NEW due
    PROVE  Kept(e, AckThenSend(d, e, m, due))
<1> DEFINE f == ack_received(e, m, due)
           q == delete_segment_from_queue(f.rq, m.ack)
           g == [f EXCEPT !.una = m.ack, !.rq = q]
           a == send_ack(d, f, m.seq, m.ack)
<1>1. DOMAIN e = DOMAIN NoSocket
  BY DEF TcbType
<1>2. Kept(e, f)
  BY AckReceivedQuiet DEF Quiet, Same, Rest, Kept, TcbType
<1>3. process_ack_in_establishedState(d, e, m, due) \in {g, a, f}
  BY Zenon DEF process_ack_in_establishedState
<1> HIDE DEF f, q
<1>4. Kept(f, g) /\ Kept(f, a)
  BY <1>2, KeptField, KeptControl DEF Kept
<1> HIDE DEF g, a
<1> DEFINE p == process_ack_in_establishedState(d, e, m, due)
<1>5. Kept(e, p)
  BY <1>2, <1>3, <1>4, KeptTrans
<1>6. AckThenSend(d, e, m, due) \in {send_segment(d, p), p}
  BY Zenon DEF AckThenSend
<1> HIDE DEF p
<1>7. Kept(p, send_segment(d, p))
  BY <1>5, KeptSegments DEF Kept
<1> QED
  BY <1>5, <1>6, <1>7, KeptTrans

\* The text of a segment.
LEMMA KeptText ==
    ASSUME NEW e, DOMAIN e = DOMAIN NoSocket, NEW d, NEW m, NEW due
    PROVE  Kept(e, Text(d, e, m, due))
<1> DEFINE inorder == e.rcv = m.seq
           f == check_segment(e, m)
           g == IF inorder THEN NoteAck(f, due) ELSE f
           h == IF (inorder => send_ack_or_not(e, due)) /\ "F" \notin m.fl
                THEN send_ack(d, g, g.nxt, g.rcv) ELSE g
<1>1. Text(d, e, m, due) = IF inorder THEN send_to_application(h, m) ELSE h
  BY DEF Text
<1> DEFINE r == [e EXCEPT !.rcv = @ + get_seg_len(m)]
<1>2. Kept(e, f)
  <2>1. Kept(e, r)
    BY Fields DEF Kept
  <2>2. f \in {check_segment_in_queue(r), e, [e EXCEPT !.ooo = @ \cup {m}]}
    BY Zenon DEF check_segment
  <2> HIDE DEF r
  <2>3. Kept(r, check_segment_in_queue(r))
    BY <2>1, KeptField DEF check_segment_in_queue, Kept
  <2>4. Kept(e, [e EXCEPT !.ooo = @ \cup {m}])
    BY KeptField
  <2> QED
    BY <2>1, <2>2, <2>3, <2>4, KeptTrans, KeptField
<1> HIDE DEF f
<1>3. Kept(f, NoteAck(f, due))
  BY <1>2, KeptField DEF NoteAck, Kept
<1>4. Kept(e, g)
  BY <1>2, <1>3, KeptTrans
<1> HIDE DEF g
<1>5. Kept(g, send_ack(d, g, g.nxt, g.rcv))
  BY <1>4, KeptControl DEF Kept
<1>6. Kept(e, h)
  BY <1>4, <1>5, KeptTrans
<1> HIDE DEF h
<1>7. Kept(h, send_to_application(h, m))
  BY <1>6, KeptField DEF Kept, send_to_application
<1> QED
  BY <1>1, <1>6, <1>7, KeptTrans

\* A FIN.
LEMMA KeptFin ==
    ASSUME NEW e, DOMAIN e = DOMAIN NoSocket, NEW d, NEW m
    PROVE  Kept(e, process_fin_packet(d, e, m))
<1> DEFINE X == process_fin_packet(d, e, m)
           a == send_fin_ack(d, e, e.nxt, e.rcv)
           b == send_fin(d, a)
           c == tcp_change_state(e, "Closing")
           z == tcp_change_state(e, "TimeWait")
           y == start_timewait_timer(z)
           w == start_timewait_timer(e)
<1>1. X \in {[b EXCEPT !.st = "LastAck", !.cancel = TRUE], send_fin_ack(d, c, e.nxt, e.rcv),
             send_ack(d, y, e.nxt + 1, m.seq + 1), [w EXCEPT !.twAgain = TRUE], e}
  BY Zenon DEF process_fin_packet
<1>2. Kept(e, a) /\ Kept(e, c) /\ Kept(e, z) /\ Kept(e, w)
  BY KeptField, KeptControl
<1> HIDE DEF X, a, c, z, w
<1>3. Kept(a, b) /\ Kept(z, y)
  BY <1>2, KeptField, KeptControl DEF Kept
<1> HIDE DEF b, y
<1>4. /\ Kept(b, [b EXCEPT !.st = "LastAck", !.cancel = TRUE])
      /\ Kept(c, send_fin_ack(d, c, e.nxt, e.rcv))
      /\ Kept(y, send_ack(d, y, e.nxt + 1, m.seq + 1))
      /\ Kept(w, [w EXCEPT !.twAgain = TRUE])
  BY <1>2, <1>3, KeptField, KeptControl DEF Kept
<1>5. Kept(e, b) /\ Kept(e, y) /\ Kept(e, e)
  BY <1>2, <1>3, KeptTrans, KeptField
<1>6. /\ Kept(e, [b EXCEPT !.st = "LastAck", !.cancel = TRUE])
      /\ Kept(e, send_fin_ack(d, c, e.nxt, e.rcv))
      /\ Kept(e, send_ack(d, y, e.nxt + 1, m.seq + 1))
      /\ Kept(e, [w EXCEPT !.twAgain = TRUE])
  BY <1>2, <1>4, <1>5, KeptTrans
<1> QED
  BY <1>1, <1>5, <1>6 DEF X

\* An acknowledgement in any state of a connection.
LEMMA KeptAckPacket ==
    ASSUME NEW e, TcbType(e), NEW d, NEW m \in Message, NEW due
    PROVE  Kept(e, process_ack_packet(d, e, m, due))
<1> DEFINE X == process_ack_packet(d, e, m, due)
           s == tcp_change_state(e, "Estab")
           t == AckThenSend(d, s, m, due)
           f == AckThenSend(d, e, m, due)
           v == start_timewait_timer(f)
           a == send_fin_ack(d, e, m.seq, m.ack)
           w == start_timewait_timer(a)
<1>0. DOMAIN e = DOMAIN NoSocket
  BY DEF TcbType
<1>1. X \in {t, send_rst(d, e, m, 1), f, tcp_change_state(f, "FinWait2"),
             tcp_change_state(v, "TimeWait"), delete_tcb(e), [w EXCEPT !.twAgain = TRUE]}
  BY Zenon DEF process_ack_packet
<1>2. TcbType(s) /\ Kept(e, s)
  BY Fields DEF tcp_change_state, TcbType, Kept
<1> HIDE DEF X, s
<1>3. Kept(s, t) /\ Kept(e, f) /\ Kept(e, a)
  BY <1>0, <1>2, KeptAck, KeptControl
<1> HIDE DEF t, f, a
<1>4. Kept(f, tcp_change_state(f, "FinWait2")) /\ Kept(f, v) /\ Kept(a, w)
  BY <1>3, KeptField DEF Kept
<1> HIDE DEF v, w
<1>5. Kept(v, tcp_change_state(v, "TimeWait")) /\ Kept(w, [w EXCEPT !.twAgain = TRUE])
  BY <1>4, KeptField DEF Kept
<1>6. Kept(e, send_rst(d, e, m, 1)) /\ Kept(e, delete_tcb(e))
  BY <1>0, KeptControl, KeptClose
<1>7. Kept(e, t) /\ Kept(e, v) /\ Kept(e, w) /\ Kept(e, tcp_change_state(f, "FinWait2"))
  BY <1>2, <1>3, <1>4, KeptTrans
<1>8. Kept(e, tcp_change_state(v, "TimeWait")) /\ Kept(e, [w EXCEPT !.twAgain = TRUE])
  BY <1>5, <1>7, KeptTrans
<1> QED
  BY <1>1, <1>3, <1>6, <1>7, <1>8 DEF X

\* Neither packets nor timers nor the application undo a connection: the
\* number of sockets opened grows with each, and otherwise stays.
LEMMA Dials ==
    ASSUME NEW e, TcbType(e), NEW d
    PROVE  /\ \A m \in Message, due \in BOOLEAN :
                packet_arrive_from_network_layer(d, e, m, due).dials >= e.dials
           /\ \A n : handle_rto_timer(e, n).dials = e.dials
           /\ handle_time_wait_timeout([e EXCEPT !.tw = @ - 1]).dials = e.dials
           /\ packet_arrive_from_application_layer([e EXCEPT !.avail = @ + 1]).dials >= e.dials
<1>0. DOMAIN e = DOMAIN NoSocket /\ e.dials \in Nat
  BY DEF TcbType
<1>1. ASSUME NEW p
      PROVE  /\ DOMAIN create_TCB(p, e) = DOMAIN NoSocket
             /\ create_TCB(p, e).dials = e.dials + 1
  BY <1>0, Fields DEF create_TCB, Apart, NoSocket
<1>2. ASSUME NEW g, DOMAIN g = DOMAIN NoSocket, NEW m, NEW p
      PROVE  Kept(g, rcv_SYN(p, g, m)) /\ Kept(g, send_syn(p, g))
  BY <1>2, Fields DEF rcv_SYN, send_syn, congestion_set_MSS, set_cwnd, SendTimed,
                      send_to_network, add_timeout_event, Kept
<1>3. ASSUME NEW m, NEW p
      PROVE  tcp_accept(p, e, m).dials = e.dials + 1
  BY <1>1, <1>2 DEF tcp_accept, Kept
<1>4. ASSUME NEW m \in Message, NEW due \in BOOLEAN
      PROVE  packet_arrive_from_network_layer(d, e, m, due).dials >= e.dials
  <2> DEFINE X == packet_arrive_from_network_layer(d, e, m, due)
             c == [e EXCEPT !.rcv = m.seq + 1, !.irs = m.seq, !.una = m.ack,
                            !.rq = delete_segment_from_queue(@, m.ack)]
             f == congestion_set_MSS(c)
             a == send_ack(d, f, f.nxt, f.rcv)
             b == tcp_change_state(a, "Estab")
             u == IF e.st \in {"Estab", "FinWait1", "FinWait2"} THEN Text(d, e, m, due) ELSE e
  <2>1. X \in {tcp_accept(d, e, m), e, packet_arrives_at_listen_state(d, e, m),
               packet_arrives_at_synsent_state(d, e, m),
               packet_arrives_at_incoming_tcp(d, e, m, due)}
    BY Zenon DEF packet_arrive_from_network_layer
  <2>2. Kept(e, packet_arrives_at_listen_state(d, e, m))
    BY <1>0, KeptField, KeptControl DEF packet_arrives_at_listen_state
  <2>3. Kept(e, packet_arrives_at_synsent_state(d, e, m))
    <3>1. Kept(e, c)
      BY <1>0, Fields DEF Kept
    <3>2. packet_arrives_at_synsent_state(d, e, m) \in
            {send_rst(d, e, m, 0), [e EXCEPT !.crash = TRUE], send_segment(d, b), e}
      BY Zenon DEF packet_arrives_at_synsent_state
    <3> HIDE DEF c
    <3>3. Kept(c, f)
      BY <3>1, KeptField DEF Kept, congestion_set_MSS
    <3> HIDE DEF f
    <3>4. Kept(f, a)
      BY <3>3, KeptControl DEF Kept
    <3> HIDE DEF a
    <3>5. Kept(a, b)
      BY <3>4, KeptField DEF Kept
    <3> HIDE DEF b
    <3>6. Kept(b, send_segment(d, b))
      BY <3>5, KeptSegments DEF Kept
    <3>7. Kept(e, send_segment(d, b))
      BY <3>1, <3>3, <3>4, <3>5, <3>6, KeptTrans
    <3>8. Kept(e, send_rst(d, e, m, 0)) /\ Kept(e, [e EXCEPT !.crash = TRUE]) /\ Kept(e, e)
      BY <1>0, KeptControl, KeptField
    <3> QED
      BY <3>2, <3>7, <3>8
  <2>4. Kept(e, packet_arrives_at_incoming_tcp(d, e, m, due))
    <3>1. packet_arrives_at_incoming_tcp(d, e, m, due) \in
            {e, send_ack(d, e, e.nxt, e.rcv), tcp_change_state(e, "Listen"), tcp_close_socket(e),
             process_ack_packet(d, e, m, due), process_fin_packet(d, u, m), u}
      BY Zenon DEF packet_arrives_at_incoming_tcp, process_rst_packet, process_syn_packet,
                   process_segment_text
    <3>2. Kept(e, u)
      BY <1>0, KeptText, KeptField
    <3> HIDE DEF u
    <3>3. Kept(u, process_fin_packet(d, u, m))
      BY <3>2, KeptFin DEF Kept
    <3>4. Kept(e, process_fin_packet(d, u, m))
      BY <3>2, <3>3, KeptTrans
    <3>5. /\ Kept(e, send_ack(d, e, e.nxt, e.rcv)) /\ Kept(e, tcp_change_state(e, "Listen"))
          /\ Kept(e, tcp_close_socket(e)) /\ Kept(e, process_ack_packet(d, e, m, due)) /\ Kept(e, e)
      BY <1>0, KeptControl, KeptField, KeptClose, KeptAckPacket
    <3> QED
      BY <3>1, <3>2, <3>4, <3>5
  <2> HIDE DEF X
  <2>5. X.dials \in {e.dials, e.dials + 1}
    BY <1>3, <2>1, <2>2, <2>3, <2>4 DEF Kept
  <2> QED
    BY <1>0, <2>5 DEF X
<1>5. ASSUME NEW n PROVE handle_rto_timer(e, n).dials = e.dials
  <2> DEFINE m == get_segment_from_queue(e.rq, n)
             c == congestion_rto_timeout(e)
             y == [e EXCEPT !.una = e.iss, !.nxt = e.iss + 1, !.syn = @ + 1]
  <2>1. handle_rto_timer(e, n) \in {e, [e EXCEPT !.crash = TRUE], SendTimed(y, m),
                                    tcp_close_socket(e), SendTimed(c, m)}
    BY Zenon DEF handle_rto_timer, resend_syn
  <2>2. Kept(e, c)
    BY <1>0, KeptWindow
  <2>3. Kept(e, y)
    BY <1>0, Fields DEF Kept
  <2> HIDE DEF c, m, y
  <2>4. Kept(c, SendTimed(c, m)) /\ Kept(y, SendTimed(y, m))
    BY <2>2, <2>3, KeptField DEF Kept
  <2>5. Kept(e, e) /\ Kept(e, [e EXCEPT !.crash = TRUE]) /\ Kept(e, tcp_close_socket(e))
    BY <1>0, KeptField, KeptClose
  <2> QED
    BY <2>1, <2>2, <2>3, <2>4, <2>5 DEF Kept
<1>6. handle_time_wait_timeout([e EXCEPT !.tw = @ - 1]).dials = e.dials
  <2> DEFINE a == [e EXCEPT !.tw = @ - 1]
  <2>1. Kept(e, a)
    BY <1>0, KeptField
  <2>2. handle_time_wait_timeout(a) \in
          {[a EXCEPT !.crash = TRUE], [a EXCEPT !.twAgain = FALSE], delete_tcb(a)}
    BY Zenon DEF handle_time_wait_timeout
  <2> HIDE DEF a
  <2>3. Kept(a, [a EXCEPT !.crash = TRUE]) /\ Kept(a, [a EXCEPT !.twAgain = FALSE])
        /\ Kept(a, delete_tcb(a))
    BY <2>1, KeptField, KeptClose DEF Kept
  <2> QED
    BY <2>1, <2>2, <2>3 DEF Kept, a
<1>7. packet_arrive_from_application_layer([e EXCEPT !.avail = @ + 1]).dials >= e.dials
  <2> DEFINE a == [e EXCEPT !.avail = @ + 1]
             s == send_segment("c", a)
  <2>1. Kept(e, a)
    BY <1>0, KeptField
  <2>2. packet_arrive_from_application_layer(a) \in
          {tcp_active_open("c", a), [a EXCEPT !.crash = TRUE], [s EXCEPT !.waitFromApp = FALSE], a}
    BY Zenon DEF packet_arrive_from_application_layer
  <2> HIDE DEF a
  <2>3. Kept(a, s)
    BY <2>1, KeptSegments DEF Kept
  <2> HIDE DEF s
  <2>4. Kept(a, [a EXCEPT !.crash = TRUE]) /\ Kept(s, [s EXCEPT !.waitFromApp = FALSE])
    BY <2>1, <2>3, KeptField DEF Kept
  <2>5. tcp_active_open("c", a).dials = a.dials + 1
    <3>1. DOMAIN a = DOMAIN NoSocket
      BY <2>1 DEF Kept
    <3> DEFINE t == create_TCB("c", a)
    <3>2. DOMAIN t = DOMAIN NoSocket /\ t.dials = a.dials + 1
      BY <3>1, Fields DEF create_TCB, Apart, NoSocket
    <3> HIDE DEF t
    <3>3. Kept(t, send_syn("c", t))
      BY <1>2, <3>2
    <3> QED
      BY <3>2, <3>3 DEF Kept, tcp_active_open, t
  <2> DEFINE X == packet_arrive_from_application_layer(a)
  <2> HIDE DEF X
  <2>6. X.dials \in {e.dials, e.dials + 1}
    BY <2>1, <2>2, <2>3, <2>4, <2>5 DEF Kept, X
  <2> QED
    BY <1>0, <2>6 DEF X, a
<1> QED
  BY <1>4, <1>5, <1>6, <1>7
-----------------------------------------------------------------------------
(* What the larger handlers leave *)

\* A segment sent with a timer: one more in the queue.
LEMMA TimedShape ==
    ASSUME NEW e, TcbType(e), NEW m \in Message
    PROVE  LET X == SendTimed(e, m)
           IN  /\ TcbType(X) /\ X.rq = e.rq \cup {m} /\ Range(X.out) \subseteq Range(e.out) \cup {m}
               /\ X.st = e.st /\ X.una = e.una /\ X.nxt = e.nxt /\ X.iss = e.iss
               /\ X.avail = e.avail /\ X.fetched = e.fetched /\ Rest(X) = Rest(e)
<1> DEFINE f == send_to_network(e, m)
           X == add_timeout_event(f, m)
<1>1. Sends(e, f, {m})
  BY SendsOne
<1>2. X = SendTimed(e, m)
  BY DEF SendTimed
<1>3. /\ TcbType(X) /\ X.rq = e.rq \cup {m} /\ X.st = e.st /\ X.una = e.una /\ X.nxt = e.nxt
      /\ X.iss = e.iss /\ X.avail = e.avail /\ X.fetched = e.fetched
  <2> HIDE DEF X
  <2> QED
    BY <1>2, TimedSend
<1> HIDE DEF f
<1>4. X.out = f.out /\ Rest(X) = Rest(f)
  BY <1>1, Fields DEF add_timeout_event, Rest, Sends, Same, TcbType
<1> HIDE DEF X
<1> QED
  BY <1>1, <1>2, <1>3, <1>4 DEF Sends

\* What a socket keeps when it is closed or loses its TCB.
LEMMA ClosedShape ==
    ASSUME NEW e, TcbType(e), NEW X, X \in {tcp_close_socket(e), delete_tcb(e)}
    PROVE  /\ TcbType(X) /\ X.st \in {"None", "NoTcb"} /\ X.rq = {} /\ X.ooo = {}
           /\ X.avail = e.avail /\ X.fetched = e.fetched /\ X.dials = e.dials /\ X.up = e.up
           /\ X.tw = e.tw /\ X.out = e.out /\ X.isAPPClose \in {e.isAPPClose, FALSE}
           /\ X = tcp_close_socket(e) => X.st = "None" /\ ~X.isAPPClose
<1> DEFINE a == Apart(e)
           b == [a EXCEPT !.st = "NoTcb", !.waitFromApp = e.waitFromApp,
                          !.isAPPClose = e.isAPPClose]
<1>1. /\ TcbType(a) /\ a.st = "None" /\ a.rq = {}
  BY ApartType
<1>2. /\ a.ooo = {} /\ a.avail = e.avail /\ a.fetched = e.fetched /\ a.dials = e.dials
      /\ a.up = e.up /\ a.tw = e.tw /\ a.out = e.out /\ a.isAPPClose = FALSE
  BY Fields DEF Apart, NoSocket
<1>3. e.waitFromApp \in BOOLEAN /\ e.isAPPClose \in BOOLEAN
  BY DEF TcbType
<1>4. X = a \/ X = b
  BY Zenon DEF tcp_close_socket, delete_tcb
<1>5. tcp_close_socket(e) = a
  BY DEF tcp_close_socket
<1> HIDE DEF a
<1>6. TcbType(b) /\ b.st = "NoTcb"
  BY <1>1, <1>3, DeletedType
<1>7. /\ b.rq = a.rq /\ b.ooo = a.ooo /\ b.avail = a.avail /\ b.fetched = a.fetched
      /\ b.dials = a.dials /\ b.up = a.up /\ b.tw = a.tw /\ b.out = a.out
      /\ b.isAPPClose = e.isAPPClose
  BY <1>1, Fields DEF TcbType
<1> HIDE DEF b
<1>8. CASE X = a
  BY <1>1, <1>2, <1>3, <1>5, <1>8
<1>9. CASE X = b
  BY <1>1, <1>2, <1>3, <1>5, <1>6, <1>7, <1>9
<1> QED
  BY <1>4, <1>8, <1>9

\* What AckThenSend does: nothing but send a copy or an acknowledgement, unless
\* something new is acknowledged; then what it covers leaves the queue, and
\* send_segment follows.
AckOutcome(d, e, m, X) ==
    \/ /\ ~Acks(e, m) /\ m.ack <= e.nxt
       /\ Sends(e, X, e.rq)
    \/ /\ ~Acks(e, m) /\ m.ack > e.nxt
       /\ Sends(e, X, e.rq \cup Controls(d))
    \/ /\ Acks(e, m)
       /\ \E g : /\ X = send_segment(d, g) /\ TcbType(g)
                 /\ g.una = m.ack /\ g.rq = delete_segment_from_queue(e.rq, m.ack)
                 /\ g.st = e.st /\ g.nxt = e.nxt /\ g.iss = e.iss
                 /\ g.avail = e.avail /\ g.fetched = e.fetched /\ Rest(g) = Rest(e)
                 /\ Range(g.out) \subseteq Range(e.out) \cup e.rq

\* These are its outcomes.
LEMMA AckShape ==
    ASSUME NEW d \in Device, NEW e, TcbType(e), NEW m \in Message, NEW due
    PROVE  AckOutcome(d, e, m, AckThenSend(d, e, m, due))
<1> DEFINE f == ack_received(e, m, due)
           q == delete_segment_from_queue(f.rq, m.ack)
           g == [f EXCEPT !.una = m.ack, !.rq = q]
           a == send_ack(d, f, m.seq, m.ack)
           X == AckThenSend(d, e, m, due)
<1>0. e.nxt \in Int /\ e.una \in Int /\ m.ack \in Int /\ m.seq \in Int
  BY DEF TcbType, Message
<1>1. Sends(e, f, e.rq)
  BY AckReceivedQuiet, QuietSends
<1>2. process_ack_in_establishedState(d, e, m, due) =
        CASE Acks(e, m) -> g [] m.ack > e.nxt -> a [] OTHER -> f
  BY DEF process_ack_in_establishedState
<1> HIDE DEF f
<1>3. CASE Acks(e, m)
  <2>1. ~(m.ack > e.nxt)
    BY <1>0, <1>3 DEF Acks
  <2>2. process_ack_in_establishedState(d, e, m, due) = g
    BY <1>2, <1>3, <2>1
  <2>3. X = send_segment(d, g)
    BY <1>3, <2>2 DEF AckThenSend
  <2>4. /\ TcbType(f) /\ f.rq = e.rq /\ f.st = e.st /\ f.nxt = e.nxt /\ f.iss = e.iss
        /\ f.avail = e.avail /\ f.fetched = e.fetched /\ Rest(f) = Rest(e)
        /\ Range(f.out) \subseteq Range(e.out) \cup e.rq
    BY <1>1 DEF Sends, Same, Core
  <2>5. q \subseteq Message /\ q = delete_segment_from_queue(e.rq, m.ack)
    BY <2>4 DEF delete_segment_from_queue, TcbType
  <2> HIDE DEF q
  <2>6. /\ TcbType(g) /\ g.una = m.ack /\ g.rq = q /\ g.st = f.st /\ g.nxt = f.nxt
        /\ g.iss = f.iss /\ g.avail = f.avail /\ g.fetched = f.fetched
        /\ Rest(g) = Rest(f) /\ g.out = f.out
    BY <1>0, <2>4, <2>5, Fields DEF TcbType, Rest
  <2> HIDE DEF g, X
  <2>7. /\ TcbType(g) /\ g.una = m.ack /\ g.rq = delete_segment_from_queue(e.rq, m.ack)
        /\ g.st = e.st /\ g.nxt = e.nxt /\ g.iss = e.iss
        /\ g.avail = e.avail /\ g.fetched = e.fetched /\ Rest(g) = Rest(e)
        /\ Range(g.out) \subseteq Range(e.out) \cup e.rq
    BY <2>4, <2>5, <2>6
  <2> QED
    BY <1>3, <2>3, <2>7 DEF AckOutcome, X
<1>4. CASE ~Acks(e, m)
  <2>1. X = process_ack_in_establishedState(d, e, m, due)
    BY <1>4 DEF AckThenSend
  <2>2. CASE m.ack > e.nxt
    <3>1. X = a
      BY <1>2, <1>4, <2>1, <2>2
    <3>2. Sends(f, a, Controls(d))
      BY <1>0, <1>1, ControlSends DEF Sends, Same
    <3>3. Sends(e, a, e.rq \cup Controls(d))
      BY <1>1, <3>2, SendsTrans
    <3> QED
      BY <1>4, <2>2, <3>1, <3>3 DEF AckOutcome
  <2>3. CASE ~(m.ack > e.nxt)
    <3>1. X = f /\ m.ack <= e.nxt
      BY <1>0, <1>2, <1>4, <2>1, <2>3
    <3> QED
      BY <1>1, <1>4, <3>1 DEF AckOutcome, f
  <2> QED
    BY <2>2, <2>3
<1> QED
  BY <1>3, <1>4

\* The segment of packet p: the client's first data segment is numbered 2.
Data(p) == Seg("c", {}, p + 1, 0, p)

\* A segment of data.
LEMMA DataSegment ==
    ASSUME NEW p \in Nat \ {0}
    PROVE  /\ Data(p) \in Message /\ Data(p).seq = p + 1 /\ Data(p).pkt = p
           /\ get_seg_len(Data(p)) = 1 /\ Data(p).to = "s" /\ Data(p).fl = {} /\ Data(p).ack = 0
<1>1. {} \in SUBSET {"S", "A", "F", "R"} /\ p + 1 \in Int /\ 0 \in Int /\ p \in Nat /\ p > 0
  OBVIOUS
<1>2. /\ Data(p) \in Message /\ Data(p).seq = p + 1
      /\ get_seg_len(Data(p)) = 1
  <2>1. "S" \in {} \/ p > 0
    BY <1>1
  <2> QED
    BY <1>1, <2>1, SegMessage DEF Data
<1>3. Data(p).pkt = p /\ Data(p).to = "s" /\ Data(p).fl = {} /\ Data(p).ack = 0
  BY DEF Data, Seg, Peer
<1> QED
  BY <1>2, <1>3

\* An ascending numbering of 1..k by 1..k is the identity.
LEMMA OnlyOrder ==
    ASSUME NEW k \in Nat, NEW g \in [1..k -> 1..k],
           \A i, j \in 1..k : i < j => g[i] < g[j]
    PROVE  \A i \in 1..k : g[i] = i
<1>1. \A i \in 1..k : g[i] >= i
  <2> DEFINE T == {i \in 1..k : g[i] < i}
  <2> SUFFICES ASSUME T # {} PROVE FALSE
    <3>1. \A i \in 1..k : ~(g[i] < i) => g[i] >= i
      OBVIOUS
    <3> QED
      BY <3>1
  <2>1. PICK i \in T : \A j \in T : i <= j
    <3>1. T \subseteq Nat
      OBVIOUS
    <3> HIDE DEF T
    <3> QED
      BY <3>1, LeastNumber
  <2>2. i \in 1..k /\ g[i] < i /\ g[i] \in 1..k
    BY <2>1
  <2>3. i - 1 \in 1..k /\ i - 1 < i
    BY <2>2
  <2>4. ~(g[i - 1] < i - 1)
    BY <2>1, <2>3
  <2>5. g[i - 1] < g[i] /\ g[i - 1] \in 1..k
    BY <2>2, <2>3
  <2> QED
    BY <2>2, <2>4, <2>5
<1>2. \A i \in 1..k : g[i] <= i
  <2> DEFINE T == {k - i : i \in {n \in 1..k : g[n] > n}}
  <2> SUFFICES ASSUME T # {} PROVE FALSE
    <3>1. \A i \in 1..k : ~(g[i] > i) => g[i] <= i
      OBVIOUS
    <3> QED
      BY <3>1
  <2>1. PICK x \in T : \A y \in T : x <= y
    <3>1. T \subseteq Nat
      <4>1. \A i \in 1..k : k - i \in Nat
        OBVIOUS
      <4> QED
        BY <4>1
    <3> HIDE DEF T
    <3> QED
      BY <3>1, LeastNumber
  <2>2. PICK i \in 1..k : g[i] > i /\ x = k - i
    BY <2>1
  <2>3. g[i] \in 1..k
    OBVIOUS
  <2>4. i + 1 \in 1..k /\ i < i + 1
    BY <2>2, <2>3
  <2>5. k - (i + 1) \notin T
    <3>1. ~(x <= k - (i + 1))
      BY <2>2
    <3> QED
      BY <2>1, <3>1
  <2>6. ~(g[i + 1] > i + 1)
    BY <2>4, <2>5
  <2>7. g[i] < g[i + 1] /\ g[i + 1] \in 1..k
    BY <2>4
  <2> QED
    BY <2>2, <2>3, <2>6, <2>7
<1>3. \A i \in 1..k : g[i] \in Int
  OBVIOUS
<1> QED
  BY <1>1, <1>2, <1>3

\* The packets of consecutive segments, in ascending order.
LEMMA AscendingRun ==
    ASSUME NEW S, NEW a \in Nat, NEW k \in Nat,
           {q \in S : q.pkt > 0} = {Data(a + i) : i \in 1..k}
    PROVE  Ascending(S) = [i \in 1..k |-> a + i]
<1> DEFINE T == {q \in S : q.pkt > 0}
           Ordered(f) == \A i, j \in DOMAIN f : i < j => f[i].seq < f[j].seq
           f0 == [i \in 1..k |-> Data(a + i)]
           h == CHOOSE f \in [1..Cardinality(T) -> T] : Ordered(f)
<1>1. \A i \in 1..k : /\ Data(a + i) \in T /\ Data(a + i).seq = (a + i) + 1
                      /\ Data(a + i).pkt = a + i
  <2> SUFFICES ASSUME NEW i \in 1..k
               PROVE  /\ Data(a + i) \in T /\ Data(a + i).seq = (a + i) + 1
                      /\ Data(a + i).pkt = a + i
    OBVIOUS
  <2>1. a + i \in Nat \ {0}
    OBVIOUS
  <2>2. Data(a + i) \in {Data(a + n) : n \in 1..k}
    OBVIOUS
  <2> QED
    BY <2>1, <2>2, DataSegment
<1>2. Ascending(S) = [i \in DOMAIN h |-> h[i].pkt]
  BY Zenon DEF Ascending
<1>0. T = {Data(a + i) : i \in 1..k}
  OBVIOUS
<1> HIDE DEF T
<1>3. f0 \in [1..k -> T]
  BY <1>1
<1>4. \A i, j \in 1..k : f0[i] = f0[j] => i = j
  <2> SUFFICES ASSUME NEW i \in 1..k, NEW j \in 1..k, f0[i] = f0[j] PROVE i = j
    OBVIOUS
  <2>1. a + i = a + j
    BY <1>1
  <2> QED
    BY <2>1
<1>5. \A t \in T : \E i \in 1..k : f0[i] = t
  BY <1>0
<1>6. Ordered(f0)
  BY <1>1
<1> HIDE DEF f0
<1>7. Cardinality(T) = k
  <2> HIDE DEF T
  <2> DEFINE K == 1..k
  <2>1. IsFiniteSet(K) /\ Cardinality(K) = k
    BY FS_Interval
  <2>2. f0 \in [K -> T] /\ (\A i, j \in K : f0[i] = f0[j] => i = j)
        /\ (\A t \in T : \E i \in K : f0[i] = t)
    BY <1>3, <1>4, <1>5
  <2> HIDE DEF K
  <2>3. f0 \in Bijection(K, T)
    BY <2>2, Fun_IsBij
  <2>4. ExistsBijection(K, T)
    BY <2>3 DEF ExistsBijection
  <2> QED
    BY <2>1, <2>4, FS_Bijection
<1>8. f0 \in [1..Cardinality(T) -> T] /\ Ordered(f0)
  BY <1>3, <1>6, <1>7
<1>9. h \in [1..k -> T] /\ Ordered(h)
  <2>1. h \in [1..Cardinality(T) -> T] /\ Ordered(h)
    <3> HIDE DEF T, Ordered
    <3> QED
      BY <1>8
  <2> QED
    BY <1>7, <2>1
<1> HIDE DEF h
<1> DEFINE g == [i \in 1..k |-> h[i].pkt - a]
<1>10. ASSUME NEW i \in 1..k
       PROVE  g[i] \in 1..k /\ h[i] = Data(a + g[i]) /\ h[i].pkt = a + g[i]
              /\ h[i].seq = (a + g[i]) + 1
  <2>1. PICK j \in 1..k : h[i] = Data(a + j)
    BY <1>0, <1>9
  <2>2. h[i].pkt = a + j /\ h[i].seq = (a + j) + 1
    BY <1>1, <2>1
  <2>3. g[i] = j
    BY <2>2
  <2> QED
    BY <2>1, <2>2, <2>3
<1>11. g \in [1..k -> 1..k]
  BY <1>10
<1>12. \A i, j \in 1..k : i < j => g[i] < g[j]
  <2> SUFFICES ASSUME NEW i \in 1..k, NEW j \in 1..k, i < j PROVE g[i] < g[j]
    OBVIOUS
  <2>1. h[i].seq < h[j].seq
    BY <1>9
  <2>2. g[i] \in Int /\ g[j] \in Int /\ (a + g[i]) + 1 < (a + g[j]) + 1
    BY <1>10, <2>1
  <2> HIDE DEF g
  <2> QED
    BY <2>2
<1>13. \A i \in 1..k : g[i] = i
  <2> HIDE DEF g
  <2> QED
    BY <1>11, <1>12, OnlyOrder
<1>14. DOMAIN h = 1..k /\ \A i \in 1..k : h[i].pkt = a + i
  BY <1>9, <1>10, <1>13
<1> QED
  BY <1>2, <1>14

-----------------------------------------------------------------------------
(* The text of a segment *)

\* What check_segment changes: RCV.NXT, or the segments kept out of order.
LEMMA CheckParts ==
    ASSUME NEW e, TcbType(e), NEW m \in Message
    PROVE  LET f == check_segment(e, m)
               r == e.rcv + get_seg_len(m)
           IN  /\ f.dials = e.dials /\ f.isAPPClose = e.isAPPClose /\ f.tw = e.tw
               /\ f.up = e.up /\ f.out = e.out /\ f.rcv \in Int
               /\ IF e.rcv = m.seq
                  THEN /\ f.ooo = e.ooo /\ r <= f.rcv
                       /\ \A i \in r .. (f.rcv - 1) :
                             \E q \in e.ooo : q.seq = i /\ get_seg_len(q) > 0
                       /\ ~\E q \in e.ooo : q.seq = f.rcv /\ get_seg_len(q) > 0
                  ELSE /\ f.rcv = e.rcv
                       /\ \/ f.ooo = e.ooo
                          \/ m.seq > e.rcv /\ f.ooo = e.ooo \cup {m}
<1> DEFINE f == check_segment(e, m)
           r == e.rcv + get_seg_len(m)
           a == [e EXCEPT !.rcv = @ + get_seg_len(m)]
           Gap(n) == /\ \A i \in r .. (n - 1) : \E q \in e.ooo : q.seq = i /\ get_seg_len(q) > 0
                     /\ ~\E q \in e.ooo : q.seq = n /\ get_seg_len(q) > 0
           c == r + Cardinality(e.ooo)
           g == CHOOSE n \in r .. c : Gap(n)
<1>0. e.rcv \in Int /\ m.seq \in Int /\ r \in Int /\ e.ooo \subseteq Message /\ IsFiniteSet(e.ooo)
  <2>1. e.rcv \in Int /\ get_seg_len(m) \in Int /\ m.seq \in Int
    BY SegLen DEF TcbType, Message
  <2>2. r \in Int
    BY ONLY <2>1
  <2> QED
    BY <2>1, <2>2 DEF TcbType
<1>1. CASE e.rcv = m.seq
  <2>1. f = check_segment_in_queue(a)
    BY <1>1, Zenon DEF check_segment
  <2>2. /\ a.rcv = r /\ a.ooo = e.ooo /\ a.dials = e.dials /\ a.isAPPClose = e.isAPPClose
        /\ a.tw = e.tw /\ a.up = e.up /\ a.out = e.out /\ DOMAIN a = DOMAIN NoSocket
    BY Fields DEF TcbType
  <2> HIDE DEF a, r
  <2>3. check_segment_in_queue(a) = [a EXCEPT !.rcv = g]
    BY <2>2 DEF check_segment_in_queue
  <2>4. g \in r .. c /\ Gap(g)
    <3>1. c \in Int /\ \E n \in r .. c : Gap(n)
      BY <1>0, FirstGap
    <3> HIDE DEF Gap, c
    <3> QED
      BY <3>1
  <2> HIDE DEF g
  <2>5. r <= g /\ g \in Int
    <3>1. c \in Int
      BY <1>0, FirstGap
    <3> HIDE DEF c
    <3> QED
      BY <1>0, <2>4, <3>1
  <2>6. /\ f.rcv = g /\ f.ooo = e.ooo /\ f.dials = e.dials /\ f.isAPPClose = e.isAPPClose
        /\ f.tw = e.tw /\ f.up = e.up /\ f.out = e.out
    BY <2>1, <2>2, <2>3, Fields
  <2> HIDE DEF f
  <2> QED
    BY <1>1, <2>4, <2>5, <2>6 DEF f, r
<1>2. CASE e.rcv # m.seq
  <2> DEFINE b == [e EXCEPT !.ooo = @ \cup {m}]
  <2>1. f = e \/ (f = b /\ ~(e.rcv > m.seq))
    BY <1>2, Zenon DEF check_segment
  <2>2. /\ b.ooo = e.ooo \cup {m} /\ b.dials = e.dials /\ b.isAPPClose = e.isAPPClose
        /\ b.tw = e.tw /\ b.up = e.up /\ b.out = e.out /\ b.rcv = e.rcv
    BY Fields DEF TcbType
  <2> HIDE DEF b, f
  <2>3. ~(e.rcv > m.seq) => m.seq > e.rcv
    BY <1>0, <1>2
  <2> QED
    BY <1>0, <1>2, <2>1, <2>2, <2>3 DEF f
<1> QED
  BY <1>1, <1>2

\* What the whole treatment of the text changes, f being what check_segment
\* leaves.
TextShape(d, e, m, f, X) ==
    LET passed == {q \in f.ooo : q.seq < f.rcv}
    IN  /\ Same(e, X)
        /\ X.dials = e.dials /\ X.isAPPClose = e.isAPPClose /\ X.tw = e.tw
        /\ X.rcv = f.rcv
        /\ Range(X.out) \subseteq Range(e.out) \cup {Seg(d, {"A"}, e.nxt, f.rcv, 0)}
        /\ IF e.rcv = m.seq
           THEN X.ooo = f.ooo \ passed /\ X.up = Ascending({m} \cup passed)
           ELSE X.ooo = f.ooo /\ X.up = e.up

\* Text has this shape.
LEMMA TextParts ==
    ASSUME NEW d \in Device, NEW e, TcbType(e), NEW m \in Message, NEW due
    PROVE  TextShape(d, e, m, check_segment(e, m), Text(d, e, m, due))
<1> DEFINE inorder == e.rcv = m.seq
           f == check_segment(e, m)
           g == IF inorder THEN NoteAck(f, due) ELSE f
           h == IF (inorder => send_ack_or_not(e, due)) /\ "F" \notin m.fl
                THEN send_ack(d, g, g.nxt, g.rcv) ELSE g
           X == Text(d, e, m, due)
           a == Seg(d, {"A"}, e.nxt, f.rcv, 0)
<1>1. X = IF inorder THEN send_to_application(h, m) ELSE h
  BY DEF Text
<1>2. Same(e, X)
  BY TextSame
<1>3. Same(e, f)
  BY CheckSame
<1>4. f.dials = e.dials /\ f.isAPPClose = e.isAPPClose /\ f.tw = e.tw /\ f.up = e.up /\ f.out = e.out
  BY CheckParts
<1> HIDE DEF X
<1> HIDE DEF f
<1>5. /\ TcbType(g) /\ g.nxt = e.nxt /\ g.rcv = f.rcv /\ g.ooo = f.ooo /\ g.up = f.up
      /\ g.out = f.out /\ g.dials = f.dials /\ g.isAPPClose = f.isAPPClose /\ g.tw = f.tw
  <2> DEFINE b == send_ack_or_not(f, due)
             n == [f EXCEPT !.ackedLast = b]
  <2>1. g = f \/ g = n
    BY Zenon DEF NoteAck
  <2> HIDE DEF b
  <2>2. TcbType(f) /\ f.nxt = e.nxt
    BY <1>3 DEF Same, Core
  <2>3. /\ TcbType(n) /\ n.nxt = f.nxt /\ n.rcv = f.rcv /\ n.ooo = f.ooo /\ n.up = f.up
        /\ n.out = f.out /\ n.dials = f.dials /\ n.isAPPClose = f.isAPPClose /\ n.tw = f.tw
    BY <2>2, Fields DEF TcbType
  <2> HIDE DEF n, g
  <2> QED
    BY <2>1, <2>2, <2>3
<1> HIDE DEF g
<1>6. /\ TcbType(h) /\ h.rcv = g.rcv /\ h.ooo = g.ooo /\ h.up = g.up
      /\ Range(h.out) \subseteq Range(g.out) \cup {a}
      /\ h.dials = g.dials /\ h.isAPPClose = g.isAPPClose /\ h.tw = g.tw
  <2> DEFINE s == send_ack(d, g, g.nxt, g.rcv)
  <2>1. Sends(g, s, {Seg(d, {"A"}, g.nxt, g.rcv, 0)})
    <3>1. g.nxt \in Int /\ g.rcv \in Int
      BY <1>5 DEF TcbType
    <3> QED
      BY <1>5, <3>1, ControlSends
  <2>2. h = s \/ h = g
    BY Zenon
  <2>3. Seg(d, {"A"}, g.nxt, g.rcv, 0) = a
    BY <1>5
  <2> HIDE DEF h, s, a
  <2>4. TcbType(s) /\ Rest(s) = Rest(g) /\ Range(s.out) \subseteq Range(g.out) \cup {a}
    BY <2>1, <2>3 DEF Sends, Same
  <2> QED
    BY <1>5, <2>2, <2>4 DEF Rest
<1> HIDE DEF h
<1> DEFINE passed == {q \in h.ooo : q.seq < h.rcv}
           v == [h EXCEPT !.ooo = @ \ passed, !.up = Ascending({m} \cup passed)]
<1>7. send_to_application(h, m) = v
  BY Zenon DEF send_to_application
<1>8. passed = {q \in f.ooo : q.seq < f.rcv}
  BY <1>5, <1>6
<1> HIDE DEF passed
<1>9. /\ v.rcv = h.rcv /\ v.out = h.out /\ v.dials = h.dials /\ v.isAPPClose = h.isAPPClose
      /\ v.tw = h.tw /\ v.ooo = h.ooo \ passed /\ v.up = Ascending({m} \cup passed)
  BY <1>6, Fields DEF TcbType
<1> HIDE DEF v, a
<1>10. /\ X.dials = e.dials /\ X.isAPPClose = e.isAPPClose /\ X.tw = e.tw
       /\ X.rcv = f.rcv
       /\ Range(X.out) \subseteq Range(e.out) \cup {a}
       /\ IF inorder
          THEN X.ooo = f.ooo \ passed /\ X.up = Ascending({m} \cup passed)
          ELSE X.ooo = f.ooo /\ X.up = e.up
  <2>1. CASE inorder
    <3>1. X = v
      BY <1>1, <1>7, <2>1
    <3> QED
      BY <1>4, <1>5, <1>6, <1>9, <2>1, <3>1
  <2>2. CASE ~inorder
    <3>1. X = h
      BY <1>1, <2>2
    <3> QED
      BY <1>4, <1>5, <1>6, <2>2, <3>1
  <2> QED
    BY <2>1, <2>2
<1> QED
  BY <1>2, <1>8, <1>10 DEF TextShape, X, f, a

\* The segments kept out of order, when the first D packets were delivered and
\* the first F were sent.
Waits(Q, D, F) ==
    \A q \in Q : get_seg_len(q) > 0 => q.pkt \in (D + 2)..F /\ q = Data(q.pkt)

\* The receiver of packets 1..D gets packet p: it hands up as many as follow
\* each other, and acknowledges what it has.
LEMMA TextRun ==
    ASSUME NEW d \in Device, NEW e, TcbType(e), NEW D \in Nat, NEW F \in Nat, D <= F,
           e.rcv = D + 2, e.up = <<>>, Waits(e.ooo, D, F), NEW p \in 1..F, NEW due
    PROVE  LET X == Text(d, e, Data(p), due)
           IN  \E k \in 0..(F - D) :
                 /\ Same(e, X)
                 /\ X.dials = e.dials /\ X.isAPPClose = e.isAPPClose /\ X.tw = e.tw
                 /\ X.rcv = (D + k) + 2
                 /\ X.up = [i \in 1..k |-> D + i]
                 /\ Waits(X.ooo, D + k, F)
                 /\ Range(X.out) \subseteq Range(e.out) \cup {Seg(d, {"A"}, e.nxt, (D + k) + 2, 0)}
<1> DEFINE m == Data(p)
           f == check_segment(e, m)
           passed == {q \in f.ooo : q.seq < f.rcv}
           X == Text(d, e, m, due)
<1>1. /\ m \in Message /\ m.seq = p + 1 /\ m.pkt = p /\ get_seg_len(m) = 1
      /\ p \in Nat \ {0} /\ m = Data(p)
  BY DataSegment
<1> HIDE DEF m
<1>2. /\ f.rcv \in Int
      /\ IF e.rcv = m.seq
         THEN /\ f.ooo = e.ooo /\ e.rcv + get_seg_len(m) <= f.rcv
              /\ \A i \in (e.rcv + get_seg_len(m)) .. (f.rcv - 1) :
                    \E q \in e.ooo : q.seq = i /\ get_seg_len(q) > 0
              /\ ~\E q \in e.ooo : q.seq = f.rcv /\ get_seg_len(q) > 0
         ELSE /\ f.rcv = e.rcv
              /\ \/ f.ooo = e.ooo
                 \/ m.seq > e.rcv /\ f.ooo = e.ooo \cup {m}
  BY <1>1, CheckParts
<1>30. TextShape(d, e, m, f, X)
  BY <1>1, TextParts
<1> HIDE DEF X, f
<1>3. /\ Same(e, X)
      /\ X.dials = e.dials /\ X.isAPPClose = e.isAPPClose /\ X.tw = e.tw
      /\ X.rcv = f.rcv
      /\ Range(X.out) \subseteq Range(e.out) \cup {Seg(d, {"A"}, e.nxt, f.rcv, 0)}
      /\ IF e.rcv = m.seq
         THEN X.ooo = f.ooo \ passed /\ X.up = Ascending({m} \cup passed)
         ELSE X.ooo = f.ooo /\ X.up = e.up
  BY <1>30 DEF TextShape
<1>4. ASSUME NEW q \in e.ooo, get_seg_len(q) > 0
      PROVE  /\ q.pkt \in (D + 2)..F /\ q = Data(q.pkt) /\ q.seq = q.pkt + 1
             /\ q.pkt \in Nat \ {0}
  <2>1. q.pkt \in (D + 2)..F /\ q = Data(q.pkt)
    BY <1>4 DEF Waits
  <2>2. q.pkt \in Nat \ {0}
    BY <2>1
  <2> QED
    BY <2>1, <2>2, DataSegment
<1>5. ASSUME NEW q PROVE q.pkt > 0 => get_seg_len(q) > 0
  BY DEF get_seg_len
<1> DEFINE Goal(k) ==
             /\ Same(e, X)
             /\ X.dials = e.dials /\ X.isAPPClose = e.isAPPClose /\ X.tw = e.tw
             /\ X.rcv = (D + k) + 2
             /\ X.up = [i \in 1..k |-> D + i]
             /\ Waits(X.ooo, D + k, F)
             /\ Range(X.out) \subseteq Range(e.out) \cup {Seg(d, {"A"}, e.nxt, (D + k) + 2, 0)}
<1>6. CASE e.rcv = m.seq
  <2> DEFINE k == f.rcv - (D + 2)
  <2>1. /\ p = D + 1 /\ f.ooo = e.ooo /\ k \in Nat \ {0} /\ f.rcv = (D + k) + 2
        /\ e.rcv + get_seg_len(m) = D + 3
    <3>1. p \in Int /\ f.rcv \in Int /\ D + 2 = p + 1 /\ (D + 2) + 1 <= f.rcv
      BY <1>1, <1>2, <1>6
    <3>2. p = D + 1 /\ k \in Nat \ {0} /\ f.rcv = (D + k) + 2 /\ (D + 2) + 1 = D + 3
      BY ONLY <3>1, D \in Nat
    <3> QED
      BY <1>1, <1>2, <1>6, <3>2
  <2> HIDE DEF k
  <2>2. ASSUME NEW i \in 2..k PROVE Data(D + i) \in e.ooo /\ D + i <= F /\ D + i \in Nat
    <3>1. (D + i) + 1 \in (D + 3) .. (f.rcv - 1)
      BY <2>1
    <3>2. PICK q \in e.ooo : q.seq = (D + i) + 1 /\ get_seg_len(q) > 0
      BY <1>2, <1>6, <2>1, <3>1
    <3>3. q.pkt = D + i
      <4>1. q.pkt \in Int /\ q.pkt + 1 = (D + i) + 1
        BY <1>4, <3>2
      <4> QED
        BY <4>1
    <3> QED
      BY <1>4, <3>2, <3>3
  <2>3. k \in 0..(F - D)
    <3>1. CASE k = 1
      BY <2>1, <3>1
    <3>2. CASE k # 1
      <4>1. k \in 2..k
        BY <2>1, <3>2
      <4>2. D + k <= F
        BY <2>2, <4>1
      <4> QED
        BY <2>1, <4>2
    <3> QED
      BY <3>1, <3>2
  <2>4. Data((D + k) + 1) \notin e.ooo
    <3>1. (D + k) + 1 \in Nat \ {0} /\ ((D + k) + 1) + 1 = f.rcv
      BY <2>1
    <3> DEFINE z == (D + k) + 1
    <3> HIDE DEF z
    <3>2. Data(z).seq = f.rcv /\ get_seg_len(Data(z)) > 0
      <4>1. z \in Nat \ {0} /\ z + 1 = f.rcv
        BY <3>1 DEF z
      <4>2. Data(z).seq = z + 1 /\ get_seg_len(Data(z)) = 1
        BY <4>1, DataSegment
      <4> QED
        BY <4>1, <4>2
    <3> QED
      BY <1>2, <1>6, <3>2 DEF z
  <2>5. {q \in {m} \cup passed : q.pkt > 0} = {Data(D + i) : i \in 1..k}
    <3>1. ASSUME NEW q \in {m} \cup passed, q.pkt > 0 PROVE q \in {Data(D + i) : i \in 1..k}
      <4>1. CASE q = m
        <5>1. 1 \in 1..k /\ q = Data(D + 1)
          BY <1>1, <2>1, <4>1
        <5> QED
          BY <5>1
      <4>2. CASE q # m
        <5>1. q \in e.ooo /\ q.seq < f.rcv /\ get_seg_len(q) > 0
          BY <1>5, <2>1, <3>1, <4>2
        <5>2. q.pkt \in (D + 2)..F /\ q = Data(q.pkt) /\ q.seq = q.pkt + 1
          BY <1>4, <5>1
        <5>3. q.pkt - D \in 1..k /\ D + (q.pkt - D) = q.pkt
          BY <2>1, <5>1, <5>2
        <5> QED
          BY <5>2, <5>3
      <4> QED
        BY <4>1, <4>2
    <3>2. ASSUME NEW i \in 1..k PROVE Data(D + i) \in {m} \cup passed /\ Data(D + i).pkt > 0
      <4>0. D + i \in Nat \ {0}
        OBVIOUS
      <4>1. Data(D + i).pkt > 0 /\ Data(D + i).seq = (D + i) + 1
        <5> DEFINE z == D + i
        <5>1. z \in Nat \ {0} /\ z > 0
          BY <4>0
        <5> HIDE DEF z
        <5>2. Data(z).pkt = z /\ Data(z).seq = z + 1
          BY <5>1, DataSegment
        <5> QED
          BY <5>1, <5>2 DEF z
      <4>2. CASE i = 1
        BY <1>1, <2>1, <4>1, <4>2
      <4>3. CASE i # 1
        <5>1. i \in 2..k
          BY <4>3
        <5>2. Data(D + i) \in f.ooo
          BY <2>1, <2>2, <5>1
        <5>3. (D + i) + 1 < f.rcv
          BY <2>1
        <5> QED
          BY <4>1, <5>2, <5>3
      <4> QED
        BY <4>2, <4>3
    <3> DEFINE A == {m} \cup passed
               B == {Data(D + i) : i \in 1..k}
    <3>3. \A i \in 1..k : Data(D + i) \in A /\ Data(D + i).pkt > 0
      BY <3>2
    <3>4. \A q \in A : q.pkt > 0 => q \in B
      BY <3>1
    <3> HIDE DEF A
    <3> QED
      BY <3>3, <3>4 DEF A
  <2>6. X.up = [i \in 1..k |-> D + i]
    <3>1. Ascending({m} \cup passed) = [i \in 1..k |-> D + i]
      <4> DEFINE A == {m} \cup passed
      <4>1. {q \in A : q.pkt > 0} = {Data(D + i) : i \in 1..k} /\ k \in Nat
        BY <2>1, <2>5
      <4> HIDE DEF A
      <4>2. Ascending(A) = [i \in 1..k |-> D + i]
        BY ONLY <4>1, D \in Nat, AscendingRun, Zenon
      <4> QED
        BY <4>2 DEF A
    <3> QED
      BY <1>3, <1>6, <3>1
  <2>7. Waits(X.ooo, D + k, F)
    <3> SUFFICES ASSUME NEW q \in X.ooo, get_seg_len(q) > 0
                 PROVE  q.pkt \in ((D + k) + 2)..F /\ q = Data(q.pkt)
      BY DEF Waits
    <3>1. q \in e.ooo /\ q \notin passed
      BY <1>3, <1>6, <2>1
    <3>2. q.pkt \in (D + 2)..F /\ q = Data(q.pkt) /\ q.seq = q.pkt + 1
      BY <1>4, <3>1
    <3>3. ~(q.seq < f.rcv)
      BY <2>1, <3>1
    <3>4. q.pkt # (D + k) + 1
      BY <2>4, <3>1, <3>2
    <3>5. q.pkt \in ((D + k) + 2)..F
      BY <2>1, <3>2, <3>3, <3>4
    <3> QED
      BY <3>2, <3>5
  <2>8. Goal(k)
    BY <1>3, <2>1, <2>6, <2>7
  <2> HIDE DEF Goal
  <2>9. \E n \in 0..(F - D) : Goal(n)
    BY <2>3, <2>8
  <2> QED
    BY <2>9 DEF Goal, X, m
<1>7. CASE e.rcv # m.seq
  <2>1. f.rcv = D + 2 /\ X.ooo = f.ooo /\ X.up = e.up
    BY <1>2, <1>3, <1>7
  <2>2. (D + 0) + 2 = D + 2 /\ D + 0 = D /\ 0 \in 0..(F - D)
    OBVIOUS
  <2>3. [i \in 1..0 |-> D + i] = <<>>
    OBVIOUS
  <2>4. Waits(f.ooo, D, F)
    <3>1. CASE f.ooo = e.ooo
      BY <3>1
    <3>2. CASE m.seq > e.rcv /\ f.ooo = e.ooo \cup {m}
      <4>1. m.pkt \in (D + 2)..F /\ m = Data(m.pkt)
        <5>1. p + 1 > D + 2 /\ p \in 1..F
          BY <1>1, <3>2
        <5>2. p \in (D + 2)..F
          BY <5>1
        <5> QED
          BY <1>1, <5>2
      <4> QED
        BY <3>2, <4>1 DEF Waits
    <3> QED
      BY <1>2, <1>7, <3>1, <3>2
  <2>5. Goal(0)
    BY <1>3, <2>1, <2>2, <2>3, <2>4
  <2> HIDE DEF Goal
  <2>6. \E n \in 0..(F - D) : Goal(n)
    BY <2>2, <2>5
  <2> QED
    BY <2>6 DEF Goal, X, m
<1> QED
  BY <1>6, <1>7

\* Without new data nothing is handed up, and RCV.NXT stays.
LEMMA TextNothing ==
    ASSUME NEW d \in Device, NEW e, TcbType(e), NEW m \in Message, NEW due,
           e.up = <<>>, \A q \in e.ooo : get_seg_len(q) = 0, "S" \notin m.fl,
           m.pkt > 0 => m.seq < e.rcv
    PROVE  LET X == Text(d, e, m, due)
           IN  /\ Same(e, X)
               /\ X.dials = e.dials /\ X.isAPPClose = e.isAPPClose /\ X.tw = e.tw
               /\ X.rcv = e.rcv /\ X.up = <<>> /\ \A q \in X.ooo : get_seg_len(q) = 0
               /\ Range(X.out) \subseteq Range(e.out) \cup Controls(d)
<1> DEFINE f == check_segment(e, m)
           passed == {q \in f.ooo : q.seq < f.rcv}
           X == Text(d, e, m, due)
           a == Seg(d, {"A"}, e.nxt, f.rcv, 0)
<1>1. /\ f.rcv \in Int
      /\ IF e.rcv = m.seq
         THEN /\ f.ooo = e.ooo /\ e.rcv + get_seg_len(m) <= f.rcv
              /\ \A i \in (e.rcv + get_seg_len(m)) .. (f.rcv - 1) :
                    \E q \in e.ooo : q.seq = i /\ get_seg_len(q) > 0
              /\ ~\E q \in e.ooo : q.seq = f.rcv /\ get_seg_len(q) > 0
         ELSE /\ f.rcv = e.rcv
              /\ \/ f.ooo = e.ooo
                 \/ m.seq > e.rcv /\ f.ooo = e.ooo \cup {m}
  BY CheckParts
<1>20. TextShape(d, e, m, f, X)
  BY TextParts
<1> HIDE DEF X, f
<1>2. /\ Same(e, X)
      /\ X.dials = e.dials /\ X.isAPPClose = e.isAPPClose /\ X.tw = e.tw
      /\ X.rcv = f.rcv
      /\ Range(X.out) \subseteq Range(e.out) \cup {a}
      /\ IF e.rcv = m.seq
         THEN X.ooo = f.ooo \ passed /\ X.up = Ascending({m} \cup passed)
         ELSE X.ooo = f.ooo /\ X.up = e.up
  BY <1>20 DEF TextShape, a
<1>3. a \in Controls(d)
  <2>1. e.nxt \in Int /\ {"A"} \in SUBSET {"S", "A", "F", "R"} /\ 0 \in Nat
    BY DEF TcbType
  <2>2. a \in Message
    BY <1>1, <2>1, SegMessage
  <2> QED
    BY <2>2 DEF Controls, Seg
<1> HIDE DEF a
<1>4. e.rcv \in Int /\ m.seq \in Int /\ m.pkt \in Nat
  BY DEF TcbType, Message
<1>5. ASSUME NEW q \in Message, get_seg_len(q) = 0 PROVE ~(q.pkt > 0)
  BY <1>5 DEF get_seg_len
<1>6. e.ooo \subseteq Message
  BY DEF TcbType
<1>7. CASE e.rcv = m.seq
  <2>1. ~(m.pkt > 0) /\ get_seg_len(m) = 0
    BY <1>4, <1>7 DEF get_seg_len
  <2>2. f.rcv = e.rcv
    <3> SUFFICES ASSUME f.rcv # e.rcv PROVE FALSE
      OBVIOUS
    <3>1. e.rcv \in (e.rcv + get_seg_len(m)) .. (f.rcv - 1)
      BY <1>1, <1>4, <1>7, <2>1
    <3> QED
      BY <1>1, <1>7, <3>1
  <2>3. {q \in {m} \cup passed : q.pkt > 0} = {Data(0 + i) : i \in 1..0}
    <3>1. \A q \in {m} \cup passed : ~(q.pkt > 0)
      BY <1>1, <1>5, <1>6, <1>7, <2>1
    <3>2. {Data(0 + i) : i \in 1..0} = {}
      OBVIOUS
    <3> HIDE DEF passed
    <3> QED
      BY <3>1, <3>2
  <2>4. Ascending({m} \cup passed) = <<>>
    <3> DEFINE A == {m} \cup passed
    <3>1. {q \in A : q.pkt > 0} = {Data(0 + i) : i \in 1..0} /\ 0 \in Nat
      BY <2>3
    <3> HIDE DEF A
    <3>2. Ascending(A) = [i \in 1..0 |-> 0 + i]
      BY <3>1, AscendingRun
    <3>3. [i \in 1..0 |-> 0 + i] = <<>>
      OBVIOUS
    <3> QED
      BY <3>2, <3>3 DEF A
  <2>5. \A q \in X.ooo : get_seg_len(q) = 0
    BY <1>1, <1>2, <1>7
  <2> QED
    BY <1>2, <1>3, <1>7, <2>2, <2>4, <2>5 DEF X
<1>8. CASE e.rcv # m.seq
  <2>1. \A q \in f.ooo : get_seg_len(q) = 0
    <3>1. CASE f.ooo = e.ooo
      BY <3>1
    <3>2. CASE m.seq > e.rcv /\ f.ooo = e.ooo \cup {m}
      <4>1. ~(m.pkt > 0)
        BY <1>4, <3>2
      <4>2. get_seg_len(m) = 0
        BY <4>1 DEF get_seg_len
      <4> QED
        BY <3>2, <4>2
    <3> QED
      BY <1>1, <1>8, <3>1, <3>2
  <2> QED
    BY <1>1, <1>2, <1>3, <1>8, <2>1 DEF X
<1> QED
  BY <1>7, <1>8

-----------------------------------------------------------------------------
(* When every packet was delivered *)

Reading == {"SynRcvd", "Estab", "FinWait1", "FinWait2"}

\* No new segment is made or handed up, and RCV.NXT stays while the socket
\* reads (unless it is closing itself): copies, acknowledgements, FINs and
\* resets only.
Mild(d, e, f) ==
    /\ TcbType(f)
    /\ f.avail = e.avail /\ f.fetched = e.fetched /\ f.dials = e.dials
    /\ f.rq \subseteq e.rq
    /\ Range(f.out) \subseteq Range(e.out) \cup e.rq \cup Controls(d)
    /\ e.up = <<>> => f.up = <<>>
    /\ (\A q \in e.ooo : get_seg_len(q) = 0) => \A q \in f.ooo : get_seg_len(q) = 0
    /\ e.st \notin Opening => f.st \notin Opening
    /\ f.isAPPClose => e.isAPPClose
    /\ ~e.isAPPClose /\ f.st \in Reading => e.st \in Reading /\ f.rcv = e.rcv

\* One after another.
LEMMA MildTrans ==
    ASSUME NEW d, NEW e, NEW f, NEW g, Mild(d, e, f), Mild(d, f, g)
    PROVE  Mild(d, e, g)
<1>1. /\ TcbType(g) /\ g.avail = e.avail /\ g.fetched = e.fetched /\ g.dials = e.dials
      /\ g.rq \subseteq e.rq
      /\ Range(g.out) \subseteq Range(e.out) \cup e.rq \cup Controls(d)
  BY DEF Mild
<1>2. /\ e.up = <<>> => g.up = <<>>
      /\ (\A q \in e.ooo : get_seg_len(q) = 0) => \A q \in g.ooo : get_seg_len(q) = 0
      /\ e.st \notin Opening => g.st \notin Opening
      /\ g.isAPPClose => e.isAPPClose
      /\ ~e.isAPPClose /\ g.st \in Reading => e.st \in Reading /\ g.rcv = e.rcv
  BY DEF Mild
<1> QED
  BY <1>1, <1>2 DEF Mild

\* Changes of single fields, and of the state to one that reads no more than
\* the old one.
LEMMA MildField ==
    ASSUME NEW d, NEW e, TcbType(e), NEW a, a \notin Opening, a \in Reading => e.st \in Reading,
           NEW n
    PROVE  /\ Mild(d, e, e) /\ Mild(d, e, tcp_change_state(e, a))
           /\ Mild(d, e, [e EXCEPT !.crash = TRUE]) /\ Mild(d, e, [e EXCEPT !.twAgain = n])
           /\ Mild(d, e, [e EXCEPT !.st = a, !.cancel = TRUE]) /\ Mild(d, e, start_timewait_timer(e))
           /\ Mild(d, e, [e EXCEPT !.tw = n])
<1>1. e.isAPPClose \in BOOLEAN
  BY DEF TcbType
<1>2. ASSUME NEW f, TcbType(f), f.avail = e.avail, f.fetched = e.fetched, f.dials = e.dials,
             f.rq = e.rq, f.out = e.out, f.up = e.up, f.ooo = e.ooo, f.rcv = e.rcv,
             f.isAPPClose = e.isAPPClose, f.st = e.st \/ f.st = a
      PROVE  Mild(d, e, f)
  BY <1>2 DEF Mild
<1>3. Mild(d, e, e)
  BY <1>2
<1>4. Mild(d, e, tcp_change_state(e, a))
  <2> DEFINE f == tcp_change_state(e, a)
  <2>1. /\ TcbType(f) /\ f.avail = e.avail /\ f.fetched = e.fetched /\ f.dials = e.dials
        /\ f.rq = e.rq /\ f.out = e.out /\ f.up = e.up /\ f.ooo = e.ooo /\ f.rcv = e.rcv
        /\ f.isAPPClose = e.isAPPClose /\ f.st = a
    BY Fields DEF tcp_change_state, TcbType
  <2> HIDE DEF f
  <2> QED
    BY <1>2, <2>1 DEF f
<1>5. Mild(d, e, [e EXCEPT !.crash = TRUE])
  <2> DEFINE f == [e EXCEPT !.crash = TRUE]
  <2>1. /\ TcbType(f) /\ f.avail = e.avail /\ f.fetched = e.fetched /\ f.dials = e.dials
        /\ f.rq = e.rq /\ f.out = e.out /\ f.up = e.up /\ f.ooo = e.ooo /\ f.rcv = e.rcv
        /\ f.isAPPClose = e.isAPPClose /\ f.st = e.st
    BY Fields DEF TcbType
  <2> HIDE DEF f
  <2> QED
    BY <1>2, <2>1 DEF f
<1>6. Mild(d, e, [e EXCEPT !.twAgain = n])
  <2> DEFINE f == [e EXCEPT !.twAgain = n]
  <2>1. /\ TcbType(f) /\ f.avail = e.avail /\ f.fetched = e.fetched /\ f.dials = e.dials
        /\ f.rq = e.rq /\ f.out = e.out /\ f.up = e.up /\ f.ooo = e.ooo /\ f.rcv = e.rcv
        /\ f.isAPPClose = e.isAPPClose /\ f.st = e.st
    BY Fields DEF TcbType
  <2> HIDE DEF f
  <2> QED
    BY <1>2, <2>1 DEF f
<1>7. Mild(d, e, [e EXCEPT !.st = a, !.cancel = TRUE])
  <2> DEFINE f == [e EXCEPT !.st = a, !.cancel = TRUE]
  <2>1. /\ TcbType(f) /\ f.avail = e.avail /\ f.fetched = e.fetched /\ f.dials = e.dials
        /\ f.rq = e.rq /\ f.out = e.out /\ f.up = e.up /\ f.ooo = e.ooo /\ f.rcv = e.rcv
        /\ f.isAPPClose = e.isAPPClose /\ f.st = a
    BY Fields DEF TcbType
  <2> HIDE DEF f
  <2> QED
    BY <1>2, <2>1 DEF f
<1>8. Mild(d, e, start_timewait_timer(e))
  <2> DEFINE f == start_timewait_timer(e)
  <2>1. /\ TcbType(f) /\ f.avail = e.avail /\ f.fetched = e.fetched /\ f.dials = e.dials
        /\ f.rq = e.rq /\ f.out = e.out /\ f.up = e.up /\ f.ooo = e.ooo /\ f.rcv = e.rcv
        /\ f.isAPPClose = e.isAPPClose /\ f.st = e.st
    BY Fields DEF start_timewait_timer, TcbType
  <2> HIDE DEF f
  <2> QED
    BY <1>2, <2>1 DEF f
<1>9. Mild(d, e, [e EXCEPT !.tw = n])
  <2> DEFINE f == [e EXCEPT !.tw = n]
  <2>1. /\ TcbType(f) /\ f.avail = e.avail /\ f.fetched = e.fetched /\ f.dials = e.dials
        /\ f.rq = e.rq /\ f.out = e.out /\ f.up = e.up /\ f.ooo = e.ooo /\ f.rcv = e.rcv
        /\ f.isAPPClose = e.isAPPClose /\ f.st = e.st
    BY Fields DEF TcbType
  <2> HIDE DEF f
  <2> QED
    BY <1>2, <2>1 DEF f
<1> QED
  BY <1>3, <1>4, <1>5, <1>6, <1>7, <1>8, <1>9

\* Sending a copy from the queue or a segment without text.
LEMMA MildSends ==
    ASSUME NEW d, NEW e, NEW f, NEW M, Sends(e, f, M), M \subseteq e.rq \cup Controls(d)
    PROVE  Mild(d, e, f)
<1>1. /\ TcbType(f) /\ f.avail = e.avail /\ f.fetched = e.fetched /\ f.dials = e.dials
      /\ f.rq = e.rq /\ f.up = e.up /\ f.ooo = e.ooo /\ f.rcv = e.rcv /\ f.st = e.st
      /\ f.isAPPClose = e.isAPPClose /\ Range(f.out) \subseteq Range(e.out) \cup M
  BY DEF Sends, Same, Core, Rest
<1> QED
  BY <1>1 DEF Mild

\* Segments without text.
LEMMA MildControl ==
    ASSUME NEW d \in Device, NEW e, TcbType(e), NEW seq \in Int, NEW ack \in Int,
           NEW m \in Message, NEW c
    PROVE  /\ Mild(d, e, send_ack(d, e, seq, ack)) /\ Mild(d, e, send_fin_ack(d, e, seq, ack))
           /\ Mild(d, e, send_fin(d, e)) /\ Mild(d, e, send_rst(d, e, m, c))
<1>1. /\ Sends(e, send_ack(d, e, seq, ack), Controls(d))
      /\ Sends(e, send_fin_ack(d, e, seq, ack), Controls(d))
      /\ Sends(e, send_fin(d, e), Controls(d)) /\ Sends(e, send_rst(d, e, m, c), Controls(d))
  BY ControlSends
<1>2. Controls(d) \subseteq e.rq \cup Controls(d)
  OBVIOUS
<1> QED
  BY <1>1, <1>2, MildSends

\* Closing.
LEMMA MildClose ==
    ASSUME NEW d, NEW e, TcbType(e)
    PROVE  Mild(d, e, tcp_close_socket(e)) /\ Mild(d, e, delete_tcb(e))
<1>1. ASSUME NEW f, f \in {tcp_close_socket(e), delete_tcb(e)} PROVE Mild(d, e, f)
  <2>1. /\ TcbType(f) /\ f.st \in {"None", "NoTcb"} /\ f.rq = {} /\ f.ooo = {}
        /\ f.avail = e.avail /\ f.fetched = e.fetched /\ f.dials = e.dials /\ f.up = e.up
        /\ f.out = e.out /\ f.isAPPClose \in {e.isAPPClose, FALSE}
    BY <1>1, ClosedShape
  <2>2. f.st \notin Opening /\ f.st \notin Reading
    BY <2>1 DEF Opening, Reading
  <2> QED
    BY <2>1, <2>2 DEF Mild
<1> QED
  BY <1>1

\* send_segment with an empty interface may close.
LEMMA MildSegments ==
    ASSUME NEW d \in Device, NEW e, TcbType(e), e.avail = e.fetched
    PROVE  Mild(d, e, send_segment(d, e)) /\ send_segment(d, e).st \in {e.st, "FinWait1"}
<1> DEFINE X == send_segment(d, e)
           S(n) == {Segment(d, e, i) : i \in 1..n}
           Shape(n) ==
                 /\ TcbType(X)
                 /\ X.nxt = e.nxt + n /\ X.fetched = e.fetched + n /\ X.avail = e.avail
                 /\ X.rq = e.rq \cup S(n)
                 /\ Range(X.out) \subseteq Range(e.out) \cup S(n) \cup Controls(d)
                 /\ X.una = e.una /\ X.iss = e.iss /\ X.rcv = e.rcv /\ X.dials = e.dials
                 /\ X.ooo = e.ooo /\ X.up = e.up /\ X.tw = e.tw
                 /\ X.isAPPClose = (e.isAPPClose \/ (n > 0 /\ e.fetched + n = Packets))
                 /\ \/ X.st = e.st /\ Range(X.out) \subseteq Range(e.out) \cup S(n)
                    \/ X.st = "FinWait1" /\ X.isAPPClose /\ X.rq = {}
<1>1. PICK n \in 0..(e.avail - e.fetched) : Shape(n)
  BY Segments
<1>2. n = 0 /\ S(0) = {} /\ e.fetched + 0 = e.fetched /\ e.isAPPClose \in BOOLEAN
  BY DEF TcbType
<1>3. Shape(0)
  BY <1>1, <1>2
<1> HIDE DEF X, S
<1>4. X.isAPPClose = e.isAPPClose
  BY <1>2, <1>3
<1>5. X.st = e.st \/ (X.st = "FinWait1" /\ e.isAPPClose)
  BY <1>3, <1>4
<1>6. "FinWait1" \notin Opening
  BY DEF Opening
<1> QED
  BY <1>2, <1>3, <1>4, <1>5, <1>6 DEF Mild, X

\* An acknowledgement, and send_segment after a new one.
LEMMA MildAck ==
    ASSUME NEW d \in Device, NEW e, TcbType(e), e.avail = e.fetched, NEW m \in Message, NEW due
    PROVE  /\ Mild(d, e, AckThenSend(d, e, m, due))
           /\ AckThenSend(d, e, m, due).st \in {e.st, "FinWait1"}
<1> DEFINE X == AckThenSend(d, e, m, due)
<1>0. ASSUME NEW M, Sends(e, X, M) PROVE X.st = e.st
  BY <1>0 DEF Sends, Same, Core
<1>1. CASE Sends(e, X, e.rq)
  BY <1>0, <1>1, MildSends
<1>2. CASE Sends(e, X, e.rq \cup Controls(d))
  BY <1>0, <1>2, MildSends
<1>3. CASE \E g : /\ X = send_segment(d, g) /\ TcbType(g)
                  /\ g.una = m.ack /\ g.rq = delete_segment_from_queue(e.rq, m.ack)
                  /\ g.st = e.st /\ g.nxt = e.nxt /\ g.iss = e.iss
                  /\ g.avail = e.avail /\ g.fetched = e.fetched /\ Rest(g) = Rest(e)
                  /\ Range(g.out) \subseteq Range(e.out) \cup e.rq
  <2>1. PICK g : /\ X = send_segment(d, g) /\ TcbType(g)
                 /\ g.rq = delete_segment_from_queue(e.rq, m.ack) /\ g.st = e.st
                 /\ g.avail = e.avail /\ g.fetched = e.fetched /\ Rest(g) = Rest(e)
                 /\ Range(g.out) \subseteq Range(e.out) \cup e.rq
    BY <1>3
  <2>2. g.rq \subseteq e.rq
    BY <2>1 DEF delete_segment_from_queue
  <2>3. Mild(d, e, g)
    BY <2>1, <2>2 DEF Mild, Rest
  <2>4. Mild(d, g, X) /\ X.st \in {g.st, "FinWait1"}
    BY <2>1, MildSegments
  <2> QED
    BY <2>1, <2>3, <2>4, MildTrans
<1>4. AckOutcome(d, e, m, X)
  BY AckShape
<1> HIDE DEF X
<1> QED
  BY <1>1, <1>2, <1>3, <1>4 DEF AckOutcome, X

\* An acknowledgement in any state of a connection.
LEMMA MildAckPacket ==
    ASSUME NEW d \in Device, NEW e, TcbType(e), e.avail = e.fetched, e.st \notin Opening,
           NEW m \in Message, NEW due
    PROVE  Mild(d, e, process_ack_packet(d, e, m, due))
<1> DEFINE X == process_ack_packet(d, e, m, due)
           f == AckThenSend(d, e, m, due)
           v == start_timewait_timer(f)
           a == send_fin_ack(d, e, m.seq, m.ack)
           w == start_timewait_timer(a)
<1>0. m.seq \in Int /\ m.ack \in Int /\ e.st # "SynRcvd"
  BY DEF Message, Opening
<1>1. \/ X \in {f, tcp_change_state(v, "TimeWait"), delete_tcb(e), [w EXCEPT !.twAgain = TRUE]}
      \/ e.st = "FinWait1" /\ X = tcp_change_state(f, "FinWait2")
  BY <1>0, Zenon DEF process_ack_packet
<1>2. Mild(d, e, f) /\ f.st \in {e.st, "FinWait1"}
  BY MildAck
<1>3. Mild(d, e, a) /\ Mild(d, e, delete_tcb(e))
  BY <1>0, MildControl, MildClose
<1> HIDE DEF X, f, a
<1>4. "TimeWait" \notin Opening /\ "TimeWait" \notin Reading /\ "FinWait2" \notin Opening
      /\ "FinWait1" \in Reading
  BY DEF Opening, Reading
<1>5. Mild(d, f, v) /\ Mild(d, a, w)
  <2>1. TcbType(f) /\ TcbType(a)
    BY <1>2, <1>3 DEF Mild
  <2> QED
    BY <1>4, <2>1, MildField
<1> HIDE DEF v, w
<1>6. Mild(d, v, tcp_change_state(v, "TimeWait")) /\ Mild(d, w, [w EXCEPT !.twAgain = TRUE])
  <2>1. TcbType(v) /\ TcbType(w)
    BY <1>5 DEF Mild
  <2> QED
    BY <1>4, <2>1, MildField
<1>7. Mild(d, e, v) /\ Mild(d, e, w)
  BY <1>2, <1>3, <1>5, MildTrans
<1>8. Mild(d, e, tcp_change_state(v, "TimeWait")) /\ Mild(d, e, [w EXCEPT !.twAgain = TRUE])
  BY <1>6, <1>7, MildTrans
<1>9. ASSUME e.st = "FinWait1" PROVE Mild(d, e, tcp_change_state(f, "FinWait2"))
  <2>1. f.st = "FinWait1" /\ TcbType(f)
    BY <1>2, <1>9 DEF Mild
  <2>2. Mild(d, f, tcp_change_state(f, "FinWait2"))
    BY <1>4, <2>1, MildField
  <2> QED
    BY <1>2, <2>2, MildTrans
<1> QED
  BY <1>1, <1>2, <1>3, <1>8, <1>9 DEF X

\* A FIN.
LEMMA MildFin ==
    ASSUME NEW d \in Device, NEW e, TcbType(e), NEW m \in Message
    PROVE  Mild(d, e, process_fin_packet(d, e, m))
<1> DEFINE X == process_fin_packet(d, e, m)
           a == send_fin_ack(d, e, e.nxt, e.rcv)
           b == send_fin(d, a)
           c == tcp_change_state(e, "Closing")
           z == tcp_change_state(e, "TimeWait")
           y == start_timewait_timer(z)
           w == start_timewait_timer(e)
<1>0. /\ "TimeWait" \notin Opening /\ "TimeWait" \notin Reading
      /\ "Closing" \notin Opening /\ "Closing" \notin Reading
      /\ "LastAck" \notin Opening /\ "LastAck" \notin Reading
      /\ e.nxt \in Int /\ e.rcv \in Int /\ m.seq + 1 \in Int /\ 0 \in Int
  BY DEF Opening, Reading, TcbType, Message
<1>1. X \in {[b EXCEPT !.st = "LastAck", !.cancel = TRUE], send_fin_ack(d, c, e.nxt, e.rcv),
             send_ack(d, y, e.nxt + 1, m.seq + 1), [w EXCEPT !.twAgain = TRUE], e}
  BY Zenon DEF process_fin_packet
<1>2. Mild(d, e, a) /\ Mild(d, e, c) /\ Mild(d, e, z) /\ Mild(d, e, w) /\ Mild(d, e, e)
  BY <1>0, MildField, MildControl
<1> HIDE DEF X, a, c, z, w
<1>3. Mild(d, a, b) /\ Mild(d, z, y)
  <2>1. TcbType(a) /\ TcbType(z)
    BY <1>2 DEF Mild
  <2> QED
    BY <1>0, <2>1, MildField, MildControl
<1> HIDE DEF b, y
<1>4. /\ Mild(d, b, [b EXCEPT !.st = "LastAck", !.cancel = TRUE])
      /\ Mild(d, c, send_fin_ack(d, c, e.nxt, e.rcv))
      /\ Mild(d, y, send_ack(d, y, e.nxt + 1, m.seq + 1))
      /\ Mild(d, w, [w EXCEPT !.twAgain = TRUE])
  <2>1. TcbType(b) /\ TcbType(c) /\ TcbType(y) /\ TcbType(w) /\ e.nxt + 1 \in Int
    BY <1>0, <1>2, <1>3 DEF Mild
  <2> QED
    BY <1>0, <2>1, MildField, MildControl
<1>5. Mild(d, e, b) /\ Mild(d, e, y)
  BY <1>2, <1>3, MildTrans
<1>6. /\ Mild(d, e, [b EXCEPT !.st = "LastAck", !.cancel = TRUE])
      /\ Mild(d, e, send_fin_ack(d, c, e.nxt, e.rcv))
      /\ Mild(d, e, send_ack(d, y, e.nxt + 1, m.seq + 1))
      /\ Mild(d, e, [w EXCEPT !.twAgain = TRUE])
  BY <1>2, <1>4, <1>5, MildTrans
<1> QED
  BY <1>1, <1>2, <1>6 DEF X

\* A segment without new data.
LEMMA MildText ==
    ASSUME NEW d \in Device, NEW e, TcbType(e), NEW m \in Message, NEW due,
           e.up = <<>>, \A q \in e.ooo : get_seg_len(q) = 0, "S" \notin m.fl,
           m.pkt > 0 => m.seq < e.rcv
    PROVE  Mild(d, e, Text(d, e, m, due))
<1> DEFINE X == Text(d, e, m, due)
<1>1. /\ Same(e, X)
      /\ X.dials = e.dials /\ X.isAPPClose = e.isAPPClose /\ X.tw = e.tw
      /\ X.rcv = e.rcv /\ X.up = <<>> /\ \A q \in X.ooo : get_seg_len(q) = 0
      /\ Range(X.out) \subseteq Range(e.out) \cup Controls(d)
  BY TextNothing
<1> HIDE DEF X
<1>2. TcbType(X) /\ X.avail = e.avail /\ X.fetched = e.fetched /\ X.rq = e.rq /\ X.st = e.st
  BY <1>1 DEF Same, Core
<1> QED
  BY <1>1, <1>2 DEF Mild, X

\* A packet that brings nothing new, in any state, leaves the socket so, unless
\* it opens one.
LEMMA MildNetwork ==
    ASSUME NEW d \in Device, NEW e, TcbType(e), e.avail = e.fetched, e.st \notin Opening,
           e.up = <<>>, NEW m \in Message, NEW due,
           e.st \in Reading => /\ \A q \in e.ooo : get_seg_len(q) = 0
                               /\ m.pkt > 0 => m.seq < e.rcv,
           e.st = "None" => m.fl # {"S"}
    PROVE  Mild(d, e, packet_arrive_from_network_layer(d, e, m, due))
<1> DEFINE X == packet_arrive_from_network_layer(d, e, m, due)
           u == IF e.st \in {"Estab", "FinWait1", "FinWait2"} THEN Text(d, e, m, due) ELSE e
<1>0. /\ e.nxt \in Int /\ e.rcv \in Int /\ 0 \in Int
      /\ "None" \notin Opening /\ "None" \notin Reading
      /\ e.st # "SynRcvd" /\ e.st # "SynSent"
  BY DEF TcbType, Opening, Reading
<1>1. X \in {e, packet_arrives_at_listen_state(d, e, m), packet_arrives_at_incoming_tcp(d, e, m, due)}
  BY <1>0, Zenon DEF packet_arrive_from_network_layer
<1> HIDE DEF X
<1>2. Mild(d, e, e) /\ Mild(d, e, [e EXCEPT !.crash = TRUE])
  BY <1>0, MildField
<1>3. Mild(d, e, packet_arrives_at_listen_state(d, e, m))
  <2>1. packet_arrives_at_listen_state(d, e, m) \in
          {e, send_rst(d, e, m, 0), send_rst(d, e, m, 2), [e EXCEPT !.crash = TRUE]}
    BY Zenon DEF packet_arrives_at_listen_state
  <2>2. Mild(d, e, send_rst(d, e, m, 0)) /\ Mild(d, e, send_rst(d, e, m, 2))
    BY <1>0, MildControl
  <2> QED
    BY <1>2, <2>1, <2>2
<1>4. Mild(d, e, packet_arrives_at_incoming_tcp(d, e, m, due))
  <2> DEFINE Y == packet_arrives_at_incoming_tcp(d, e, m, due)
  <2>1. \/ Y \in {e, send_ack(d, e, e.nxt, e.rcv), tcp_close_socket(e),
                  process_ack_packet(d, e, m, due)}
        \/ "S" \notin m.fl /\ Y \in {process_fin_packet(d, u, m), u}
    <3>1. \/ Y \in {e, send_ack(d, e, e.nxt, e.rcv), process_rst_packet(e), process_syn_packet(e),
                    process_ack_packet(d, e, m, due)}
          \/ "S" \notin m.fl /\ Y \in {process_fin_packet(d, u, m), u}
      <4> DEFINE V == Validate_segment(e, m)
                 P == process_segment_text(d, e, m, due)
                 A == process_ack_packet(d, e, m, due)
                 K == send_ack(d, e, e.nxt, e.rcv)
      <4>1. Y = CASE ~V -> IF "R" \in m.fl THEN e ELSE K
                  [] V /\ "R" \in m.fl -> process_rst_packet(e)
                  [] V /\ "R" \notin m.fl /\ "S" \in m.fl -> process_syn_packet(e)
                  [] V /\ m.fl \cap {"R", "S"} = {} /\ "A" \in m.fl -> A
                  [] OTHER -> P
        BY Zenon DEF packet_arrives_at_incoming_tcp
      <4>2. P \in {process_fin_packet(d, u, m), u}
        BY Zenon DEF process_segment_text
      <4> HIDE DEF V, P, A, K, Y, u
      <4>3. \/ Y \in {e, K, process_rst_packet(e), process_syn_packet(e), A}
            \/ "S" \notin m.fl /\ Y = P
        BY <4>1
      <4> QED
        BY <4>2, <4>3 DEF A, K
    <3> HIDE DEF Y
    <3>2. process_rst_packet(e) = tcp_close_socket(e) /\ process_syn_packet(e) = tcp_close_socket(e)
      BY <1>0 DEF process_rst_packet, process_syn_packet
    <3> QED
      BY <3>1, <3>2
  <2> HIDE DEF Y
  <2>2. /\ Mild(d, e, send_ack(d, e, e.nxt, e.rcv)) /\ Mild(d, e, tcp_close_socket(e))
        /\ Mild(d, e, process_ack_packet(d, e, m, due))
    BY <1>0, MildControl, MildClose, MildAckPacket
  <2>3. ASSUME "S" \notin m.fl PROVE Mild(d, e, u) /\ Mild(d, e, process_fin_packet(d, u, m))
    <3>1. Mild(d, e, u)
      <4>1. CASE e.st \in {"Estab", "FinWait1", "FinWait2"}
        <5>1. /\ \A q \in e.ooo : get_seg_len(q) = 0
              /\ m.pkt > 0 => m.seq < e.rcv
          BY <4>1 DEF Reading
        <5>2. Mild(d, e, Text(d, e, m, due))
          BY <2>3, <5>1, MildText
        <5> QED
          BY <4>1, <5>2
      <4>2. CASE e.st \notin {"Estab", "FinWait1", "FinWait2"}
        BY <1>2, <4>2
      <4> QED
        BY <4>1, <4>2
    <3> HIDE DEF u
    <3>2. Mild(d, u, process_fin_packet(d, u, m))
      BY <3>1, MildFin DEF Mild
    <3> QED
      BY <3>1, <3>2, MildTrans
  <2> QED
    BY <1>2, <2>1, <2>2, <2>3 DEF Y
<1> QED
  BY <1>1, <1>2, <1>3, <1>4 DEF X

\* A retransmission timer.
LEMMA MildRto ==
    ASSUME NEW d, NEW e, TcbType(e), e.st \notin Opening, NEW n
    PROVE  Mild(d, e, handle_rto_timer(e, n))
<1> DEFINE X == handle_rto_timer(e, n)
           m == get_segment_from_queue(e.rq, n)
           c == congestion_rto_timeout(e)
           f == SendTimed(c, m)
<1>0. "None" \notin Opening /\ "None" \notin Reading
  BY DEF Opening, Reading
<1>1. \/ X \in {e, [e EXCEPT !.crash = TRUE]}
      \/ isSegmentInQueue(e.rq, n) /\ X = f
  BY Zenon DEF handle_rto_timer, resend_syn, Opening
<1>2. Mild(d, e, e) /\ Mild(d, e, [e EXCEPT !.crash = TRUE])
  BY <1>0, MildField
<1>3. ASSUME isSegmentInQueue(e.rq, n) PROVE Mild(d, e, f)
  <2>1. m \in e.rq /\ m \in Message
    <3>1. \E q \in e.rq : q.seq = n
      BY <1>3 DEF isSegmentInQueue
    <3>2. m \in e.rq
      BY <3>1 DEF get_segment_from_queue
    <3> QED
      BY <3>2 DEF TcbType
  <2>2. Quiet(e, c)
    BY RtoQuiet
  <2>3. Sends(e, c, e.rq)
    BY <2>2, QuietSends
  <2>4. Mild(d, e, c) /\ c.rq = e.rq /\ TcbType(c)
    BY <2>3, MildSends DEF Sends, Same, Core
  <2> HIDE DEF m, c
  <2>5. /\ TcbType(f) /\ f.rq = c.rq \cup {m} /\ Range(f.out) \subseteq Range(c.out) \cup {m}
        /\ f.st = c.st /\ f.avail = c.avail /\ f.fetched = c.fetched /\ Rest(f) = Rest(c)
    BY <2>1, <2>4, TimedShape
  <2> HIDE DEF f
  <2>6. Mild(d, c, f)
    BY <2>1, <2>4, <2>5 DEF Mild, Rest
  <2> QED
    BY <2>4, <2>6, MildTrans
<1> QED
  BY <1>1, <1>2, <1>3

\* The end of TIME-WAIT.
LEMMA MildTimeWait ==
    ASSUME NEW d, NEW e, TcbType(e)
    PROVE  Mild(d, e, handle_time_wait_timeout([e EXCEPT !.tw = @ - 1]))
<1> DEFINE n == e.tw - 1
           a == [e EXCEPT !.tw = n]
<1>0. "None" \notin Opening /\ "None" \notin Reading
  BY DEF Opening, Reading
<1>1. Mild(d, e, a)
  <2> HIDE DEF n
  <2> QED
    BY <1>0, MildField
<1>2. handle_time_wait_timeout(a) \in
        {[a EXCEPT !.crash = TRUE], [a EXCEPT !.twAgain = FALSE], delete_tcb(a)}
  BY Zenon DEF handle_time_wait_timeout
<1> HIDE DEF a
<1>3. Mild(d, a, [a EXCEPT !.crash = TRUE]) /\ Mild(d, a, [a EXCEPT !.twAgain = FALSE])
      /\ Mild(d, a, delete_tcb(a))
  <2>1. TcbType(a)
    BY <1>1 DEF Mild
  <2> QED
    BY <1>0, <2>1, MildField, MildClose
<1>4. Mild(d, e, handle_time_wait_timeout(a))
  BY <1>1, <1>2, <1>3, MildTrans
<1> QED
  BY <1>4 DEF a

-----------------------------------------------------------------------------
(* The connection *)

\* The two segments of the first handshake.
Syn == Seg("c", {"S"}, 1, 0, 0)
SynAck == Seg("s", {"S", "A"}, 3, 2, 0)

\* What the network may hold for the server, when D packets were delivered and
\* the first F were sent: the segments of the latter, and while packets are
\* missing nothing else but the handshake and its acknowledgement.
ToServer(m, F, D) ==
    /\ m.to = "s"
    /\ m.pkt > 0 => m = Data(m.pkt) /\ m.pkt <= F
    /\ "S" \in m.fl => m = Syn
    /\ D < Packets => m.pkt > 0 \/ m = Syn \/ (m.fl = {"A"} /\ m.ack = 4)

\* And for the client: no acknowledgement is ahead of what was delivered.
ToClient(m, D) ==
    /\ m.to = "c" /\ m.pkt = 0
    /\ "S" \in m.fl => m = SynAck
    /\ D < Packets => m = SynAck \/ (m.fl = {"A"} /\ m.ack \in 2..(D + 2))

\* A client with packets to deliver: what it sent and the server has not
\* acknowledged is in its queue.
Opened(e, D) ==
    \/ e.st = "None" /\ e.fetched = 0
    \/ e.st = "SynSent" /\ e.fetched = 0 /\ e.iss = 1 /\ e.una = 1 /\ e.nxt = 2
    \/ /\ e.st = "Estab" /\ e.una \in 2..(D + 2) /\ e.nxt = e.fetched + 2 /\ e.rcv = 4
       /\ \A p \in (e.una - 1)..e.fetched : Data(p) \in e.rq

\* The client's socket and what it is about to send.
Client(e, D) ==
    /\ e.avail <= Packets /\ D <= e.fetched
    /\ e.isAPPClose => e.fetched = Packets
    /\ e.st # "SynRcvd" /\ (e.st = "SynSent" => e.fetched = 0)
    /\ e.up = <<>> /\ \A q \in e.ooo : get_seg_len(q) = 0
    /\ \A m \in e.rq \cup Range(e.out) : ToServer(m, e.fetched, D)
    /\ D < Packets => e.tw = 0 /\ Opened(e, D)

\* The server's socket: RCV.NXT follows the packets delivered.
Server(e, F, D) ==
    /\ e.avail = 0 /\ ~e.isAPPClose /\ e.st # "SynSent"
    /\ e.dials = 0 => D = 0 /\ e.st = "None"
    /\ e.rq \subseteq {SynAck}
    /\ \A m \in Range(e.out) : ToClient(m, D)
    /\ e.st \in Reading => e.rcv = D + 2 /\ Waits(e.ooo, D, F)
    /\ e.st = "SynRcvd" => D = 0 /\ e.iss = 3 /\ e.una = 3 /\ e.nxt = 4
    /\ D < Packets => /\ e.st \in {"None", "SynRcvd", "Estab"} /\ (e.st = "Estab" => e.nxt = 4)
                      /\ e.tw = 0

\* The segments of the handshake.
LEMMA Handshake ==
    /\ Syn \in Message /\ Syn.to = "s" /\ Syn.fl = {"S"} /\ Syn.seq = 1 /\ Syn.ack = 0
    /\ Syn.pkt = 0 /\ get_seg_len(Syn) = 1
    /\ SynAck \in Message /\ SynAck.to = "c" /\ SynAck.fl = {"S", "A"} /\ SynAck.seq = 3
    /\ SynAck.ack = 2 /\ SynAck.pkt = 0 /\ get_seg_len(SynAck) = 1
<1>1. /\ {"S"} \in SUBSET {"S", "A", "F", "R"} /\ {"S", "A"} \in SUBSET {"S", "A", "F", "R"}
      /\ 0 \in Int /\ 1 \in Int /\ 2 \in Int /\ 3 \in Int /\ 0 \in Nat
  OBVIOUS
<1>2. /\ Syn \in Message /\ get_seg_len(Syn) = 1
      /\ SynAck \in Message /\ get_seg_len(SynAck) = 1
  BY <1>1, SegMessage DEF Syn, SynAck
<1>3. /\ Syn.to = "s" /\ Syn.fl = {"S"} /\ Syn.seq = 1 /\ Syn.ack = 0 /\ Syn.pkt = 0
      /\ SynAck.to = "c" /\ SynAck.fl = {"S", "A"} /\ SynAck.seq = 3
      /\ SynAck.ack = 2 /\ SynAck.pkt = 0
  BY DEF Syn, SynAck, Seg, Peer
<1> QED
  BY <1>2, <1>3

\* A new socket's TCB.
LEMMA NewShape ==
    ASSUME NEW d, NEW e, TcbType(e)
    PROVE  LET X == create_TCB(d, e)
           IN  /\ TcbType(X) /\ X.rq = {} /\ X.ooo = {} /\ ~X.isAPPClose
               /\ X.iss = calculate_initial_seq_num(d, e.dials + 1) /\ X.dials = e.dials + 1
               /\ X.avail = e.avail /\ X.fetched = e.fetched /\ X.tw = e.tw /\ X.out = e.out
               /\ X.up = e.up
<1> DEFINE a == Apart(e)
           i == calculate_initial_seq_num(d, e.dials + 1)
           r == IF Variant = "NEWRENO" THEN i ELSE 0
           X == create_TCB(d, e)
<1>1. X = [a EXCEPT !.dials = @ + 1, !.iss = i, !.cwnd = InitSSThresh,
                    !.ssth = InitSSThresh, !.recover = r]
  BY Zenon DEF create_TCB
<1>2. TcbType(X) /\ X.rq = {}
  BY NewTcb
<1>3. /\ a.ooo = {} /\ a.avail = e.avail /\ a.fetched = e.fetched /\ a.dials = e.dials
      /\ a.up = e.up /\ a.tw = e.tw /\ a.out = e.out /\ a.isAPPClose = FALSE
      /\ DOMAIN a = DOMAIN NoSocket
  BY Fields DEF Apart, NoSocket
<1> HIDE DEF a, i, r, X
<1>4. /\ X.ooo = a.ooo /\ X.isAPPClose = a.isAPPClose /\ X.iss = i /\ X.dials = a.dials + 1
      /\ X.avail = a.avail /\ X.fetched = a.fetched /\ X.tw = a.tw /\ X.out = a.out /\ X.up = a.up
  BY <1>1, <1>3, Fields
<1> QED
  BY <1>2, <1>3, <1>4 DEF X, i

\* The client's first SYN.
LEMMA OpenShape ==
    ASSUME NEW e, TcbType(e)
    PROVE  LET X == tcp_active_open("c", e)
           IN  /\ TcbType(X) /\ X.st = "SynSent" /\ X.dials = e.dials + 1
               /\ X.avail = e.avail /\ X.fetched = e.fetched /\ X.tw = e.tw /\ X.up = e.up
               /\ X.ooo = {} /\ ~X.isAPPClose
               /\ e.dials = 0 => /\ X.iss = 1 /\ X.una = 1 /\ X.nxt = 2 /\ X.rq = {Syn}
                                 /\ Range(X.out) \subseteq Range(e.out) \cup {Syn}
<1> DEFINE t == create_TCB("c", e)
           f == [t EXCEPT !.una = t.iss, !.nxt = t.iss + 1, !.st = "SynSent", !.syn = @ + 1]
           m == Seg("c", {"S"}, t.iss, 0, 0)
           X == tcp_active_open("c", e)
<1>1. /\ TcbType(t) /\ t.rq = {} /\ t.ooo = {} /\ ~t.isAPPClose
      /\ t.iss = calculate_initial_seq_num("c", e.dials + 1) /\ t.dials = e.dials + 1
      /\ t.avail = e.avail /\ t.fetched = e.fetched /\ t.tw = e.tw /\ t.out = e.out
      /\ t.up = e.up
  BY NewShape
<1>2. X = SendTimed(f, m)
  BY DEF tcp_active_open, send_syn
<1> HIDE DEF t, X
<1>3. t.iss \in Int /\ t.iss + 1 \in Int
  <2>1. t.iss \in Int
    BY <1>1 DEF TcbType
  <2> QED
    BY <2>1
<1>4. e.dials = 0 => t.iss = 1
  BY <1>1 DEF calculate_initial_seq_num
<1>5. /\ TcbType(f) /\ f.rq = {} /\ f.ooo = {} /\ ~f.isAPPClose /\ f.st = "SynSent"
      /\ f.una = t.iss /\ f.nxt = t.iss + 1 /\ f.iss = t.iss /\ f.dials = t.dials
      /\ f.avail = t.avail /\ f.fetched = t.fetched /\ f.tw = t.tw /\ f.out = t.out /\ f.up = t.up
  BY <1>1, <1>3, Fields DEF TcbType
<1>6. m \in Message
  BY <1>3, SegMessage
<1>7. e.dials = 0 => m = Syn
  BY <1>4 DEF Syn
<1> HIDE DEF f, m
<1>8. /\ TcbType(X) /\ X.rq = f.rq \cup {m} /\ Range(X.out) \subseteq Range(f.out) \cup {m}
      /\ X.st = f.st /\ X.una = f.una /\ X.nxt = f.nxt /\ X.iss = f.iss
      /\ X.avail = f.avail /\ X.fetched = f.fetched /\ Rest(X) = Rest(f)
  BY <1>2, <1>5, <1>6, TimedShape
<1>9. /\ X.dials = f.dials /\ X.isAPPClose = f.isAPPClose /\ X.ooo = f.ooo /\ X.up = f.up
      /\ X.tw = f.tw
  BY <1>8 DEF Rest
<1> QED
  BY <1>1, <1>4, <1>5, <1>7, <1>8, <1>9 DEF X

\* The server's answer to the first SYN.
LEMMA AcceptShape ==
    ASSUME NEW e, TcbType(e)
    PROVE  LET X == tcp_accept("s", e, Syn)
           IN  /\ TcbType(X) /\ X.st = "SynRcvd" /\ X.dials = e.dials + 1 /\ X.rcv = 2
               /\ X.avail = e.avail /\ X.fetched = e.fetched /\ X.tw = e.tw /\ X.up = e.up
               /\ X.ooo = {} /\ ~X.isAPPClose
               /\ e.dials = 0 => /\ X.iss = 3 /\ X.una = 3 /\ X.nxt = 4 /\ X.rq = {SynAck}
                                 /\ Range(X.out) \subseteq Range(e.out) \cup {SynAck}
<1> DEFINE t == create_TCB("s", e)
           c == congestion_set_MSS(t)
           f == [c EXCEPT !.rcv = Syn.seq + 1, !.irs = Syn.seq, !.st = "SynRcvd",
                          !.una = t.iss, !.nxt = t.iss + 1, !.syn = @ + 1]
           m == Seg("s", {"S", "A"}, t.iss, f.rcv, 0)
           X == tcp_accept("s", e, Syn)
<1>1. /\ TcbType(t) /\ t.rq = {} /\ t.ooo = {} /\ ~t.isAPPClose
      /\ t.iss = calculate_initial_seq_num("s", e.dials + 1) /\ t.dials = e.dials + 1
      /\ t.avail = e.avail /\ t.fetched = e.fetched /\ t.tw = e.tw /\ t.out = e.out
      /\ t.up = e.up
  BY NewShape
<1>2. X = SendTimed(f, m)
  BY DEF tcp_accept, rcv_SYN
<1> HIDE DEF t, X
<1>3. t.iss \in Int /\ t.iss + 1 \in Int /\ Syn.seq + 1 = 2 /\ 2 \in Int
  <2>1. t.iss \in Int
    BY <1>1 DEF TcbType
  <2> QED
    BY <2>1, Handshake
<1>4. e.dials = 0 => t.iss = 3
  BY <1>1 DEF calculate_initial_seq_num
<1>5. Quiet(t, c)
  BY <1>1, CwndQuiet DEF congestion_set_MSS, IW
<1>6. /\ TcbType(c) /\ c.rq = t.rq /\ c.avail = t.avail /\ c.fetched = t.fetched /\ c.iss = t.iss
      /\ Rest(c) = Rest(t) /\ Range(c.out) \subseteq Range(t.out)
  BY <1>1, <1>5 DEF Quiet, Same, Core
<1> HIDE DEF c
<1>7. /\ TcbType(f) /\ f.rq = c.rq /\ f.ooo = c.ooo /\ f.isAPPClose = c.isAPPClose
      /\ f.st = "SynRcvd" /\ f.una = t.iss /\ f.nxt = t.iss + 1 /\ f.iss = c.iss
      /\ f.dials = c.dials /\ f.rcv = 2
      /\ f.avail = c.avail /\ f.fetched = c.fetched /\ f.tw = c.tw /\ f.out = c.out /\ f.up = c.up
  BY <1>3, <1>6, Fields DEF TcbType
<1> HIDE DEF f
<1>8. m \in Message
  BY <1>3, <1>7, SegMessage
<1>9. e.dials = 0 => m = SynAck
  BY <1>4, <1>7 DEF SynAck
<1> HIDE DEF m
<1>10. /\ TcbType(X) /\ X.rq = f.rq \cup {m} /\ Range(X.out) \subseteq Range(f.out) \cup {m}
       /\ X.st = f.st /\ X.una = f.una /\ X.nxt = f.nxt /\ X.iss = f.iss
       /\ X.avail = f.avail /\ X.fetched = f.fetched /\ Rest(X) = Rest(f)
  BY <1>2, <1>7, <1>8, TimedShape
<1>11. /\ X.dials = f.dials /\ X.isAPPClose = f.isAPPClose /\ X.ooo = f.ooo /\ X.up = f.up
       /\ X.tw = f.tw /\ X.rcv = f.rcv
       /\ c.dials = t.dials /\ c.isAPPClose = t.isAPPClose /\ c.ooo = t.ooo /\ c.up = t.up
       /\ c.tw = t.tw
  BY <1>6, <1>10 DEF Rest
<1> QED
  BY <1>1, <1>4, <1>6, <1>7, <1>9, <1>10, <1>11 DEF X

-----------------------------------------------------------------------------
(* The client, while packets are missing *)

\* What a handler makes of the client's socket.
ClientStep(e, f, D) == TcbType(f) /\ Client(f, D) /\ f.fetched >= e.fetched

\* A client that sends what the network may hold.
LEMMA ClientSends ==
    ASSUME NEW e, TcbType(e), NEW D, Client(e, D), NEW f, NEW M, Sends(e, f, M),
           \A m \in M : ToServer(m, e.fetched, D)
    PROVE  ClientStep(e, f, D)
<1>1. /\ TcbType(f) /\ f.avail = e.avail /\ f.fetched = e.fetched /\ f.isAPPClose = e.isAPPClose
      /\ f.st = e.st /\ f.up = e.up /\ f.ooo = e.ooo /\ f.rq = e.rq /\ f.tw = e.tw
      /\ f.iss = e.iss /\ f.una = e.una /\ f.nxt = e.nxt /\ f.rcv = e.rcv
      /\ Range(f.out) \subseteq Range(e.out) \cup M
  BY DEF Sends, Same, Core, Rest
<1>2. \A m \in f.rq \cup Range(f.out) : ToServer(m, f.fetched, D)
  BY <1>1 DEF Client
<1>3. Opened(e, D) => Opened(f, D)
  BY <1>1 DEF Opened
<1>4. Client(f, D)
  BY <1>1, <1>2, <1>3 DEF Client
<1>5. f.fetched >= e.fetched
  BY <1>1 DEF TcbType
<1> QED
  BY <1>1, <1>4, <1>5 DEF ClientStep

\* The client's acknowledgement.
LEMMA ClientAcks ==
    ASSUME NEW e, TcbType(e), NEW D, Client(e, D), e.rcv = 4
    PROVE  ClientStep(e, send_ack("c", e, e.nxt, e.rcv), D)
<1> DEFINE a == Seg("c", {"A"}, e.nxt, e.rcv, 0)
<1>1. e.nxt \in Int /\ e.rcv \in Int /\ "c" \in Device
  BY DEF TcbType, Device
<1>2. Syn \in Message
  BY Handshake
<1>3. Sends(e, send_ack("c", e, e.nxt, e.rcv), {a})
  BY <1>1, <1>2, ControlSends
<1>4. a.to = "s" /\ a.pkt = 0 /\ a.fl = {"A"} /\ a.ack = 4
  BY DEF Seg, Peer
<1>5. ToServer(a, e.fetched, D)
  BY <1>4 DEF ToServer
<1> HIDE DEF a
<1> QED
  BY <1>3, <1>5, ClientSends

\* Established, send_segment makes the segments of the next packets, and does
\* not close: while packets are missing the queue is not empty.
LEMMA ClientSegments ==
    ASSUME NEW e, TcbType(e), NEW D \in Nat, D < Packets, Client(e, D), e.st = "Estab"
    PROVE  ClientStep(e, send_segment("c", e), D)
<1> DEFINE X == send_segment("c", e)
           S(n) == {Segment("c", e, i) : i \in 1..n}
           Shape(n) ==
                 /\ TcbType(X)
                 /\ X.nxt = e.nxt + n /\ X.fetched = e.fetched + n /\ X.avail = e.avail
                 /\ X.rq = e.rq \cup S(n)
                 /\ Range(X.out) \subseteq Range(e.out) \cup S(n) \cup Controls("c")
                 /\ X.una = e.una /\ X.iss = e.iss /\ X.rcv = e.rcv /\ X.dials = e.dials
                 /\ X.ooo = e.ooo /\ X.up = e.up /\ X.tw = e.tw
                 /\ X.isAPPClose = (e.isAPPClose \/ (n > 0 /\ e.fetched + n = Packets))
                 /\ \/ X.st = e.st /\ Range(X.out) \subseteq Range(e.out) \cup S(n)
                    \/ X.st = "FinWait1" /\ X.isAPPClose /\ X.rq = {}
<1>0. "c" \in Device
  BY DEF Device
<1>1. PICK n \in 0..(e.avail - e.fetched) : Shape(n)
  BY <1>0, Segments
<1> HIDE DEF X
<1>2. /\ Opened(e, D) /\ e.tw = 0 /\ e.avail <= Packets /\ D <= e.fetched
      /\ e.isAPPClose => e.fetched = Packets
      /\ e.up = <<>> /\ \A q \in e.ooo : get_seg_len(q) = 0
      /\ \A m \in e.rq \cup Range(e.out) : ToServer(m, e.fetched, D)
  BY DEF Client
<1>3. /\ e.una \in 2..(D + 2) /\ e.nxt = e.fetched + 2 /\ e.rcv = 4
      /\ \A p \in (e.una - 1)..e.fetched : Data(p) \in e.rq
  BY <1>2 DEF Opened
<1>4. e.fetched \in Nat /\ e.avail \in Nat /\ e.fetched <= e.avail /\ n \in Nat /\ Packets \in Nat
  BY TcpAssumption DEF TcbType
<1>5. X.fetched \in Nat /\ X.fetched = e.fetched + n /\ X.fetched <= Packets /\ X.avail <= Packets
      /\ X.nxt = X.fetched + 2 /\ X.fetched >= e.fetched
  BY <1>1, <1>2, <1>3, <1>4
<1>6. ASSUME NEW i \in 1..n
      PROVE  Segment("c", e, i) = Data(e.fetched + i) /\ e.fetched + i \in Nat \ {0}
             /\ e.fetched + i <= X.fetched
  <2>1. e.nxt + i - 1 = (e.fetched + i) + 1 /\ e.fetched + i \in Nat \ {0}
        /\ e.fetched + i <= e.fetched + n
    BY <1>3, <1>4
  <2> QED
    BY <1>5, <2>1 DEF Segment, Data
<1>7. S(n) = {Data(e.fetched + i) : i \in 1..n}
  BY <1>6
<1>8. ASSUME NEW m \in S(n) PROVE ToServer(m, X.fetched, D)
  <2>1. PICK i \in 1..n : m = Data(e.fetched + i)
    BY <1>7
  <2> DEFINE p == e.fetched + i
  <2>2. p \in Nat \ {0} /\ p <= X.fetched
    BY <1>6
  <2> HIDE DEF p
  <2>3. /\ m = Data(p) /\ m.pkt = p /\ m.to = "s" /\ m.fl = {} /\ p > 0
    BY <2>1, <2>2, DataSegment DEF p
  <2> QED
    BY <2>2, <2>3 DEF ToServer
<1>9. ASSUME NEW m, ToServer(m, e.fetched, D), m \in Message PROVE ToServer(m, X.fetched, D)
  <2>1. m.pkt \in Nat
    BY <1>9 DEF Message
  <2>2. m.pkt <= e.fetched => m.pkt <= X.fetched
    BY <1>4, <1>5, <2>1
  <2> QED
    BY <1>9, <2>2 DEF ToServer
<1>10. \A p \in (X.una - 1)..X.fetched : Data(p) \in X.rq
  <2> SUFFICES ASSUME NEW p \in (X.una - 1)..X.fetched PROVE Data(p) \in X.rq
    OBVIOUS
  <2>1. X.una = e.una /\ e.una \in Int
    BY <1>1, <1>3
  <2>2. CASE p <= e.fetched
    <3>1. p \in (e.una - 1)..e.fetched
      BY <1>4, <1>5, <2>1, <2>2
    <3> QED
      BY <1>1, <1>3, <3>1
  <2>3. CASE ~(p <= e.fetched)
    <3>1. p - e.fetched \in 1..n /\ e.fetched + (p - e.fetched) = p
      BY <1>4, <1>5, <2>1, <2>3
    <3>2. Data(e.fetched + (p - e.fetched)) \in S(n)
      BY <1>7, <3>1
    <3>3. Data(p) \in S(n)
      BY <3>1, <3>2
    <3> QED
      BY <1>1, <3>3
  <2> QED
    BY <2>2, <2>3
<1>11. X.isAPPClose => X.fetched = Packets
  <2>1. CASE e.isAPPClose
    BY <1>2, <1>4, <1>5, <2>1
  <2>2. CASE ~e.isAPPClose
    BY <1>1, <1>5, <2>2
  <2> QED
    BY <2>1, <2>2
<1>12. X.st = "Estab" /\ Range(X.out) \subseteq Range(e.out) \cup S(n)
  <2> SUFFICES ASSUME X.isAPPClose, X.rq = {} PROVE FALSE
    BY <1>1
  <2>1. X.fetched = Packets /\ X.una = e.una
    BY <1>1, <1>11
  <2>2. Packets \in (X.una - 1)..X.fetched
    BY <1>3, <1>4, <2>1
  <2> QED
    BY <1>10, <2>2
<1>13. \A m \in X.rq \cup Range(X.out) : ToServer(m, X.fetched, D)
  <2> SUFFICES ASSUME NEW m \in X.rq \cup Range(X.out) PROVE ToServer(m, X.fetched, D)
    OBVIOUS
  <2>1. CASE m \in S(n)
    BY <1>8, <2>1
  <2>2. CASE m \notin S(n)
    <3>1. m \in e.rq \cup Range(e.out)
      BY <1>1, <1>12, <2>2
    <3>2. m \in Message
      <4>1. e.rq \subseteq Message /\ e.out \in Seq(Message)
        BY DEF TcbType
      <4> QED
        BY <3>1, <4>1 DEF Range
    <3> QED
      BY <1>2, <1>9, <3>1, <3>2
  <2> QED
    BY <2>1, <2>2
<1> HIDE DEF S
<1>14. /\ X.una = e.una /\ X.rcv = e.rcv /\ X.ooo = e.ooo /\ X.up = e.up /\ X.tw = e.tw
       /\ TcbType(X)
  BY <1>1
<1>15. Opened(X, D)
  BY <1>3, <1>5, <1>10, <1>12, <1>14 DEF Opened
<1>16. D <= X.fetched
  BY <1>2, <1>4, <1>5
<1>17. Client(X, D)
  BY <1>2, <1>5, <1>11, <1>12, <1>13, <1>14, <1>15, <1>16 DEF Client
<1> QED
  BY <1>5, <1>14, <1>17 DEF ClientStep, X

\* An acknowledgement of what was delivered: exactly what it covers leaves the
\* queue, and segments follow.
LEMMA ClientAck ==
    ASSUME NEW e, TcbType(e), NEW D \in Nat, D < Packets, Client(e, D), e.st = "Estab",
           NEW m \in Message, m.ack \in 2..(D + 2), NEW due
    PROVE  ClientStep(e, AckThenSend("c", e, m, due), D)
<1> DEFINE X == AckThenSend("c", e, m, due)
<1>0. "c" \in Device
  BY DEF Device
<1>1. /\ Opened(e, D) /\ D <= e.fetched
      /\ \A q \in e.rq \cup Range(e.out) : ToServer(q, e.fetched, D)
  BY DEF Client
<1>2. /\ e.una \in 2..(D + 2) /\ e.nxt = e.fetched + 2 /\ e.rcv = 4
      /\ \A p \in (e.una - 1)..e.fetched : Data(p) \in e.rq
  BY <1>1 DEF Opened
<1>3. e.fetched \in Nat /\ m.ack <= e.nxt /\ m.ack \in Int
  <2>1. e.fetched \in Nat
    BY DEF TcbType
  <2> QED
    BY <1>1, <1>2, <2>1
<1>4. CASE Sends(e, X, e.rq)
  BY <1>1, <1>4, ClientSends
<1>5. CASE m.ack > e.nxt
  BY <1>2, <1>3, <1>5
<1>6. CASE /\ Acks(e, m)
           /\ \E g : /\ X = send_segment("c", g) /\ TcbType(g)
                     /\ g.una = m.ack /\ g.rq = delete_segment_from_queue(e.rq, m.ack)
                     /\ g.st = e.st /\ g.nxt = e.nxt /\ g.iss = e.iss
                     /\ g.avail = e.avail /\ g.fetched = e.fetched /\ Rest(g) = Rest(e)
                     /\ Range(g.out) \subseteq Range(e.out) \cup e.rq
  <2>1. PICK g : /\ X = send_segment("c", g) /\ TcbType(g)
                 /\ g.una = m.ack /\ g.rq = delete_segment_from_queue(e.rq, m.ack)
                 /\ g.st = e.st /\ g.nxt = e.nxt /\ g.iss = e.iss
                 /\ g.avail = e.avail /\ g.fetched = e.fetched /\ Rest(g) = Rest(e)
                 /\ Range(g.out) \subseteq Range(e.out) \cup e.rq
    BY <1>6
  <2>2. g.rcv = e.rcv /\ g.ooo = e.ooo /\ g.up = e.up /\ g.tw = e.tw /\ g.isAPPClose = e.isAPPClose
    BY <2>1 DEF Rest
  <2>3. g.rq \subseteq e.rq
    BY <2>1 DEF delete_segment_from_queue
  <2>4. \A p \in (g.una - 1)..g.fetched : Data(p) \in g.rq
    <3> SUFFICES ASSUME NEW p \in (m.ack - 1)..e.fetched PROVE Data(p) \in g.rq
      BY <2>1
    <3>1. p \in Nat \ {0} /\ p \in (e.una - 1)..e.fetched /\ (p + 1) + 1 > m.ack
      BY <1>2, <1>3, <1>6 DEF Acks
    <3>2. Data(p) \in e.rq
      BY <1>2, <3>1
    <3>3. Data(p).seq + get_seg_len(Data(p)) > m.ack
      BY <3>1, DataSegment
    <3> QED
      BY <2>1, <3>2, <3>3 DEF delete_segment_from_queue
  <2>5. Opened(g, D)
    BY <1>2, <2>1, <2>2, <2>4 DEF Opened
  <2>6. \A q \in g.rq \cup Range(g.out) : ToServer(q, g.fetched, D)
    BY <1>1, <2>1, <2>3
  <2>7. Client(g, D)
    BY <2>1, <2>2, <2>5, <2>6 DEF Client
  <2>8. ClientStep(g, X, D)
    BY <2>1, <2>7, ClientSegments
  <2> QED
    BY <2>1, <2>8 DEF ClientStep
<1>7. AckOutcome("c", e, m, X)
  BY <1>0, AckShape
<1> HIDE DEF X
<1> QED
  BY <1>4, <1>5, <1>6, <1>7 DEF AckOutcome, X

\* Nothing happens.
LEMMA ClientStays ==
    ASSUME NEW e, TcbType(e), NEW D, Client(e, D)
    PROVE  ClientStep(e, e, D)
<1>1. e.fetched \in Nat
  BY DEF TcbType
<1> QED
  BY <1>1 DEF ClientStep

\* A segment sent with a timer.
LEMMA ClientTimed ==
    ASSUME NEW e, TcbType(e), NEW D, Client(e, D), NEW m \in Message, ToServer(m, e.fetched, D)
    PROVE  ClientStep(e, SendTimed(e, m), D)
<1> DEFINE X == SendTimed(e, m)
<1>1. /\ TcbType(X) /\ X.rq = e.rq \cup {m} /\ Range(X.out) \subseteq Range(e.out) \cup {m}
      /\ X.st = e.st /\ X.una = e.una /\ X.nxt = e.nxt /\ X.iss = e.iss
      /\ X.avail = e.avail /\ X.fetched = e.fetched /\ Rest(X) = Rest(e)
  BY TimedShape
<1> HIDE DEF X
<1>2. /\ X.rcv = e.rcv /\ X.ooo = e.ooo /\ X.up = e.up /\ X.tw = e.tw
      /\ X.isAPPClose = e.isAPPClose
  BY <1>1 DEF Rest
<1>3. \A q \in X.rq \cup Range(X.out) : ToServer(q, X.fetched, D)
  BY <1>1 DEF Client
<1>4. Opened(e, D) => Opened(X, D)
  BY <1>1, <1>2 DEF Opened
<1>5. Client(X, D)
  BY <1>1, <1>2, <1>3, <1>4 DEF Client
<1>6. X.fetched >= e.fetched
  BY <1>1 DEF TcbType
<1> QED
  BY <1>1, <1>5, <1>6 DEF ClientStep, X

\* The answer to the client's SYN arrives.
LEMMA ClientOpens ==
    ASSUME NEW e, TcbType(e), NEW D \in Nat, D < Packets, Client(e, D), e.st = "SynSent"
    PROVE  ClientStep(e, packet_arrives_at_synsent_state("c", e, SynAck), D)
<1> DEFINE q == delete_segment_from_queue(e.rq, SynAck.ack)
           c == [e EXCEPT !.rcv = SynAck.seq + 1, !.irs = SynAck.seq, !.una = SynAck.ack, !.rq = q]
           f == congestion_set_MSS(c)
           a == send_ack("c", f, f.nxt, f.rcv)
           b == tcp_change_state(a, "Estab")
           X == packet_arrives_at_synsent_state("c", e, SynAck)
<1>0. SynAck \in Message /\ SynAck.seq = 3 /\ SynAck.ack = 2 /\ SynAck.fl = {"S", "A"}
      /\ "c" \in Device
  BY Handshake DEF Device
<1>1. /\ Opened(e, D) /\ e.tw = 0 /\ e.avail <= Packets /\ D <= e.fetched
      /\ e.isAPPClose => e.fetched = Packets
      /\ e.up = <<>> /\ \A p \in e.ooo : get_seg_len(p) = 0
      /\ \A m \in e.rq \cup Range(e.out) : ToServer(m, e.fetched, D)
  BY DEF Client
<1>2. e.fetched = 0 /\ e.iss = 1 /\ e.una = 1 /\ e.nxt = 2 /\ D = 0
  <2>1. e.fetched = 0 /\ e.iss = 1 /\ e.una = 1 /\ e.nxt = 2
    BY <1>1 DEF Opened
  <2> QED
    BY <1>1, <2>1
<1>3. X = send_segment("c", b)
  <2>1. /\ "A" \in SynAck.fl /\ "S" \in SynAck.fl /\ "R" \notin SynAck.fl
        /\ ~(SynAck.ack <= e.iss \/ SynAck.ack > e.nxt)
        /\ e.una <= SynAck.ack /\ SynAck.ack <= e.nxt
    BY <1>0, <1>2
  <2> DEFINE wrong == "A" \in SynAck.fl /\ (SynAck.ack <= e.iss \/ SynAck.ack > e.nxt)
             ok == ~wrong /\ "A" \in SynAck.fl /\ e.una <= SynAck.ack /\ SynAck.ack <= e.nxt
             Y == send_segment("c", b)
  <2>2. X = CASE wrong -> send_rst("c", e, SynAck, 0)
              [] ok /\ "R" \in SynAck.fl -> [e EXCEPT !.crash = TRUE]
              [] ok /\ "R" \notin SynAck.fl /\ "S" \in SynAck.fl -> Y
              [] OTHER -> e
    BY Zenon DEF packet_arrives_at_synsent_state
  <2>3. ~wrong /\ ok
    BY <2>1
  <2> HIDE DEF X, Y, wrong, ok
  <2>4. X = Y
    BY <2>1, <2>2, <2>3
  <2> QED
    BY <2>4 DEF Y
<1> HIDE DEF X
<1>4. /\ TcbType(c) /\ c.rcv = 4 /\ c.una = 2 /\ c.rq = q /\ c.nxt = e.nxt /\ c.fetched = e.fetched
      /\ c.avail = e.avail /\ c.isAPPClose = e.isAPPClose /\ c.up = e.up /\ c.ooo = e.ooo
      /\ c.tw = e.tw /\ c.out = e.out /\ q \subseteq e.rq
  <2>1. q \subseteq e.rq /\ q \subseteq Message /\ SynAck.seq + 1 = 4 /\ SynAck.ack = 2
    BY <1>0 DEF delete_segment_from_queue, TcbType
  <2> HIDE DEF q
  <2> QED
    BY <2>1, Fields DEF TcbType
<1> HIDE DEF c, q
<1>5. Quiet(c, f)
  BY <1>4, CwndQuiet DEF congestion_set_MSS, IW
<1>6. Sends(c, f, c.rq)
  BY <1>5, QuietSends
<1>7. /\ TcbType(f) /\ f.rcv = 4 /\ f.una = 2 /\ f.rq = q /\ f.nxt = e.nxt /\ f.fetched = e.fetched
      /\ f.avail = e.avail /\ f.isAPPClose = e.isAPPClose /\ f.up = e.up /\ f.ooo = e.ooo
      /\ f.tw = e.tw /\ Range(f.out) \subseteq Range(e.out) \cup e.rq
  BY <1>4, <1>6 DEF Sends, Same, Core, Rest
<1> HIDE DEF f
<1> DEFINE s == Seg("c", {"A"}, f.nxt, f.rcv, 0)
<1>8. Sends(f, a, {s})
  <2>1. f.nxt \in Int /\ f.rcv \in Int
    BY <1>7 DEF TcbType
  <2> QED
    BY <1>0, <1>7, <2>1, ControlSends
<1>9. ToServer(s, 0, D)
  <2>1. s.to = "s" /\ s.pkt = 0 /\ s.fl = {"A"} /\ s.ack = 4
    BY <1>7 DEF Seg, Peer
  <2> QED
    BY <2>1 DEF ToServer
<1> HIDE DEF s
<1>10. /\ TcbType(a) /\ a.rcv = 4 /\ a.una = 2 /\ a.rq = q /\ a.nxt = e.nxt /\ a.fetched = e.fetched
       /\ a.avail = e.avail /\ a.isAPPClose = e.isAPPClose /\ a.up = e.up /\ a.ooo = e.ooo
       /\ a.tw = e.tw /\ Range(a.out) \subseteq Range(e.out) \cup e.rq \cup {s}
  BY <1>7, <1>8 DEF Sends, Same, Core, Rest
<1> HIDE DEF a
<1>11. /\ TcbType(b) /\ b.rcv = 4 /\ b.una = 2 /\ b.rq = q /\ b.nxt = e.nxt /\ b.fetched = e.fetched
       /\ b.avail = e.avail /\ b.isAPPClose = e.isAPPClose /\ b.up = e.up /\ b.ooo = e.ooo
       /\ b.tw = e.tw /\ Range(b.out) \subseteq Range(e.out) \cup e.rq \cup {s} /\ b.st = "Estab"
  <2>1. /\ TcbType(b) /\ b.rcv = a.rcv /\ b.una = a.una /\ b.rq = a.rq /\ b.nxt = a.nxt
        /\ b.fetched = a.fetched /\ b.avail = a.avail /\ b.isAPPClose = a.isAPPClose
        /\ b.up = a.up /\ b.ooo = a.ooo /\ b.tw = a.tw /\ b.out = a.out /\ b.st = "Estab"
    BY <1>10, Fields DEF tcp_change_state, TcbType
  <2> HIDE DEF b
  <2> QED
    BY <1>10, <2>1
<1> HIDE DEF b
<1>12. Opened(b, D)
  BY <1>2, <1>11 DEF Opened
<1>13. \A m \in b.rq \cup Range(b.out) : ToServer(m, b.fetched, D)
  BY <1>1, <1>2, <1>4, <1>9, <1>11
<1>14. Client(b, D)
  BY <1>1, <1>11, <1>12, <1>13 DEF Client
<1>15. ClientStep(b, X, D)
  BY <1>3, <1>11, <1>14, ClientSegments
<1> QED
  BY <1>11, <1>15 DEF ClientStep, X

\* A packet arrives while others are missing.
LEMMA ClientReceives ==
    ASSUME NEW e, TcbType(e), NEW D \in Nat, D < Packets, Client(e, D),
           NEW m \in Message, ToClient(m, D), NEW due
    PROVE  ClientStep(e, packet_arrive_from_network_layer("c", e, m, due), D)
<1> DEFINE X == packet_arrive_from_network_layer("c", e, m, due)
<1>0. ClientStep(e, e, D)
  BY ClientStays
<1>1. /\ Opened(e, D) /\ D <= e.fetched
      /\ m = SynAck \/ (m.fl = {"A"} /\ m.ack \in 2..(D + 2))
  BY DEF Client, ToClient
<1>2. CASE e.st = "None" /\ e.fetched = 0
  <2>1. m.fl # {"S"}
    BY <1>1, Handshake
  <2>2. X = e
    BY <1>2, <2>1 DEF packet_arrive_from_network_layer
  <2> QED
    BY <1>0, <2>2
<1>3. CASE e.st = "SynSent" /\ e.fetched = 0 /\ e.iss = 1 /\ e.una = 1 /\ e.nxt = 2
  <2>1. X = packet_arrives_at_synsent_state("c", e, m)
    BY <1>3 DEF packet_arrive_from_network_layer
  <2>2. CASE m = SynAck
    BY <1>3, <2>1, <2>2, ClientOpens
  <2>3. CASE m.fl = {"A"} /\ m.ack \in 2..(D + 2)
    <3>1. m.ack = 2
      BY <1>1, <1>3, <2>3
    <3>2. "A" \in m.fl /\ "R" \notin m.fl /\ "S" \notin m.fl /\ ~(m.ack <= e.iss \/ m.ack > e.nxt)
      BY <1>3, <2>3, <3>1
    <3>3. X = e
      BY <2>1, <3>2 DEF packet_arrives_at_synsent_state
    <3> QED
      BY <1>0, <3>3
  <2> QED
    BY <1>1, <2>2, <2>3
<1>4. CASE e.st = "Estab" /\ e.rcv = 4
  <2>1. X = packet_arrives_at_incoming_tcp("c", e, m, due)
    BY <1>4 DEF packet_arrive_from_network_layer
  <2>2. ClientStep(e, send_ack("c", e, e.nxt, e.rcv), D)
    BY <1>4, ClientAcks
  <2>3. CASE m = SynAck
    <3>1. ~Validate_segment(e, m)
      BY <1>4, <2>3, Handshake DEF Validate_segment
    <3>2. "R" \notin m.fl
      BY <2>3, Handshake
    <3>3. X = send_ack("c", e, e.nxt, e.rcv)
      BY <2>1, <3>1, <3>2 DEF packet_arrives_at_incoming_tcp
    <3> QED
      BY <2>2, <3>3
  <2>4. CASE m.fl = {"A"} /\ m.ack \in 2..(D + 2)
    <3>1. /\ "A" \in m.fl /\ "R" \notin m.fl /\ "S" \notin m.fl /\ "F" \notin m.fl
          /\ m.fl \cap {"R", "S"} = {}
      BY <2>4
    <3>2. CASE ~Validate_segment(e, m)
      <4>1. X = send_ack("c", e, e.nxt, e.rcv)
        BY <2>1, <3>1, <3>2 DEF packet_arrives_at_incoming_tcp
      <4> QED
        BY <2>2, <4>1
    <3>3. CASE Validate_segment(e, m)
      <4>1. X = process_ack_packet("c", e, m, due)
        BY <2>1, <3>1, <3>3 DEF packet_arrives_at_incoming_tcp
      <4>2. process_ack_packet("c", e, m, due) = AckThenSend("c", e, m, due)
        BY <1>4 DEF process_ack_packet
      <4>3. ClientStep(e, AckThenSend("c", e, m, due), D)
        BY <1>4, <2>4, ClientAck
      <4> QED
        BY <4>1, <4>2, <4>3
    <3> QED
      BY <3>2, <3>3
  <2> QED
    BY <1>1, <2>3, <2>4
<1> QED
  BY <1>1, <1>2, <1>3, <1>4 DEF Opened

\* A retransmission timer runs out while packets are missing.
LEMMA ClientRto ==
    ASSUME NEW e, TcbType(e), NEW D \in Nat, D < Packets, Client(e, D), NEW n
    PROVE  ClientStep(e, handle_rto_timer(e, n), D)
<1> DEFINE X == handle_rto_timer(e, n)
           m == get_segment_from_queue(e.rq, n)
           c == congestion_rto_timeout(e)
           y == [e EXCEPT !.una = e.iss, !.nxt = e.iss + 1, !.syn = @ + 1]
           z == [e EXCEPT !.crash = TRUE]
           k == tcp_close_socket(e)
<1>0. /\ Opened(e, D) /\ e.tw = 0 /\ e.avail <= Packets /\ D <= e.fetched
      /\ e.isAPPClose => e.fetched = Packets
      /\ e.up = <<>> /\ \A p \in e.ooo : get_seg_len(p) = 0
      /\ \A p \in e.rq \cup Range(e.out) : ToServer(p, e.fetched, D)
  BY DEF Client
<1>1. e.st \in {"None", "SynSent", "Estab"}
  BY <1>0 DEF Opened
<1>2. \/ X = e \/ X = z
      \/ isSegmentInQueue(e.rq, n) /\ e.st = "SynSent" /\ (X = SendTimed(y, m) \/ X = k)
      \/ isSegmentInQueue(e.rq, n) /\ X = SendTimed(c, m)
  <2>1. \/ X = e \/ X = z
        \/ isSegmentInQueue(e.rq, n) /\ X = resend_syn(e, m)
        \/ isSegmentInQueue(e.rq, n) /\ X = SendTimed(c, m)
    BY Zenon DEF handle_rto_timer
  <2>2. resend_syn(e, m) = z \/ (e.st \in {"SynSent", "SynRcvd"}
                                  /\ (resend_syn(e, m) = SendTimed(y, m) \/ resend_syn(e, m) = k))
    BY Zenon DEF resend_syn
  <2> HIDE DEF X, z, y, k, c, m
  <2> QED
    BY <1>1, <2>1, <2>2
<1> HIDE DEF X
<1>3. ClientStep(e, e, D)
  BY ClientStays
<1>4. ClientStep(e, z, D)
  <2>2. /\ TcbType(z) /\ z.avail = e.avail /\ z.fetched = e.fetched /\ z.isAPPClose = e.isAPPClose
        /\ z.st = e.st /\ z.up = e.up /\ z.ooo = e.ooo /\ z.rq = e.rq /\ z.tw = e.tw
        /\ z.iss = e.iss /\ z.una = e.una /\ z.nxt = e.nxt /\ z.rcv = e.rcv /\ z.out = e.out
    BY Fields DEF TcbType
  <2> HIDE DEF z
  <2>3. Opened(z, D)
    BY <1>0, <2>2 DEF Opened
  <2>4. Client(z, D)
    BY <1>0, <2>2, <2>3 DEF Client
  <2>5. e.fetched \in Nat /\ z.fetched >= e.fetched
    BY <2>2 DEF TcbType
  <2> QED
    BY <2>2, <2>4, <2>5 DEF ClientStep
<1>5. ASSUME isSegmentInQueue(e.rq, n) PROVE m \in e.rq /\ m \in Message /\ ToServer(m, e.fetched, D)
  <2>1. \E q \in e.rq : q.seq = n
    BY <1>5 DEF isSegmentInQueue
  <2>2. m \in e.rq
    BY <2>1 DEF get_segment_from_queue
  <2> HIDE DEF m
  <2> QED
    BY <1>0, <2>2 DEF TcbType
<1>6. ASSUME isSegmentInQueue(e.rq, n), e.st = "SynSent" PROVE ClientStep(e, SendTimed(y, m), D)
  <2>1. e.iss = 1 /\ e.una = 1 /\ e.nxt = 2 /\ e.fetched = 0
    BY <1>0, <1>6 DEF Opened
  <2>2. /\ TcbType(y) /\ y.avail = e.avail /\ y.fetched = e.fetched /\ y.isAPPClose = e.isAPPClose
        /\ y.st = e.st /\ y.up = e.up /\ y.ooo = e.ooo /\ y.rq = e.rq /\ y.tw = e.tw
        /\ y.iss = e.iss /\ y.una = e.una /\ y.nxt = e.nxt /\ y.rcv = e.rcv /\ y.out = e.out
    BY <2>1, Fields DEF TcbType
  <2> HIDE DEF y, m
  <2>3. Opened(y, D)
    BY <1>0, <2>2 DEF Opened
  <2>4. Client(y, D)
    BY <2>2, <2>3 DEF Client
  <2>5. ClientStep(y, SendTimed(y, m), D)
    BY <1>5, <1>6, <2>2, <2>4, ClientTimed
  <2> QED
    BY <2>2, <2>5 DEF ClientStep
<1>7. ASSUME e.st = "SynSent" PROVE ClientStep(e, k, D)
  <2>1. /\ TcbType(k) /\ k.st = "None" /\ k.rq = {} /\ k.ooo = {}
        /\ k.avail = e.avail /\ k.fetched = e.fetched /\ k.up = e.up
        /\ k.tw = e.tw /\ k.out = e.out /\ ~k.isAPPClose
    BY ClosedShape
  <2> HIDE DEF k
  <2>2. Opened(k, D)
    BY <1>0, <1>7, <2>1 DEF Opened
  <2>3. Client(k, D)
    BY <1>0, <2>1, <2>2 DEF Client
  <2> QED
    BY <2>1, <2>3 DEF ClientStep, TcbType
<1>8. ASSUME isSegmentInQueue(e.rq, n) PROVE ClientStep(e, SendTimed(c, m), D)
  <2>1. Sends(e, c, e.rq)
    BY RtoQuiet, QuietSends
  <2>2. ClientStep(e, c, D) /\ c.fetched = e.fetched
    BY <1>0, <2>1, ClientSends DEF Sends, Same, Core
  <2> HIDE DEF c, m
  <2>3. ClientStep(c, SendTimed(c, m), D)
    BY <1>5, <1>8, <2>2, ClientTimed DEF ClientStep
  <2> QED
    BY <2>2, <2>3 DEF ClientStep
<1> QED
  BY <1>2, <1>3, <1>4, <1>6, <1>7, <1>8 DEF X

\* A client that differs in nothing the invariant reads.
LEMMA ClientLike ==
    ASSUME NEW e, NEW f, NEW D, TcbType(f), Client(e, D), f.fetched = e.fetched,
           f.avail <= Packets, f.isAPPClose = e.isAPPClose, f.st = e.st, f.up = e.up,
           f.ooo = e.ooo, f.rq = e.rq, f.tw = e.tw, f.iss = e.iss, f.una = e.una,
           f.nxt = e.nxt, f.rcv = e.rcv, f.out = e.out
    PROVE  ClientStep(e, f, D)
<1>1. Opened(e, D) => Opened(f, D)
  BY DEF Opened
<1>2. Client(f, D)
  BY <1>1 DEF Client
<1>3. f.fetched >= e.fetched
  BY DEF TcbType
<1> QED
  BY <1>2, <1>3 DEF ClientStep

\* The application's next packet is in the socket interface.
LEMMA ClientPacket ==
    ASSUME NEW e, TcbType(e), NEW D \in Nat, Client(e, D), e.avail < Packets
    PROVE  LET b == [e EXCEPT !.avail = @ + 1]
           IN /\ D < Packets /\ ClientStep(e, b, D)
              /\ b.avail = e.avail + 1 /\ b.avail <= Packets /\ b.fetched = e.fetched
              /\ b.isAPPClose = e.isAPPClose /\ b.st = e.st /\ b.up = e.up /\ b.ooo = e.ooo
              /\ b.rq = e.rq /\ b.tw = e.tw /\ b.iss = e.iss /\ b.una = e.una /\ b.nxt = e.nxt
              /\ b.rcv = e.rcv /\ b.out = e.out /\ b.dials = e.dials
              /\ b.waitFromApp = e.waitFromApp /\ TcbType(b)
<1> DEFINE b == [e EXCEPT !.avail = @ + 1]
<1>0. D < Packets
  <2>1. D <= e.fetched /\ e.fetched <= e.avail /\ e.fetched \in Nat /\ e.avail \in Nat /\ Packets \in Nat
    BY TcpAssumption DEF Client, TcbType
  <2> QED
    BY ONLY <2>1, e.avail < Packets, D \in Nat
<1>1. /\ TcbType(b) /\ b.avail = e.avail + 1 /\ b.avail <= Packets /\ b.fetched = e.fetched
      /\ b.isAPPClose = e.isAPPClose /\ b.st = e.st /\ b.up = e.up /\ b.ooo = e.ooo
      /\ b.rq = e.rq /\ b.tw = e.tw /\ b.iss = e.iss /\ b.una = e.una /\ b.nxt = e.nxt
      /\ b.rcv = e.rcv /\ b.out = e.out /\ b.dials = e.dials /\ b.waitFromApp = e.waitFromApp
  <2>1. e.avail \in Nat /\ e.fetched \in Nat /\ e.fetched <= e.avail /\ Packets \in Nat
    BY TcpAssumption DEF TcbType
  <2>2. e.avail + 1 \in Nat /\ e.avail + 1 <= Packets /\ e.fetched <= e.avail + 1
    BY <2>1
  <2> QED
    BY <2>2, Fields DEF TcbType
<1> HIDE DEF b
<1>2. ClientStep(e, b, D)
  BY <1>1, ClientLike
<1> QED
  BY <1>0, <1>1, <1>2 DEF b

\* The application's next packet arrives.
LEMMA ClientApplication ==
    ASSUME NEW e, TcbType(e), NEW D \in Nat, Client(e, D), e.avail < Packets,
           e.st \in Opening => ~e.waitFromApp,
           packet_arrive_from_application_layer([e EXCEPT !.avail = @ + 1]).dials <= 1
    PROVE  ClientStep(e, packet_arrive_from_application_layer([e EXCEPT !.avail = @ + 1]), D)
<1> DEFINE b == [e EXCEPT !.avail = @ + 1]
           X == packet_arrive_from_application_layer(b)
<1>0. D < Packets
  BY ClientPacket
<1>1. /\ TcbType(b) /\ b.avail = e.avail + 1 /\ b.avail <= Packets /\ b.fetched = e.fetched
      /\ b.isAPPClose = e.isAPPClose /\ b.st = e.st /\ b.up = e.up /\ b.ooo = e.ooo
      /\ b.rq = e.rq /\ b.tw = e.tw /\ b.iss = e.iss /\ b.una = e.una /\ b.nxt = e.nxt
      /\ b.rcv = e.rcv /\ b.out = e.out /\ b.dials = e.dials /\ b.waitFromApp = e.waitFromApp
  BY ClientPacket
<1>2. ClientStep(e, b, D)
  BY ClientPacket
<1> HIDE DEF b
<1>3. X.dials <= 1
  BY DEF b
<1>4. ASSUME ClientStep(b, X, D) PROVE ClientStep(e, X, D)
  BY <1>1, <1>4 DEF ClientStep
<1>5. /\ Opened(e, D) /\ e.tw = 0 /\ D <= e.fetched /\ e.up = <<>>
      /\ \A m \in Range(e.out) : ToServer(m, e.fetched, D)
  BY <1>0 DEF Client
<1>6. CASE e.st = "None"
  <2>1. X = tcp_active_open("c", b)
    BY <1>1, <1>6 DEF packet_arrive_from_application_layer
  <2>2. /\ TcbType(X) /\ X.st = "SynSent" /\ X.dials = b.dials + 1
        /\ X.avail = b.avail /\ X.fetched = b.fetched /\ X.tw = b.tw /\ X.up = b.up
        /\ X.ooo = {} /\ ~X.isAPPClose
        /\ b.dials = 0 => /\ X.iss = 1 /\ X.una = 1 /\ X.nxt = 2 /\ X.rq = {Syn}
                          /\ Range(X.out) \subseteq Range(b.out) \cup {Syn}
    BY <1>1, <2>1, OpenShape
  <2> HIDE DEF X
  <2>3. b.dials = 0
    <3>1. b.dials \in Nat
      BY <1>1 DEF TcbType
    <3> QED
      BY <1>3, <2>2, <3>1
  <2>4. X.fetched = 0
    BY <1>1, <1>5, <1>6, <2>2 DEF Opened
  <2>5. ToServer(Syn, X.fetched, D)
    BY Handshake DEF ToServer
  <2>6. \A m \in X.rq \cup Range(X.out) : ToServer(m, X.fetched, D)
    BY <1>1, <1>5, <2>2, <2>3, <2>5
  <2>7. Opened(X, D)
    BY <2>2, <2>3, <2>4 DEF Opened
  <2>8. Client(X, D)
    BY <1>1, <1>5, <2>2, <2>4, <2>6, <2>7 DEF Client
  <2>9. X.fetched >= e.fetched
    BY <1>1, <2>2 DEF TcbType
  <2> QED
    BY <1>0, <2>2, <2>8, <2>9 DEF ClientStep, X, b
<1>7. CASE e.st # "None" /\ e.waitFromApp
  <2> DEFINE s == send_segment("c", b)
  <2>1. e.st = "Estab"
    BY <1>5, <1>7 DEF Opened, Opening
  <2>2. X = [s EXCEPT !.waitFromApp = FALSE]
    BY <1>1, <1>7, <2>1 DEF packet_arrive_from_application_layer
  <2>3. ClientStep(b, s, D)
    BY <1>0, <1>1, <1>2, <2>1, ClientSegments DEF ClientStep
  <2> HIDE DEF s, X
  <2>4. TcbType(s) /\ Client(s, D) /\ s.fetched >= b.fetched /\ s.avail <= Packets
    BY <2>3 DEF ClientStep, Client
  <2>5. /\ TcbType(X) /\ X.fetched = s.fetched
        /\ X.avail = s.avail /\ X.isAPPClose = s.isAPPClose /\ X.st = s.st /\ X.up = s.up
        /\ X.ooo = s.ooo /\ X.rq = s.rq /\ X.tw = s.tw /\ X.iss = s.iss /\ X.una = s.una
        /\ X.nxt = s.nxt /\ X.rcv = s.rcv /\ X.out = s.out
    BY <2>2, <2>4, Fields DEF TcbType
  <2>6. ClientStep(s, X, D)
    BY <2>4, <2>5, ClientLike
  <2>7. ClientStep(b, X, D)
    BY <2>4, <2>5, <2>6 DEF ClientStep
  <2> QED
    BY <1>0, <1>4, <2>7 DEF X, b
<1>8. CASE e.st # "None" /\ ~e.waitFromApp
  <2>1. X = b
    BY <1>1, <1>8 DEF packet_arrive_from_application_layer
  <2> QED
    BY <1>0, <1>2, <2>1 DEF b
<1> QED
  BY <1>6, <1>7, <1>8

\* When everything was delivered the client only repeats itself and closes.
LEMMA ClientMild ==
    ASSUME NEW e, TcbType(e), Client(e, Packets), NEW X, Mild("c", e, X), e.st \notin Opening
    PROVE  ClientStep(e, X, Packets)
<1>1. /\ TcbType(X) /\ X.avail = e.avail /\ X.fetched = e.fetched /\ X.rq \subseteq e.rq
      /\ Range(X.out) \subseteq Range(e.out) \cup e.rq \cup Controls("c")
      /\ X.up = <<>> /\ \A q \in X.ooo : get_seg_len(q) = 0
      /\ X.st \notin Opening
      /\ X.isAPPClose => e.isAPPClose
  BY DEF Mild, Client
<1>2. ~(Packets < Packets)
  BY TcpAssumption
<1>3. \A m \in Controls("c") : ToServer(m, e.fetched, Packets)
  <2>1. \A m \in Controls("c") : m.to = "s" /\ m.pkt = 0 /\ "S" \notin m.fl
    BY DEF Controls, Peer
  <2> QED
    BY <1>2, <2>1 DEF ToServer
<1>4. \A m \in X.rq \cup Range(X.out) : ToServer(m, X.fetched, Packets)
  BY <1>1, <1>3 DEF Client
<1>5. Client(X, Packets)
  BY <1>1, <1>2, <1>4 DEF Client, Opening
<1>6. X.fetched >= e.fetched
  BY <1>1 DEF TcbType
<1> QED
  BY <1>1, <1>5, <1>6 DEF ClientStep

\* Every event of the client once everything was delivered.
LEMMA ClientDone ==
    ASSUME NEW e, TcbType(e), Client(e, Packets)
    PROVE  /\ \A m \in Message, due \in BOOLEAN :
                ToClient(m, Packets) =>
                  ClientStep(e, packet_arrive_from_network_layer("c", e, m, due), Packets)
           /\ \A n : ClientStep(e, handle_rto_timer(e, n), Packets)
           /\ ClientStep(e, handle_time_wait_timeout([e EXCEPT !.tw = @ - 1]), Packets)
<1>1. /\ e.avail = e.fetched /\ e.st \notin Opening /\ e.up = <<>>
      /\ \A q \in e.ooo : get_seg_len(q) = 0
  <2>1. /\ e.avail <= Packets /\ Packets <= e.fetched /\ e.fetched <= e.avail
        /\ e.fetched \in Nat /\ e.avail \in Nat /\ Packets \in Nat /\ Packets > 0
        /\ e.st # "SynRcvd" /\ (e.st = "SynSent" => e.fetched = 0)
        /\ e.up = <<>> /\ \A q \in e.ooo : get_seg_len(q) = 0
    BY TcpAssumption DEF Client, TcbType
  <2>2. e.avail = e.fetched /\ e.fetched # 0
    BY ONLY <2>1
  <2> QED
    BY <2>1, <2>2 DEF Opening
<1>2. "c" \in Device
  BY DEF Device
<1>3. ASSUME NEW m \in Message, NEW due \in BOOLEAN, ToClient(m, Packets)
      PROVE  ClientStep(e, packet_arrive_from_network_layer("c", e, m, due), Packets)
  <2>1. m.pkt = 0 /\ m.fl # {"S"}
    BY <1>3, Handshake DEF ToClient
  <2>2. ~(m.pkt > 0)
    BY <2>1
  <2>3. Mild("c", e, packet_arrive_from_network_layer("c", e, m, due))
    BY <1>1, <1>2, <2>1, <2>2, MildNetwork
  <2> QED
    BY <1>1, <2>3, ClientMild
<1>4. \A n : ClientStep(e, handle_rto_timer(e, n), Packets)
  BY <1>1, MildRto, ClientMild
<1>5. ClientStep(e, handle_time_wait_timeout([e EXCEPT !.tw = @ - 1]), Packets)
  BY <1>1, MildTimeWait, ClientMild
<1> QED
  BY <1>3, <1>4, <1>5

-----------------------------------------------------------------------------
(* The server *)

\* What a handler makes of the server's socket: it hands up the next packets,
\* in order.
ServerStep(X, F, D) ==
    /\ TcbType(X)
    /\ \E k \in 0..(F - D) : X.up = [i \in 1..k |-> D + i] /\ Server(X, F, D + k)

\* Nothing is handed up.
LEMMA ServerStays ==
    ASSUME NEW X, TcbType(X), NEW D \in Nat, NEW F \in Nat, D <= F, Server(X, F, D), X.up = <<>>
    PROVE  ServerStep(X, F, D)
<1>1. 0 \in 0..(F - D) /\ D + 0 = D
  OBVIOUS
<1>2. [i \in 1..0 |-> D + i] = <<>>
  OBVIOUS
<1>3. X.up = [i \in 1..0 |-> D + i] /\ Server(X, F, D + 0)
  BY <1>1, <1>2
<1> QED
  BY <1>1, <1>3 DEF ServerStep

\* A server that sends what the network may hold.
LEMMA ServerSends ==
    ASSUME NEW e, NEW D \in Nat, NEW F \in Nat, D <= F, Server(e, F, D), e.up = <<>>,
           NEW f, NEW M, Sends(e, f, M), \A m \in M : ToClient(m, D)
    PROVE  ServerStep(f, F, D)
<1>1. /\ TcbType(f) /\ f.avail = e.avail /\ f.isAPPClose = e.isAPPClose /\ f.dials = e.dials
      /\ f.st = e.st /\ f.up = <<>> /\ f.ooo = e.ooo /\ f.rq = e.rq /\ f.tw = e.tw
      /\ f.iss = e.iss /\ f.una = e.una /\ f.nxt = e.nxt /\ f.rcv = e.rcv
      /\ Range(f.out) \subseteq Range(e.out) \cup M
  BY DEF Sends, Same, Core, Rest
<1>2. Server(f, F, D)
  BY <1>1 DEF Server
<1> QED
  BY <1>1, <1>2, ServerStays

\* The answer to the SYN may always be in the network.
LEMMA SynAckToClient ==
    ASSUME NEW D, NEW m \in {SynAck}
    PROVE  ToClient(m, D)
  BY Handshake DEF ToClient

\* The server's acknowledgement.
LEMMA ServerAnswers ==
    ASSUME NEW e, TcbType(e), NEW D \in Nat, NEW F \in Nat, D <= F, Server(e, F, D), e.up = <<>>,
           e.st \in Reading
    PROVE  ServerStep(send_ack("s", e, e.nxt, e.rcv), F, D)
<1> DEFINE a == Seg("s", {"A"}, e.nxt, e.rcv, 0)
<1>1. e.nxt \in Int /\ e.rcv \in Int /\ "s" \in Device /\ Syn \in Message /\ e.rcv = D + 2
  BY Handshake DEF TcbType, Device, Server
<1>2. Sends(e, send_ack("s", e, e.nxt, e.rcv), {a})
  BY <1>1, ControlSends
<1>3. a.to = "c" /\ a.pkt = 0 /\ a.fl = {"A"} /\ a.ack = D + 2
  BY <1>1 DEF Seg, Peer
<1> HIDE DEF a
<1>4. ToClient(a, D)
  BY <1>3 DEF ToClient
<1> QED
  BY <1>2, <1>4, ServerSends

\* The client's acknowledgement of the handshake.
LEMMA ServerAck ==
    ASSUME NEW e, TcbType(e), NEW D \in Nat, NEW F \in Nat, D <= F, D < Packets,
           Server(e, F, D), e.up = <<>>, e.st = "Estab", NEW m \in Message, m.ack = 4, NEW due
    PROVE  ServerStep(AckThenSend("s", e, m, due), F, D)
<1> DEFINE X == AckThenSend("s", e, m, due)
<1>0. "s" \in Device
  BY DEF Device
<1>1. /\ e.avail = 0 /\ ~e.isAPPClose /\ e.dials # 0 /\ e.rq \subseteq {SynAck}
      /\ \A q \in Range(e.out) : ToClient(q, D)
      /\ e.rcv = D + 2 /\ Waits(e.ooo, D, F) /\ e.nxt = 4 /\ e.tw = 0
  BY DEF Server, Reading
<1>2. CASE Sends(e, X, e.rq)
  <2>1. \A q \in e.rq : ToClient(q, D)
    BY <1>1, SynAckToClient
  <2> QED
    BY <1>2, <2>1, ServerSends
<1>3. CASE m.ack > e.nxt
  BY <1>1, <1>3
<1>4. CASE /\ Acks(e, m)
           /\ \E g : /\ X = send_segment("s", g) /\ TcbType(g)
                     /\ g.una = m.ack /\ g.rq = delete_segment_from_queue(e.rq, m.ack)
                     /\ g.st = e.st /\ g.nxt = e.nxt /\ g.iss = e.iss
                     /\ g.avail = e.avail /\ g.fetched = e.fetched /\ Rest(g) = Rest(e)
                     /\ Range(g.out) \subseteq Range(e.out) \cup e.rq
  <2>1. PICK g : /\ X = send_segment("s", g) /\ TcbType(g)
                 /\ g.una = m.ack /\ g.rq = delete_segment_from_queue(e.rq, m.ack)
                 /\ g.st = e.st /\ g.nxt = e.nxt /\ g.iss = e.iss
                 /\ g.avail = e.avail /\ g.fetched = e.fetched /\ Rest(g) = Rest(e)
                 /\ Range(g.out) \subseteq Range(e.out) \cup e.rq
    BY <1>4
  <2>2. /\ g.rcv = e.rcv /\ g.ooo = e.ooo /\ g.up = <<>> /\ g.tw = 0 /\ ~g.isAPPClose
        /\ g.dials = e.dials /\ g.avail = 0 /\ g.nxt = 4 /\ g.st = "Estab" /\ g.rq \subseteq e.rq
    BY <1>1, <2>1 DEF Rest, delete_segment_from_queue
  <2>3. g.fetched = 0
    <3>1. g.fetched \in Nat /\ g.fetched <= 0
      BY <2>1, <2>2 DEF TcbType
    <3> QED
      BY <3>1
  <2> DEFINE Y == send_segment("s", g)
             S(n) == {Segment("s", g, i) : i \in 1..n}
             Shape(n) ==
                 /\ TcbType(Y)
                 /\ Y.nxt = g.nxt + n /\ Y.fetched = g.fetched + n /\ Y.avail = g.avail
                 /\ Y.rq = g.rq \cup S(n)
                 /\ Range(Y.out) \subseteq Range(g.out) \cup S(n) \cup Controls("s")
                 /\ Y.una = g.una /\ Y.iss = g.iss /\ Y.rcv = g.rcv /\ Y.dials = g.dials
                 /\ Y.ooo = g.ooo /\ Y.up = g.up /\ Y.tw = g.tw
                 /\ Y.isAPPClose = (g.isAPPClose \/ (n > 0 /\ g.fetched + n = Packets))
                 /\ \/ Y.st = g.st /\ Range(Y.out) \subseteq Range(g.out) \cup S(n)
                    \/ Y.st = "FinWait1" /\ Y.isAPPClose /\ Y.rq = {}
  <2>4. PICK n \in 0..(g.avail - g.fetched) : Shape(n)
    BY <1>0, <2>1, Segments
  <2> HIDE DEF Y
  <2>5. n = 0
    BY <2>2, <2>3, <2>4
  <2>6. S(n) = {}
    BY <2>5
  <2> HIDE DEF S
  <2>7. ~Y.isAPPClose
    <3>1. ~(n > 0)
      BY <2>5
    <3>2. Y.isAPPClose = (g.isAPPClose \/ (n > 0 /\ g.fetched + n = Packets))
      BY <2>4
    <3> QED
      BY <2>2, <3>1, <3>2, Zenon
  <2>8. /\ TcbType(Y) /\ Y.nxt = 4 /\ Y.avail = 0 /\ Y.rq \subseteq e.rq
        /\ Range(Y.out) \subseteq Range(e.out) \cup e.rq /\ Y.rcv = D + 2 /\ Y.dials = e.dials
        /\ Y.ooo = e.ooo /\ Y.up = <<>> /\ Y.tw = 0 /\ Y.st = "Estab"
    <3>1. g.nxt + n = 4
      BY <2>2, <2>5
    <3> QED
      BY <1>1, <2>1, <2>2, <2>4, <2>6, <2>7, <3>1
  <2>9. \A q \in Range(Y.out) : ToClient(q, D)
    BY <1>1, <2>8, SynAckToClient
  <2>10. Server(Y, F, D)
    BY <1>1, <2>7, <2>8, <2>9 DEF Server
  <2>11. ServerStep(Y, F, D)
    BY <2>8, <2>10, ServerStays
  <2> QED
    BY <2>1, <2>11 DEF Y
<1>5. AckOutcome("s", e, m, X)
  BY <1>0, AckShape
<1> HIDE DEF X
<1> QED
  BY <1>2, <1>3, <1>4, <1>5 DEF AckOutcome, X

\* The text of a packet.
LEMMA ServerText ==
    ASSUME NEW e, TcbType(e), NEW D \in Nat, NEW F \in Nat, D <= F, F <= Packets, D < Packets,
           Server(e, F, D), e.up = <<>>, e.st = "Estab", NEW p \in 1..F, NEW due
    PROVE  ServerStep(Text("s", e, Data(p), due), F, D)
<1> DEFINE X == Text("s", e, Data(p), due)
           a(k) == Seg("s", {"A"}, e.nxt, (D + k) + 2, 0)
           Shape(k) == /\ Same(e, X)
                       /\ X.dials = e.dials /\ X.isAPPClose = e.isAPPClose /\ X.tw = e.tw
                       /\ X.rcv = (D + k) + 2
                       /\ X.up = [i \in 1..k |-> D + i]
                       /\ Waits(X.ooo, D + k, F)
                       /\ Range(X.out) \subseteq Range(e.out) \cup {a(k)}
<1>0. "s" \in Device
  BY DEF Device
<1>1. /\ e.avail = 0 /\ ~e.isAPPClose /\ e.dials # 0 /\ e.rq \subseteq {SynAck}
      /\ \A q \in Range(e.out) : ToClient(q, D)
      /\ e.rcv = D + 2 /\ Waits(e.ooo, D, F) /\ e.nxt = 4 /\ e.tw = 0
  BY DEF Server, Reading
<1>2. PICK k \in 0..(F - D) : Shape(k)
  BY <1>0, <1>1, TextRun
<1> HIDE DEF X
<1>3. /\ TcbType(X) /\ X.st = "Estab" /\ X.avail = 0 /\ X.rq \subseteq {SynAck} /\ X.nxt = 4
      /\ ~X.isAPPClose /\ X.tw = 0 /\ X.dials = e.dials
  BY <1>1, <1>2 DEF Same, Core
<1>4. D + k \in Nat /\ D + k <= F
  <2>1. k \in Int /\ 0 <= k /\ k <= F - D
    BY <1>2
  <2> QED
    BY ONLY <2>1, D \in Nat, F \in Nat, D <= F
<1>5. \A q \in Range(X.out) : ToClient(q, D + k)
  <2>1. ASSUME NEW q, ToClient(q, D) PROVE ToClient(q, D + k)
    <3> DEFINE z == D + k
    <3>1. D <= z /\ z \in Nat
      BY <1>2, <1>4
    <3> HIDE DEF z
    <3>2. \A i \in 2..(D + 2) : i \in 2..(z + 2)
      BY <3>1
    <3>3. D < Packets
      OBVIOUS
    <3> QED
      BY <2>1, <3>2, <3>3 DEF ToClient, z
  <2>2. ToClient(a(k), D + k)
    <3>1. a(k).to = "c" /\ a(k).pkt = 0 /\ a(k).fl = {"A"} /\ a(k).ack = (D + k) + 2
      BY DEF Seg, Peer
    <3> HIDE DEF a
    <3>2. (D + k) + 2 \in 2..((D + k) + 2)
      BY <1>4
    <3> QED
      BY <3>1, <3>2 DEF ToClient
  <2> HIDE DEF a
  <2> QED
    BY <1>1, <1>2, <2>1, <2>2
<1>6. Server(X, F, D + k)
  BY <1>1, <1>2, <1>3, <1>5 DEF Server
<1>7. X.up = [i \in 1..k |-> D + i]
  BY <1>2
<1> QED
  BY <1>2, <1>3, <1>6, <1>7 DEF ServerStep, X

\* A packet arrives while others are missing.
LEMMA ServerReceives ==
    ASSUME NEW e, TcbType(e), NEW D \in Nat, NEW F \in Nat, D <= F, F <= Packets, D < Packets,
           Server(e, F, D), e.up = <<>>, NEW m \in Message, ToServer(m, F, D), NEW due,
           packet_arrive_from_network_layer("s", e, m, due).dials <= 1
    PROVE  ServerStep(packet_arrive_from_network_layer("s", e, m, due), F, D)
<1> DEFINE X == packet_arrive_from_network_layer("s", e, m, due)
           answer == send_ack("s", e, e.nxt, e.rcv)
           Text0 == m.pkt \in 1..F /\ m = Data(m.pkt) /\ m.fl = {}
           Ack0 == m.fl = {"A"} /\ m.ack = 4
<1>0. ServerStep(e, F, D)
  BY ServerStays
<1>1. /\ e.avail = 0 /\ ~e.isAPPClose /\ e.rq \subseteq {SynAck}
      /\ e.dials = 0 => D = 0 /\ e.st = "None"
  BY DEF Server
<1>10. /\ \A q \in Range(e.out) : ToClient(q, D)
       /\ e.st \in Reading => e.rcv = D + 2 /\ Waits(e.ooo, D, F)
       /\ e.st = "SynRcvd" => D = 0 /\ e.iss = 3 /\ e.una = 3 /\ e.nxt = 4
       /\ e.st \in {"None", "SynRcvd", "Estab"} /\ (e.st = "Estab" => e.nxt = 4)
       /\ e.tw = 0
  BY DEF Server
<1>2. Text0 \/ m = Syn \/ Ack0
  <2>1. m.pkt \in Nat
    BY DEF Message
  <2>2. CASE m.pkt > 0
    <3>1. m = Data(m.pkt) /\ m.pkt \in 1..F /\ m.pkt \in Nat \ {0}
      BY <2>1, <2>2 DEF ToServer
    <3> DEFINE p == m.pkt
    <3> HIDE DEF p
    <3>2. Data(p).fl = {}
      BY <3>1, DataSegment DEF p
    <3> QED
      BY <3>1, <3>2 DEF p
  <2> QED
    BY <2>2 DEF ToServer
<1>3. CASE e.st = "None"
  <2>1. CASE m = Syn
    <3>1. X = tcp_accept("s", e, Syn)
      BY <1>3, <2>1, Handshake DEF packet_arrive_from_network_layer
    <3>2. /\ TcbType(X) /\ X.st = "SynRcvd" /\ X.dials = e.dials + 1 /\ X.rcv = 2
          /\ X.avail = e.avail /\ X.fetched = e.fetched /\ X.tw = e.tw /\ X.up = e.up
          /\ X.ooo = {} /\ ~X.isAPPClose
          /\ e.dials = 0 => /\ X.iss = 3 /\ X.una = 3 /\ X.nxt = 4 /\ X.rq = {SynAck}
                            /\ Range(X.out) \subseteq Range(e.out) \cup {SynAck}
      BY <3>1, AcceptShape
    <3>3. X.dials <= 1
      OBVIOUS
    <3> HIDE DEF X
    <3>4. e.dials = 0 /\ X.dials # 0
      <4>1. e.dials \in Nat
        BY DEF TcbType
      <4> QED
        BY <3>2, <3>3, <4>1
    <3>5. D = 0 /\ X.rcv = D + 2
      BY <1>1, <3>2, <3>4
    <3>6. \A q \in Range(X.out) : ToClient(q, D)
      BY <1>10, <3>2, <3>4, SynAckToClient
    <3>7. Waits(X.ooo, D, F)
      BY <3>2 DEF Waits
    <3>8. Server(X, F, D)
      BY <1>1, <1>10, <3>2, <3>4, <3>5, <3>6, <3>7 DEF Server
    <3>9. ServerStep(X, F, D)
      BY <3>2, <3>8, ServerStays
    <3> QED
      BY <3>9 DEF X
  <2>2. CASE Text0 \/ Ack0
    <3>1. m.fl # {"S"}
      BY <2>2
    <3>2. X = e
      BY <1>3, <3>1 DEF packet_arrive_from_network_layer
    <3> QED
      BY <1>0, <3>2
  <2> QED
    BY <1>2, <2>1, <2>2
<1>4. CASE e.st \in {"SynRcvd", "Estab"}
  <2>1. X = packet_arrives_at_incoming_tcp("s", e, m, due)
    BY <1>4 DEF packet_arrive_from_network_layer
  <2>2. ServerStep(answer, F, D) /\ e.rcv = D + 2
    BY <1>4, <1>10, ServerAnswers DEF Reading
  <2>3. CASE ~Validate_segment(e, m) /\ "R" \notin m.fl
    <3>1. X = answer
      BY <2>1, <2>3 DEF packet_arrives_at_incoming_tcp
    <3> QED
      BY <2>2, <3>1
  <2>4. CASE m = Syn
    <3>1. ~Validate_segment(e, m) /\ "R" \notin m.fl
      <4>1. m.seq = 1 /\ get_seg_len(m) = 1 /\ m.fl = {"S"}
        BY <2>4, Handshake
      <4> QED
        BY <2>2, <4>1 DEF Validate_segment
    <3> QED
      BY <2>3, <3>1
  <2>5. CASE Ack0 /\ Validate_segment(e, m)
    <3>1. X = process_ack_packet("s", e, m, due)
      <4>1. "R" \notin m.fl /\ "S" \notin m.fl /\ m.fl \cap {"R", "S"} = {} /\ "A" \in m.fl
        BY <2>5
      <4> QED
        BY <2>1, <2>5, <4>1 DEF packet_arrives_at_incoming_tcp
    <3>2. CASE e.st = "Estab"
      <4>1. X = AckThenSend("s", e, m, due)
        BY <3>1, <3>2 DEF process_ack_packet
      <4>2. ServerStep(AckThenSend("s", e, m, due), F, D)
        BY <2>5, <3>2, ServerAck
      <4> QED
        BY <4>1, <4>2
    <3>3. CASE e.st = "SynRcvd"
      <4> DEFINE f == tcp_change_state(e, "Estab")
      <4>1. e.una = 3 /\ e.nxt = 4 /\ D = 0 /\ e.dials # 0
        BY <1>1, <1>10, <3>3
      <4>2. X = AckThenSend("s", f, m, due)
        BY <2>5, <3>1, <3>3, <4>1 DEF process_ack_packet
      <4>3. /\ TcbType(f) /\ f.avail = e.avail /\ f.isAPPClose = e.isAPPClose /\ f.dials = e.dials
            /\ f.st = "Estab" /\ f.up = e.up /\ f.ooo = e.ooo /\ f.rq = e.rq /\ f.tw = e.tw
            /\ f.nxt = e.nxt /\ f.rcv = e.rcv /\ f.out = e.out
        BY Fields DEF TcbType, tcp_change_state
      <4> HIDE DEF f
      <4>4. Waits(e.ooo, D, F)
        BY <1>10, <3>3 DEF Reading
      <4>5. Server(f, F, D)
        BY <1>1, <1>10, <2>2, <4>1, <4>3, <4>4 DEF Server
      <4>6. ServerStep(AckThenSend("s", f, m, due), F, D)
        BY <2>5, <4>3, <4>5, ServerAck
      <4> QED
        BY <4>2, <4>6
    <3> QED
      BY <1>4, <3>2, <3>3
  <2>6. CASE Text0 /\ Validate_segment(e, m)
    <3>1. X = process_segment_text("s", e, m, due)
      BY <2>1, <2>6 DEF packet_arrives_at_incoming_tcp
    <3>2. CASE e.st = "SynRcvd"
      <4>1. X = e
        BY <2>6, <3>1, <3>2 DEF process_segment_text
      <4> QED
        BY <1>0, <4>1
    <3>3. CASE e.st = "Estab"
      <4>1. X = Text("s", e, Data(m.pkt), due)
        BY <2>6, <3>1, <3>3 DEF process_segment_text
      <4>2. ServerStep(Text("s", e, Data(m.pkt), due), F, D)
        BY <2>6, <3>3, ServerText
      <4> QED
        BY <4>1, <4>2
    <3> QED
      BY <1>4, <3>2, <3>3
  <2> QED
    BY <1>2, <2>3, <2>4, <2>5, <2>6
<1> QED
  BY <1>3, <1>4, <1>10

\* The answer to the SYN is sent once more.
LEMMA ServerTimed ==
    ASSUME NEW e, TcbType(e), NEW D \in Nat, NEW F \in Nat, D <= F, Server(e, F, D), e.up = <<>>
    PROVE  ServerStep(SendTimed(e, SynAck), F, D)
<1> DEFINE X == SendTimed(e, SynAck)
<1>0. SynAck \in Message
  BY Handshake
<1>1. /\ TcbType(X) /\ X.rq = e.rq \cup {SynAck} /\ Range(X.out) \subseteq Range(e.out) \cup {SynAck}
      /\ X.st = e.st /\ X.una = e.una /\ X.nxt = e.nxt /\ X.iss = e.iss
      /\ X.avail = e.avail /\ X.fetched = e.fetched /\ Rest(X) = Rest(e)
  BY <1>0, TimedShape
<1> HIDE DEF X
<1>2. /\ X.rcv = e.rcv /\ X.ooo = e.ooo /\ X.up = e.up /\ X.tw = e.tw
      /\ X.isAPPClose = e.isAPPClose /\ X.dials = e.dials
  BY <1>1 DEF Rest
<1>3. \A q \in Range(X.out) : ToClient(q, D)
  BY <1>1, SynAckToClient DEF Server
<1>4. X.rq \subseteq {SynAck}
  BY <1>1 DEF Server
<1>5. Server(X, F, D)
  BY <1>1, <1>2, <1>3, <1>4 DEF Server
<1>6. ServerStep(X, F, D)
  BY <1>1, <1>2, <1>5, ServerStays
<1> QED
  BY <1>6 DEF X

\* A retransmission timer runs out while packets are missing.
LEMMA ServerRto ==
    ASSUME NEW e, TcbType(e), NEW D \in Nat, NEW F \in Nat, D <= F, D < Packets,
           Server(e, F, D), e.up = <<>>, NEW n
    PROVE  ServerStep(handle_rto_timer(e, n), F, D)
<1> DEFINE X == handle_rto_timer(e, n)
           m == get_segment_from_queue(e.rq, n)
           c == congestion_rto_timeout(e)
           y == [e EXCEPT !.una = e.iss, !.nxt = e.iss + 1, !.syn = @ + 1]
           z == [e EXCEPT !.crash = TRUE]
           k == tcp_close_socket(e)
<1>0. /\ e.avail = 0 /\ ~e.isAPPClose /\ e.rq \subseteq {SynAck}
      /\ e.dials = 0 => D = 0 /\ e.st = "None"
      /\ \A q \in Range(e.out) : ToClient(q, D)
      /\ e.st = "SynRcvd" => D = 0 /\ e.iss = 3 /\ e.una = 3 /\ e.nxt = 4
      /\ e.st \in {"None", "SynRcvd", "Estab"} /\ e.tw = 0
  BY DEF Server
<1>2. \/ X = e \/ X = z
      \/ isSegmentInQueue(e.rq, n) /\ e.st = "SynRcvd" /\ (X = SendTimed(y, m) \/ X = k)
      \/ isSegmentInQueue(e.rq, n) /\ X = SendTimed(c, m)
  <2>1. \/ X = e \/ X = z
        \/ isSegmentInQueue(e.rq, n) /\ X = resend_syn(e, m)
        \/ isSegmentInQueue(e.rq, n) /\ X = SendTimed(c, m)
    BY Zenon DEF handle_rto_timer
  <2>2. resend_syn(e, m) = z \/ (e.st \in {"SynSent", "SynRcvd"}
                                  /\ (resend_syn(e, m) = SendTimed(y, m) \/ resend_syn(e, m) = k))
    BY Zenon DEF resend_syn
  <2> HIDE DEF X, z, y, k, c, m
  <2> QED
    BY <1>0, <2>1, <2>2
<1> HIDE DEF X
<1>3. ServerStep(e, F, D)
  BY ServerStays
<1>4. ServerStep(z, F, D)
  <2>1. /\ TcbType(z) /\ z.avail = e.avail /\ z.isAPPClose = e.isAPPClose /\ z.dials = e.dials
        /\ z.st = e.st /\ z.up = e.up /\ z.ooo = e.ooo /\ z.rq = e.rq /\ z.tw = e.tw
        /\ z.iss = e.iss /\ z.una = e.una /\ z.nxt = e.nxt /\ z.rcv = e.rcv /\ z.out = e.out
    BY Fields DEF TcbType
  <2> HIDE DEF z
  <2>2. Server(z, F, D)
    BY <2>1 DEF Server
  <2> QED
    BY <2>1, <2>2, ServerStays
<1>5. ASSUME isSegmentInQueue(e.rq, n) PROVE m = SynAck
  <2>1. \E q \in e.rq : q.seq = n
    BY <1>5 DEF isSegmentInQueue
  <2>2. m \in e.rq
    BY <2>1 DEF get_segment_from_queue
  <2> HIDE DEF m
  <2> QED
    BY <1>0, <2>2
<1>6. ASSUME e.st = "SynRcvd" PROVE ServerStep(SendTimed(y, SynAck), F, D)
  <2>1. e.iss = 3 /\ e.una = 3 /\ e.nxt = 4
    BY <1>0, <1>6
  <2>2. /\ TcbType(y) /\ y.avail = e.avail /\ y.isAPPClose = e.isAPPClose /\ y.dials = e.dials
        /\ y.st = e.st /\ y.up = e.up /\ y.ooo = e.ooo /\ y.rq = e.rq /\ y.tw = e.tw
        /\ y.iss = e.iss /\ y.una = e.una /\ y.nxt = e.nxt /\ y.rcv = e.rcv /\ y.out = e.out
    BY <2>1, Fields DEF TcbType
  <2> HIDE DEF y
  <2>3. Server(y, F, D)
    BY <2>2 DEF Server
  <2> QED
    BY <2>2, <2>3, ServerTimed
<1>7. ASSUME e.st = "SynRcvd" PROVE ServerStep(k, F, D)
  <2>1. /\ TcbType(k) /\ k.st = "None" /\ k.rq = {} /\ k.ooo = {}
        /\ k.avail = e.avail /\ k.dials = e.dials /\ k.up = e.up
        /\ k.tw = e.tw /\ k.out = e.out /\ ~k.isAPPClose
    BY ClosedShape
  <2> HIDE DEF k
  <2>2. Server(k, F, D)
    BY <1>0, <1>7, <2>1 DEF Server, Reading
  <2> QED
    BY <2>1, <2>2, ServerStays
<1>8. ServerStep(SendTimed(c, SynAck), F, D)
  <2>1. Sends(e, c, e.rq)
    BY RtoQuiet, QuietSends
  <2> HIDE DEF c
  <2>2. \A q \in e.rq : ToClient(q, D)
    BY <1>0, SynAckToClient
  <2>3. ServerStep(c, F, D) /\ c.up = <<>> /\ TcbType(c)
    BY <2>1, <2>2, ServerSends DEF Sends, Same, Rest
  <2>4. Server(c, F, D)
    <3>1. /\ c.avail = e.avail /\ c.isAPPClose = e.isAPPClose /\ c.dials = e.dials
          /\ c.st = e.st /\ c.up = e.up /\ c.ooo = e.ooo /\ c.rq = e.rq /\ c.tw = e.tw
          /\ c.iss = e.iss /\ c.una = e.una /\ c.nxt = e.nxt /\ c.rcv = e.rcv
          /\ Range(c.out) \subseteq Range(e.out) \cup e.rq
      BY <2>1 DEF Sends, Same, Core, Rest
    <3>2. \A q \in Range(c.out) : ToClient(q, D)
      BY <1>0, <2>2, <3>1
    <3> QED
      BY <3>1, <3>2 DEF Server
  <2> QED
    BY <2>3, <2>4, ServerTimed
<1> QED
  BY <1>2, <1>3, <1>4, <1>5, <1>6, <1>7, <1>8 DEF X

\* When everything was delivered the server hands up nothing more.
LEMMA ServerMild ==
    ASSUME NEW e, TcbType(e), Server(e, Packets, Packets), e.up = <<>>, NEW X, Mild("s", e, X),
           e.st \notin Opening
    PROVE  ServerStep(X, Packets, Packets)
<1>0. Packets \in Nat /\ Packets <= Packets /\ ~(Packets < Packets) /\ Packets # 0
  BY TcpAssumption
<1>1. /\ e.avail = 0 /\ ~e.isAPPClose /\ e.rq \subseteq {SynAck} /\ e.dials # 0
      /\ \A q \in Range(e.out) : ToClient(q, Packets)
      /\ e.st \in Reading => e.rcv = Packets + 2 /\ Waits(e.ooo, Packets, Packets)
  BY <1>0 DEF Server
<1>2. /\ TcbType(X) /\ X.avail = e.avail /\ X.dials = e.dials /\ X.rq \subseteq e.rq
      /\ Range(X.out) \subseteq Range(e.out) \cup e.rq \cup Controls("s")
      /\ X.up = <<>> /\ X.st \notin Opening /\ ~X.isAPPClose
      /\ X.st \in Reading => e.st \in Reading /\ X.rcv = e.rcv
      /\ (\A q \in e.ooo : get_seg_len(q) = 0) => \A q \in X.ooo : get_seg_len(q) = 0
  BY <1>1 DEF Mild
<1>3. \A q \in Range(X.out) : ToClient(q, Packets)
  <2>1. \A q \in Controls("s") : q.to = "c" /\ q.pkt = 0 /\ "S" \notin q.fl
    BY DEF Controls, Peer
  <2>2. \A q \in Controls("s") : ToClient(q, Packets)
    BY <1>0, <2>1 DEF ToClient
  <2>3. \A q \in e.rq : ToClient(q, Packets)
    BY <1>1, SynAckToClient
  <2> QED
    BY <1>1, <1>2, <2>2, <2>3
<1>4. X.st \in Reading => Waits(X.ooo, Packets, Packets)
  <2> SUFFICES ASSUME X.st \in Reading PROVE Waits(X.ooo, Packets, Packets)
    OBVIOUS
  <2>1. (Packets + 2)..Packets = {}
    BY <1>0
  <2>2. \A q \in e.ooo : ~(get_seg_len(q) > 0)
    BY <1>1, <1>2, <2>1 DEF Waits
  <2>3. \A q \in e.ooo : get_seg_len(q) = 0
    BY <2>2, SegLen
  <2>4. \A q \in X.ooo : ~(get_seg_len(q) > 0)
    BY <1>2, <2>3
  <2> QED
    BY <2>4 DEF Waits
<1>5. Server(X, Packets, Packets)
  BY <1>0, <1>1, <1>2, <1>3, <1>4 DEF Server, Opening
<1> QED
  BY <1>0, <1>2, <1>5, ServerStays

\* Every event of the server once everything was delivered.
LEMMA ServerDone ==
    ASSUME NEW e, TcbType(e), Server(e, Packets, Packets), e.up = <<>>
    PROVE  /\ \A m \in Message, due \in BOOLEAN :
                /\ ToServer(m, Packets, Packets)
                /\ packet_arrive_from_network_layer("s", e, m, due).dials <= 1
                => ServerStep(packet_arrive_from_network_layer("s", e, m, due), Packets, Packets)
           /\ \A n : ServerStep(handle_rto_timer(e, n), Packets, Packets)
           /\ ServerStep(handle_time_wait_timeout([e EXCEPT !.tw = @ - 1]), Packets, Packets)
<1>0. Packets \in Nat /\ Packets # 0 /\ (Packets + 2)..Packets = {}
  BY TcpAssumption
<1>1. /\ e.avail = e.fetched /\ e.st \notin Opening /\ e.dials # 0 /\ e.dials \in Nat
      /\ e.st \in Reading => e.rcv = Packets + 2 /\ \A q \in e.ooo : get_seg_len(q) = 0
  <2>1. /\ e.avail = 0 /\ e.dials # 0 /\ e.st # "SynSent" /\ e.st # "SynRcvd" /\ e.dials \in Nat
        /\ e.st \in Reading => e.rcv = Packets + 2 /\ Waits(e.ooo, Packets, Packets)
    BY <1>0 DEF Server, TcbType
  <2>2. e.avail = e.fetched
    <3>1. e.fetched \in Nat /\ e.fetched <= e.avail
      BY DEF TcbType
    <3> QED
      BY <2>1, <3>1
  <2>3. e.st \in Reading => \A q \in e.ooo : ~(get_seg_len(q) > 0)
    BY <1>0, <2>1 DEF Waits
  <2>4. e.st \in Reading => \A q \in e.ooo : get_seg_len(q) = 0
    BY <2>3, SegLen
  <2> QED
    BY <2>1, <2>2, <2>4 DEF Opening
<1>2. "s" \in Device
  BY DEF Device
<1>3. ASSUME NEW m \in Message, NEW due \in BOOLEAN, ToServer(m, Packets, Packets),
             packet_arrive_from_network_layer("s", e, m, due).dials <= 1
      PROVE  ServerStep(packet_arrive_from_network_layer("s", e, m, due), Packets, Packets)
  <2>1. e.st = "None" => m.fl # {"S"}
    <3> SUFFICES ASSUME e.st = "None", m.fl = {"S"} PROVE FALSE
      OBVIOUS
    <3>1. m = Syn
      BY <1>3 DEF ToServer
    <3>2. packet_arrive_from_network_layer("s", e, m, due) = tcp_accept("s", e, Syn)
      BY <3>1 DEF packet_arrive_from_network_layer
    <3> DEFINE X == tcp_accept("s", e, Syn)
    <3>3. X.dials = e.dials + 1
      BY AcceptShape
    <3>4. X.dials <= 1
      BY <1>3, <3>2
    <3> HIDE DEF X
    <3> QED
      BY <1>1, <3>3, <3>4
  <2>2. m.pkt > 0 => m.seq < Packets + 2
    <3> SUFFICES ASSUME m.pkt > 0 PROVE m.seq < Packets + 2
      OBVIOUS
    <3> DEFINE p == m.pkt
    <3>1. m = Data(p) /\ p <= Packets /\ p \in Nat \ {0}
      BY <1>3 DEF ToServer, Message
    <3> HIDE DEF p
    <3>2. m.seq = p + 1
      BY <3>1, DataSegment
    <3> QED
      BY <1>0, <3>1, <3>2
  <2>3. e.st \in Reading => /\ \A q \in e.ooo : get_seg_len(q) = 0
                            /\ m.pkt > 0 => m.seq < e.rcv
    BY <1>1, <2>2
  <2>4. Mild("s", e, packet_arrive_from_network_layer("s", e, m, due))
    BY <1>1, <1>2, <2>1, <2>3, MildNetwork
  <2> QED
    BY <1>1, <2>4, ServerMild
<1>4. \A n : ServerStep(handle_rto_timer(e, n), Packets, Packets)
  BY <1>1, MildRto, ServerMild
<1>5. ServerStep(handle_time_wait_timeout([e EXCEPT !.tw = @ - 1]), Packets, Packets)
  BY <1>1, MildTimeWait, ServerMild
<1> QED
  BY <1>3, <1>4, <1>5

\* More packets sent and delivered leave the other device's part as it is.
LEMMA ServerLater ==
    ASSUME NEW e, NEW D, NEW F \in Nat, NEW G \in Nat, F <= G, Server(e, F, D), D \in Nat
    PROVE  Server(e, G, D)
<1>1. \A i \in (D + 2)..F : i \in (D + 2)..G
  OBVIOUS
<1>2. e.st \in Reading => Waits(e.ooo, D, G)
  BY <1>1 DEF Server, Waits
<1> QED
  BY <1>2 DEF Server

\* The same for the client.
LEMMA ToClientLater ==
    ASSUME NEW m, NEW D \in Nat, NEW E \in Nat, D <= E, ToClient(m, D)
    PROVE  ToClient(m, E)
<1>1. \A i \in 2..(D + 2) : i \in 2..(E + 2)
  OBVIOUS
<1>2. Packets \in Nat
  BY TcpAssumption
<1>3. E < Packets => D < Packets
  BY <1>2
<1> QED
  BY <1>1, <1>3 DEF ToClient

\* And for what is on its way to the server.
LEMMA ToServerLater ==
    ASSUME NEW m \in Message, NEW D \in Nat, NEW E \in Nat, D <= E, NEW F \in Nat, NEW G \in Nat,
           F <= G, ToServer(m, F, D)
    PROVE  ToServer(m, G, E)
<1>1. m.pkt \in Nat /\ Packets \in Nat
  BY TcpAssumption DEF Message
<1>2. (E < Packets => D < Packets) /\ (m.pkt <= F => m.pkt <= G)
  BY <1>1
<1> QED
  BY <1>2 DEF ToServer

\* The client, when more was delivered of what it sent.
LEMMA ClientLater ==
    ASSUME NEW e, TcbType(e), NEW D \in Nat, NEW E \in Nat, D <= E, E <= e.fetched, Client(e, D)
    PROVE  Client(e, E)
<1>1. e.fetched \in Nat /\ e.rq \subseteq Message /\ Range(e.out) \subseteq Message
  <2>1. e.out \in Seq(Message)
    BY DEF TcbType
  <2>2. Range(e.out) \subseteq Message
    BY <2>1 DEF Range
  <2> QED
    BY <2>2 DEF TcbType
<1>2. \A m \in e.rq \cup Range(e.out) : ToServer(m, e.fetched, E)
  <2>1. \A m \in e.rq \cup Range(e.out) : m \in Message /\ ToServer(m, e.fetched, D)
    BY <1>1 DEF Client
  <2>2. e.fetched <= e.fetched
    BY <1>1
  <2> QED
    BY <1>1, <2>1, <2>2, ToServerLater
<1>3. Packets \in Nat
  BY TcpAssumption
<1>4. E < Packets => D < Packets
  BY <1>3
<1>5. \A i \in 2..(D + 2) : i \in 2..(E + 2)
  OBVIOUS
<1>6. Opened(e, D) => Opened(e, E)
  BY <1>5 DEF Opened
<1> QED
  BY <1>2, <1>4, <1>6 DEF Client

-----------------------------------------------------------------------------
(* The stream: what is delivered is what the client sent, from the first     *)
(* packet on, and what is missing is in its queue                            *)

Stream(D) ==
    /\ delivered = [i \in 1..D |-> i]
    /\ Client(ep["c"], D)
    /\ Server(ep["s"], ep["c"].fetched, D) /\ ep["s"].up = <<>>
    /\ \A m \in Range(net) : ToServer(m, ep["c"].fetched, D) \/ ToClient(m, D)

StreamInv == OneSocket => \E D \in Nat : Stream(D)

\* No packet of the network is made by the removal of one.
LEMMA RemoveAtLess ==
    ASSUME NEW S, NEW q \in Seq(S), NEW i \in 1..Len(q)
    PROVE  Range(RemoveAt(q, i)) \subseteq Range(q)
<1> DEFINE a == SubSeq(q, 1, i - 1)
           b == SubSeq(q, i + 1, Len(q))
<1>1. /\ a \in Seq(S) /\ b \in Seq(S)
      /\ Len(a) = i - 1 /\ \A j \in 1..(i - 1) : a[j] = q[j]
      /\ Len(b) = Len(q) - i /\ \A j \in 1..(Len(q) - i) : b[j] = q[i + j]
  BY SubSeqProperties
<1>2. RemoveAt(q, i) = a \o b
  BY DEF RemoveAt
<1>3. DOMAIN a = 1..(i - 1) /\ DOMAIN b = 1..(Len(q) - i) /\ DOMAIN q = 1..Len(q) /\ Len(q) \in Nat
  BY <1>1
<1> HIDE DEF a, b
<1>4. Range(RemoveAt(q, i)) = Range(a) \cup Range(b)
  BY <1>1, <1>2, ConcatRange
<1>5. \A j \in 1..(i - 1) : j \in DOMAIN q /\ a[j] = q[j]
  BY <1>1, <1>3
<1>6. \A j \in 1..(Len(q) - i) : i + j \in DOMAIN q /\ b[j] = q[i + j]
  BY <1>1, <1>3
<1>7. Range(a) \subseteq Range(q) /\ Range(b) \subseteq Range(q)
  BY <1>3, <1>5, <1>6 DEF Range
<1> QED
  BY <1>4, <1>7

\* The first packets followed by the next.
LEMMA RunConcat ==
    ASSUME NEW D \in Nat, NEW k \in Nat
    PROVE  [i \in 1..D |-> i] \o [i \in 1..k |-> D + i] = [i \in 1..(D + k) |-> i]
<1> DEFINE p == [i \in 1..D |-> i]
           q == [i \in 1..k |-> D + i]
           r == [i \in 1..(D + k) |-> i]
<1>1. p \in Seq(Nat) /\ Len(p) = D /\ \A i \in 1..D : p[i] = i
  OBVIOUS
<1>2. q \in Seq(Nat) /\ Len(q) = k /\ \A i \in 1..k : q[i] = D + i
  OBVIOUS
<1>3. r \in Seq(Nat) /\ Len(r) = D + k /\ \A i \in 1..(D + k) : r[i] = i
  OBVIOUS
<1> HIDE DEF p, q, r
<1>4. /\ p \o q \in Seq(Nat) /\ Len(p \o q) = D + k
      /\ \A i \in 1..(D + k) : (p \o q)[i] = IF i <= D THEN p[i] ELSE q[i - D]
  BY <1>1, <1>2, ConcatProperties
<1>5. \A i \in 1..(D + k) : (p \o q)[i] = i
  <2> SUFFICES ASSUME NEW i \in 1..(D + k) PROVE (p \o q)[i] = i
    OBVIOUS
  <2>1. CASE i <= D
    BY <1>1, <1>4, <2>1
  <2>2. CASE ~(i <= D)
    <3>1. i - D \in 1..k /\ D + (i - D) = i
      BY <2>2
    <3> QED
      BY <1>2, <1>4, <2>2, <3>1
  <2> QED
    BY <2>1, <2>2
<1>6. p \o q = r
  BY <1>3, <1>4, <1>5, SeqEqual
<1> QED
  BY <1>6 DEF p, q, r

\* What is left of a device's record when the handler has returned.
LEMMA LeftShape ==
    ASSUME NEW f, TcbType(f)
    PROVE  LET g == [f EXCEPT !.out = <<>>, !.arm = <<>>, !.up = <<>>, !.crash = FALSE]
           IN  /\ TcbType(g) /\ g.avail = f.avail /\ g.fetched = f.fetched /\ g.dials = f.dials
               /\ g.isAPPClose = f.isAPPClose /\ g.st = f.st /\ g.ooo = f.ooo /\ g.rq = f.rq
               /\ g.tw = f.tw /\ g.iss = f.iss /\ g.una = f.una /\ g.nxt = f.nxt /\ g.rcv = f.rcv
               /\ g.out = <<>> /\ g.up = <<>> /\ Range(g.out) = {}
<1> DEFINE g == [f EXCEPT !.out = <<>>, !.arm = <<>>, !.up = <<>>, !.crash = FALSE]
<1>1. /\ TcbType(g) /\ g.avail = f.avail /\ g.fetched = f.fetched /\ g.dials = f.dials
      /\ g.isAPPClose = f.isAPPClose /\ g.st = f.st /\ g.ooo = f.ooo /\ g.rq = f.rq
      /\ g.tw = f.tw /\ g.iss = f.iss /\ g.una = f.una /\ g.nxt = f.nxt /\ g.rcv = f.rcv
      /\ g.out = <<>> /\ g.up = <<>>
  BY Fields DEF TcbType
<1> HIDE DEF g
<1>2. Range(g.out) = {}
  BY <1>1 DEF Range
<1> QED
  BY <1>1, <1>2 DEF g

\* A step of the client.
LEMMA ClientBecomes ==
    ASSUME TcpInv, NEW D \in Nat, Stream(D), NEW f, ClientStep(ep["c"], f, D),
           NEW rest \in Seq(Message), Range(rest) \subseteq Range(net), NEW pending,
           Becomes("c", f, rest, pending)
    PROVE  \E E \in Nat : Stream(E)'
<1> DEFINE g == [f EXCEPT !.out = <<>>, !.arm = <<>>, !.up = <<>>, !.crash = FALSE]
           F == ep["c"].fetched
<1>1. ep' = [ep EXCEPT !["c"] = g] /\ net' = rest \o f.out /\ delivered' = delivered \o f.up
  BY DEF Becomes
<1>2. TcbType(f) /\ Client(f, D) /\ f.fetched >= F
  BY DEF ClientStep
<1>3. /\ TcbType(g) /\ g.avail = f.avail /\ g.fetched = f.fetched /\ g.dials = f.dials
      /\ g.isAPPClose = f.isAPPClose /\ g.st = f.st /\ g.ooo = f.ooo /\ g.rq = f.rq
      /\ g.tw = f.tw /\ g.iss = f.iss /\ g.una = f.una /\ g.nxt = f.nxt /\ g.rcv = f.rcv
      /\ g.out = <<>> /\ g.up = <<>> /\ Range(g.out) = {}
  BY <1>2, LeftShape
<1> HIDE DEF g
<1>4. ep'["c"] = g /\ ep'["s"] = ep["s"]
  BY <1>1 DEF TcpInv, Device
<1>5. F \in Nat /\ g.fetched \in Nat /\ F <= g.fetched
  <2>1. F \in Nat /\ g.fetched \in Nat
    BY <1>3 DEF TcpInv, Device, TcbType
  <2> QED
    BY <1>2, <1>3, <2>1
<1>6. Client(g, D)
  <2>1. Opened(f, D) => Opened(g, D)
    BY <1>3 DEF Opened
  <2> QED
    BY <1>2, <1>3, <2>1 DEF Client
<1>7. Server(ep["s"], g.fetched, D)
  BY <1>5, ServerLater DEF Stream
<1>8. \A m \in Range(net') : ToServer(m, g.fetched, D) \/ ToClient(m, D)
  <2>1. f.out \in Seq(Message)
    BY <1>2 DEF TcbType
  <2>2. Range(net') = Range(rest) \cup Range(f.out)
    BY <1>1, <2>1, ConcatRange
  <2>3. \A m \in Range(f.out) : ToServer(m, g.fetched, D)
    BY <1>2, <1>3 DEF Client
  <2>4. \A m \in Range(rest) : m \in Message /\ (ToServer(m, F, D) \/ ToClient(m, D))
    BY DEF Stream, Range
  <2>5. \A m \in Range(rest) : ToServer(m, g.fetched, D) \/ ToClient(m, D)
    BY <1>5, <2>4, ToServerLater
  <2> QED
    BY <2>2, <2>3, <2>5
<1>9. delivered' = [i \in 1..D |-> i]
  <2>1. delivered = [i \in 1..D |-> i] /\ f.up = <<>>
    BY <1>2 DEF Stream, Client
  <2>2. delivered \in Seq(Nat)
    BY <2>1
  <2> QED
    BY <1>1, <2>1, <2>2
<1>10. Stream(D)'
  BY <1>4, <1>6, <1>7, <1>8, <1>9 DEF Stream
<1> QED
  BY <1>10

\* A step of the server.
LEMMA ServerBecomes ==
    ASSUME TcpInv, NEW D \in Nat, Stream(D), NEW f, ServerStep(f, ep["c"].fetched, D),
           NEW rest \in Seq(Message), Range(rest) \subseteq Range(net), NEW pending,
           Becomes("s", f, rest, pending)
    PROVE  \E E \in Nat : Stream(E)'
<1> DEFINE g == [f EXCEPT !.out = <<>>, !.arm = <<>>, !.up = <<>>, !.crash = FALSE]
           F == ep["c"].fetched
<1>1. ep' = [ep EXCEPT !["s"] = g] /\ net' = rest \o f.out /\ delivered' = delivered \o f.up
  BY DEF Becomes
<1>2. PICK k \in 0..(F - D) : f.up = [i \in 1..k |-> D + i] /\ Server(f, F, D + k)
  BY DEF ServerStep
<1>3. TcbType(f)
  BY DEF ServerStep
<1>4. /\ TcbType(g) /\ g.avail = f.avail /\ g.fetched = f.fetched /\ g.dials = f.dials
      /\ g.isAPPClose = f.isAPPClose /\ g.st = f.st /\ g.ooo = f.ooo /\ g.rq = f.rq
      /\ g.tw = f.tw /\ g.iss = f.iss /\ g.una = f.una /\ g.nxt = f.nxt /\ g.rcv = f.rcv
      /\ g.out = <<>> /\ g.up = <<>> /\ Range(g.out) = {}
  BY <1>3, LeftShape
<1> HIDE DEF g
<1>5. ep'["s"] = g /\ ep'["c"] = ep["c"]
  BY <1>1 DEF TcpInv, Device
<1> DEFINE E == D + k
<1>6. F \in Nat /\ E \in Nat /\ k \in Nat /\ D <= E /\ E <= F /\ TcbType(ep["c"])
  <2>1. F \in Nat /\ TcbType(ep["c"])
    BY DEF TcpInv, Device, TcbType
  <2> QED
    BY <1>2, <2>1
<1>7. delivered' = [i \in 1..E |-> i]
  BY <1>1, <1>2, <1>6, RunConcat DEF Stream
<1>8. Server(f, F, E)
  BY <1>2
<1> HIDE DEF E
<1>9. Client(ep["c"], E)
  BY <1>6, ClientLater DEF Stream
<1>10. Server(g, F, E)
  BY <1>4, <1>8 DEF Server
<1>11. \A m \in Range(net') : ToServer(m, F, E) \/ ToClient(m, E)
  <2>1. f.out \in Seq(Message)
    BY <1>3 DEF TcbType
  <2>2. Range(net') = Range(rest) \cup Range(f.out)
    BY <1>1, <2>1, ConcatRange
  <2>3. \A m \in Range(f.out) : ToClient(m, E)
    BY <1>8 DEF Server
  <2>4. \A m \in Range(rest) : m \in Message /\ (ToServer(m, F, D) \/ ToClient(m, D))
    BY DEF Stream, Range
  <2>5. F <= F
    BY <1>6
  <2>6. \A m \in Range(rest) : ToServer(m, F, E) \/ ToClient(m, E)
    BY <1>6, <2>4, <2>5, ToServerLater, ToClientLater
  <2> QED
    BY <2>2, <2>3, <2>6
<1>12. Stream(E)'
  BY <1>4, <1>5, <1>7, <1>9, <1>10, <1>11 DEF Stream
<1> QED
  BY <1>6, <1>12

\* A device with one socket after a step had no more before it.
LEMMA OneSocketBefore ==
    ASSUME TcpInv, NEW d \in Device, NEW f, TcbType(f), f.dials >= ep[d].dials,
           NEW rest, NEW pending, Becomes(d, f, rest, pending), OneSocket'
    PROVE  OneSocket /\ f.dials <= 1
<1> DEFINE g == [f EXCEPT !.out = <<>>, !.arm = <<>>, !.up = <<>>, !.crash = FALSE]
<1>1. ep' = [ep EXCEPT ![d] = g]
  BY DEF Becomes
<1>2. g.dials = f.dials
  BY LeftShape
<1> HIDE DEF g
<1>3. DOMAIN ep = Device /\ \A q \in Device : ep[q].dials \in Nat
  BY DEF TcpInv, TcbType
<1>4. ep'[d] = g /\ \A q \in Device \ {d} : ep'[q] = ep[q]
  BY <1>1, <1>3
<1>5. \A q \in Device : ep'[q].dials <= 1
  BY DEF OneSocket, Device
<1>6. f.dials <= 1
  BY <1>2, <1>4, <1>5
<1>7. ep[d].dials <= 1
  BY <1>3, <1>6 DEF TcbType
<1>8. \A q \in Device : ep[q].dials <= 1
  BY <1>4, <1>5, <1>7
<1> QED
  BY <1>6, <1>8 DEF OneSocket, Device

\* How much was delivered and sent.
LEMMA StreamBounds ==
    ASSUME TcpInv, NEW D \in Nat, Stream(D)
    PROVE  /\ ep["c"].fetched \in Nat /\ D <= ep["c"].fetched /\ ep["c"].fetched <= Packets
           /\ D < Packets \/ (D = Packets /\ ep["c"].fetched = Packets)
           /\ TcbType(ep["c"]) /\ TcbType(ep["s"]) /\ Client(ep["c"], D)
           /\ Server(ep["s"], ep["c"].fetched, D) /\ ep["s"].up = <<>>
<1>1. TcbType(ep["c"]) /\ TcbType(ep["s"])
  BY DEF TcpInv, Device
<1>2. /\ Client(ep["c"], D)
      /\ Server(ep["s"], ep["c"].fetched, D) /\ ep["s"].up = <<>>
  BY DEF Stream
<1> DEFINE F == ep["c"].fetched
           A == ep["c"].avail
<1>3. F \in Nat /\ A \in Nat /\ F <= A /\ A <= Packets /\ D <= F /\ Packets \in Nat
  BY <1>1, <1>2, TcpAssumption DEF Client, TcbType
<1> HIDE DEF F, A
<1>4. F \in Nat /\ D <= F /\ F <= Packets /\ (D < Packets \/ (D = Packets /\ F = Packets))
  BY <1>3
<1> QED
  BY <1>1, <1>2, <1>4 DEF F

\* A handler that keeps the stream.
LEMMA EventStream ==
    ASSUME TcpInv, StreamInv, NEW d \in Device, NEW f, TcbType(f), f.dials >= ep[d].dials,
           NEW rest \in Seq(Message), Range(rest) \subseteq Range(net), NEW pending,
           Becomes(d, f, rest, pending),
           \A D \in Nat : Stream(D) /\ f.dials <= 1 =>
              /\ d = "c" => ClientStep(ep["c"], f, D)
              /\ d = "s" => ServerStep(f, ep["c"].fetched, D)
    PROVE  StreamInv'
<1> SUFFICES ASSUME OneSocket' PROVE \E E \in Nat : Stream(E)'
  BY DEF StreamInv
<1>1. OneSocket /\ f.dials <= 1
  BY OneSocketBefore
<1>2. PICK D \in Nat : Stream(D)
  BY <1>1 DEF StreamInv
<1>3. CASE d = "c"
  BY <1>1, <1>2, <1>3, ClientBecomes
<1>4. CASE d = "s"
  BY <1>1, <1>2, <1>4, ServerBecomes
<1> QED
  BY <1>3, <1>4 DEF Device

\* The application's next packet.
LEMMA ApplicationStream ==
    ASSUME TcpInv, StreamInv, HandleTransportOut
    PROVE  StreamInv'
<1> DEFINE e == ep["c"]
           j == [e EXCEPT !.avail = @ + 1]
           f == packet_arrive_from_application_layer(j)
<1>1. "c" \in Device /\ ~crashed /\ e.avail < Packets
  BY DEF HandleTransportOut, Device
<1>2. TcbType(e) /\ net \in Seq(Message) /\ Sound(e, Pending("c", timers))
      /\ Good(e, Pending("c", timers)) /\ ~e.crash
  BY <1>1, InvGood DEF TcpInv
<1>3. CASE Becomes("c", f, net, timers)
  <2>1. TcbType(f) /\ f.dials >= e.dials
    BY <1>2, ApplicationGood, Dials DEF Good
  <2>2. ASSUME NEW D \in Nat, Stream(D), f.dials <= 1 PROVE ClientStep(e, f, D)
    <3>1. Client(e, D)
      BY <2>2 DEF Stream
    <3>2. e.st \in Opening => ~e.waitFromApp
      BY <1>2 DEF Sound
    <3> HIDE DEF e
    <3> QED
      BY <1>1, <1>2, <2>2, <3>1, <3>2, ClientApplication
  <2> HIDE DEF f
  <2>3. Range(net) \subseteq Range(net)
    OBVIOUS
  <2> QED
    BY <1>1, <1>2, <1>3, <2>1, <2>2, <2>3, EventStream
<1>4. CASE Becomes("c", j, net, timers)
  <2>1. TcbType(j) /\ j.dials >= e.dials
    <3>1. e.avail \in Nat /\ e.fetched \in Nat /\ e.fetched <= e.avail /\ e.dials \in Nat
      BY <1>2 DEF TcbType
    <3>2. e.avail + 1 \in Nat /\ e.fetched <= e.avail + 1
      BY <3>1
    <3>3. TcbType(j) /\ j.dials = e.dials
      BY <1>2, <3>2, Fields DEF TcbType
    <3> HIDE DEF j
    <3> QED
      BY <3>1, <3>3
  <2>2. ASSUME NEW D \in Nat, Stream(D) PROVE ClientStep(e, j, D)
    <3>1. Client(e, D)
      BY <2>2 DEF Stream
    <3> HIDE DEF e
    <3> QED
      BY <1>1, <1>2, <3>1, ClientPacket
  <2> HIDE DEF j
  <2>3. Range(net) \subseteq Range(net)
    OBVIOUS
  <2> QED
    BY <1>1, <1>2, <1>4, <2>1, <2>2, <2>3, EventStream
<1> QED
  BY <1>3, <1>4, Zenon DEF HandleTransportOut

\* A packet arrives.
LEMMA ReceiveStream ==
    ASSUME TcpInv, StreamInv, NEW i \in DOMAIN net, HandleTransportIn(i)
    PROVE  StreamInv'
<1> DEFINE m == net[i]
           d == m.to
           rest == RemoveAt(net, i)
<1>1. net \in Seq(Message) /\ i \in 1..Len(net)
  <2>1. net \in Seq(Message)
    BY DEF TcpInv
  <2> QED
    BY <2>1
<1>2. m \in Message /\ d \in Device /\ m \in Range(net)
  <2>1. m \in Message /\ m \in Range(net)
    BY <1>1 DEF Range
  <2> QED
    BY <2>1 DEF Message
<1>3. rest \in Seq(Message) /\ Range(rest) \subseteq Range(net)
  BY <1>1, RemoveAtRange, RemoveAtLess
<1>4. PICK due \in BOOLEAN :
        Becomes(d, packet_arrive_from_network_layer(d, ep[d], m, due), rest, timers)
  BY DEF HandleTransportIn
<1>5. ~crashed
  BY DEF HandleTransportIn
<1> DEFINE f == packet_arrive_from_network_layer(d, ep[d], m, due)
<1> HIDE DEF m, d, rest
<1>6. TcbType(ep[d]) /\ Good(ep[d], Pending(d, timers))
  BY <1>2, <1>5, InvGood DEF TcpInv
<1>7. TcbType(f) /\ f.dials >= ep[d].dials
  BY <1>2, <1>6, NetworkGood, Dials DEF Good
<1>8. Becomes(d, f, rest, timers)
  BY <1>4
<1>9. ASSUME NEW D \in Nat, Stream(D), f.dials <= 1
      PROVE  /\ d = "c" => ClientStep(ep["c"], f, D)
             /\ d = "s" => ServerStep(f, ep["c"].fetched, D)
  <2> DEFINE F == ep["c"].fetched
  <2>1. /\ F \in Nat /\ D <= F /\ F <= Packets
        /\ D < Packets \/ (D = Packets /\ F = Packets)
        /\ TcbType(ep["c"]) /\ TcbType(ep["s"])
        /\ Client(ep["c"], D) /\ Server(ep["s"], F, D) /\ ep["s"].up = <<>>
    BY <1>9, StreamBounds
  <2>2. ToServer(m, F, D) \/ ToClient(m, D)
    BY <1>2, <1>9 DEF Stream
  <2> HIDE DEF F
  <2>3. ASSUME d = "c" PROVE ClientStep(ep["c"], f, D)
    <3> DEFINE h == packet_arrive_from_network_layer("c", ep["c"], m, due)
    <3>1. ToClient(m, D)
      BY <2>2, <2>3 DEF ToServer, d
    <3>2. CASE D < Packets
      <4>1. ClientStep(ep["c"], h, D)
        BY <1>2, <2>1, <3>1, <3>2, ClientReceives
      <4> QED
        BY <2>3, <4>1
    <3>3. CASE D = Packets
      <4>1. ClientStep(ep["c"], h, D)
        BY <1>2, <2>1, <3>1, <3>3, ClientDone
      <4> QED
        BY <2>3, <4>1
    <3> QED
      BY <2>1, <3>2, <3>3
  <2>4. ASSUME d = "s" PROVE ServerStep(f, F, D)
    <3> DEFINE h == packet_arrive_from_network_layer("s", ep["s"], m, due)
    <3>1. ToServer(m, F, D) /\ h.dials <= 1
      BY <1>9, <2>2, <2>4 DEF ToClient, d
    <3>2. CASE D < Packets
      <4>1. ServerStep(h, F, D)
        BY <1>2, <2>1, <3>1, <3>2, ServerReceives
      <4> QED
        BY <2>4, <4>1
    <3>3. CASE D = Packets /\ F = Packets
      <4>1. ServerStep(h, F, D)
        BY <1>2, <2>1, <3>1, <3>3, ServerDone
      <4> QED
        BY <2>4, <4>1
    <3> QED
      BY <2>1, <3>2, <3>3
  <2> QED
    BY <2>3, <2>4 DEF F
<1> HIDE DEF f
<1> QED
  BY <1>2, <1>3, <1>7, <1>8, <1>9, EventStream

\* A packet is lost.
LEMMA LoseStream ==
    ASSUME TcpInv, StreamInv, NEW i \in DOMAIN net, Lose(i)
    PROVE  StreamInv'
<1>1. net \in Seq(Message) /\ i \in 1..Len(net)
  <2>1. net \in Seq(Message)
    BY DEF TcpInv
  <2> QED
    BY <2>1
<1>2. net' = RemoveAt(net, i) /\ ep' = ep /\ delivered' = delivered
  BY DEF Lose
<1>3. Range(net') \subseteq Range(net)
  BY <1>1, <1>2, RemoveAtLess
<1> SUFFICES ASSUME OneSocket' PROVE \E E \in Nat : Stream(E)'
  BY DEF StreamInv
<1>4. PICK D \in Nat : Stream(D)
  BY <1>2 DEF StreamInv, OneSocket
<1>5. Stream(D)'
  BY <1>2, <1>3, <1>4 DEF Stream
<1> QED
  BY <1>5

\* A retransmission timer runs out.
LEMMA TimerStream ==
    ASSUME TcpInv, StreamInv, NEW i \in DOMAIN timers, RtoTimeout(i)
    PROVE  StreamInv'
<1> DEFINE d == timers[i][1]
           n == timers[i][2]
           q == RemoveAt(timers, i)
           f == handle_rto_timer(ep[d], n)
<1>1. timers \in Seq(Device \X Int) /\ net \in Seq(Message)
  BY DEF TcpInv
<1>2. i \in 1..Len(timers)
  BY <1>1
<1>3. d \in Device
  BY <1>1, <1>2
<1>4. ~crashed /\ Becomes(d, f, net, q)
  BY DEF RtoTimeout
<1> HIDE DEF d, n, q
<1>5. TcbType(ep[d]) /\ ep[d].dials \in Nat /\ Good(ep[d], Pending(d, timers)) /\ ~ep[d].crash
  BY <1>3, <1>4, InvGood DEF TcpInv, TcbType
<1>6. TcbType(f)
  <2>1. Good(ep[d], Pending(d, timers) \cup {n})
    BY <1>5 DEF Good, Sound, Timed
  <2>2. Good(f, Pending(d, timers))
    BY <1>5, <2>1, RtoGood
  <2> QED
    BY <2>2 DEF Good
<1>7. f.dials >= ep[d].dials
  <2>1. f.dials = ep[d].dials
    BY <1>5, Dials
  <2> QED
    BY <1>5, <2>1
<1>8. ASSUME NEW D \in Nat, Stream(D)
      PROVE  /\ d = "c" => ClientStep(ep["c"], f, D)
             /\ d = "s" => ServerStep(f, ep["c"].fetched, D)
  <2> DEFINE F == ep["c"].fetched
  <2>1. /\ F \in Nat /\ D <= F /\ F <= Packets
        /\ D < Packets \/ (D = Packets /\ F = Packets)
        /\ TcbType(ep["c"]) /\ TcbType(ep["s"])
        /\ Client(ep["c"], D) /\ Server(ep["s"], F, D) /\ ep["s"].up = <<>>
    BY <1>8, StreamBounds
  <2> HIDE DEF F
  <2>2. CASE D < Packets
    <3>1. ClientStep(ep["c"], handle_rto_timer(ep["c"], n), D)
      BY <2>1, <2>2, ClientRto
    <3>2. ServerStep(handle_rto_timer(ep["s"], n), F, D)
      BY <2>1, <2>2, ServerRto
    <3> QED
      BY <3>1, <3>2 DEF F
  <2>3. CASE D = Packets /\ F = Packets
    <3>1. ClientStep(ep["c"], handle_rto_timer(ep["c"], n), D)
      BY <2>1, <2>3, ClientDone
    <3>2. ServerStep(handle_rto_timer(ep["s"], n), F, D)
      BY <2>1, <2>3, ServerDone
    <3> QED
      BY <3>1, <3>2 DEF F
  <2> QED
    BY <2>1, <2>2, <2>3
<1> HIDE DEF f
<1>9. Range(net) \subseteq Range(net)
  OBVIOUS
<1> QED
  BY <1>1, <1>3, <1>4, <1>6, <1>7, <1>8, <1>9, EventStream

\* TIME-WAIT ends: there is none while packets are missing.
LEMMA TimeWaitStream ==
    ASSUME TcpInv, StreamInv, NEW d \in {"c", "s"}, TimeWaitTimeout(d)
    PROVE  StreamInv'
<1> DEFINE f == handle_time_wait_timeout([ep[d] EXCEPT !.tw = @ - 1])
<1>1. d \in Device /\ ~crashed /\ Becomes(d, f, net, timers) /\ ep[d].tw > 0
      /\ net \in Seq(Message)
  BY DEF TimeWaitTimeout, Device, TcpInv
<1>2. TcbType(ep[d]) /\ ep[d].dials \in Nat /\ Good(ep[d], Pending(d, timers))
  BY <1>1, InvGood DEF TcpInv, TcbType
<1>3. TcbType(f)
  BY <1>2, TimeWaitGood DEF Good
<1>4. f.dials >= ep[d].dials
  <2>1. f.dials = ep[d].dials
    BY <1>2, Dials
  <2> QED
    BY <1>2, <2>1
<1>5. ASSUME NEW D \in Nat, Stream(D)
      PROVE  /\ d = "c" => ClientStep(ep["c"], f, D)
             /\ d = "s" => ServerStep(f, ep["c"].fetched, D)
  <2> DEFINE F == ep["c"].fetched
  <2>1. /\ F \in Nat /\ D <= F /\ F <= Packets
        /\ D < Packets \/ (D = Packets /\ F = Packets)
        /\ TcbType(ep["c"]) /\ TcbType(ep["s"])
        /\ Client(ep["c"], D) /\ Server(ep["s"], F, D) /\ ep["s"].up = <<>>
    BY <1>5, StreamBounds
  <2> HIDE DEF F
  <2>2. CASE D < Packets
    <3>1. ep["c"].tw = 0 /\ ep["s"].tw = 0
      BY <2>1, <2>2 DEF Client, Server
    <3>2. d # "c" /\ d # "s"
      BY <1>1, <3>1
    <3> QED
      BY <3>2
  <2>3. CASE D = Packets /\ F = Packets
    <3> DEFINE h(p) == handle_time_wait_timeout([ep[p] EXCEPT !.tw = @ - 1])
    <3>1. ClientStep(ep["c"], h("c"), D)
      BY <2>1, <2>3, ClientDone
    <3>2. ServerStep(h("s"), F, D)
      BY <2>1, <2>3, ServerDone
    <3>3. f = h(d)
      OBVIOUS
    <3> HIDE DEF f, h
    <3> QED
      BY <3>1, <3>2, <3>3 DEF F
  <2> QED
    BY <2>1, <2>2, <2>3
<1> HIDE DEF f
<1>6. Range(net) \subseteq Range(net)
  OBVIOUS
<1> QED
  BY <1>1, <1>3, <1>4, <1>5, <1>6, EventStream

\* At the start nothing was sent.
LEMMA InitStream == Init => StreamInv
<1> SUFFICES ASSUME Init PROVE Stream(0)
  BY DEF StreamInv
<1>1. /\ ep["c"] = NoSocket /\ ep["s"] = NoSocket /\ net = <<>> /\ delivered = <<>>
  BY DEF Init
<1>2. /\ NoSocket.st = "None" /\ NoSocket.avail = 0 /\ NoSocket.fetched = 0
      /\ NoSocket.isAPPClose = FALSE /\ NoSocket.up = <<>> /\ NoSocket.ooo = {}
      /\ NoSocket.rq = {} /\ NoSocket.out = <<>> /\ NoSocket.tw = 0 /\ NoSocket.dials = 0
  BY DEF NoSocket
<1>3. Range(NoSocket.out) = {} /\ Range(net) = {}
  BY <1>1, <1>2 DEF Range
<1>4. 0 <= Packets
  BY TcpAssumption
<1>5. Client(NoSocket, 0)
  BY <1>2, <1>3, <1>4 DEF Client, Opened
<1>6. Server(NoSocket, 0, 0)
  BY <1>2, <1>3 DEF Server, Reading
<1>7. delivered = [i \in 1..0 |-> i]
  BY <1>1
<1> QED
  BY <1>1, <1>2, <1>3, <1>5, <1>6, <1>7 DEF Stream

\* While neither end opens a second socket, what the server's application got
\* is the first packets, one after another, and the next that the client took
\* from its application is kept for retransmission.
THEOREM StreamInvariant == Spec => []StreamInv
<1>1. Init => StreamInv
  BY InitStream
<1>2. TcpInv /\ StreamInv /\ [Next]_vars => StreamInv'
  <2> SUFFICES ASSUME TcpInv, StreamInv, [Next]_vars PROVE StreamInv'
    OBVIOUS
  <2>1. CASE HandleTransportOut
    BY <2>1, ApplicationStream
  <2>2. CASE Receive
    BY <2>2, ReceiveStream DEF Receive
  <2>3. CASE \E i \in DOMAIN net : Lose(i)
    BY <2>3, LoseStream
  <2>4. CASE Timer
    BY <2>4, TimerStream DEF Timer
  <2>5. CASE TimeWait
    BY <2>5, TimeWaitStream DEF TimeWait
  <2>6. CASE UNCHANGED vars
    <3>1. ep' = ep /\ net' = net /\ delivered' = delivered
      BY <2>6 DEF vars
    <3>2. OneSocket' = OneSocket /\ \A D \in Nat : Stream(D)' = Stream(D)
      BY <3>1 DEF OneSocket, Stream
    <3> QED
      BY <3>2 DEF StreamInv
  <2> QED
    BY <2>1, <2>2, <2>3, <2>4, <2>5, <2>6 DEF Next
<1> QED
  BY <1>1, <1>2, TcpInvariant, PTL DEF Spec

\* A packet that TCP took from the application is delivered or kept for
\* retransmission, while neither end opens a second socket.
THEOREM NothingLost == Spec => []NoneLost
<1>1. TcpInv /\ StreamInv => NoneLost
  <2> SUFFICES ASSUME TcpInv, StreamInv, OneSocket, NEW p \in 1..ep["c"].fetched,
                      p \notin ToSet(delivered)
               PROVE  \E m \in ep["c"].rq : m.pkt = p
    BY DEF NoneLost
  <2>1. PICK D \in Nat : Stream(D)
    BY DEF StreamInv
  <2> DEFINE e == ep["c"]
             F == e.fetched
  <2>2. F \in Nat /\ D <= F /\ F <= Packets /\ Client(e, D)
    BY <2>1, StreamBounds
  <2>3. delivered = [i \in 1..D |-> i]
    BY <2>1 DEF Stream
  <2> HIDE DEF F, e
  <2>4. p \in 1..F
    BY DEF F, e
  <2>5. p > D
    <3>1. ASSUME p <= D PROVE FALSE
      <4>1. p \in 1..D
        BY <2>2, <2>4, <3>1
      <4>2. p \in DOMAIN delivered /\ delivered[p] = p
        BY <2>3, <4>1
      <4>3. p \in ToSet(delivered)
        BY <4>2 DEF ToSet
      <4> QED
        BY <4>3
    <3> QED
      BY <2>2, <2>4, <3>1
  <2>6. D < Packets /\ F # 0
    <3>1. Packets \in Nat
      BY TcpAssumption
    <3> QED
      BY <2>2, <2>4, <2>5, <3>1
  <2>7. /\ e.una \in 2..(D + 2) /\ \A q \in (e.una - 1)..F : Data(q) \in e.rq
    BY <2>2, <2>6 DEF Client, Opened, F
  <2>8. p \in (e.una - 1)..F /\ p \in Nat \ {0}
    BY <2>2, <2>4, <2>5, <2>7
  <2>9. Data(p) \in e.rq /\ Data(p).pkt = p
    BY <2>7, <2>8, DataSegment
  <2> QED
    BY <2>9 DEF e
<1> QED
  BY <1>1, TcpInvariant, StreamInvariant, PTL

\* And what the server's application got is in the order it was generated,
\* and nothing twice.
THEOREM DeliveredInOrder == Spec => [](OneSocket => InOrderOnce)
<1>1. StreamInv => (OneSocket => InOrderOnce)
  <2> SUFFICES ASSUME StreamInv, OneSocket PROVE InOrderOnce
    OBVIOUS
  <2>1. PICK D \in Nat : Stream(D)
    BY DEF StreamInv
  <2>2. delivered = [i \in 1..D |-> i]
    BY <2>1 DEF Stream
  <2>3. DOMAIN delivered = 1..D /\ \A i \in 1..D : delivered[i] = i
    BY <2>2
  <2> QED
    BY <2>3 DEF InOrderOnce
<1> QED
  BY <1>1, StreamInvariant, PTL
=============================================================================
