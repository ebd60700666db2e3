----------------------------- MODULE DsrProofs -----------------------------
(***************************************************************************)
(* Proofs about Dsr, for any devices, links, packets, retry limits and     *)
(* timing, and however the caches and request tables look: no packet is    *)
(* ever only in a frame that may be lost.                                  *)
(***************************************************************************)
EXTENDS Dsr, TLAPS, WellFoundedInduction, SequenceTheorems

IsList(s) == s \in Seq(Range(s))

\* A buffer: a list of entries with packets.
Entries(s) == IsList(s) /\ \A i \in DOMAIN s : "pkts" \in DOMAIN s[i]

DeviceOK(v) ==
    /\ DOMAIN v = {"nRREQIdentification", "cache", "sendBuffer", "rreqTable", "maintBuffer"}
    /\ Entries(v.sendBuffer) /\ Entries(v.maintBuffer)

EventOK(x) == DOMAIN x = {"dev", "kind", "due", "x"} /\ x.dev \in Dev

Shapes ==
    /\ link \subseteq Links /\ todo \subseteq Pkt
    /\ \A x \in ev : EventOK(x)
    /\ DOMAIN dsr = Dev /\ \A d \in Dev : DeviceOK(dsr[d])

\* Entry, buffer and device that hold the packet p; an event that sends it.
In(s, p) == \E i \in DOMAIN s : p \in s[i].pkts
Held(v, p) == In(v.sendBuffer, p) \/ In(v.maintBuffer, p)
ToSend(E, p) == \E x \in E : x.kind = "NETWORK_OUT" /\ x.x = p
Settled(p) == p \in delivered \cup dropped \cup acked
Kept(p) == Settled(p) \/ ToSend(ev, p) \/ \E d \in Dev : Held(dsr[d], p)

KeptInv == \A p \in Pkt \ todo : Kept(p)

DsrInv == Shapes /\ KeptInv

-----------------------------------------------------------------------------
(* Lists.                                                                  *)

\* A set of natural numbers that is not empty has a least one.
LEMMA LeastOf ==
    ASSUME NEW I, I \subseteq Nat, I # {}
    PROVE  \E x \in I : \A y \in I : x <= y
<1> DEFINE R == {ss \in Nat \X Nat : ss[1] < ss[2]}
<1>1. IsWellFoundedOn(R, Nat)
  BY NatLessThanWellFounded, Zenon DEF OpToRel
<1>2. PICK x \in I : \A y \in I : <<y, x>> \notin R
  BY <1>1, WFMin, Zenon
<1>3. \A y \in I : <<y, x>> \in R <=> y < x
  OBVIOUS
<1> HIDE DEF R
<1>4. \A y \in I : ~(y < x)
  BY <1>2, <1>3, Zenon
<1> QED
  BY <1>4

\* The operator that finds it.
LEMMA MinOf ==
    ASSUME NEW I, I \subseteq Nat, I # {}
    PROVE  Min(I) \in I
  BY LeastOf DEF Min

\* The index and elements of a list.
LEMMA ListDomain ==
    ASSUME NEW s, IsList(s)
    PROVE  /\ DOMAIN s = 1..Len(s) /\ Len(s) \in Nat
           /\ \A i \in DOMAIN s : s[i] \in Range(s)
BY DEF IsList, Range

\* A function on 1..n is a list.
LEMMA FunctionIsList ==
    ASSUME NEW s, NEW n \in Nat, s = [i \in 1..n |-> s[i]]
    PROVE  IsList(s) /\ Len(s) = n
<1>1. \A i \in 1..n : s[i] \in Range(s)
  BY DEF Range
<1> QED
  BY <1>1 DEF IsList

\* Appending an element.
LEMMA AppendList ==
    ASSUME NEW s, IsList(s), NEW x
    PROVE  LET t == Append(s, x)
           IN  /\ IsList(t) /\ DOMAIN t = 1..(Len(s) + 1)
               /\ \A i \in DOMAIN s : t[i] = s[i]
               /\ t[Len(s) + 1] = x
<1> DEFINE S == Range(s) \cup {x}
           t == Append(s, x)
<1>1. s \in Seq(Range(s)) /\ Range(s) \subseteq S /\ x \in S
  BY DEF IsList
<1>2. s \in Seq(S)
  BY <1>1, SeqMonotonic
<1> HIDE DEF S
<1>3. /\ t \in Seq(S) /\ Len(t) = Len(s) + 1
      /\ \A i \in 1..Len(s) : t[i] = s[i]
      /\ t[Len(s) + 1] = x
  BY <1>1, <1>2, AppendProperties
<1>4. DOMAIN t = 1..(Len(s) + 1)
  BY <1>3
<1>5. IsList(t)
  BY <1>3, SeqOfRange DEF IsList
<1>6. DOMAIN s = 1..Len(s)
  BY ListDomain
<1> QED
  BY <1>3, <1>4, <1>5, <1>6

\* Taking out the element at one place.
LEMMA RemoveFromList ==
    ASSUME NEW s, IsList(s), NEW k \in 1..Len(s)
    PROVE  LET t == RemoveAt(s, k)
           IN  /\ IsList(t)
               /\ \A i \in DOMAIN s : i # k => \E j \in DOMAIN t : t[j] = s[i]
               /\ \A j \in DOMAIN t : \E i \in DOMAIN s : t[j] = s[i]
<1> DEFINE S == Range(s)
           a == SubSeq(s, 1, k - 1)
           b == SubSeq(s, k + 1, Len(s))
           t == a \o b
<1>1. s \in Seq(S) /\ DOMAIN s = 1..Len(s) /\ Len(s) \in Nat
  BY ListDomain DEF IsList
<1> HIDE DEF S
<1>2. a \in Seq(S) /\ Len(a) = k - 1 /\ \A i \in 1..(k - 1) : a[i] = s[i]
  <2>1. \A i \in 1..(k - 1) : s[i] \in S
    BY <1>1
  <2>2. /\ a \in Seq(S) /\ Len(a) = IF 1 <= k - 1 THEN k - 1 - 1 + 1 ELSE 0
        /\ \A i \in 1..(k - 1 - 1 + 1) : a[i] = s[1 + i - 1]
    BY <1>1, <2>1, SubSeqProperties
  <2> HIDE DEF a
  <2> QED
    BY <1>1, <2>2
<1>3. b \in Seq(S) /\ Len(b) = Len(s) - k /\ \A i \in 1..(Len(s) - k) : b[i] = s[k + i]
  <2>1. \A i \in (k + 1)..Len(s) : s[i] \in S
    BY <1>1
  <2>2. /\ b \in Seq(S) /\ Len(b) = IF k + 1 <= Len(s) THEN Len(s) - (k + 1) + 1 ELSE 0
        /\ \A i \in 1..(Len(s) - (k + 1) + 1) : b[i] = s[k + 1 + i - 1]
    BY <1>1, <2>1, SubSeqProperties
  <2> DEFINE n == Len(s)
             l == Len(b)
  <2>3. l = n - k
    <3>1. n \in Nat /\ k \in 1..n /\ l = IF k + 1 <= n THEN n - (k + 1) + 1 ELSE 0
      BY <1>1, <2>2
    <3> HIDE DEF n, l
    <3> QED
      BY <3>1
  <2> HIDE DEF b
  <2>4. ASSUME NEW i \in 1..(Len(s) - k)
        PROVE  b[i] = s[k + i]
    <3>1. i \in 1..(Len(s) - (k + 1) + 1) /\ k + 1 + i - 1 = k + i
      BY <1>1
    <3> QED
      BY <2>2, <3>1
  <2> QED
    BY <2>2, <2>3, <2>4
<1> HIDE DEF a, b
<1>4. /\ t \in Seq(S) /\ Len(t) = Len(s) - 1
      /\ \A i \in 1..(Len(s) - 1) : t[i] = IF i < k THEN s[i] ELSE s[i + 1]
  <2>1. /\ t \in Seq(S) /\ Len(t) = Len(a) + Len(b)
        /\ \A i \in 1..(Len(a) + Len(b)) : t[i] = IF i <= Len(a) THEN a[i] ELSE b[i - Len(a)]
    <3>1. a \in Seq(S) /\ b \in Seq(S)
      BY <1>2, <1>3
    <3> QED
      BY <3>1, ConcatProperties, Zenon
  <2> HIDE DEF t
  <2>2. Len(a) = k - 1 /\ Len(b) = Len(s) - k /\ Len(a) + Len(b) = Len(s) - 1
    BY <1>1, <1>2, <1>3
  <2>3. ASSUME NEW i \in 1..(Len(s) - 1)
        PROVE  t[i] = IF i < k THEN s[i] ELSE s[i + 1]
    <3>1. CASE i < k
      <4>1. i \in 1..(k - 1) /\ i \in 1..(Len(a) + Len(b)) /\ i <= Len(a)
        BY <1>1, <2>2, <3>1
      <4>2. t[i] = a[i] /\ a[i] = s[i]
        BY <1>2, <2>1, <4>1
      <4> QED
        BY <3>1, <4>2
    <3>2. CASE ~(i < k)
      <4>1. i - (k - 1) \in 1..(Len(s) - k) /\ k + (i - (k - 1)) = i + 1
        BY <1>1, <3>2
      <4>2. b[i - (k - 1)] = s[i + 1]
        BY <1>3, <4>1
      <4> QED
        BY <1>1, <2>1, <2>2, <3>2, <4>2
    <3> QED
      BY <3>1, <3>2
  <2> QED
    BY <2>1, <2>2, <2>3
<1> HIDE DEF t
<1>5. DOMAIN t = 1..(Len(s) - 1)
  BY <1>4
<1>6. IsList(t)
  BY <1>4, SeqOfRange DEF IsList
<1>7. ASSUME NEW i \in DOMAIN s, i # k
      PROVE  \E j \in DOMAIN t : t[j] = s[i]
  <2>1. CASE i < k
    <3>1. i \in DOMAIN t /\ t[i] = s[i]
      BY <1>1, <1>4, <1>5, <2>1
    <3> QED
      BY <3>1
  <2>2. CASE i > k
    <3>1. i - 1 \in 1..(Len(s) - 1) /\ ~(i - 1 < k) /\ (i - 1) + 1 = i
      BY <1>1, <2>2
    <3>2. i - 1 \in DOMAIN t /\ t[i - 1] = s[i]
      BY <1>4, <1>5, <3>1
    <3> QED
      BY <3>2
  <2> QED
    BY <1>1, <1>7, <2>1, <2>2
<1>8. ASSUME NEW j \in DOMAIN t
      PROVE  \E i \in DOMAIN s : t[j] = s[i]
  <2>1. j \in DOMAIN s /\ j + 1 \in DOMAIN s /\ (t[j] = s[j] \/ t[j] = s[j + 1])
    BY <1>1, <1>4, <1>5
  <2> QED
    BY <2>1
<1>9. t = RemoveAt(s, k)
  BY DEF t, a, b, RemoveAt
<1> QED
  BY <1>6, <1>7, <1>8, <1>9, Zenon

-----------------------------------------------------------------------------
(* What the operations on the variables of a device keep.                  *)

\* A device with the variables w still holds every packet that it held with
\* the variables v, those of P excepted.
KeepsBut(v, w, P) == DeviceOK(w) /\ \A p : p \notin P /\ Held(v, p) => Held(w, p)

\* Two changes one after the other.
LEMMA KeepsTwice ==
    ASSUME NEW u, NEW v, NEW w, NEW P, NEW Q, KeepsBut(u, v, P), KeepsBut(v, w, Q)
    PROVE  KeepsBut(u, w, P \cup Q)
BY DEF KeepsBut

\* The caches and the request table hold no packets.
LEMMA SameBuffers ==
    ASSUME NEW v, NEW w, DeviceOK(v), DOMAIN w = DOMAIN v,
           w.sendBuffer = v.sendBuffer, w.maintBuffer = v.maintBuffer
    PROVE  KeepsBut(v, w, {})
BY DEF KeepsBut, DeviceOK, Held

\* Searching the cache, learning a route, breaking one.
LEMMA CacheKeeps ==
    ASSUME NEW v, DeviceOK(v), NEW c
    PROVE  KeepsBut(v, [v EXCEPT !.cache = c], {})
<1> DEFINE w == [v EXCEPT !.cache = c]
<1>1. DOMAIN w = DOMAIN v /\ w.sendBuffer = v.sendBuffer /\ w.maintBuffer = v.maintBuffer
  BY DEF DeviceOK
<1> HIDE DEF w
<1>2. KeepsBut(v, w, {})
  BY <1>1, SameBuffers
<1> QED
  BY <1>2 DEF w

\* Noting, answering or forgetting a request.
LEMMA RequestKeeps ==
    ASSUME NEW v, DeviceOK(v), NEW r
    PROVE  KeepsBut(v, [v EXCEPT !.rreqTable = r], {})
<1> DEFINE w == [v EXCEPT !.rreqTable = r]
<1>1. DOMAIN w = DOMAIN v /\ w.sendBuffer = v.sendBuffer /\ w.maintBuffer = v.maintBuffer
  BY DEF DeviceOK
<1> HIDE DEF w
<1>2. KeepsBut(v, w, {})
  BY <1>1, SameBuffers
<1> QED
  BY <1>2 DEF w

\* A new send buffer.
LEMMA SendBufferKeeps ==
    ASSUME NEW v, DeviceOK(v), NEW b, Entries(b), NEW P,
           \A p : p \notin P /\ In(v.sendBuffer, p) => In(b, p)
    PROVE  LET w == [v EXCEPT !.sendBuffer = b]
           IN  KeepsBut(v, w, P) /\ w.sendBuffer = b
<1> DEFINE w == [v EXCEPT !.sendBuffer = b]
<1>1. DOMAIN w = DOMAIN v /\ w.sendBuffer = b /\ w.maintBuffer = v.maintBuffer
  BY DEF DeviceOK
<1> HIDE DEF w
<1>2. KeepsBut(v, w, P)
  BY <1>1 DEF KeepsBut, DeviceOK, Held
<1> QED
  BY <1>1, <1>2 DEF w

\* A new maintenance buffer.
LEMMA MaintBufferKeeps ==
    ASSUME NEW v, DeviceOK(v), NEW b, Entries(b), NEW P,
           \A p : p \notin P /\ In(v.maintBuffer, p) => In(b, p)
    PROVE  LET w == [v EXCEPT !.maintBuffer = b]
           IN  KeepsBut(v, w, P) /\ w.maintBuffer = b
<1> DEFINE w == [v EXCEPT !.maintBuffer = b]
<1>1. DOMAIN w = DOMAIN v /\ w.maintBuffer = b /\ w.sendBuffer = v.sendBuffer
  BY DEF DeviceOK
<1> HIDE DEF w
<1>2. KeepsBut(v, w, P)
  BY <1>1 DEF KeepsBut, DeviceOK, Held
<1> QED
  BY <1>1, <1>2 DEF w

\* The buffer b gets an entry x at its end.
LEMMA AppendEntry ==
    ASSUME NEW b, Entries(b), NEW x, "pkts" \in DOMAIN x
    PROVE  LET c == Append(b, x)
           IN  /\ Entries(c)
               /\ \A p : In(b, p) \/ p \in x.pkts => In(c, p)
<1> DEFINE c == Append(b, x)
<1>1. /\ IsList(c) /\ DOMAIN c = 1..(Len(b) + 1)
      /\ \A i \in DOMAIN b : c[i] = b[i]
      /\ c[Len(b) + 1] = x
  BY AppendList DEF Entries
<1>2. DOMAIN b = 1..Len(b) /\ Len(b) \in Nat
  BY ListDomain DEF Entries
<1> HIDE DEF c
<1>3. Len(b) + 1 \in DOMAIN c /\ \A i \in DOMAIN b : i \in DOMAIN c
  BY <1>1, <1>2
<1>4. \A i \in DOMAIN c : i \in DOMAIN b \/ i = Len(b) + 1
  BY <1>1, <1>2
<1>5. Entries(c)
  BY <1>1, <1>4 DEF Entries
<1>6. \A p : In(b, p) \/ p \in x.pkts => In(c, p)
  BY <1>1, <1>3 DEF In
<1> QED
  BY <1>5, <1>6 DEF c

\* The entries of the buffer b change one by one.
LEMMA ChangeEntries ==
    ASSUME NEW b, Entries(b), NEW c, DOMAIN c = DOMAIN b, c = [i \in DOMAIN c |-> c[i]],
           \A i \in DOMAIN b : "pkts" \in DOMAIN c[i],
           NEW P, \A i \in DOMAIN b : b[i].pkts \subseteq c[i].pkts \cup P
    PROVE  Entries(c) /\ \A p : p \notin P /\ In(b, p) => In(c, p)
<1>1. DOMAIN b = 1..Len(b) /\ Len(b) \in Nat
  BY ListDomain DEF Entries
<1>2. c = [i \in 1..Len(b) |-> c[i]]
  BY <1>1
<1>3. IsList(c)
  BY <1>1, <1>2, FunctionIsList
<1> QED
  BY <1>3 DEF Entries, In

\* The clock moves on.
LEMMA AgedKeeps ==
    ASSUME NEW v, DeviceOK(v), NEW t
    PROVE  KeepsBut(v, Aged(v, t), {})
<1> DEFINE b == v.maintBuffer
           c == AgedList(b, t)
           w == Aged(v, t)
<1>1. DOMAIN w = DOMAIN v /\ w.sendBuffer = v.sendBuffer /\ w.maintBuffer = c
  BY DEF Aged, DeviceOK
<1> HIDE DEF w
<1>2. Entries(b)
  BY DEF DeviceOK
<1>3. DOMAIN c = DOMAIN b /\ c = [i \in DOMAIN c |-> c[i]]
  BY DEF AgedList
<1>4. \A i \in DOMAIN b : "pkts" \in DOMAIN c[i] /\ b[i].pkts \subseteq c[i].pkts \cup {}
  BY <1>2 DEF Entries, AgedList
<1> HIDE DEF c
<1>5. Entries(c) /\ \A p : p \notin {} /\ In(b, p) => In(c, p)
  <2> DEFINE P == {}
  <2>1. \A i \in DOMAIN b : "pkts" \in DOMAIN c[i]
    BY <1>4
  <2>2. \A i \in DOMAIN b : b[i].pkts \subseteq c[i].pkts \cup P
    BY <1>4
  <2> HIDE DEF P, b
  <2>3. Entries(c) /\ \A p : p \notin P /\ In(b, p) => In(c, p)
    BY <1>2, <1>3, <2>1, <2>2, ChangeEntries
  <2> QED
    BY <2>3 DEF P
<1>6. KeepsBut(v, w, {})
  BY <1>1, <1>5 DEF KeepsBut, DeviceOK, Held
<1> QED
  BY <1>6 DEF w

\* The entry i of the buffer b becomes x.
LEMMA ChangeEntry ==
    ASSUME NEW b, Entries(b), NEW i, NEW x, i \in DOMAIN b => "pkts" \in DOMAIN x
    PROVE  LET c == [b EXCEPT ![i] = x]
           IN  /\ Entries(c)
               /\ \A p : (i \in DOMAIN b => p \notin b[i].pkts) /\ In(b, p) => In(c, p)
               /\ i \in DOMAIN b => \A p \in x.pkts : In(c, p)
<1> DEFINE c == [b EXCEPT ![i] = x]
           P == IF i \in DOMAIN b THEN b[i].pkts ELSE {}
<1>1. /\ DOMAIN c = DOMAIN b /\ c = [j \in DOMAIN c |-> c[j]]
      /\ \A j \in DOMAIN b : c[j] = IF j = i THEN x ELSE b[j]
  OBVIOUS
<1> HIDE DEF c
<1>2. \A j \in DOMAIN b : "pkts" \in DOMAIN c[j] /\ b[j].pkts \subseteq c[j].pkts \cup P
  BY <1>1 DEF Entries
<1> HIDE DEF P
<1>3. Entries(c) /\ \A p : p \notin P /\ In(b, p) => In(c, p)
  BY <1>1, <1>2, ChangeEntries
<1>4. \A p : (i \in DOMAIN b => p \notin b[i].pkts) => p \notin P
  BY DEF P
<1>5. i \in DOMAIN b => \A p \in x.pkts : In(c, p)
  BY <1>1 DEF In
<1> QED
  BY <1>3, <1>4, <1>5 DEF c

\* What the search for the entry of a target finds.
LEMMA SendEntryFound ==
    ASSUME NEW b, Entries(b), NEW a
    PROVE  LET i == InSendBuffer(b, a) IN i = 0 \/ i \in DOMAIN b
<1> DEFINE I == {i \in 1..Len(b) : b[i].target = a}
<1>1. InSendBuffer(b, a) = IF I # {} THEN Min(I) ELSE 0
  BY DEF InSendBuffer, SelectInSeq
<1>2. DOMAIN b = 1..Len(b) /\ I \subseteq Nat /\ I \subseteq DOMAIN b
  BY ListDomain DEF Entries
<1> HIDE DEF I
<1>3. I # {} => Min(I) \in I
  BY <1>2, MinOf
<1> QED
  BY <1>1, <1>2, <1>3

\* What the search for the entry of a next hop finds.
LEMMA MaintEntryFound ==
    ASSUME NEW b, Entries(b), NEW q, NEW h
    PROVE  LET i == InMaintBuffer(b, q, h) IN i = 0 \/ i \in DOMAIN b
<1> DEFINE I == {i \in 1..Len(b) : b[i].hop = h /\ b[i].src = q.src /\ b[i].dst = q.dst}
<1>1. InMaintBuffer(b, q, h) = IF I # {} THEN Min(I) ELSE 0
  BY DEF InMaintBuffer, SelectInSeq
<1>2. DOMAIN b = 1..Len(b) /\ I \subseteq Nat /\ I \subseteq DOMAIN b
  BY ListDomain DEF Entries
<1> HIDE DEF I
<1>3. I # {} => Min(I) \in I
  BY <1>2, MinOf
<1> QED
  BY <1>1, <1>2, <1>3

\* fn_NetSim_DSR_AddToSendBuffer loses none and holds the new packet.
LEMMA AddToSendBufferKeeps ==
    ASSUME NEW v, DeviceOK(v), NEW q
    PROVE  LET w == AddToSendBuffer(v, q) IN KeepsBut(v, w, {}) /\ Held(w, q)
<1> DEFINE b == v.sendBuffer
           i == InSendBuffer(b, q.dst)
<1>1. Entries(b) /\ (i = 0 \/ i \in DOMAIN b)
  BY SendEntryFound DEF DeviceOK
<1>2. CASE i = 0
  <2> DEFINE x == [target |-> q.dst, pkts |-> {q}]
             c == Append(b, x)
  <2>1. "pkts" \in DOMAIN x /\ x.pkts = {q}
    OBVIOUS
  <2> HIDE DEF x
  <2>2. Entries(c) /\ \A p : In(b, p) \/ p \in x.pkts => In(c, p)
    BY <1>1, <2>1, AppendEntry
  <2> HIDE DEF c
  <2> DEFINE w == [v EXCEPT !.sendBuffer = c]
  <2>3. KeepsBut(v, w, {}) /\ w.sendBuffer = c
    BY <2>2, SendBufferKeeps
  <2> HIDE DEF w
  <2>4. Held(w, q)
    BY <2>1, <2>2, <2>3 DEF Held
  <2>5. AddToSendBuffer(v, q) = w
    BY <1>2 DEF AddToSendBuffer, w, c, x
  <2> QED
    BY <2>3, <2>4, <2>5
<1>3. CASE i # 0
  <2> DEFINE x == [b[i] EXCEPT !.pkts = @ \cup {q}]
             c == [b EXCEPT ![i] = x]
             w == [v EXCEPT !.sendBuffer = c]
  <2>1. i \in DOMAIN b /\ "pkts" \in DOMAIN x /\ x.pkts = b[i].pkts \cup {q}
    BY <1>1, <1>3 DEF Entries
  <2>2. AddToSendBuffer(v, q) = w
    BY <1>3 DEF AddToSendBuffer
  <2> HIDE DEF x, i
  <2>3. /\ Entries(c)
        /\ \A p : (i \in DOMAIN b => p \notin b[i].pkts) /\ In(b, p) => In(c, p)
        /\ i \in DOMAIN b => \A p \in x.pkts : In(c, p)
    BY <1>1, <2>1, ChangeEntry
  <2> HIDE DEF c
  <2>4. In(c, q) /\ \A p : p \notin {} /\ In(b, p) => In(c, p)
    BY <2>1, <2>3
  <2>5. KeepsBut(v, w, {}) /\ w.sendBuffer = c
    BY <2>3, <2>4, SendBufferKeeps
  <2> HIDE DEF w
  <2>6. Held(w, q)
    BY <2>4, <2>5 DEF Held
  <2> QED
    BY <2>2, <2>5, <2>6
<1> QED
  BY <1>2, <1>3

\* The entry i of the maintenance buffer becomes x.
LEMMA MaintEntryKeeps ==
    ASSUME NEW v, DeviceOK(v), NEW i, NEW x, NEW P,
           i \in DOMAIN v.maintBuffer =>
              "pkts" \in DOMAIN x /\ v.maintBuffer[i].pkts \subseteq x.pkts \cup P
    PROVE  LET w == [v EXCEPT !.maintBuffer[i] = x]
           IN  /\ KeepsBut(v, w, P)
               /\ i \in DOMAIN v.maintBuffer => \A p \in x.pkts : Held(w, p)
<1> DEFINE b == v.maintBuffer
           c == [b EXCEPT ![i] = x]
           w == [v EXCEPT !.maintBuffer = c]
<1>1. Entries(b)
  BY DEF DeviceOK
<1>2. /\ Entries(c)
      /\ \A p : (i \in DOMAIN b => p \notin b[i].pkts) /\ In(b, p) => In(c, p)
      /\ i \in DOMAIN b => \A p \in x.pkts : In(c, p)
  <2>1. i \in DOMAIN b => "pkts" \in DOMAIN x
    OBVIOUS
  <2> HIDE DEF b
  <2> QED
    BY <1>1, <2>1, ChangeEntry
<1> HIDE DEF c
<1>3. \A p : p \notin P /\ In(b, p) => In(c, p)
  BY <1>2
<1>4. KeepsBut(v, w, P) /\ w.maintBuffer = c
  BY <1>2, <1>3, MaintBufferKeeps
<1> HIDE DEF w
<1>5. i \in DOMAIN b => \A p \in x.pkts : Held(w, p)
  BY <1>2, <1>4 DEF Held
<1> QED
  BY <1>4, <1>5 DEF w, c

\* fn_NetSim_DSR_AddToMaintBuffer loses none and holds the new packet.
LEMMA AddToMaintBufferKeeps ==
    ASSUME NEW v, DeviceOK(v), NEW q, NEW h
    PROVE  LET w == AddToMaintBuffer(v, q, h) IN KeepsBut(v, w, {}) /\ Held(w, q)
<1> DEFINE b == v.maintBuffer
           i == InMaintBuffer(b, q, h)
<1>1. Entries(b) /\ (i = 0 \/ i \in DOMAIN b)
  BY MaintEntryFound DEF DeviceOK
<1>2. CASE i = 0
  <2> DEFINE x == [hop |-> h, src |-> q.src, dst |-> q.dst, pkts |-> {q}, count |-> 0,
                   left |-> MAINT_HOLD_OFF_TIME]
             c == Append(b, x)
  <2>1. "pkts" \in DOMAIN x /\ x.pkts = {q}
    OBVIOUS
  <2> HIDE DEF x
  <2>2. Entries(c) /\ \A p : In(b, p) \/ p \in x.pkts => In(c, p)
    BY <1>1, <2>1, AppendEntry
  <2> HIDE DEF c
  <2> DEFINE w == [v EXCEPT !.maintBuffer = c]
  <2>3. KeepsBut(v, w, {}) /\ w.maintBuffer = c
    BY <2>2, MaintBufferKeeps
  <2> HIDE DEF w
  <2>4. Held(w, q)
    BY <2>1, <2>2, <2>3 DEF Held
  <2>5. AddToMaintBuffer(v, q, h) = w
    BY <1>2 DEF AddToMaintBuffer, w, c, x
  <2> QED
    BY <2>3, <2>4, <2>5
<1>3. CASE i # 0 /\ b[i].pkts # {}
  <2> DEFINE x == [b[i] EXCEPT !.pkts = @ \cup {q}]
             w == [v EXCEPT !.maintBuffer[i] = x]
  <2>1. i \in DOMAIN b /\ "pkts" \in DOMAIN x /\ x.pkts = b[i].pkts \cup {q}
    BY <1>1, <1>3 DEF Entries
  <2>2. AddToMaintBuffer(v, q, h) = w
    BY <1>3 DEF AddToMaintBuffer
  <2> HIDE DEF x, i
  <2>3. KeepsBut(v, w, {}) /\ \A p \in x.pkts : Held(w, p)
    <3>1. "pkts" \in DOMAIN x /\ v.maintBuffer[i].pkts \subseteq x.pkts \cup {}
      BY <2>1
    <3> QED
      BY <2>1, <3>1, MaintEntryKeeps
  <2> QED
    BY <2>1, <2>2, <2>3
<1>4. CASE i # 0 /\ b[i].pkts = {}
  <2> DEFINE x == [b[i] EXCEPT !.pkts = {q}, !.left = MAINT_HOLD_OFF_TIME]
             w == [v EXCEPT !.maintBuffer[i] = x]
  <2>1. i \in DOMAIN b /\ "pkts" \in DOMAIN x /\ x.pkts = {q}
    BY <1>1, <1>4 DEF Entries
  <2>2. AddToMaintBuffer(v, q, h) = w
    BY <1>4 DEF AddToMaintBuffer
  <2>3. b[i].pkts = {}
    BY <1>4
  <2> HIDE DEF x, i
  <2>4. KeepsBut(v, w, {}) /\ \A p \in x.pkts : Held(w, p)
    <3>1. "pkts" \in DOMAIN x /\ v.maintBuffer[i].pkts \subseteq x.pkts \cup {}
      BY <2>1, <2>3
    <3> QED
      BY <2>1, <3>1, MaintEntryKeeps
  <2> QED
    BY <2>1, <2>2, <2>4
<1> QED
  BY <1>2, <1>3, <1>4

\* fn_NetSim_DSR_EmptySendBuffer loses the packets it drops, no other.
LEMMA EmptySendBufferKeeps ==
    ASSUME NEW v, DeviceOK(v), NEW a
    PROVE  KeepsBut(v, EmptySendBuffer(v, a), Buffered(v, a))
<1> DEFINE b == v.sendBuffer
           i == InSendBuffer(b, a)
<1>1. Entries(b) /\ (i = 0 \/ i \in DOMAIN b)
  BY SendEntryFound DEF DeviceOK
<1>2. CASE i = 0
  BY <1>2 DEF EmptySendBuffer, KeepsBut
<1>3. CASE i # 0
  <2> DEFINE c == RemoveAt(b, i)
             P == b[i].pkts
             w == [v EXCEPT !.sendBuffer = c]
  <2>1. EmptySendBuffer(v, a) = w /\ Buffered(v, a) = P
    BY <1>3 DEF EmptySendBuffer, Buffered
  <2>2. IsList(b) /\ i \in 1..Len(b)
    BY <1>1, <1>3, ListDomain DEF Entries
  <2> HIDE DEF i
  <2>3. /\ IsList(c)
        /\ \A k \in DOMAIN b : k # i => \E j \in DOMAIN c : c[j] = b[k]
        /\ \A j \in DOMAIN c : \E k \in DOMAIN b : c[j] = b[k]
    BY <2>2, RemoveFromList
  <2> HIDE DEF c
  <2>4. Entries(c)
    BY <1>1, <2>3 DEF Entries
  <2>5. \A p : p \notin P /\ In(b, p) => In(c, p)
    BY <2>3 DEF In
  <2> HIDE DEF P
  <2>6. KeepsBut(v, w, P)
    BY <2>4, <2>5, SendBufferKeeps
  <2> QED
    BY <2>1, <2>6
<1> QED
  BY <1>2, <1>3

\* fn_NetSim_DSR_EmptyMaintBuffer loses the packets of the next hop, no other.
LEMMA EmptyMaintBufferKeeps ==
    ASSUME NEW v, DeviceOK(v), NEW h
    PROVE  KeepsBut(v, EmptyMaintBuffer(v, h), Maintained(v, h))
<1> DEFINE b == v.maintBuffer
           c == [i \in DOMAIN b |-> IF b[i].hop = h THEN [b[i] EXCEPT !.pkts = {}] ELSE b[i]]
           P == Maintained(v, h)
           w == [v EXCEPT !.maintBuffer = c]
<1>1. Entries(b)
  BY DEF DeviceOK
<1>2. EmptyMaintBuffer(v, h) = w
  BY DEF EmptyMaintBuffer
<1>3. DOMAIN c = DOMAIN b /\ c = [i \in DOMAIN c |-> c[i]]
  OBVIOUS
<1>4. \A i \in DOMAIN b : "pkts" \in DOMAIN c[i]
  BY <1>1 DEF Entries
<1>5. \A i \in DOMAIN b : b[i].pkts \subseteq c[i].pkts \cup P
  BY DEF Maintained, Range
<1> HIDE DEF c, P
<1>6. Entries(c) /\ \A p : p \notin P /\ In(b, p) => In(c, p)
  <2> HIDE DEF b
  <2> QED
    BY <1>1, <1>3, <1>4, <1>5, ChangeEntries
<1>7. KeepsBut(v, w, P)
  BY <1>6, MaintBufferKeeps
<1> QED
  BY <1>2, <1>7 DEF P

\* fn_NetSim_DSR_RetransmitBuffer loses the packets of its entry, no other.
LEMMA RetransmittedKeeps ==
    ASSUME NEW v, DeviceOK(v), NEW i
    PROVE  KeepsBut(v, Retransmitted(v, i), v.maintBuffer[i].pkts)
<1> DEFINE m == v.maintBuffer[i]
           x == [m EXCEPT !.count = m.count + 1, !.pkts = {}]
           P == m.pkts
<1>1. i \in DOMAIN v.maintBuffer => "pkts" \in DOMAIN x /\ v.maintBuffer[i].pkts \subseteq x.pkts \cup P
  BY DEF DeviceOK, Entries
<1>2. Retransmitted(v, i) = [v EXCEPT !.maintBuffer[i] = x]
  BY DEF Retransmitted
<1> HIDE DEF x, P
<1>3. KeepsBut(v, [v EXCEPT !.maintBuffer[i] = x], P)
  BY <1>1, MaintEntryKeeps
<1> QED
  BY <1>2, <1>3 DEF P

\* The retry count has no packets.
LEMMA ResetCountKeeps ==
    ASSUME NEW v, DeviceOK(v), NEW i
    PROVE  KeepsBut(v, ResetCount(v, i), {})
<1> DEFINE m == v.maintBuffer[i]
           x == [m EXCEPT !.count = 0]
<1>1. i \in DOMAIN v.maintBuffer => "pkts" \in DOMAIN x /\ v.maintBuffer[i].pkts \subseteq x.pkts \cup {}
  BY DEF DeviceOK, Entries
<1>2. ResetCount(v, i) = [v EXCEPT !.maintBuffer[i] = x]
  BY DEF ResetCount
<1> HIDE DEF x
<1>3. KeepsBut(v, [v EXCEPT !.maintBuffer[i] = x], {})
  BY <1>1, MaintEntryKeeps
<1> QED
  BY <1>2, <1>3

\* fn_NetSim_DSR_CheckSendBuffer takes the first entry off the send buffer.
LEMMA TailKeeps ==
    ASSUME NEW v, DeviceOK(v), v.sendBuffer # <<>>
    PROVE  KeepsBut(v, [v EXCEPT !.sendBuffer = Tail(@)], Head(v.sendBuffer).pkts)
<1> DEFINE b == v.sendBuffer
           c == Tail(b)
           P == Head(b).pkts
<1>1. Entries(b) /\ b \in Seq(Range(b)) /\ DOMAIN b = 1..Len(b) /\ Len(b) \in Nat /\ b # <<>>
  BY ListDomain DEF DeviceOK, Entries, IsList
<1>2. /\ c \in Seq(Range(b)) /\ Len(c) = Len(b) - 1
      /\ \A i \in 1..Len(c) : c[i] = b[i + 1]
  <2> HIDE DEF b
  <2> QED
    BY <1>1, HeadTailProperties
<1>3. Head(b) = b[1]
  BY <1>1
<1>4. IsList(c) /\ DOMAIN c = 1..(Len(b) - 1)
  BY <1>2, SeqOfRange DEF IsList
<1> HIDE DEF c
<1>5. Entries(c)
  <2>1. \A i \in DOMAIN c : i + 1 \in DOMAIN b /\ c[i] = b[i + 1]
    BY <1>1, <1>2, <1>4
  <2> QED
    BY <1>1, <1>4, <2>1 DEF Entries
<1>6. ASSUME NEW p, p \notin P, In(b, p)
      PROVE  In(c, p)
  <2>1. PICK i \in DOMAIN b : p \in b[i].pkts
    BY <1>6 DEF In
  <2>2. i # 1
    BY <1>3, <1>6, <2>1
  <2>3. i - 1 \in DOMAIN c /\ i - 1 \in 1..Len(c) /\ (i - 1) + 1 = i
    BY <1>1, <1>2, <1>4, <2>2
  <2>4. c[i - 1] = b[i]
    BY <1>2, <2>3
  <2> QED
    BY <2>1, <2>3, <2>4 DEF In
<1> HIDE DEF P
<1>7. KeepsBut(v, [v EXCEPT !.sendBuffer = c], P)
  BY <1>5, <1>6, SendBufferKeeps
<1> QED
  BY <1>7 DEF c, P

-----------------------------------------------------------------------------
(* Events.                                                                 *)

Shifted(E, t) == {[x EXCEPT !.due = @ - t] : x \in E}

\* A new event.
LEMMA NewEvent ==
    ASSUME NEW d \in Dev, NEW k, NEW t, NEW y
    PROVE  LET x == Event(d, k, t, y) IN EventOK(x) /\ x.kind = k /\ x.x = y
BY DEF Event, EventOK

\* The passing of time changes no event but for the time that is left.
LEMMA ShiftEvents ==
    ASSUME NEW E, NEW t, \A x \in E : EventOK(x)
    PROVE  /\ \A y \in Shifted(E, t) : EventOK(y)
           /\ \A p : ToSend(E, p) => ToSend(Shifted(E, t), p)
<1>1. ASSUME NEW x \in E
      PROVE  LET y == [x EXCEPT !.due = @ - t]
             IN  EventOK(y) /\ y.kind = x.kind /\ y.x = x.x
  BY DEF EventOK
<1>2. \A y \in Shifted(E, t) : EventOK(y)
  BY <1>1 DEF Shifted
<1>3. ASSUME NEW p, ToSend(E, p)
      PROVE  ToSend(Shifted(E, t), p)
  <2>1. PICK x \in E : x.kind = "NETWORK_OUT" /\ x.x = p
    BY <1>3 DEF ToSend
  <2>2. [x EXCEPT !.due = @ - t] \in Shifted(E, t)
    BY DEF Shifted
  <2> QED
    BY <1>1, <2>1, <2>2 DEF ToSend
<1> QED
  BY <1>2, <1>3

\* The events that are left when e is taken.
LEMMA RestEvents ==
    ASSUME Shapes, NEW e \in ev
    PROVE  /\ \A y \in Rest(e) : EventOK(y)
           /\ \A p : ToSend(ev, p) => (e.kind = "NETWORK_OUT" /\ e.x = p) \/ ToSend(Rest(e), p)
<1>1. /\ \A y \in Shifted(ev, e.due) : EventOK(y)
      /\ \A p : ToSend(ev, p) => ToSend(Shifted(ev, e.due), p)
  BY ShiftEvents DEF Shapes
<1> DEFINE z == [e EXCEPT !.due = 0]
<1>2. Rest(e) = Shifted(ev, e.due) \ {z}
  BY DEF Rest, Later, Shifted
<1>3. z.kind = e.kind /\ z.x = e.x
  BY DEF Shapes, EventOK
<1> HIDE DEF z
<1>4. ASSUME NEW p, ToSend(ev, p), ~(e.kind = "NETWORK_OUT" /\ e.x = p)
      PROVE  ToSend(Rest(e), p)
  <2>1. PICK y \in Shifted(ev, e.due) : y.kind = "NETWORK_OUT" /\ y.x = p
    BY <1>1, <1>4 DEF ToSend
  <2>2. y # z
    BY <1>3, <1>4, <2>1
  <2> QED
    BY <1>2, <2>1, <2>2 DEF ToSend
<1> QED
  BY <1>1, <1>2, <1>4

\* Frames and requests go to devices.
LEMMA FramesOK ==
    ASSUME Shapes, NEW d
    PROVE  /\ \A h, k, y : \A x \in Unicast(d, h, k, y) : EventOK(x)
           /\ \A y : \A x \in Broadcast(d, y) : EventOK(x)
<1>1. \A h : <<d, h>> \in link => h \in Dev
  BY DsrAssumption DEF Shapes
<1>2. ASSUME NEW h, NEW k, NEW y, NEW x \in Unicast(d, h, k, y)
      PROVE  EventOK(x)
  <2>1. <<d, h>> \in link /\ x = Event(h, k, 1, y)
    BY <1>2 DEF Unicast
  <2>2. h \in Dev
    BY <1>1, <2>1
  <2>3. EventOK(Event(h, k, 1, y))
    BY <2>2, NewEvent
  <2> QED
    BY <2>1, <2>3
<1>3. ASSUME NEW y, NEW x \in Broadcast(d, y)
      PROVE  EventOK(x)
  <2>1. PICK r \in Dev : x = Event(r, "RREQ", 1, y)
    BY <1>3 DEF Broadcast
  <2>2. EventOK(Event(r, "RREQ", 1, y))
    BY NewEvent
  <2> QED
    BY <2>1, <2>2
<1> QED
  BY <1>2, <1>3

\* The packets of a buffer given back to the network layer.
LEMMA HandedOut ==
    ASSUME NEW d \in Dev, NEW P
    PROVE  LET E == {Event(d, "NETWORK_OUT", 0, p) : p \in P}
           IN  (\A x \in E : EventOK(x)) /\ \A p \in P : ToSend(E, p)
<1> DEFINE E == {Event(d, "NETWORK_OUT", 0, p) : p \in P}
<1>1. ASSUME NEW p \in P
      PROVE  LET x == Event(d, "NETWORK_OUT", 0, p)
             IN  EventOK(x) /\ x.kind = "NETWORK_OUT" /\ x.x = p
  BY NewEvent
<1>2. \A x \in E : EventOK(x)
  BY <1>1, Zenon
<1>3. \A p \in P : Event(d, "NETWORK_OUT", 0, p) \in E
  OBVIOUS
<1>4. \A p \in P : ToSend(E, p)
  <2> HIDE DEF E
  <2> QED
    BY <1>1, <1>3, Zenon DEF ToSend
<1> QED
  BY <1>2, <1>4, Zenon

-----------------------------------------------------------------------------
(* Steps.                                                                  *)

\* Device d gets the variables w, for the others time passes.
Writes(d, t, w) ==
    /\ DOMAIN dsr' = Dev /\ dsr'[d] = w
    /\ \A k \in Dev \ {d} : dsr'[k] = Aged(dsr[k], t)

\* The event e is taken and none that sends a packet goes with it.
Queues(e) ==
    /\ \A x \in ev' : EventOK(x)
    /\ \A p : ToSend(ev, p) => (e.kind = "NETWORK_OUT" /\ e.x = p) \/ ToSend(ev', p)

\* What the device of e no longer holds is settled or sent.
Settles(e, w, P) ==
    /\ KeepsBut(dsr[e.dev], w, P)
    /\ \A p \in P : Settled(p)' \/ ToSend(ev', p)
    /\ \A p : Settled(p) => Settled(p)'
    /\ e.kind = "NETWORK_OUT" => Held(w, e.x)

\* Such a step keeps the invariant.
LEMMA TakeEvent ==
    ASSUME DsrInv, NEW e \in ev, NEW w, NEW P,
           Writes(e.dev, e.due, w), Queues(e), Settles(e, w, P),
           link' = link, todo' = todo
    PROVE  DsrInv'
<1>1. e.dev \in Dev
  BY DEF DsrInv, Shapes, EventOK
<1>2. \A k \in Dev : DeviceOK(dsr[k])
  BY DEF DsrInv, Shapes
<1>3. \A k \in Dev \ {e.dev} : KeepsBut(dsr[k], dsr'[k], {})
  BY <1>2, AgedKeeps DEF Writes
<1>4. KeepsBut(dsr[e.dev], dsr'[e.dev], P)
  BY DEF Writes, Settles
<1>5. Shapes'
  <2>1. \A k \in Dev : DeviceOK(dsr'[k])
    BY <1>3, <1>4 DEF KeepsBut
  <2> QED
    BY <2>1 DEF DsrInv, Shapes, Writes, Queues
<1>6. ASSUME NEW p \in Pkt \ todo'
      PROVE  Settled(p)' \/ ToSend(ev', p) \/ \E d \in Dev : Held(dsr'[d], p)
  <2>1. Settled(p) \/ ToSend(ev, p) \/ \E d \in Dev : Held(dsr[d], p)
    BY DEF DsrInv, KeptInv, Kept
  <2>2. CASE Settled(p)
    BY <2>2 DEF Settles
  <2>3. CASE ToSend(ev, p)
    <3>1. (e.kind = "NETWORK_OUT" /\ e.x = p) \/ ToSend(ev', p)
      BY <2>3 DEF Queues
    <3>2. e.kind = "NETWORK_OUT" /\ e.x = p => Held(dsr'[e.dev], p)
      BY DEF Settles, Writes
    <3> QED
      BY <1>1, <3>1, <3>2
  <2>4. ASSUME NEW d \in Dev, Held(dsr[d], p)
        PROVE  Settled(p)' \/ ToSend(ev', p) \/ Held(dsr'[d], p)
    <3>1. CASE d = e.dev
      BY <1>4, <2>4, <3>1 DEF KeepsBut, Settles
    <3>2. CASE d # e.dev
      BY <1>3, <2>4, <3>2 DEF KeepsBut
    <3> QED
      BY <3>1, <3>2
  <2> QED
    BY <2>1, <2>2, <2>3, <2>4
<1>7. KeptInv'
  BY <1>6 DEF KeptInv, Kept
<1> QED
  BY <1>5, <1>7 DEF DsrInv

\* The two ways a handler writes the variables.
LEMMA WritesDevice ==
    ASSUME Shapes, NEW d \in Dev, NEW t
    PROVE  /\ \A w : dsr' = [Ages(t) EXCEPT ![d] = w] => Writes(d, t, w)
           /\ dsr' = Ages(t) => Writes(d, t, Aged(dsr[d], t))
<1>1. DOMAIN Ages(t) = Dev /\ \A k \in Dev : Ages(t)[k] = Aged(dsr[k], t)
  BY DEF Ages
<1> QED
  BY <1>1 DEF Writes

\* Events that are added to the rest.
LEMMA QueuesMore ==
    ASSUME Shapes, NEW e \in ev, NEW E, ev' = Rest(e) \cup E, \A x \in E : EventOK(x)
    PROVE  Queues(e) /\ \A p : ToSend(E, p) => ToSend(ev', p)
<1>1. /\ \A y \in Rest(e) : EventOK(y)
      /\ \A p : ToSend(ev, p) => (e.kind = "NETWORK_OUT" /\ e.x = p) \/ ToSend(Rest(e), p)
  BY RestEvents
<1>2. \A p : ToSend(Rest(e), p) \/ ToSend(E, p) => ToSend(ev', p)
  BY DEF ToSend
<1> QED
  BY <1>1, <1>2 DEF Queues

\* No events are added.
LEMMA QueuesRest ==
    ASSUME Shapes, NEW e \in ev, ev' = Rest(e)
    PROVE  Queues(e)
BY RestEvents DEF Queues

\* A handler of an event that sends no packet, and that settles nothing.
LEMMA NothingSettled ==
    ASSUME DsrInv, NEW e \in ev, e.kind # "NETWORK_OUT", NEW w,
           KeepsBut(Aged(dsr[e.dev], e.due), w, {}),
           \A p : Settled(p) => Settled(p)'
    PROVE  Settles(e, w, {})
<1>1. DeviceOK(dsr[e.dev])
  BY DEF DsrInv, Shapes, EventOK
<1>2. KeepsBut(dsr[e.dev], Aged(dsr[e.dev], e.due), {})
  BY <1>1, AgedKeeps
<1>3. KeepsBut(dsr[e.dev], w, {} \cup {})
  BY <1>2, KeepsTwice
<1>4. KeepsBut(dsr[e.dev], w, {})
  BY <1>3 DEF KeepsBut
<1> QED
  BY <1>4 DEF Settles

\* A handler that lets the packets of P go.
LEMMA SomeSettled ==
    ASSUME DsrInv, NEW e \in ev, e.kind # "NETWORK_OUT", NEW w, NEW P,
           KeepsBut(Aged(dsr[e.dev], e.due), w, P),
           \A p : Settled(p) => Settled(p)',
           \A p \in P : Settled(p)' \/ ToSend(ev', p)
    PROVE  Settles(e, w, P)
<1>1. DeviceOK(dsr[e.dev])
  BY DEF DsrInv, Shapes, EventOK
<1>2. KeepsBut(dsr[e.dev], Aged(dsr[e.dev], e.due), {})
  BY <1>1, AgedKeeps
<1>3. KeepsBut(dsr[e.dev], w, {} \cup P)
  BY <1>2, KeepsTwice
<1>4. KeepsBut(dsr[e.dev], w, P)
  BY <1>3 DEF KeepsBut
<1> QED
  BY <1>4 DEF Settles

\* The device of an event, and its variables when the event is taken.
LEMMA DeviceOf ==
    ASSUME DsrInv, NEW e \in ev
    PROVE  e.dev \in Dev /\ DeviceOK(Aged(dsr[e.dev], e.due))
<1>1. e.dev \in Dev /\ DeviceOK(dsr[e.dev])
  BY DEF DsrInv, Shapes, EventOK
<1> QED
  BY <1>1, AgedKeeps DEF KeepsBut

\* Nothing is settled.
LEMMA SameSettled ==
    ASSUME UNCHANGED <<delivered, dropped, acked>>
    PROVE  \A p : Settled(p) => Settled(p)'
BY DEF Settled

\* A frame is lost; whoever sent it still has what was in it.
LEMMA StepLose ==
    ASSUME DsrInv, NEW e \in ev, Lose(e)
    PROVE  DsrInv'
<1> DEFINE v == Aged(dsr[e.dev], e.due)
<1>1. e.dev \in Dev /\ DeviceOK(v) /\ Shapes
  BY DeviceOf DEF DsrInv
<1>2. e.kind # "NETWORK_OUT" /\ link' = link /\ todo' = todo
  BY DEF Lose, Frames
<1>3. Writes(e.dev, e.due, v)
  BY <1>1, WritesDevice DEF Lose
<1>4. Queues(e)
  BY <1>1, QueuesRest DEF Lose
<1>5. \A p : Settled(p) => Settled(p)'
  BY SameSettled DEF Lose
<1>6. KeepsBut(v, v, {})
  BY <1>1 DEF KeepsBut
<1>7. Settles(e, v, {})
  BY <1>2, <1>5, <1>6, NothingSettled
<1> HIDE DEF v
<1> QED
  BY <1>2, <1>3, <1>4, <1>7, TakeEvent

\* A packet goes out on a route: it stays in the maintenance buffer.
LEMMA StepSendOnRoute ==
    ASSUME DsrInv, NEW e \in ev, SendOnRoute(e)
    PROVE  DsrInv'
<1> DEFINE d == e.dev
           p == e.x
           v == Aged(dsr[d], e.due)
           found == Searched(v, p.dst)
           h == Route(v, p.dst)[2]
           w == AddToMaintBuffer(found, p, h)
           T == IF MaintArms(v.maintBuffer, p, h)
                THEN {MaintTimer(d, [hop |-> h, src |-> p.src, dst |-> p.dst])} ELSE {}
           E == Unicast(d, h, "DATA", [pkt |-> p, from |-> d]) \cup T
<1>1. d \in Dev /\ DeviceOK(v) /\ Shapes
  BY DeviceOf DEF DsrInv
<1>2. link' = link /\ todo' = todo /\ UNCHANGED <<delivered, dropped, acked>>
  BY DEF SendOnRoute
<1>3. Writes(d, e.due, w)
  BY <1>1, WritesDevice DEF SendOnRoute
<1>4. Queues(e)
  <2>1. ev' = Rest(e) \cup E
    BY DEF SendOnRoute
  <2>2. \A x \in T : EventOK(x)
    BY <1>1, NewEvent DEF MaintTimer
  <2>3. \A x \in E : EventOK(x)
    BY <1>1, <2>2, FramesOK
  <2> HIDE DEF E
  <2> QED
    BY <1>1, <2>1, <2>3, QueuesMore
<1>5. KeepsBut(v, found, {})
  BY <1>1, CacheKeeps DEF Searched
<1> HIDE DEF v, h
<1>6. DeviceOK(found)
  BY <1>5 DEF KeepsBut
<1> HIDE DEF found
<1>7. KeepsBut(found, w, {}) /\ Held(w, p)
  BY <1>6, AddToMaintBufferKeeps
<1> HIDE DEF w
<1>8. KeepsBut(dsr[d], v, {})
  <2>1. DeviceOK(dsr[d])
    BY <1>1 DEF Shapes
  <2> QED
    BY <2>1, AgedKeeps DEF v
<1>9. KeepsBut(dsr[d], w, {})
  BY <1>5, <1>7, <1>8 DEF KeepsBut
<1>10. Settles(e, w, {})
  BY <1>2, <1>7, <1>9, SameSettled DEF Settles
<1> QED
  BY <1>2, <1>3, <1>4, <1>10, TakeEvent

\* A packet waits for a route.
LEMMA StepSendBuffered ==
    ASSUME DsrInv, NEW e \in ev, SendBuffered(e)
    PROVE  DsrInv'
<1> DEFINE d == e.dev
           p == e.x
           u == Aged(dsr[d], e.due)
           v == Searched(u, p.dst)
           b == AddToSendBuffer(v, p)
           init == InitRouteRequest(b, p.dst)
           id == init.nRREQIdentification
           E == {RREQTimer(d, p.dst, id, NonpropRequestTimeout)} \cup Broadcast(d, RREQ(d, p.dst, id, 1))
<1>1. d \in Dev /\ DeviceOK(u) /\ Shapes
  BY DeviceOf DEF DsrInv
<1>2. link' = link /\ todo' = todo /\ UNCHANGED <<delivered, dropped, acked>>
  BY DEF SendBuffered
<1>3. \/ dsr' = [Ages(e.due) EXCEPT ![d] = init] /\ ev' = Rest(e) \cup E
      \/ dsr' = [Ages(e.due) EXCEPT ![d] = b] /\ ev' = Rest(e)
  BY DEF SendBuffered
<1>4. Queues(e)
  <2>1. \A x \in E : EventOK(x)
    <3>1. EventOK(RREQTimer(d, p.dst, id, NonpropRequestTimeout))
      BY <1>1, NewEvent DEF RREQTimer
    <3>2. \A x \in Broadcast(d, RREQ(d, p.dst, id, 1)) : EventOK(x)
      BY <1>1, FramesOK
    <3> QED
      BY <3>1, <3>2
  <2> HIDE DEF E
  <2> QED
    BY <1>1, <1>3, <2>1, QueuesMore, QueuesRest
<1>5. KeepsBut(u, v, {})
  BY <1>1, CacheKeeps DEF Searched
<1>6. KeepsBut(dsr[d], u, {})
  <2>1. DeviceOK(dsr[d])
    BY <1>1 DEF Shapes
  <2> QED
    BY <2>1, AgedKeeps
<1> HIDE DEF u
<1>7. DeviceOK(v)
  BY <1>5 DEF KeepsBut
<1> HIDE DEF v
<1>8. KeepsBut(v, b, {}) /\ Held(b, p)
  BY <1>7, AddToSendBufferKeeps
<1> HIDE DEF b
<1>9. KeepsBut(b, init, {})
  <2>1. DeviceOK(b)
    BY <1>8 DEF KeepsBut
  <2>2. DOMAIN init = DOMAIN b /\ init.sendBuffer = b.sendBuffer /\ init.maintBuffer = b.maintBuffer
    BY <2>1 DEF InitRouteRequest, DeviceOK
  <2> HIDE DEF init
  <2> QED
    BY <2>1, <2>2, SameBuffers
<1> HIDE DEF init
<1>10. \A w \in {b, init} : KeepsBut(dsr[d], w, {}) /\ Held(w, p)
  BY <1>5, <1>6, <1>8, <1>9 DEF KeepsBut
<1>11. PICK w \in {b, init} : Writes(d, e.due, w)
  BY <1>1, <1>3, WritesDevice
<1>12. Settles(e, w, {})
  BY <1>2, <1>10, SameSettled DEF Settles
<1> QED
  BY <1>2, <1>4, <1>11, <1>12, TakeEvent

\* The timer of a request: what is dropped is counted.
LEMMA StepRREQTimeout ==
    ASSUME DsrInv, NEW e \in ev, RREQTimeout(e)
    PROVE  DsrInv'
<1> DEFINE d == e.dev
           a == e.x.target
           u == Aged(dsr[d], e.due)
           v == Searched(u, a)
           i == getRREQTable(v.rreqTable, a)
           retry == RetryRREQ(v, a)
           given == EmptySendBuffer(v, a)
           r == DeleteRREQTable(given.rreqTable, a)
           id == retry.nRREQIdentification
           E == {RREQTimer(d, a, id, retry.rreqTable[i].dBackoff)}
                   \cup Broadcast(d, RREQ(d, a, id, DSR_DISCOVERY_HOP_LIMIT))
<1>1. d \in Dev /\ DeviceOK(u) /\ Shapes
  BY DeviceOf DEF DsrInv
<1>2. e.kind # "NETWORK_OUT" /\ link' = link /\ todo' = todo /\ UNCHANGED <<delivered, acked>>
  BY DEF RREQTimeout
<1>3. \/ dsr' = [Ages(e.due) EXCEPT ![d] = v] /\ ev' = Rest(e) /\ dropped' = dropped
      \/ dsr' = [Ages(e.due) EXCEPT ![d] = retry] /\ ev' = Rest(e) \cup E /\ dropped' = dropped
      \/ /\ dsr' = [Ages(e.due) EXCEPT ![d] = [given EXCEPT !.rreqTable = r]]
         /\ ev' = Rest(e) /\ dropped' = dropped \cup Buffered(v, a)
  BY DEF RREQTimeout
<1>4. Queues(e)
  <2>1. \A x \in E : EventOK(x)
    <3>1. EventOK(RREQTimer(d, a, id, retry.rreqTable[i].dBackoff))
      BY <1>1, NewEvent DEF RREQTimer
    <3>2. \A x \in Broadcast(d, RREQ(d, a, id, DSR_DISCOVERY_HOP_LIMIT)) : EventOK(x)
      BY <1>1, FramesOK
    <3> QED
      BY <3>1, <3>2
  <2> HIDE DEF E
  <2> QED
    BY <1>1, <1>3, <2>1, QueuesMore, QueuesRest
<1>5. KeepsBut(u, v, {})
  BY <1>1, CacheKeeps DEF Searched
<1>6. \A p : Settled(p) => Settled(p)'
  BY <1>2, <1>3 DEF Settled
<1> HIDE DEF v, E
<1>7. DeviceOK(v)
  BY <1>5 DEF KeepsBut
<1>8. KeepsBut(v, retry, {})
  <2>1. DOMAIN retry = DOMAIN v /\ retry.sendBuffer = v.sendBuffer /\ retry.maintBuffer = v.maintBuffer
    BY <1>7 DEF RetryRREQ, DeviceOK
  <2> HIDE DEF retry
  <2> QED
    BY <1>7, <2>1, SameBuffers
<1>9. KeepsBut(v, given, Buffered(v, a))
  BY <1>7, EmptySendBufferKeeps
<1> HIDE DEF retry, given, r
<1>10. KeepsBut(given, [given EXCEPT !.rreqTable = r], {})
  BY <1>9, RequestKeeps DEF KeepsBut
<1> DEFINE z == [given EXCEPT !.rreqTable = r]
<1> HIDE DEF z
<1>11. KeepsBut(u, v, {}) /\ KeepsBut(u, retry, {}) /\ KeepsBut(u, z, Buffered(v, a))
  BY <1>5, <1>8, <1>9, <1>10 DEF KeepsBut, z
<1>12. CASE dsr' = [Ages(e.due) EXCEPT ![d] = v]
  <2>1. Writes(d, e.due, v) /\ Settles(e, v, {})
    BY <1>1, <1>2, <1>6, <1>11, <1>12, WritesDevice, NothingSettled
  <2> QED
    BY <1>2, <1>4, <2>1, TakeEvent
<1>13. CASE dsr' = [Ages(e.due) EXCEPT ![d] = retry]
  <2>1. Writes(d, e.due, retry) /\ Settles(e, retry, {})
    BY <1>1, <1>2, <1>6, <1>11, <1>13, WritesDevice, NothingSettled
  <2> QED
    BY <1>2, <1>4, <2>1, TakeEvent
<1>14. CASE dsr' = [Ages(e.due) EXCEPT ![d] = z] /\ dropped' = dropped \cup Buffered(v, a)
  <2>1. \A p \in Buffered(v, a) : Settled(p)'
    BY <1>14 DEF Settled
  <2>2. Writes(d, e.due, z) /\ Settles(e, z, Buffered(v, a))
    BY <1>1, <1>2, <1>6, <1>11, <1>14, <2>1, WritesDevice, SomeSettled
  <2> QED
    BY <1>2, <1>4, <2>2, TakeEvent
<1> QED
  BY <1>3, <1>12, <1>13, <1>14 DEF z

\* A request is noted, answered or forwarded.
LEMMA StepProcessRREQ ==
    ASSUME DsrInv, NEW e \in ev, ProcessRREQ(e)
    PROVE  DsrInv'
<1> DEFINE d == e.dev
           q == e.x
           v == Aged(dsr[d], e.due)
           once == [v EXCEPT !.rreqTable = Append(@, RREQEntry(q.target, q.id, 1, 0))]
           twice == [once EXCEPT !.rreqTable = Append(@, RREQEntry(q.target, q.id, 0, 0))]
           listed == OnRoute(d, q.addr)
           noted == IF listed THEN once ELSE Searched(twice, q.target)
           onward == [q EXCEPT !.addr = Append(@, d), !.ttl = @ - 1]
           r == Route(v, q.target)
           R == Unicast(d, PrevHop(q), "RREP", [route |-> CachedReply(r, q.src, q.addr, q.target)])
<1>1. d \in Dev /\ DeviceOK(v) /\ Shapes
  BY DeviceOf DEF DsrInv
<1>2. /\ e.kind # "NETWORK_OUT" /\ link' = link /\ todo' = todo
      /\ UNCHANGED <<delivered, dropped, acked>>
  BY DEF ProcessRREQ
<1>3. \/ dsr' = Ages(e.due)
      \/ dsr' = [Ages(e.due) EXCEPT ![d] = once]
      \/ dsr' = [Ages(e.due) EXCEPT ![d] = noted]
  BY DEF ProcessRREQ
<1>4. Queues(e)
  <2>1. \/ ev' = Rest(e)
        \/ ev' = Rest(e) \cup GenerateRREP(d, q)
        \/ ev' = Rest(e) \cup R
        \/ ev' = Rest(e) \cup Broadcast(d, onward)
    <3>1. \/ ev' = Rest(e) 
          \/ ev' = Rest(e) \cup GenerateRREP(d, q)
          \/ ev' = Rest(e) \cup IF ~listed /\ ValidateRouteCache(r, q.addr) THEN R ELSE {}
          \/ ev' = Rest(e) \cup IF listed \/ onward.ttl = 0 THEN {} ELSE Broadcast(d, onward)
      BY DEF ProcessRREQ
    <3> HIDE DEF R, r, onward, listed
    <3> QED
      BY <3>1
  <2>2. /\ \A x \in GenerateRREP(d, q) : EventOK(x)
        /\ \A x \in R : EventOK(x)
        /\ \A x \in Broadcast(d, onward) : EventOK(x)
    BY <1>1, FramesOK DEF GenerateRREP
  <2> HIDE DEF R, onward
  <2>3. CASE ev' = Rest(e)
    BY <1>1, <2>3, QueuesRest
  <2>4. ASSUME NEW E, ev' = Rest(e) \cup E, \A x \in E : EventOK(x)
        PROVE  Queues(e)
    BY <1>1, <2>4, QueuesMore
  <2> QED
    BY <2>1, <2>2, <2>3, <2>4
<1>5. \A p : Settled(p) => Settled(p)'
  BY <1>2, SameSettled
<1> HIDE DEF v, R, onward, listed, r
<1>6. KeepsBut(v, v, {}) /\ KeepsBut(v, once, {})
  BY <1>1, RequestKeeps DEF KeepsBut
<1> HIDE DEF once
<1>7. KeepsBut(once, twice, {})
  BY <1>6, RequestKeeps DEF KeepsBut
<1> HIDE DEF twice
<1>8. KeepsBut(twice, Searched(twice, q.target), {})
  BY <1>7, CacheKeeps DEF KeepsBut, Searched
<1>9. KeepsBut(v, noted, {})
  BY <1>6, <1>7, <1>8 DEF KeepsBut
<1> HIDE DEF noted
<1>10. PICK w \in {v, once, noted} : Writes(d, e.due, w)
  BY <1>1, <1>3, WritesDevice DEF v
<1>11. KeepsBut(v, w, {})
  BY <1>6, <1>9, <1>10
<1>12. Settles(e, w, {})
  BY <1>2, <1>5, <1>11, NothingSettled DEF v
<1> QED
  BY <1>2, <1>4, <1>10, <1>12, TakeEvent

\* A reply gives the first entry of the send buffer back to the network layer.
LEMMA StepProcessRREP ==
    ASSUME DsrInv, NEW e \in ev, ProcessRREP(e)
    PROVE  DsrInv'
<1> DEFINE d == e.dev
           route == e.x.route
           u == Aged(dsr[d], e.due)
           v == UpdateRouteCache(u, d, route)
           sent == IF CheckSendBuffer(v) THEN Head(v.sendBuffer).pkts ELSE {}
           left == IF CheckSendBuffer(v) THEN [v EXCEPT !.sendBuffer = Tail(@)] ELSE v
           a == Last(route)
           T == TransmitSendBuffer(d, sent)
           C == Cancelled(d, v, a)
<1>1. d \in Dev /\ DeviceOK(u) /\ Shapes
  BY DeviceOf DEF DsrInv
<1>2. /\ e.kind = "RREP" /\ link' = link /\ todo' = todo
      /\ UNCHANGED <<delivered, dropped, acked>>
  BY DEF ProcessRREP
<1>3. \/ /\ dsr' = [Ages(e.due) EXCEPT ![d] = Answered(left, a)]
         /\ ev' = {[x EXCEPT !.due = @ - e.due] : x \in ev \ ({e} \cup C)} \cup T
      \/ /\ dsr' = [Ages(e.due) EXCEPT ![d] = left]
         /\ ev' = Rest(e) \cup T \cup ForwardRREP(d, e.x)
  BY DEF ProcessRREP
<1>4. (\A x \in T : EventOK(x)) /\ \A p \in sent : ToSend(T, p)
  <2> HIDE DEF sent
  <2> QED
    BY <1>1, HandedOut DEF TransmitSendBuffer
<1>5. \A x \in C : x.kind = "RREQ_TIMEOUT"
  BY DEF Cancelled
<1>6. KeepsBut(u, v, {})
  BY <1>1, CacheKeeps DEF UpdateRouteCache
<1> HIDE DEF v, C, T, a
<1>7. KeepsBut(v, left, sent)
  <2>1. DeviceOK(v)
    BY <1>6 DEF KeepsBut
  <2>2. CASE CheckSendBuffer(v)
    <3>1. v.sendBuffer # <<>>
      BY <2>2 DEF CheckSendBuffer
    <3> QED
      BY <2>1, <2>2, <3>1, TailKeeps
  <2>3. CASE ~CheckSendBuffer(v)
    BY <2>1, <2>3 DEF KeepsBut
  <2> QED
    BY <2>2, <2>3
<1> HIDE DEF sent, left
<1>8. KeepsBut(left, Answered(left, a), {})
  <2>1. DeviceOK(left)
    BY <1>7 DEF KeepsBut
  <2> DEFINE w == Answered(left, a)
  <2>2. DOMAIN w = DOMAIN left /\ w.sendBuffer = left.sendBuffer /\ w.maintBuffer = left.maintBuffer
    BY <2>1 DEF Answered, DeviceOK
  <2> HIDE DEF w
  <2>3. KeepsBut(left, w, {})
    BY <2>1, <2>2, SameBuffers
  <2> QED
    BY <2>3 DEF w
<1>9. KeepsBut(u, left, sent) /\ KeepsBut(u, Answered(left, a), sent)
  BY <1>6, <1>7, <1>8 DEF KeepsBut
<1>10. Queues(e) /\ \A p \in sent : ToSend(ev', p)
  <2>1. CASE ev' = {[x EXCEPT !.due = @ - e.due] : x \in ev \ ({e} \cup C)} \cup T
    <3> DEFINE K == ev \ ({e} \cup C)
    <3>1. ev' = Shifted(K, e.due) \cup T
      BY <2>1 DEF Shifted
    <3>2. \A p : ToSend(ev, p) => ToSend(K, p)
      BY <1>2, <1>5 DEF ToSend
    <3>3. \A x \in K : EventOK(x)
      BY <1>1 DEF Shapes
    <3> HIDE DEF K
    <3>4. /\ \A y \in Shifted(K, e.due) : EventOK(y)
          /\ \A p : ToSend(K, p) => ToSend(Shifted(K, e.due), p)
      BY <3>3, ShiftEvents
    <3>5. \A p : ToSend(Shifted(K, e.due), p) \/ ToSend(T, p) => ToSend(ev', p)
      BY <3>1 DEF ToSend
    <3> QED
      BY <1>4, <3>1, <3>2, <3>4, <3>5 DEF Queues
  <2>2. CASE ev' = Rest(e) \cup T \cup ForwardRREP(d, e.x)
    <3> DEFINE E == T \cup ForwardRREP(d, e.x)
    <3>1. \A x \in E : EventOK(x)
      BY <1>1, <1>4, FramesOK DEF ForwardRREP
    <3>2. ev' = Rest(e) \cup E /\ T \subseteq E
      BY <2>2
    <3> HIDE DEF E
    <3>3. Queues(e) /\ \A p : ToSend(E, p) => ToSend(ev', p)
      BY <1>1, <3>1, <3>2, QueuesMore
    <3> QED
      BY <1>4, <3>2, <3>3 DEF ToSend
  <2> QED
    BY <1>3, <2>1, <2>2
<1>11. PICK w \in {left, Answered(left, a)} : Writes(d, e.due, w)
  BY <1>1, <1>3, WritesDevice
<1>12. Settles(e, w, sent)
  <2>1. \A p : Settled(p) => Settled(p)'
    BY <1>2, SameSettled
  <2>2. e.kind # "NETWORK_OUT" /\ KeepsBut(u, w, sent)
    BY <1>2, <1>9, <1>11
  <2> QED
    BY <1>10, <2>1, <2>2, SomeSettled
<1> QED
  BY <1>2, <1>10, <1>11, <1>12, TakeEvent

\* A data packet comes in: its sender still holds it.
LEMMA StepProcessSourceRouteOption ==
    ASSUME DsrInv, NEW e \in ev, ProcessSourceRouteOption(e)
    PROVE  DsrInv'
<1> DEFINE d == e.dev
           v == Aged(dsr[d], e.due)
           A == Process_AckRequestOption(d, e.x.from)
           N == {Event(d, "NETWORK_OUT", 0, e.x.pkt)}
<1>1. d \in Dev /\ DeviceOK(v) /\ Shapes
  BY DeviceOf DEF DsrInv
<1>2. /\ e.kind # "NETWORK_OUT" /\ link' = link /\ todo' = todo
      /\ dsr' = Ages(e.due) /\ UNCHANGED <<dropped, acked>>
      /\ ev' = Rest(e) \cup A \/ ev' = Rest(e) \cup A \cup N
      /\ delivered \subseteq delivered'
  BY DEF ProcessSourceRouteOption
<1>3. Writes(d, e.due, v)
  BY <1>1, <1>2, WritesDevice
<1>4. Queues(e)
  <2>1. \A x \in A \cup N : EventOK(x)
    BY <1>1, FramesOK, NewEvent DEF Process_AckRequestOption
  <2>2. ev' = Rest(e) \cup A \/ ev' = Rest(e) \cup (A \cup N)
    BY <1>2
  <2> HIDE DEF A, N
  <2>3. ASSUME NEW E, ev' = Rest(e) \cup E, \A x \in E : EventOK(x)
        PROVE  Queues(e)
    BY <1>1, <2>3, QueuesMore
  <2> QED
    BY <2>1, <2>2, <2>3
<1>5. \A p : Settled(p) => Settled(p)'
  BY <1>2 DEF Settled
<1>6. KeepsBut(v, v, {})
  BY <1>1 DEF KeepsBut
<1>7. Settles(e, v, {})
  BY <1>2, <1>5, <1>6, NothingSettled
<1> HIDE DEF v
<1> QED
  BY <1>2, <1>3, <1>4, <1>7, TakeEvent

\* An acknowledgement: what leaves the maintenance buffer is acknowledged.
LEMMA StepProcessAckOption ==
    ASSUME DsrInv, NEW e \in ev, ProcessAckOption(e)
    PROVE  DsrInv'
<1> DEFINE d == e.dev
           v == Aged(dsr[d], e.due)
           h == e.x.from
           w == EmptyMaintBuffer(v, h)
           P == Maintained(v, h)
<1>1. d \in Dev /\ DeviceOK(v) /\ Shapes
  BY DeviceOf DEF DsrInv
<1>2. /\ e.kind # "NETWORK_OUT" /\ link' = link /\ todo' = todo
      /\ UNCHANGED <<delivered, dropped>> /\ acked' = acked \cup P /\ ev' = Rest(e)
      /\ dsr' = [Ages(e.due) EXCEPT ![d] = w]
  BY DEF ProcessAckOption
<1>3. Writes(d, e.due, w)
  BY <1>1, <1>2, WritesDevice
<1>4. Queues(e)
  BY <1>1, <1>2, QueuesRest
<1>5. KeepsBut(v, w, P)
  BY <1>1, EmptyMaintBufferKeeps
<1> HIDE DEF w, P
<1>6. (\A p : Settled(p) => Settled(p)') /\ \A p \in P : Settled(p)'
  BY <1>2 DEF Settled
<1>7. Settles(e, w, P)
  BY <1>2, <1>5, <1>6, SomeSettled
<1> QED
  BY <1>2, <1>3, <1>4, <1>7, TakeEvent

\* The timer of an entry: its packets go out again or are dropped.
LEMMA StepMaintTimeout ==
    ASSUME DsrInv, NEW e \in ev, MaintTimeout(e)
    PROVE  DsrInv'
<1> DEFINE d == e.dev
           v == Aged(dsr[d], e.due)
           i == SelectInSeq(v.maintBuffer, LAMBDA m : MaintKey(m) = e.x)
           M == v.maintBuffer[i]
           R == RetransmitBuffer(d, M.pkts)
           g == EmptyMaintBuffer(v, M.hop)
           P == Maintained(v, M.hop)
<1>1. d \in Dev /\ DeviceOK(v) /\ Shapes
  BY DeviceOf DEF DsrInv
<1>2. e.kind # "NETWORK_OUT" /\ link' = link /\ todo' = todo /\ UNCHANGED <<delivered, acked>>
  BY DEF MaintTimeout
<1>3. \/ dsr' = Ages(e.due) /\ ev' = Rest(e) /\ dropped' = dropped
      \/ /\ dsr' = [Ages(e.due) EXCEPT ![d] = Retransmitted(v, i)]
         /\ ev' = Rest(e) \cup R /\ dropped' = dropped
      \/ /\ dsr' = [Ages(e.due) EXCEPT ![d] = ResetCount(g, i)]
         /\ dropped' = dropped \cup P /\ ev' = Rest(e) \cup {GenerateRERR(d, M.hop)}
  BY DEF MaintTimeout
<1> HIDE DEF i
<1>4. \A p : Settled(p) => Settled(p)'
  BY <1>2, <1>3 DEF Settled
<1>5. CASE dsr' = Ages(e.due) /\ ev' = Rest(e)
  <2>1. Writes(d, e.due, v) /\ Queues(e)
    BY <1>1, <1>5, WritesDevice, QueuesRest
  <2>2. KeepsBut(v, v, {})
    BY <1>1 DEF KeepsBut
  <2>3. Settles(e, v, {})
    BY <1>2, <1>4, <2>2, NothingSettled
  <2> HIDE DEF v
  <2> QED
    BY <1>2, <2>1, <2>3, TakeEvent
<1>6. CASE /\ dsr' = [Ages(e.due) EXCEPT ![d] = Retransmitted(v, i)]
           /\ ev' = Rest(e) \cup R
  <2> DEFINE w == Retransmitted(v, i)
             Q == M.pkts
  <2>1. KeepsBut(v, w, Q)
    BY <1>1, RetransmittedKeeps
  <2>2. Writes(d, e.due, w)
    BY <1>1, <1>6, WritesDevice
  <2> HIDE DEF w, Q
  <2>3. (\A x \in R : EventOK(x)) /\ \A p \in Q : ToSend(R, p)
    BY <1>1, HandedOut DEF RetransmitBuffer, Q
  <2> HIDE DEF R
  <2>4. Queues(e) /\ \A p : ToSend(R, p) => ToSend(ev', p)
    BY <1>1, <1>6, <2>3, QueuesMore
  <2>5. Settles(e, w, Q)
    BY <1>2, <1>4, <2>1, <2>3, <2>4, SomeSettled
  <2> QED
    BY <1>2, <2>2, <2>4, <2>5, TakeEvent
<1>7. CASE /\ dsr' = [Ages(e.due) EXCEPT ![d] = ResetCount(g, i)]
           /\ dropped' = dropped \cup P /\ ev' = Rest(e) \cup {GenerateRERR(d, M.hop)}
  <2> DEFINE w == ResetCount(g, i)
  <2>1. KeepsBut(v, g, P)
    BY <1>1, EmptyMaintBufferKeeps
  <2> HIDE DEF g
  <2>2. KeepsBut(g, w, {})
    BY <2>1, ResetCountKeeps DEF KeepsBut
  <2>3. Writes(d, e.due, w)
    BY <1>1, <1>7, WritesDevice
  <2> HIDE DEF w, P
  <2>4. KeepsBut(v, w, P)
    BY <2>1, <2>2 DEF KeepsBut
  <2>5. Queues(e)
    <3> DEFINE E == {GenerateRERR(d, M.hop)}
    <3>1. EventOK(GenerateRERR(d, M.hop))
      BY <1>1, NewEvent DEF GenerateRERR
    <3>2. ev' = Rest(e) \cup E /\ \A x \in E : EventOK(x)
      BY <1>7, <3>1
    <3> HIDE DEF E
    <3> QED
      BY <1>1, <3>2, QueuesMore
  <2>6. \A p \in P : Settled(p)'
    BY <1>7 DEF Settled
  <2>7. Settles(e, w, P)
    BY <1>2, <1>4, <2>4, <2>6, SomeSettled
  <2> QED
    BY <1>2, <2>3, <2>5, <2>7, TakeEvent
<1> QED
  BY <1>3, <1>5, <1>6, <1>7

\* A route error changes the cache of the device that raised it.
LEMMA StepProcessRerr ==
    ASSUME DsrInv, NEW e \in ev, ProcessRerr(e)
    PROVE  DsrInv'
<1> DEFINE d == e.dev
           v == Aged(dsr[d], e.due)
           w == [v EXCEPT !.cache = DeleteEntryFromRouteCache(@, d, e.x.hop)]
<1>1. d \in Dev /\ DeviceOK(v) /\ Shapes
  BY DeviceOf DEF DsrInv
<1>2. /\ e.kind # "NETWORK_OUT" /\ link' = link /\ todo' = todo
      /\ UNCHANGED <<delivered, dropped, acked>> /\ ev' = Rest(e)
      /\ dsr' = [Ages(e.due) EXCEPT ![d] = w]
  BY DEF ProcessRerr
<1>3. Writes(d, e.due, w) /\ Queues(e)
  BY <1>1, <1>2, WritesDevice, QueuesRest
<1>4. KeepsBut(v, w, {})
  BY <1>1, CacheKeeps
<1>5. Settles(e, w, {})
  BY <1>2, <1>4, SameSettled, NothingSettled
<1> HIDE DEF w
<1> QED
  BY <1>2, <1>3, <1>5, TakeEvent

\* The transport layer hands a packet down: it is pending at the network layer.
LEMMA StepSend ==
    ASSUME DsrInv, Send
    PROVE  DsrInv'
<1>1. PICK q \in todo, t \in 0..Gap :
         /\ todo' = todo \ {q} /\ dsr' = Ages(t)
         /\ ev' = Later(t) \cup {Event(q.src, "NETWORK_OUT", 0, q)}
         /\ UNCHANGED <<link, delivered, dropped, acked>>
  BY DEF Send
<1>2. Shapes /\ KeptInv
  BY DEF DsrInv
<1> DEFINE x == Event(q.src, "NETWORK_OUT", 0, q)
<1>3. q.src \in Dev
  BY <1>1, <1>2, DsrAssumption DEF Shapes
<1>4. EventOK(x) /\ x.kind = "NETWORK_OUT" /\ x.x = q
  BY <1>3, NewEvent
<1>5. ev' = Shifted(ev, t) \cup {x}
  BY <1>1 DEF Later, Shifted
<1> HIDE DEF x
<1>6. /\ \A y \in Shifted(ev, t) : EventOK(y)
      /\ \A p : ToSend(ev, p) => ToSend(Shifted(ev, t), p)
  BY <1>2, ShiftEvents DEF Shapes
<1>7. ToSend(ev', q) /\ \A p : ToSend(ev, p) => ToSend(ev', p)
  BY <1>4, <1>5, <1>6 DEF ToSend
<1>8. DOMAIN dsr' = Dev /\ \A k \in Dev : KeepsBut(dsr[k], dsr'[k], {})
  BY <1>1, <1>2, AgedKeeps DEF Ages, Shapes
<1>9. Shapes'
  BY <1>1, <1>2, <1>4, <1>5, <1>6, <1>8 DEF Shapes, KeepsBut
<1>10. ASSUME NEW p \in Pkt \ todo'
      PROVE  Settled(p)' \/ ToSend(ev', p) \/ \E d \in Dev : Held(dsr'[d], p)
  <2>1. p = q \/ p \in Pkt \ todo
    BY <1>1
  <2>2. p \in Pkt \ todo => Settled(p) \/ ToSend(ev, p) \/ \E d \in Dev : Held(dsr[d], p)
    BY <1>2 DEF KeptInv, Kept
  <2>3. Settled(p) => Settled(p)'
    BY <1>1 DEF Settled
  <2> QED
    BY <1>7, <1>8, <2>1, <2>2, <2>3 DEF KeepsBut
<1>11. KeptInv'
  BY <1>10 DEF KeptInv, Kept
<1> QED
  BY <1>9, <1>11 DEF DsrInv

\* The initial state.
LEMMA InitDsrInv == Init => DsrInv
<1> SUFFICES ASSUME Init PROVE DsrInv
  OBVIOUS
<1>1. IsList(<<>>) /\ DOMAIN <<>> = {}
  <2>1. <<>> \in Seq({}) 
    OBVIOUS
  <2> QED
    BY <2>1, SeqOfRange DEF IsList
<1>2. DeviceOK(DeviceVar)
  BY <1>1 DEF DeviceOK, DeviceVar, Entries
<1> QED
  BY <1>2 DEF Init, DsrInv, Shapes, KeptInv

\* Every step keeps the invariant.
LEMMA StepDsrInv == DsrInv /\ [Next]_vars => DsrInv'
<1> SUFFICES ASSUME DsrInv, [Next]_vars PROVE DsrInv'
  OBVIOUS
<1>1. CASE Send
  BY <1>1, StepSend
<1>2. CASE Break
  <2>1. link' \subseteq link /\ UNCHANGED <<dsr, ev, losses, todo, delivered, dropped, acked>>
    BY <1>2 DEF Break
  <2> QED
    BY <2>1 DEF DsrInv, Shapes, KeptInv, Kept, Settled
<1>3. ASSUME NEW e \in ev, Lose(e)
      PROVE  DsrInv'
  BY <1>3, StepLose
<1>4. ASSUME NEW e \in ev, Handle(e)
      PROVE  DsrInv'
  BY <1>4, StepSendOnRoute, StepSendBuffered, StepRREQTimeout, StepProcessRREQ, StepProcessRREP,
     StepProcessSourceRouteOption, StepProcessAckOption, StepMaintTimeout, StepProcessRerr
     DEF Handle
<1>5. CASE UNCHANGED vars
  BY <1>5 DEF vars, DsrInv, Shapes, KeptInv, Kept, Settled
<1> QED
  BY <1>1, <1>2, <1>3, <1>4, <1>5 DEF Next, Run

\* Some device always has every packet that was handed down and not yet
\* delivered, given up or acknowledged: in a buffer, or pending to be sent.
THEOREM DsrInvariant == Spec => []DsrInv
BY InitDsrInv, StepDsrInv, PTL DEF Spec

\* No packet is ever only in the air or in no place at all, whatever frames
\* are lost, whatever links break and whatever the caches say.
THEOREM DsrPacketsAccounted == Spec => []PacketsAccounted
<1>1. DsrInv => PacketsAccounted
  <2> SUFFICES ASSUME DsrInv, NEW p \in Pkt \ todo
               PROVE  \/ p \in delivered \cup dropped \cup acked
                      \/ \E x \in ev : x.kind = "NETWORK_OUT" /\ x.x = p
                      \/ \E d \in Dev : \/ \E b \in Range(dsr[d].sendBuffer) : p \in b.pkts
                                        \/ \E m \in Range(dsr[d].maintBuffer) : p \in m.pkts
    BY DEF PacketsAccounted
  <2>1. Settled(p) \/ ToSend(ev, p) \/ \E d \in Dev : Held(dsr[d], p)
    BY DEF DsrInv, KeptInv, Kept
  <2>2. \A s : In(s, p) => \E b \in Range(s) : p \in b.pkts
    BY DEF In, Range
  <2> QED
    BY <2>1, <2>2 DEF Settled, ToSend, Held
<1> QED
  BY <1>1, DsrInvariant, PTL
-----------------------------------------------------------------------------
(* Waiting packets, where all packets go to the same device t.  Lists       *)
(* first.                                                                   *)

\* The one target of all packets, none of which starts there.
OneTarget(t) == \A p \in Pkt : p.dst = t /\ p.src # t

\* An element of a list is at some place.
LEMMA ElementPlace ==
    ASSUME NEW s, IsList(s)
    PROVE  /\ \A x : x \in Range(s) <=> \E i \in 1..Len(s) : s[i] = x
           /\ s = <<>> <=> Len(s) = 0
<1>1. DOMAIN s = 1..Len(s)
  BY ListDomain
<1>2. \A x : x \in Range(s) <=> \E i \in 1..Len(s) : s[i] = x
  BY <1>1 DEF Range
<1>3. s = <<>> <=> Len(s) = 0
  BY DEF IsList
<1> QED
  BY <1>2, <1>3

\* One list after the other.
LEMMA ConcatList ==
    ASSUME NEW a, NEW b, IsList(a), IsList(b)
    PROVE  /\ IsList(a \o b) /\ Range(a \o b) = Range(a) \cup Range(b)
           /\ Len(a \o b) = Len(a) + Len(b)
           /\ Len(b) > 0 => Last(a \o b) = Last(b)
<1> DEFINE S == Range(a) \cup Range(b)
           c == a \o b
<1>1. a \in Seq(S) /\ b \in Seq(S)
  <2>1. a \in Seq(Range(a)) /\ b \in Seq(Range(b)) /\ Range(a) \subseteq S /\ Range(b) \subseteq S
    BY DEF IsList
  <2> QED
    BY <2>1, SeqMonotonic
<1>2. Range(c) = S
  BY <1>1, RangeConcatenation
<1> HIDE DEF S
<1>3. /\ c \in Seq(S) /\ Len(c) = Len(a) + Len(b)
      /\ \A i \in 1..(Len(a) + Len(b)) : c[i] = IF i <= Len(a) THEN a[i] ELSE b[i - Len(a)]
  BY <1>1, ConcatProperties
<1>4. IsList(c)
  BY <1>3, SeqOfRange DEF IsList
<1>5. Len(b) > 0 => c[Len(c)] = b[Len(b)]
  <2>1. Len(a) \in Nat /\ Len(b) \in Nat
    BY ListDomain
  <2> HIDE DEF c
  <2>2. ASSUME Len(b) > 0
        PROVE  /\ Len(a) + Len(b) \in 1..(Len(a) + Len(b)) /\ ~(Len(a) + Len(b) <= Len(a))
               /\ (Len(a) + Len(b)) - Len(a) = Len(b)
    BY ONLY <2>1, <2>2
  <2> QED
    BY <1>3, <2>2
<1> QED
  BY <1>2, <1>3, <1>4, <1>5 DEF Last, S

\* A part of a list.
LEMMA PartList ==
    ASSUME NEW s, IsList(s), NEW m \in 1..(Len(s) + 1), NEW n \in 0..Len(s), m <= n + 1
    PROVE  LET p == SubSeq(s, m, n)
           IN  /\ IsList(p) /\ Range(p) \subseteq Range(s) /\ Len(p) = (n - m) + 1
               /\ \A i \in 1..((n - m) + 1) : p[i] = s[(m + i) - 1]
<1> DEFINE p == SubSeq(s, m, n)
           S == Range(s)
<1>1. s \in Seq(S) /\ DOMAIN s = 1..Len(s) /\ Len(s) \in Nat
  BY ListDomain DEF IsList
<1>2. \A i \in m..n : s[i] \in S
  <2>1. \A i \in m..n : i \in 1..Len(s)
    BY <1>1
  <2> QED
    BY <1>1, <2>1 DEF Range
<1> HIDE DEF S
<1>3. /\ p \in Seq(S) /\ Len(p) = IF m <= n THEN n - m + 1 ELSE 0
      /\ \A i \in 1..(n - m + 1) : p[i] = s[m + i - 1]
  BY <1>1, <1>2, SubSeqProperties
<1> HIDE DEF p
<1>4. Len(p) = (n - m) + 1
  BY <1>1, <1>3
<1>5. IsList(p) /\ Range(p) \subseteq S
  BY <1>3, SeqOfRange DEF IsList, Range
<1>6. ASSUME NEW i \in 1..((n - m) + 1)
      PROVE  p[i] = s[(m + i) - 1]
  BY <1>1, <1>3
<1> QED
  BY <1>4, <1>5, <1>6 DEF p, S

\* An element appended.
LEMMA AppendRange ==
    ASSUME NEW s, IsList(s), NEW x
    PROVE  IsList(Append(s, x)) /\ Range(Append(s, x)) = Range(s) \cup {x}
<1> DEFINE t == Append(s, x)
<1>1. /\ IsList(t) /\ DOMAIN t = 1..(Len(s) + 1)
      /\ \A i \in DOMAIN s : t[i] = s[i]
      /\ t[Len(s) + 1] = x
  BY AppendList
<1>2. DOMAIN s = 1..Len(s) /\ Len(s) \in Nat
  BY ListDomain
<1> HIDE DEF t
<1>3. \A i \in DOMAIN t : i \in DOMAIN s \/ i = Len(s) + 1
  BY <1>1, <1>2
<1>4. Len(s) + 1 \in DOMAIN t /\ DOMAIN s \subseteq DOMAIN t
  BY <1>1, <1>2
<1>5. Range(t) = Range(s) \cup {x}
  BY <1>1, <1>3, <1>4 DEF Range
<1> QED
  BY <1>1, <1>5 DEF t

\* The list of one element.
LEMMA OneElement ==
    ASSUME NEW x
    PROVE  IsList(<<x>>) /\ Range(<<x>>) = {x} /\ Len(<<x>>) = 1 /\ <<x>>[1] = x
<1>1. Range(<<x>>) = {x}
  BY DEF Range
<1> QED
  BY <1>1 DEF IsList

\* The first place of an element (SelectInSeq).
LEMMA PlaceOf ==
    ASSUME NEW s, IsList(s), NEW a
    PROVE  LET i == SelectInSeq(s, LAMBDA y : y = a)
           IN  /\ i \in 0..Len(s)
               /\ i # 0 => s[i] = a
               /\ a \in Range(s) => i # 0
<1> DEFINE I == {i \in 1..Len(s) : s[i] = a}
           k == SelectInSeq(s, LAMBDA y : y = a)
<1>1. k = IF I # {} THEN Min(I) ELSE 0
  BY DEF SelectInSeq
<1>2. I \subseteq Nat /\ Len(s) \in Nat /\ \A i \in I : i \in 1..Len(s) /\ s[i] = a
  BY ListDomain
<1>3. a \in Range(s) => I # {}
  BY ElementPlace
<1> HIDE DEF I, k
<1>4. I # {} => Min(I) \in I
  BY <1>2, MinOf
<1>5. I = {} => k = 0 /\ a \notin Range(s)
  BY <1>1, <1>3
<1>6. I # {} => k \in 1..Len(s) /\ s[k] = a
  BY <1>1, <1>2, <1>4
<1> QED
  BY <1>2, <1>5, <1>6 DEF k

\* The elements at the places I of a list are a list.
LEMMA AtList ==
    ASSUME NEW s, IsList(s), NEW I
    PROVE  IsList(At(s, I)) /\ \A x \in Range(At(s, I)) : \E i \in DOMAIN s : i \in I /\ x = s[i]
<1> DEFINE Body(f, i) == IF i = 0 THEN <<>>
                         ELSE IF i \in I THEN Append(f[i - 1], s[i]) ELSE f[i - 1]
           Upto(n, f) == f = [i \in 0..n |-> Body(f, i)]
           Fine(l) == IsList(l) /\ \A x \in Range(l) : \E i \in DOMAIN s : i \in I /\ x = s[i]
           up == CHOOSE f : Upto(Len(s), f)
<1>1. DOMAIN s = 1..Len(s) /\ Len(s) \in Nat
  BY ListDomain
<1>2. At(s, I) = up[Len(s)]
  BY DEF At
<1>3. \A n \in Nat : \E f : Upto(n, f)
  <2> DEFINE T == {n \in Nat : ~\E f : Upto(n, f)}
  <2>1. SUFFICES ASSUME T # {} PROVE FALSE
    OBVIOUS
  <2>2. PICK n \in T : \A m \in T : n <= m
    <3>1. T \subseteq Nat
      OBVIOUS
    <3> HIDE DEF T
    <3> QED
      BY <2>1, <3>1, LeastOf
  <2>3. n # 0
    <3> DEFINE f == [i \in 0..0 |-> <<>>]
    <3>1. Upto(0, f)
      OBVIOUS
    <3> QED
      BY <2>2, <3>1
  <2>4. PICK f : Upto(n - 1, f)
    <3>1. n \in Nat /\ n - 1 \in Nat
      BY <2>3
    <3> HIDE DEF Upto
    <3>2. n - 1 \notin T
      <4> HIDE DEF T
      <4> QED
        BY <2>2, <3>1
    <3> QED
      BY <3>1, <3>2
  <2> DEFINE g == [i \in 0..n |-> IF i = n THEN Body(f, n) ELSE f[i]]
  <2>5. \A i \in 0..n : g[i] = Body(g, i)
    <3>1. n \in Nat /\ n - 1 \in Nat
      BY <2>3
    <3>2. \A i \in 0..(n - 1) : f[i] = Body(f, i)
      BY <2>4, <3>1
    <3>3. g[n] = Body(f, n) /\ \A i \in 0..(n - 1) : g[i] = f[i]
      BY <3>1
    <3> HIDE DEF g
    <3>4. ASSUME NEW i \in 0..n PROVE g[i] = Body(f, i)
      BY <3>1, <3>2, <3>3
    <3>5. ASSUME NEW i \in 1..n PROVE f[i - 1] = g[i - 1]
      BY <3>1, <3>3
    <3>6. ASSUME NEW i \in 0..n PROVE Body(f, i) = Body(g, i)
      BY <3>5
    <3> QED
      BY <3>4, <3>6
  <2>6. Upto(n, g)
    BY <2>5
  <2> QED
    BY <2>2, <2>6
<1>4. Upto(Len(s), up)
  BY <1>1, <1>3
<1> HIDE DEF up
<1>5. \A i \in 0..Len(s) : up[i] = Body(up, i)
  BY <1>4
<1>6. \A n \in 0..Len(s) : Fine(up[n])
  <2> DEFINE T == {n \in 0..Len(s) : ~Fine(up[n])}
  <2>1. SUFFICES ASSUME T # {} PROVE FALSE
    OBVIOUS
  <2>2. PICK n \in T : \A m \in T : n <= m
    <3>1. T \subseteq Nat
      BY <1>1
    <3> HIDE DEF T
    <3> QED
      BY <2>1, <3>1, LeastOf
  <2>3. CASE n = 0
    <3>1. up[0] = <<>>
      BY <1>1, <1>5
    <3>2. <<>> \in Seq({}) /\ Range(<<>>) = {}
      BY DEF Range
    <3>3. Fine(<<>>)
      BY <3>2 DEF IsList
    <3> QED
      BY <2>2, <2>3, <3>1, <3>3
  <2>4. CASE n # 0
    <3>1. n \in 1..Len(s) /\ n - 1 \in 0..Len(s) /\ n - 1 < n
      BY <1>1, <2>4
    <3>2. n - 1 \notin T
      <4> HIDE DEF T
      <4> QED
        BY <1>1, <2>2, <3>1
    <3>3. Fine(up[n - 1])
      BY <3>1, <3>2
    <3>4. up[n] = IF n \in I THEN Append(up[n - 1], s[n]) ELSE up[n - 1]
      BY <1>5, <2>4
    <3>5. n \in I => Fine(Append(up[n - 1], s[n]))
      <4> DEFINE l == up[n - 1]
      <4>1. IsList(Append(l, s[n])) /\ Range(Append(l, s[n])) = Range(l) \cup {s[n]}
        BY <3>3, AppendRange
      <4> QED
        BY <1>1, <3>1, <3>3, <4>1
    <3> QED
      BY <2>2, <3>3, <3>4, <3>5
  <2> QED
    BY <2>3, <2>4
<1> QED
  BY <1>1, <1>2, <1>6
-----------------------------------------------------------------------------
(* The invariant behind WaitingArmed.  A device has at most one entry in   *)
(* its send buffer, and while it has one, no usable route to the target;   *)
(* every reply ends at the target, so that it serves the buffer before its *)
(* timer is cancelled.                                                     *)

CacheEntry(c) == DOMAIN c = {"route", "left"} /\ IsList(c.route) /\ c.left \in Nat
CacheFit(s) == IsList(s) /\ \A c \in Range(s) : CacheEntry(c)

Request(r) ==
    /\ DOMAIN r = {"target", "nIdentification", "nCount", "dBackoff", "nEventId", "flag"}
    /\ r.dBackoff \in Nat
TableFit(s) == IsList(s) /\ \A r \in Range(s) : Request(r)

\* The packets that device d may have to send: they are not for d.
Sendable(d, t) == IF d = t THEN {} ELSE Pkt
Only(b, S) == \A i \in DOMAIN b : b[i].pkts \subseteq S

Usable(c, t) == c.left > 0 /\ OnRoute(t, c.route)

Fit(d, v, t) ==
    /\ DeviceOK(v) /\ CacheFit(v.cache) /\ TableFit(v.rreqTable)
    /\ Only(v.sendBuffer, Sendable(d, t)) /\ Only(v.maintBuffer, Sendable(d, t))
    /\ DOMAIN v.sendBuffer \subseteq {1}
    /\ \A i \in DOMAIN v.sendBuffer : v.sendBuffer[i].target = t
    /\ v.sendBuffer # <<>> => \A c \in Range(v.cache) : ~Usable(c, t)

RequestFit(q, t) ==
    /\ DOMAIN q = {"src", "target", "id", "ttl", "addr"}
    /\ q.target = t /\ q.src # t /\ IsList(q.addr)

ReplyFit(route, d, t) ==
    IsList(route) /\ Len(route) > 0 /\ Last(route) = t /\ d \in Range(route)

EventFit(x, t) ==
    /\ x.due \in Nat
    /\ x.kind = "NETWORK_OUT" => x.x \in Sendable(x.dev, t)
    /\ x.kind = "DATA" => x.x.pkt \in Pkt
    /\ x.kind = "RREQ" => RequestFit(x.x, t)
    /\ x.kind = "RREP" => ReplyFit(x.x.route, x.dev, t)
    /\ x.kind = "RREQ_TIMEOUT" => x.x.target = t /\ x.dev # t

HasTimer(E, d) == \E x \in E : x.dev = d /\ x.kind = "RREQ_TIMEOUT"

ArmedInv(t) ==
    /\ DsrInv
    /\ \A x \in ev : EventFit(x, t)
    /\ \A d \in Dev : Fit(d, dsr[d], t)
    /\ \A d \in Dev : dsr[d].sendBuffer # <<>> => HasTimer(ev, d)

-----------------------------------------------------------------------------
(* What the operations on the variables of a device keep of it.            *)

\* What the search of the cache finds.
LEMMA HitPlace ==
    ASSUME NEW c, IsList(c), NEW t
    PROVE  LET k == Hit(c, t)
           IN  /\ k \in 0..Len(c)
               /\ k # 0 => Usable(c[k], t)
               /\ k = 0 => \A x \in Range(c) : ~Usable(x, t)
<1> DEFINE I == {i \in 1..Len(c) : c[i].left > 0 /\ OnRoute(t, c[i].route)}
           k == Hit(c, t)
<1>1. k = IF I # {} THEN Min(I) ELSE 0
  BY DEF Hit, SelectInSeq
<1>2. I \subseteq Nat /\ Len(c) \in Nat /\ \A i \in I : i \in 1..Len(c) /\ Usable(c[i], t)
  BY ListDomain DEF Usable
<1>3. I = {} => \A x \in Range(c) : ~Usable(x, t)
  BY ElementPlace DEF Usable
<1> HIDE DEF I, k
<1>4. I # {} => Min(I) \in I
  BY <1>2, MinOf
<1>5. I = {} => k = 0
  BY <1>1
<1>6. I # {} => k \in 1..Len(c) /\ Usable(c[k], t)
  BY <1>1, <1>2, <1>4
<1> QED
  BY <1>2, <1>3, <1>5, <1>6 DEF k

\* The live entries of a cache.
LEMMA LiveFit ==
    ASSUME NEW c, CacheFit(c)
    PROVE  LET l == At(c, {i \in DOMAIN c : c[i].left > 0})
           IN  CacheFit(l) /\ Range(l) \subseteq Range(c)
<1> DEFINE I == {i \in DOMAIN c : c[i].left > 0}
           l == At(c, I)
<1> HIDE DEF I
<1>1. IsList(l) /\ \A x \in Range(l) : \E i \in DOMAIN c : i \in I /\ x = c[i]
  BY AtList DEF CacheFit
<1>2. Range(l) \subseteq Range(c)
  BY <1>1 DEF Range
<1> HIDE DEF l
<1> QED
  BY <1>1, <1>2 DEF CacheFit, l, I

\* fn_NetSim_DSR_FindCache keeps the cache a list of routes, and makes no
\* route usable that was not.
LEMMA FindCacheFit ==
    ASSUME NEW c, CacheFit(c), NEW t
    PROVE  LET f == FindCache(c, t)
           IN  /\ CacheFit(f)
               /\ (\A x \in Range(c) : ~Usable(x, t)) => \A x \in Range(f) : ~Usable(x, t)
<1> DEFINE k == Hit(c, t)
           live(s) == At(s, {i \in DOMAIN s : s[i].left > 0})
           a == SubSeq(c, 1, k - 1)
           b == SubSeq(c, k + 1, Len(c))
           x == [c[k] EXCEPT !.left = ROUTE_CACHE_TIMEOUT]
           f == FindCache(c, t)
<1>1. IsList(c) /\ Len(c) \in Nat /\ k \in 0..Len(c)
  <2>1. IsList(c)
    BY DEF CacheFit
  <2>2. Len(c) \in Nat
    BY <2>1, ListDomain
  <2>3. k \in 0..Len(c)
    BY <2>1, HitPlace
  <2> QED
    BY <2>1, <2>2, <2>3
<1>2. CASE k = 0
  <2>1. f = live(c)
    BY <1>2 DEF FindCache
  <2>2. CacheFit(live(c)) /\ Range(live(c)) \subseteq Range(c)
    BY LiveFit
  <2> HIDE DEF f, live
  <2> QED
    BY <2>1, <2>2 DEF f
<1>3. CASE k # 0
  <2>1. f = (live(a) \o <<x>>) \o b
    BY <1>3 DEF FindCache
  <2>2. k \in 1..Len(c) /\ c[k] \in Range(c)
    BY <1>1, <1>3, ListDomain
  <2>3. Usable(c[k], t)
    BY <1>1, <1>3, HitPlace
  <2> HIDE DEF k
  <2>4. IsList(a) /\ Range(a) \subseteq Range(c)
    <3>1. 1 \in 1..(Len(c) + 1) /\ k - 1 \in 0..Len(c) /\ 1 <= (k - 1) + 1
      BY <1>1, <2>2
    <3> QED
      BY <1>1, <3>1, PartList
  <2>5. IsList(b) /\ Range(b) \subseteq Range(c)
    <3>1. k + 1 \in 1..(Len(c) + 1) /\ Len(c) \in 0..Len(c) /\ k + 1 <= Len(c) + 1
      BY <1>1, <2>2
    <3> QED
      BY <1>1, <3>1, PartList
  <2>6. CacheEntry(x)
    BY <2>2, DsrAssumption DEF CacheFit, CacheEntry
  <2> HIDE DEF a, b, x, f
  <2>7. CacheFit(a)
    BY <2>4 DEF CacheFit
  <2>8. CacheFit(live(a)) /\ Range(live(a)) \subseteq Range(c)
    BY <2>4, <2>7, LiveFit
  <2> HIDE DEF live
  <2>9. IsList(<<x>>) /\ Range(<<x>>) = {x}
    BY OneElement
  <2>10. IsList(live(a) \o <<x>>) /\ Range(live(a) \o <<x>>) = Range(live(a)) \cup {x}
    BY <2>8, <2>9, ConcatList DEF CacheFit
  <2>11. IsList(f) /\ Range(f) = (Range(live(a)) \cup {x}) \cup Range(b)
    BY <2>1, <2>5, <2>10, ConcatList
  <2>12. CacheFit(f)
    BY <2>5, <2>6, <2>8, <2>11 DEF CacheFit
  <2> QED
    BY <2>2, <2>3, <2>12 DEF f
<1> QED
  BY <1>2, <1>3

\* A device with another cache, in which no route became usable.
LEMMA CacheChange ==
    ASSUME NEW d, NEW v, NEW t, Fit(d, v, t), NEW c, CacheFit(c),
           v.sendBuffer # <<>> => \A x \in Range(c) : ~Usable(x, t)
    PROVE  Fit(d, [v EXCEPT !.cache = c], t)
<1> DEFINE w == [v EXCEPT !.cache = c]
<1>1. /\ DOMAIN w = DOMAIN v /\ w.sendBuffer = v.sendBuffer /\ w.maintBuffer = v.maintBuffer
      /\ w.rreqTable = v.rreqTable /\ w.cache = c
  BY DEF Fit, DeviceOK
<1> HIDE DEF w
<1>2. DeviceOK(w)
  BY <1>1 DEF Fit, DeviceOK
<1>3. Fit(d, w, t)
  BY <1>1, <1>2 DEF Fit
<1> QED
  BY <1>3 DEF w

\* fn_NetSim_DSR_CheckRouteFound.
LEMMA SearchedFit ==
    ASSUME NEW d, NEW v, NEW t, Fit(d, v, t)
    PROVE  Fit(d, Searched(v, t), t)
<1>1. CacheFit(v.cache)
  BY DEF Fit
<1>2. /\ CacheFit(FindCache(v.cache, t))
      /\ (\A x \in Range(v.cache) : ~Usable(x, t)) =>
            \A x \in Range(FindCache(v.cache, t)) : ~Usable(x, t)
  BY <1>1, FindCacheFit
<1>3. v.sendBuffer # <<>> => \A x \in Range(v.cache) : ~Usable(x, t)
  BY DEF Fit
<1>4. Fit(d, [v EXCEPT !.cache = FindCache(v.cache, t)], t)
  BY <1>2, <1>3, CacheChange
<1> QED
  BY <1>4 DEF Searched

\* A device with another request table.
LEMMA TableChange ==
    ASSUME NEW d, NEW v, NEW t, Fit(d, v, t), NEW r, TableFit(r)
    PROVE  Fit(d, [v EXCEPT !.rreqTable = r], t)
<1> DEFINE w == [v EXCEPT !.rreqTable = r]
<1>1. /\ DOMAIN w = DOMAIN v /\ w.sendBuffer = v.sendBuffer /\ w.maintBuffer = v.maintBuffer
      /\ w.rreqTable = r /\ w.cache = v.cache
  BY DEF Fit, DeviceOK
<1> HIDE DEF w
<1>2. DeviceOK(w)
  BY <1>1 DEF Fit, DeviceOK
<1>3. Fit(d, w, t)
  BY <1>1, <1>2 DEF Fit
<1> QED
  BY <1>3 DEF w

\* A request noted.
LEMMA NoteFit ==
    ASSUME NEW s, TableFit(s), NEW a, NEW id, NEW n, NEW z
    PROVE  TableFit(Append(s, RREQEntry(a, id, n, z)))
<1>1. Request(RREQEntry(a, id, n, z))
  BY DEF Request, RREQEntry
<1> QED
  BY <1>1, AppendRange DEF TableFit
\* A request sent again: its entry has another backoff (fn_NetSim_DSR_RetryRREQ).
LEMMA RetryFit ==
    ASSUME NEW d, NEW v, NEW t, Fit(d, v, t), getRREQTable(v.rreqTable, t) # 0
    PROVE  LET w == RetryRREQ(v, t)
           IN  /\ Fit(d, w, t)
               /\ w.rreqTable[getRREQTable(v.rreqTable, t)].dBackoff \in Nat
<1> DEFINE s == v.rreqTable
           i == getRREQTable(s, t)
           b == getRREQBackoff(s[i])
           id == v.nRREQIdentification + 1
           x == [s[i] EXCEPT !.nCount = @ + 1, !.nIdentification = id, !.dBackoff = b, !.nEventId = id]
           r == [s EXCEPT ![i] = x]
           w == RetryRREQ(v, t)
<1>1. IsList(s) /\ Len(s) \in Nat /\ DOMAIN s = 1..Len(s) /\ \A q \in Range(s) : Request(q)
  BY ListDomain DEF Fit, TableFit
<1>2. i \in DOMAIN s
  <2> DEFINE I == {j \in 1..Len(s) : s[j].target = t /\ ~s[j].flag}
  <2>1. i = IF I # {} THEN Min(I) ELSE 0
    BY DEF getRREQTable, SelectInSeq
  <2>2. I \subseteq Nat /\ I \subseteq DOMAIN s
    BY <1>1
  <2> HIDE DEF I
  <2>3. I # {} => Min(I) \in I
    BY <2>2, MinOf
  <2> QED
    BY <2>1, <2>2, <2>3
<1> HIDE DEF i
<1>3. Request(s[i])
  BY <1>1, <1>2 DEF Range
<1>4. b \in Nat
  BY <1>3, DsrAssumption DEF getRREQBackoff, Request
<1> HIDE DEF b
<1>5. Request(x)
  BY <1>3, <1>4 DEF Request
<1>6. /\ w.rreqTable = r /\ w.cache = v.cache /\ w.sendBuffer = v.sendBuffer
      /\ w.maintBuffer = v.maintBuffer /\ DOMAIN w = DOMAIN v
  <2>1. DOMAIN v = {"nRREQIdentification", "cache", "sendBuffer", "rreqTable", "maintBuffer"}
    BY DEF Fit, DeviceOK
  <2> QED
    BY <1>2, <2>1 DEF RetryRREQ, i, b
<1> HIDE DEF w, x
<1>7. r = [j \in 1..Len(s) |-> r[j]] /\ DOMAIN r = 1..Len(s)
  BY <1>1
<1>8. \A j \in 1..Len(s) : r[j] = IF j = i THEN x ELSE s[j]
  BY <1>1
<1> HIDE DEF r
<1>9. IsList(r)
  BY <1>1, <1>7, FunctionIsList
<1>10. \A j \in 1..Len(s) : Request(r[j])
  BY <1>1, <1>5, <1>8 DEF Range
<1>11. TableFit(r)
  BY <1>7, <1>9, <1>10 DEF TableFit, Range
<1>12. w.rreqTable[i].dBackoff \in Nat
  BY <1>1, <1>2, <1>6, <1>10 DEF Request
<1>13. DeviceOK(w)
  BY <1>6 DEF Fit, DeviceOK
<1>14. Fit(d, w, t)
  BY <1>6, <1>11, <1>13 DEF Fit
<1> QED
  BY <1>12, <1>14 DEF w, i

\* The first request of a target forgotten (fn_NetSim_DSR_DeleteRREQTable).
LEMMA DeleteFit ==
    ASSUME NEW s, TableFit(s), NEW a
    PROVE  TableFit(DeleteRREQTable(s, a))
<1> DEFINE I == {j \in 1..Len(s) : s[j].target = a}
           k == SelectInSeq(s, LAMBDA e : e.target = a)
           r == RemoveAt(s, k)
<1>1. IsList(s) /\ Len(s) \in Nat /\ \A q \in Range(s) : Request(q)
  BY ListDomain DEF TableFit
<1>2. k = IF I # {} THEN Min(I) ELSE 0
  BY DEF SelectInSeq
<1>3. DeleteRREQTable(s, a) = IF I # {} THEN r ELSE s
  BY DEF DeleteRREQTable, RemoveFirstMatch
<1>4. I \subseteq Nat /\ I \subseteq 1..Len(s)
  OBVIOUS
<1> HIDE DEF I, k
<1>5. ASSUME I # {} PROVE TableFit(r)
  <2>1. k \in 1..Len(s)
    BY <1>2, <1>4, <1>5, MinOf
  <2>2. IsList(r) /\ \A j \in DOMAIN r : \E i \in DOMAIN s : r[j] = s[i]
    BY <1>1, <2>1, RemoveFromList
  <2> HIDE DEF r
  <2> QED
    BY <1>1, <2>2 DEF TableFit, Range
<1> QED
  BY <1>3, <1>5

\* The clock moves on.
LEMMA AgedFit ==
    ASSUME NEW d, NEW v, NEW t, Fit(d, v, t), NEW n \in Nat
    PROVE  Fit(d, Aged(v, n), t) /\ Aged(v, n).sendBuffer = v.sendBuffer
<1> DEFINE w == Aged(v, n)
           c == v.cache
           a == AgedList(c, n)
           b == v.maintBuffer
<1>1. /\ DOMAIN v = {"nRREQIdentification", "cache", "sendBuffer", "rreqTable", "maintBuffer"}
      /\ Entries(b) /\ DeviceOK(v)
  BY DEF Fit, DeviceOK
<1>2. /\ w.cache = a /\ w.maintBuffer = AgedList(b, n) /\ w.sendBuffer = v.sendBuffer
      /\ w.rreqTable = v.rreqTable
  BY <1>1 DEF Aged
<1>3. DeviceOK(w)
  BY <1>1, AgedKeeps DEF KeepsBut
<1> HIDE DEF w
<1>4. /\ IsList(c) /\ DOMAIN c = 1..Len(c) /\ Len(c) \in Nat /\ \A x \in Range(c) : CacheEntry(x)
  BY ListDomain DEF Fit, CacheFit
<1>5. DOMAIN a = 1..Len(c) /\ a = [i \in 1..Len(c) |-> a[i]]
  BY <1>4 DEF AgedList
<1>6. ASSUME NEW i \in 1..Len(c)
      PROVE  /\ CacheEntry(a[i]) /\ c[i] \in Range(c)
             /\ Usable(a[i], t) => Usable(c[i], t)
  <2>1. CacheEntry(c[i]) /\ c[i] \in Range(c)
    BY <1>4 DEF Range
  <2>2. a[i] = [c[i] EXCEPT !.left = Sooner(@, n)]
    BY <1>4 DEF AgedList
  <2>3. a[i].left = Sooner(c[i].left, n) /\ a[i].route = c[i].route /\ DOMAIN a[i] = DOMAIN c[i]
    BY <2>1, <2>2 DEF CacheEntry
  <2>4. c[i].left \in Nat
    BY <2>1 DEF CacheEntry
  <2>5. Sooner(c[i].left, n) \in Nat /\ (Sooner(c[i].left, n) > 0 => c[i].left > 0)
    BY ONLY <2>4, n \in Nat DEF Sooner
  <2> HIDE DEF a
  <2> QED
    BY <2>1, <2>3, <2>5 DEF CacheEntry, Usable
<1> HIDE DEF a
<1>7. IsList(a)
  BY <1>4, <1>5, FunctionIsList
<1>8. CacheFit(a)
  BY <1>5, <1>6, <1>7 DEF CacheFit, Range
<1>9. (\A x \in Range(c) : ~Usable(x, t)) => \A x \in Range(a) : ~Usable(x, t)
  BY <1>5, <1>6 DEF Range
<1>10. Only(b, Sendable(d, t)) => Only(w.maintBuffer, Sendable(d, t))
  BY <1>1, <1>2 DEF Only, AgedList, Entries
<1>11. Fit(d, w, t)
  BY <1>2, <1>3, <1>8, <1>9, <1>10 DEF Fit
<1> QED
  BY <1>2, <1>11 DEF w
\* The entry of the target in the send buffer is the first and only one.
LEMMA OnlyEntry ==
    ASSUME NEW d, NEW v, NEW t, Fit(d, v, t)
    PROVE  LET b == v.sendBuffer
               i == InSendBuffer(b, t)
           IN  \/ i = 0 /\ b = <<>> /\ Len(b) = 0
               \/ i = 1 /\ b # <<>> /\ Len(b) = 1 /\ DOMAIN b = {1} /\ b[1].target = t
<1> DEFINE b == v.sendBuffer
           I == {i \in 1..Len(b) : b[i].target = t}
<1>1. /\ IsList(b) /\ DOMAIN b = 1..Len(b) /\ Len(b) \in Nat
      /\ DOMAIN b \subseteq {1} /\ \A i \in DOMAIN b : b[i].target = t
  BY ListDomain DEF Fit, DeviceOK, Entries
<1>2. InSendBuffer(b, t) = IF I # {} THEN Min(I) ELSE 0
  BY DEF InSendBuffer, SelectInSeq
<1>3. b = <<>> <=> Len(b) = 0
  BY <1>1, ElementPlace
<1> HIDE DEF b
<1>4. Len(b) = 0 \/ Len(b) = 1
  <2>1. Len(b) # 0 => Len(b) \in 1..Len(b)
    BY <1>1
  <2> QED
    BY <1>1, <2>1
<1>5. CASE Len(b) = 0
  <2>1. I = {}
    BY <1>5
  <2> HIDE DEF I
  <2> QED
    BY <1>2, <1>3, <1>5, <2>1 DEF b
<1>6. CASE Len(b) = 1
  <2>1. DOMAIN b = {1} /\ b[1].target = t /\ I = {1}
    BY <1>1, <1>6
  <2>2. Min(I) \in I
    BY <2>1, MinOf
  <2> HIDE DEF I
  <2>3. InSendBuffer(b, t) = 1
    BY <1>2, <2>1, <2>2
  <2> QED
    BY <1>3, <1>6, <2>1, <2>3 DEF b
<1> QED
  BY <1>4, <1>5, <1>6

\* A device with another send buffer.
LEMMA SendBufferChange ==
    ASSUME NEW d, NEW v, NEW t, Fit(d, v, t), NEW w, DeviceOK(w),
           w.cache = v.cache, w.rreqTable = v.rreqTable, w.maintBuffer = v.maintBuffer,
           Only(w.sendBuffer, Sendable(d, t)), DOMAIN w.sendBuffer \subseteq {1},
           \A i \in DOMAIN w.sendBuffer : w.sendBuffer[i].target = t,
           w.sendBuffer # <<>> => \A c \in Range(v.cache) : ~Usable(c, t)
    PROVE  Fit(d, w, t)
BY DEF Fit

\* A device with another maintenance buffer.
LEMMA MaintBufferChange ==
    ASSUME NEW d, NEW v, NEW t, Fit(d, v, t), NEW w, DeviceOK(w),
           w.cache = v.cache, w.rreqTable = v.rreqTable, w.sendBuffer = v.sendBuffer,
           Only(w.maintBuffer, Sendable(d, t))
    PROVE  Fit(d, w, t)
BY DEF Fit

\* A packet that waits (fn_NetSim_DSR_AddToSendBuffer).
LEMMA AddToSendBufferFit ==
    ASSUME NEW d, NEW v, NEW t, Fit(d, v, t), NEW p \in Sendable(d, t), p.dst = t,
           \A c \in Range(v.cache) : ~Usable(c, t)
    PROVE  Fit(d, AddToSendBuffer(v, p), t)
<1> DEFINE b == v.sendBuffer
           i == InSendBuffer(b, t)
           w == AddToSendBuffer(v, p)
<1>1. DeviceOK(w)
  BY AddToSendBufferKeeps DEF Fit, KeepsBut
<1>2. DOMAIN v = {"nRREQIdentification", "cache", "sendBuffer", "rreqTable", "maintBuffer"}
  BY DEF Fit, DeviceOK
<1>3. IsList(b) /\ Only(b, Sendable(d, t)) /\ \A k \in DOMAIN b : "pkts" \in DOMAIN b[k]
  BY DEF Fit, DeviceOK, Entries
<1>4. \/ i = 0 /\ b = <<>> /\ Len(b) = 0
      \/ i = 1 /\ b # <<>> /\ Len(b) = 1 /\ DOMAIN b = {1} /\ b[1].target = t
  BY OnlyEntry
<1>5. CASE i = 0
  <2> DEFINE x == [target |-> t, pkts |-> {p}]
             c == Append(b, x)
  <2>1. w = [v EXCEPT !.sendBuffer = c]
    BY <1>5 DEF AddToSendBuffer
  <2>2. w.sendBuffer = c /\ w.cache = v.cache /\ w.rreqTable = v.rreqTable /\ w.maintBuffer = v.maintBuffer
    BY <1>2, <2>1
  <2>3. x.target = t /\ x.pkts = {p}
    OBVIOUS
  <2> HIDE DEF x, w
  <2>4. DOMAIN c = 1..(Len(b) + 1) /\ c[Len(b) + 1] = x
    BY <1>3, AppendList
  <2> HIDE DEF c
  <2>5. DOMAIN c = {1} /\ c[1] = x
    BY <1>4, <1>5, <2>4
  <2>6. Fit(d, w, t)
    BY <1>1, <2>2, <2>3, <2>5, SendBufferChange DEF Only
  <2> QED
    BY <2>6 DEF w
<1>6. CASE i = 1
  <2> DEFINE x == [b[1] EXCEPT !.pkts = @ \cup {p}]
             c == [b EXCEPT ![1] = x]
  <2>1. w = [v EXCEPT !.sendBuffer = c]
    BY <1>6 DEF AddToSendBuffer
  <2>2. w.sendBuffer = c /\ w.cache = v.cache /\ w.rreqTable = v.rreqTable /\ w.maintBuffer = v.maintBuffer
    BY <1>2, <2>1
  <2>3. DOMAIN b = {1} /\ b[1].target = t
    BY <1>4, <1>6
  <2>4. x.target = t /\ x.pkts = b[1].pkts \cup {p}
    BY <1>3, <2>3
  <2>5. DOMAIN c = {1} /\ c[1] = x
    BY <2>3
  <2> HIDE DEF x, w, c
  <2>6. Only(c, Sendable(d, t))
    BY <1>3, <2>3, <2>4, <2>5 DEF Only
  <2>7. Fit(d, w, t)
    BY <1>1, <2>2, <2>4, <2>5, <2>6, SendBufferChange
  <2> QED
    BY <2>7 DEF w
<1> QED
  BY <1>4, <1>5, <1>6

\* A list of one element without it.
LEMMA RemoveOnly ==
    ASSUME NEW b, IsList(b), Len(b) = 1
    PROVE  RemoveAt(b, 1) = <<>> /\ Tail(b) = <<>>
<1> DEFINE u == SubSeq(b, 1, 0)
           w == SubSeq(b, 2, 1)
<1>1. IsList(u) /\ Len(u) = 0
  <2>1. 1 \in 1..(Len(b) + 1) /\ 0 \in 0..Len(b) /\ 1 <= 0 + 1 /\ (0 - 1) + 1 = 0
    OBVIOUS
  <2> QED
    BY <2>1, PartList
<1>2. IsList(w) /\ Len(w) = 0
  <2>1. 2 \in 1..(Len(b) + 1) /\ 1 \in 0..Len(b) /\ 2 <= 1 + 1 /\ (1 - 2) + 1 = 0
    OBVIOUS
  <2> QED
    BY <2>1, PartList
<1>3. RemoveAt(b, 1) = u \o w
  BY DEF RemoveAt
<1> HIDE DEF u, w
<1>4. u \o w = <<>>
  <2>1. IsList(u \o w) /\ Len(u \o w) = Len(u) + Len(w)
    BY <1>1, <1>2, ConcatList
  <2> DEFINE z == u \o w
  <2>2. IsList(z) /\ Len(z) = 0
    BY <1>1, <1>2, <2>1
  <2> HIDE DEF z
  <2>3. z = <<>>
    BY <2>2, ElementPlace
  <2> QED
    BY <2>3 DEF z
<1>5. Tail(b) = <<>>
  <2> DEFINE z == Tail(b)
  <2>1. b \in Seq(Range(b)) /\ b # <<>>
    <3>1. b \in Seq(Range(b))
      BY DEF IsList
    <3>2. b = <<>> <=> Len(b) = 0
      BY ElementPlace
    <3> QED
      BY <3>1, <3>2
  <2>2. z \in Seq(Range(b)) /\ Len(z) = Len(b) - 1
    BY <2>1, HeadTailProperties
  <2> HIDE DEF z
  <2>3. IsList(z) /\ Len(z) = 0
    BY <2>2, SeqOfRange DEF IsList
  <2>4. z = <<>>
    BY <2>3, ElementPlace
  <2> QED
    BY <2>4 DEF z
<1> QED
  BY <1>3, <1>4, <1>5

\* The target is given up (fn_NetSim_DSR_EmptySendBuffer): nothing waits.
LEMMA EmptySendBufferFit ==
    ASSUME NEW d, NEW v, NEW t, Fit(d, v, t)
    PROVE  LET w == EmptySendBuffer(v, t)
           IN  Fit(d, w, t) /\ w.sendBuffer = <<>>
<1> DEFINE b == v.sendBuffer
           i == InSendBuffer(b, t)
           w == EmptySendBuffer(v, t)
<1>1. DeviceOK(w)
  BY EmptySendBufferKeeps DEF Fit, KeepsBut
<1>2. DOMAIN v = {"nRREQIdentification", "cache", "sendBuffer", "rreqTable", "maintBuffer"}
  BY DEF Fit, DeviceOK
<1>3. \/ i = 0 /\ b = <<>> /\ Len(b) = 0
      \/ i = 1 /\ b # <<>> /\ Len(b) = 1 /\ DOMAIN b = {1} /\ b[1].target = t
  BY OnlyEntry
<1>4. CASE i = 0
  BY <1>3, <1>4 DEF EmptySendBuffer
<1>5. CASE i = 1
  <2>1. RemoveAt(b, 1) = <<>>
    BY <1>3, <1>5, RemoveOnly DEF Fit, DeviceOK, Entries
  <2>2. w = [v EXCEPT !.sendBuffer = <<>>]
    BY <1>5, <2>1 DEF EmptySendBuffer
  <2>3. w.sendBuffer = <<>> /\ w.cache = v.cache /\ w.rreqTable = v.rreqTable /\ w.maintBuffer = v.maintBuffer
    BY <1>2, <2>2
  <2> HIDE DEF w
  <2>4. DOMAIN w.sendBuffer = {}
    BY <2>3
  <2>5. Fit(d, w, t)
    BY <1>1, <2>3, <2>4, SendBufferChange DEF Only
  <2> QED
    BY <2>3, <2>5 DEF w
<1> QED
  BY <1>3, <1>4, <1>5
\* A copy kept until the next hop acknowledges (fn_NetSim_DSR_AddToMaintBuffer).
LEMMA AddToMaintBufferFit ==
    ASSUME NEW d, NEW v, NEW t, Fit(d, v, t), NEW p \in Sendable(d, t), NEW h
    PROVE  LET w == AddToMaintBuffer(v, p, h)
           IN  Fit(d, w, t) /\ w.sendBuffer = v.sendBuffer
<1> DEFINE b == v.maintBuffer
           i == InMaintBuffer(b, p, h)
           w == AddToMaintBuffer(v, p, h)
           S == Sendable(d, t)
<1>1. DeviceOK(w)
  BY AddToMaintBufferKeeps DEF Fit, KeepsBut
<1>2. DOMAIN v = {"nRREQIdentification", "cache", "sendBuffer", "rreqTable", "maintBuffer"}
  BY DEF Fit, DeviceOK
<1>3. /\ Entries(b) /\ IsList(b) /\ DOMAIN b = 1..Len(b) /\ Len(b) \in Nat /\ Only(b, S)
      /\ \A k \in DOMAIN b : "pkts" \in DOMAIN b[k]
  BY ListDomain DEF Fit, DeviceOK, Entries
<1>4. i = 0 \/ i \in DOMAIN b
  BY <1>3, MaintEntryFound
<1> HIDE DEF S
<1>5. p \in S
  BY DEF S
<1>6. CASE i = 0
  <2> DEFINE x == [hop |-> h, src |-> p.src, dst |-> p.dst, pkts |-> {p}, count |-> 0,
                   left |-> MAINT_HOLD_OFF_TIME]
             c == Append(b, x)
  <2>1. w = [v EXCEPT !.maintBuffer = c]
    BY <1>6 DEF AddToMaintBuffer
  <2>2. w.maintBuffer = c /\ w.cache = v.cache /\ w.rreqTable = v.rreqTable /\ w.sendBuffer = v.sendBuffer
    BY <1>2, <2>1
  <2>3. x.pkts = {p}
    OBVIOUS
  <2> HIDE DEF x, w
  <2>4. /\ DOMAIN c = 1..(Len(b) + 1) /\ \A k \in DOMAIN b : c[k] = b[k]
        /\ c[Len(b) + 1] = x
    BY <1>3, AppendList
  <2> HIDE DEF c
  <2>5. \A k \in DOMAIN c : k \in DOMAIN b \/ k = Len(b) + 1
    BY <1>3, <2>4
  <2>6. Only(c, S)
    BY <1>3, <1>5, <2>3, <2>4, <2>5 DEF Only
  <2>7. Fit(d, w, t)
    BY <1>1, <2>2, <2>6, MaintBufferChange DEF S
  <2> QED
    BY <2>2, <2>7 DEF w
<1>7. CASE i # 0
  <2> DEFINE x == IF b[i].pkts # {} THEN [b[i] EXCEPT !.pkts = @ \cup {p}]
                  ELSE [b[i] EXCEPT !.pkts = {p}, !.left = MAINT_HOLD_OFF_TIME]
             c == [b EXCEPT ![i] = x]
  <2>1. w = [v EXCEPT !.maintBuffer = c]
    BY <1>7 DEF AddToMaintBuffer
  <2>2. w.maintBuffer = c /\ w.cache = v.cache /\ w.rreqTable = v.rreqTable /\ w.sendBuffer = v.sendBuffer
    BY <1>2, <2>1
  <2> HIDE DEF w
  <2>3. i \in DOMAIN b
    BY <1>4, <1>7
  <2> HIDE DEF i
  <2>4. x.pkts \subseteq b[i].pkts \cup {p}
    BY <1>3, <2>3
  <2>5. DOMAIN c = DOMAIN b /\ \A k \in DOMAIN b : c[k] = IF k = i THEN x ELSE b[k]
    BY <2>3
  <2> HIDE DEF x, c
  <2>6. Only(c, S)
    BY <1>3, <1>5, <2>3, <2>4, <2>5 DEF Only
  <2>7. Fit(d, w, t)
    BY <1>1, <2>2, <2>6, MaintBufferChange DEF S
  <2> QED
    BY <2>2, <2>7 DEF w
<1> QED
  BY <1>6, <1>7

\* The packets sent to a neighbour let go (fn_NetSim_DSR_EmptyMaintBuffer).
LEMMA EmptyMaintBufferFit ==
    ASSUME NEW d, NEW v, NEW t, Fit(d, v, t), NEW h
    PROVE  LET w == EmptyMaintBuffer(v, h)
           IN  Fit(d, w, t) /\ w.sendBuffer = v.sendBuffer
<1> DEFINE b == v.maintBuffer
           c == [i \in DOMAIN b |-> IF b[i].hop = h THEN [b[i] EXCEPT !.pkts = {}] ELSE b[i]]
           w == EmptyMaintBuffer(v, h)
<1>1. DeviceOK(w)
  BY EmptyMaintBufferKeeps DEF Fit, KeepsBut
<1>2. DOMAIN v = {"nRREQIdentification", "cache", "sendBuffer", "rreqTable", "maintBuffer"}
  BY DEF Fit, DeviceOK
<1>3. w = [v EXCEPT !.maintBuffer = c]
  BY DEF EmptyMaintBuffer
<1>4. w.maintBuffer = c /\ w.cache = v.cache /\ w.rreqTable = v.rreqTable /\ w.sendBuffer = v.sendBuffer
  BY <1>2, <1>3
<1>5. DOMAIN c = DOMAIN b /\ \A i \in DOMAIN b : c[i].pkts \subseteq b[i].pkts
  BY DEF Fit, DeviceOK, Entries
<1> HIDE DEF w, c
<1>6. Only(c, Sendable(d, t))
  BY <1>5 DEF Only, Fit
<1>7. Fit(d, w, t)
  BY <1>1, <1>4, <1>6, MaintBufferChange
<1> QED
  BY <1>4, <1>7 DEF w

\* An entry of the maintenance buffer sent again (fn_NetSim_DSR_RetransmitBuffer).
LEMMA RetransmittedFit ==
    ASSUME NEW d, NEW v, NEW t, Fit(d, v, t), NEW i
    PROVE  LET w == Retransmitted(v, i)
           IN  Fit(d, w, t) /\ w.sendBuffer = v.sendBuffer
<1> DEFINE b == v.maintBuffer
           m == b[i]
           x == [m EXCEPT !.count = m.count + 1, !.pkts = {}]
           c == [b EXCEPT ![i] = x]
           w == Retransmitted(v, i)
<1>1. DeviceOK(w)
  BY RetransmittedKeeps DEF Fit, KeepsBut
<1>2. DOMAIN v = {"nRREQIdentification", "cache", "sendBuffer", "rreqTable", "maintBuffer"}
  BY DEF Fit, DeviceOK
<1>3. w = [v EXCEPT !.maintBuffer = c]
  BY DEF Retransmitted
<1>4. w.maintBuffer = c /\ w.cache = v.cache /\ w.rreqTable = v.rreqTable /\ w.sendBuffer = v.sendBuffer
  BY <1>2, <1>3
<1>5. DOMAIN c = DOMAIN b /\ \A k \in DOMAIN b : c[k].pkts \subseteq b[k].pkts
  BY DEF Fit, DeviceOK, Entries
<1> HIDE DEF w, c
<1>6. Only(c, Sendable(d, t))
  BY <1>5 DEF Only, Fit
<1>7. Fit(d, w, t)
  BY <1>1, <1>4, <1>6, MaintBufferChange
<1> QED
  BY <1>4, <1>7 DEF w

\* The retry count at zero.
LEMMA ResetCountFit ==
    ASSUME NEW d, NEW v, NEW t, Fit(d, v, t), NEW i
    PROVE  LET w == ResetCount(v, i)
           IN  Fit(d, w, t) /\ w.sendBuffer = v.sendBuffer
<1> DEFINE b == v.maintBuffer
           x == [b[i] EXCEPT !.count = 0]
           c == [b EXCEPT ![i] = x]
           w == ResetCount(v, i)
<1>1. DeviceOK(w)
  BY ResetCountKeeps DEF Fit, KeepsBut
<1>2. DOMAIN v = {"nRREQIdentification", "cache", "sendBuffer", "rreqTable", "maintBuffer"}
  BY DEF Fit, DeviceOK
<1>3. w = [v EXCEPT !.maintBuffer = c]
  BY DEF ResetCount
<1>4. w.maintBuffer = c /\ w.cache = v.cache /\ w.rreqTable = v.rreqTable /\ w.sendBuffer = v.sendBuffer
  BY <1>2, <1>3
<1>5. DOMAIN c = DOMAIN b /\ \A k \in DOMAIN b : c[k].pkts \subseteq b[k].pkts
  BY DEF Fit, DeviceOK, Entries
<1> HIDE DEF w, c
<1>6. Only(c, Sendable(d, t))
  BY <1>5 DEF Only, Fit
<1>7. Fit(d, w, t)
  BY <1>1, <1>4, <1>6, MaintBufferChange
<1> QED
  BY <1>4, <1>7 DEF w

\* A broken link removed (fn_NetSim_DSR_DeleteEntryFromRouteCache).
LEMMA BrokenFit ==
    ASSUME NEW d, NEW v, NEW t, Fit(d, v, t), NEW h
    PROVE  LET w == [v EXCEPT !.cache = DeleteEntryFromRouteCache(@, d, h)]
           IN  Fit(d, w, t) /\ w.sendBuffer = v.sendBuffer
<1> DEFINE s == v.cache
           I == {k \in DOMAIN s : ~\E i \in 1..(Len(s[k].route) - 1) :
                               s[k].route[i] = d /\ s[k].route[i + 1] = h}
           c == At(s, I)
<1>1. CacheFit(s)
  BY DEF Fit
<1>2. DeleteEntryFromRouteCache(s, d, h) = c
  BY DEF DeleteEntryFromRouteCache
<1> HIDE DEF I
<1>3. IsList(c) /\ \A x \in Range(c) : \E k \in DOMAIN s : k \in I /\ x = s[k]
  BY <1>1, AtList DEF CacheFit
<1> HIDE DEF c
<1>4. Range(c) \subseteq Range(s)
  BY <1>3 DEF Range
<1>5. CacheFit(c)
  BY <1>1, <1>3, <1>4 DEF CacheFit
<1>6. v.sendBuffer # <<>> => \A x \in Range(c) : ~Usable(x, t)
  BY <1>4 DEF Fit
<1>7. Fit(d, [v EXCEPT !.cache = c], t)
  BY <1>5, <1>6, CacheChange
<1>8. [v EXCEPT !.cache = c].sendBuffer = v.sendBuffer
  BY DEF Fit, DeviceOK
<1> QED
  BY <1>2, <1>7, <1>8
\* A reply learned and the buffer served (fn_NetSim_DSR_UpdateRouteCache,
\* fn_NetSim_DSR_CheckSendBuffer): nothing waits any more.
LEMMA ServeFit ==
    ASSUME NEW d, NEW u, NEW t, Fit(d, u, t), NEW route, ReplyFit(route, d, t)
    PROVE  LET v == UpdateRouteCache(u, d, route)
               sent == IF CheckSendBuffer(v) THEN Head(v.sendBuffer).pkts ELSE {}
               left == IF CheckSendBuffer(v) THEN [v EXCEPT !.sendBuffer = Tail(@)] ELSE v
           IN  Fit(d, left, t) /\ left.sendBuffer = <<>> /\ sent \subseteq Sendable(d, t)
<1> DEFINE n == Len(route)
           i == SelectInSeq(route, LAMBDA y : y = d)
           r == SubSeq(route, i, n)
           x == [route |-> r, left |-> ROUTE_CACHE_TIMEOUT]
           c == Append(u.cache, x)
           v == UpdateRouteCache(u, d, route)
           b == u.sendBuffer
<1>1. DOMAIN u = {"nRREQIdentification", "cache", "sendBuffer", "rreqTable", "maintBuffer"} /\ DeviceOK(u)
  BY DEF Fit, DeviceOK
<1>2. IsList(route) /\ n \in Nat /\ n > 0 /\ route[n] = t /\ d \in Range(route)
  BY ListDomain DEF ReplyFit, Last
<1>3. i \in 1..n
  <2>1. i \in 0..n /\ i # 0
    BY <1>2, PlaceOf
  <2> HIDE DEF i, n
  <2> QED
    BY <1>2, <2>1
<1>4. v = [u EXCEPT !.cache = c]
  BY DEF UpdateRouteCache
<1>5. v.cache = c /\ v.sendBuffer = b /\ v.rreqTable = u.rreqTable /\ v.maintBuffer = u.maintBuffer
  BY <1>1, <1>4
<1> HIDE DEF i, n, v
<1>6. IsList(r) /\ OnRoute(t, r)
  <2>1. i \in 1..(n + 1) /\ n \in 0..n /\ i <= n + 1
    BY <1>2, <1>3
  <2>2. /\ IsList(r) /\ Len(r) = (n - i) + 1
        /\ \A k \in 1..((n - i) + 1) : r[k] = route[(i + k) - 1]
    BY <1>2, <2>1, PartList DEF n
  <2>3. (n - i) + 1 \in 1..((n - i) + 1) /\ (i + ((n - i) + 1)) - 1 = n
    BY <1>2, <1>3
  <2> HIDE DEF r
  <2>4. r[(n - i) + 1] = t /\ (n - i) + 1 \in 1..Len(r)
    BY <1>2, <2>2, <2>3
  <2>5. t \in Range(r)
    BY <2>2, <2>4, ElementPlace
  <2> QED
    BY <2>2, <2>5 DEF OnRoute
<1>7. CacheEntry(x)
  BY <1>6, DsrAssumption DEF CacheEntry
<1>8. x.route = r
  OBVIOUS
<1> HIDE DEF x, r
<1>9. IsList(c) /\ Range(c) = Range(u.cache) \cup {x} /\ CacheFit(c)
  <2>1. CacheFit(u.cache) /\ IsList(u.cache)
    BY DEF Fit, CacheFit
  <2>2. IsList(c) /\ Range(c) = Range(u.cache) \cup {x}
    BY <2>1, AppendRange
  <2> HIDE DEF c
  <2> QED
    BY <1>7, <2>1, <2>2 DEF CacheFit
<1> HIDE DEF c
<1>10. \/ b = <<>> /\ Len(b) = 0
       \/ b # <<>> /\ Len(b) = 1 /\ DOMAIN b = {1} /\ b[1].target = t
  BY OnlyEntry
<1>11. CASE b = <<>>
  <2>1. ~CheckSendBuffer(v)
    BY <1>5, <1>11 DEF CheckSendBuffer
  <2>2. Fit(d, [u EXCEPT !.cache = c], t)
    BY <1>9, <1>11, CacheChange
  <2>3. Fit(d, v, t) /\ v.sendBuffer = <<>>
    BY <1>4, <1>5, <1>11, <2>2
  <2> QED
    BY <2>1, <2>3 DEF v
<1>12. CASE b # <<>>
  <2> DEFINE w == [v EXCEPT !.sendBuffer = Tail(b)]
  <2>1. IsList(b) /\ Only(b, Sendable(d, t))
    BY DEF Fit, DeviceOK, Entries
  <2>2. Head(b) = b[1]
    OBVIOUS
  <2>3. Head(b).target = t /\ Head(b).pkts \subseteq Sendable(d, t)
    BY <1>10, <1>12, <2>1, <2>2 DEF Only
  <2>4. CheckSendBuffer(v)
    BY <1>5, <1>6, <1>8, <1>9, <1>12, <2>3 DEF CheckSendBuffer
  <2>5. Tail(b) = <<>>
    BY <1>10, <1>12, <2>1, RemoveOnly
  <2>6. KeepsBut(v, w, Head(b).pkts)
    <3>1. DeviceOK(v)
      BY <1>1, <1>4, CacheKeeps DEF KeepsBut
    <3>2. KeepsBut(v, [v EXCEPT !.sendBuffer = Tail(v.sendBuffer)], Head(v.sendBuffer).pkts)
      BY <1>5, <1>12, <3>1, TailKeeps
    <3> QED
      BY <1>5, <3>2
  <2>7. DOMAIN v = DOMAIN u
    BY <1>4
  <2>8. /\ w.sendBuffer = <<>> /\ w.cache = c /\ w.rreqTable = u.rreqTable
        /\ w.maintBuffer = u.maintBuffer
    BY <1>1, <1>5, <2>5, <2>7
  <2> HIDE DEF w
  <2>9. DOMAIN w.sendBuffer = {}
    BY <2>8
  <2>10. Fit(d, w, t)
    BY <1>9, <2>6, <2>8, <2>9 DEF Fit, KeepsBut, Only
  <2> QED
    BY <1>5, <2>3, <2>4, <2>8, <2>10 DEF w, v
<1> QED
  BY <1>11, <1>12

\* The initiator marks its request answered.
LEMMA AnsweredFit ==
    ASSUME NEW d, NEW v, NEW t, Fit(d, v, t), NEW a
    PROVE  LET w == Answered(v, a)
           IN  Fit(d, w, t) /\ w.sendBuffer = v.sendBuffer
<1> DEFINE s == v.rreqTable
           i == getRREQTable(s, a)
           x == [s[i] EXCEPT !.flag = TRUE]
           r == [s EXCEPT ![i] = x]
<1>1. CASE i = 0
  BY <1>1 DEF Answered
<1>2. CASE i # 0
  <2>1. Answered(v, a) = [v EXCEPT !.rreqTable = r]
    BY <1>2 DEF Answered
  <2> HIDE DEF i
  <2>2. IsList(s) /\ DOMAIN s = 1..Len(s) /\ Len(s) \in Nat /\ \A q \in Range(s) : Request(q)
    BY ListDomain DEF Fit, TableFit
  <2>3. r = [j \in 1..Len(s) |-> r[j]] /\ DOMAIN r = 1..Len(s)
    BY <2>2
  <2>4. \A j \in 1..Len(s) : r[j] = IF j = i THEN x ELSE s[j]
    BY <2>2
  <2> HIDE DEF r
  <2>5. \A j \in 1..Len(s) : Request(s[j])
    BY <2>2 DEF Range
  <2>6. i \in 1..Len(s) => Request(x)
    BY <2>5 DEF Request
  <2> HIDE DEF x
  <2>7. \A j \in 1..Len(s) : Request(r[j])
    BY <2>4, <2>5, <2>6
  <2>8. IsList(r)
    BY <2>2, <2>3, FunctionIsList
  <2>9. TableFit(r)
    BY <2>3, <2>7, <2>8 DEF TableFit, Range
  <2>10. Fit(d, [v EXCEPT !.rreqTable = r], t)
    BY <2>9, TableChange
  <2>11. [v EXCEPT !.rreqTable = r].sendBuffer = v.sendBuffer
    BY DEF Fit, DeviceOK
  <2> QED
    BY <2>1, <2>10, <2>11
<1> QED
  BY <1>1, <1>2

\* A discovery begins (fn_NetSim_DSR_InitRouteRequest).
LEMMA InitRouteRequestFit ==
    ASSUME NEW d, NEW v, NEW t, Fit(d, v, t), NEW a
    PROVE  Fit(d, InitRouteRequest(v, a), t)
<1> DEFINE id == v.nRREQIdentification + 1
           r == Append(v.rreqTable, RREQEntry(a, id, 1, id))
           w == InitRouteRequest(v, a)
<1>1. TableFit(r)
  BY NoteFit DEF Fit
<1>2. w = [v EXCEPT !.nRREQIdentification = id, !.rreqTable = r]
  BY DEF InitRouteRequest
<1> HIDE DEF r
<1>3. /\ DOMAIN w = DOMAIN v /\ w.sendBuffer = v.sendBuffer /\ w.maintBuffer = v.maintBuffer
      /\ w.rreqTable = r /\ w.cache = v.cache
  BY <1>2 DEF Fit, DeviceOK
<1> HIDE DEF w
<1>4. DeviceOK(w)
  BY <1>3 DEF Fit, DeviceOK
<1>5. Fit(d, w, t)
  BY <1>1, <1>3, <1>4 DEF Fit
<1> QED
  BY <1>5 DEF w

-----------------------------------------------------------------------------
(* Replies end at the target and pass the device they are sent to.         *)

\* The device a request came from is on the way back.
LEMMA PrevHopPlace ==
    ASSUME NEW q, NEW t, RequestFit(q, t)
    PROVE  LET w == <<q.src>> \o q.addr
           IN  IsList(w) /\ Len(w) > 0 /\ PrevHop(q) \in Range(w)
<1> DEFINE a == <<q.src>>
           w == a \o q.addr
<1>1. IsList(a) /\ Len(a) = 1 /\ IsList(q.addr) /\ Len(q.addr) \in Nat
  BY OneElement, ListDomain DEF RequestFit
<1> HIDE DEF a
<1>2. IsList(w) /\ Len(w) = 1 + Len(q.addr)
  BY <1>1, ConcatList
<1>3. PrevHop(q) = w[Len(w)]
  BY DEF PrevHop, Last, a
<1> HIDE DEF w
<1>4. Len(w) \in 1..Len(w)
  BY <1>1, <1>2
<1>5. PrevHop(q) \in Range(w)
  BY <1>2, <1>3, <1>4, ElementPlace
<1> QED
  BY <1>2, <1>4, <1>5 DEF w, a

\* The reply of the target (fn_NetSim_DSR_GenerateRREP).
LEMMA TargetReplyFit ==
    ASSUME NEW q, NEW t, RequestFit(q, t)
    PROVE  ReplyFit(<<q.src>> \o q.addr \o <<t>>, PrevHop(q), t)
<1> DEFINE w == <<q.src>> \o q.addr
           z == <<t>>
           r == w \o z
<1>1. IsList(w) /\ PrevHop(q) \in Range(w)
  BY PrevHopPlace
<1>2. IsList(z) /\ Len(z) = 1 /\ z[1] = t
  BY OneElement
<1>3. Last(z) = t
  BY <1>2 DEF Last
<1> HIDE DEF w, z
<1>4. IsList(r) /\ Range(r) = Range(w) \cup Range(z) /\ Len(r) = Len(w) + Len(z) /\ Last(r) = Last(z)
  <2>1. Len(z) > 0
    BY <1>2
  <2> QED
    BY <1>1, <1>2, <2>1, ConcatList
<1>5. Len(w) \in Nat
  BY <1>1, ListDomain
<1> HIDE DEF r
<1>6. ReplyFit(r, PrevHop(q), t)
  BY <1>1, <1>2, <1>3, <1>4, <1>5 DEF ReplyFit
<1> QED
  BY <1>6 DEF r, w, z

\* The reply of a device that has a cached route.
LEMMA CachedReplyFit ==
    ASSUME NEW q, NEW t, RequestFit(q, t), NEW route, IsList(route), OnRoute(t, route)
    PROVE  ReplyFit(CachedReply(route, q.src, q.addr, t), PrevHop(q), t)
<1> DEFINE w == <<q.src>> \o q.addr
           de == SelectInSeq(route, LAMBDA y : y = t)
           p == SubSeq(route, 1, de)
           src == q.src
           my == SelectInSeq(p, LAMBDA y : y = src)
           z == SubSeq(route, my + 1, de)
           r == w \o z
<1>1. IsList(w) /\ PrevHop(q) \in Range(w) /\ Len(w) \in Nat
  BY PrevHopPlace, ListDomain
<1>2. de \in 1..Len(route) /\ route[de] = t /\ Len(route) \in Nat
  <2>1. de \in 0..Len(route) /\ (de # 0 => route[de] = t) /\ de # 0
    BY PlaceOf DEF OnRoute
  <2>2. Len(route) \in Nat
    BY ListDomain
  <2> HIDE DEF de
  <2> QED
    BY <2>1, <2>2
<1>3. CachedReply(route, q.src, q.addr, t) = r
  BY DEF CachedReply
<1> HIDE DEF w, de, src
<1>4. IsList(p) /\ Len(p) = de /\ \A k \in 1..de : p[k] = route[k]
  <2>1. 1 \in 1..(Len(route) + 1) /\ de \in 0..Len(route) /\ 1 <= de + 1 /\ (de - 1) + 1 = de
    BY <1>2
  <2>2. /\ IsList(p) /\ Len(p) = (de - 1) + 1
        /\ \A k \in 1..((de - 1) + 1) : p[k] = route[(1 + k) - 1]
    BY <2>1, PartList
  <2> HIDE DEF p
  <2>3. ASSUME NEW k \in 1..de PROVE (1 + k) - 1 = k
    BY <1>2
  <2> QED
    BY <2>1, <2>2, <2>3
<1> HIDE DEF p
<1>5. my \in 0..de /\ (my # 0 => p[my] = q.src)
  <2>1. IsList(p)
    BY <1>4
  <2>2. CASE src \in Range(p)
    <3>1. my \in 0..Len(p) /\ (my # 0 => p[my] = src)
      BY <2>1, <2>2, PlaceOf, Zenon
    <3> QED
      BY <1>4, <3>1 DEF src
  <2>3. CASE src \notin Range(p)
    <3> DEFINE I == {k \in 1..Len(p) : p[k] = src}
    <3>1. my = IF I # {} THEN Min(I) ELSE 0
      BY DEF SelectInSeq
    <3>2. I = {}
      BY <2>1, <2>3, ElementPlace
    <3> HIDE DEF I, my
    <3> QED
      BY <1>2, <3>1, <3>2
  <2> QED
    BY <2>2, <2>3
<1> HIDE DEF my
<1>6. my < de
  <2>1. p[de] = t /\ q.src # t
    BY <1>2, <1>4 DEF RequestFit
  <2>2. my # de
    BY <1>2, <1>5, <2>1
  <2> QED
    BY <1>2, <1>5, <2>2
<1>7. IsList(z) /\ Len(z) = de - my /\ Len(z) > 0 /\ Last(z) = t
  <2>1. /\ my + 1 \in 1..(Len(route) + 1) /\ de \in 0..Len(route) /\ my + 1 <= de + 1
        /\ (de - (my + 1)) + 1 = de - my
        /\ de - my \in 1..(de - my) /\ ((my + 1) + (de - my)) - 1 = de
    BY <1>2, <1>5, <1>6
  <2>2. /\ IsList(z) /\ Len(z) = (de - (my + 1)) + 1
        /\ \A k \in 1..((de - (my + 1)) + 1) : z[k] = route[((my + 1) + k) - 1]
    BY <2>1, PartList
  <2> HIDE DEF z
  <2>3. z[de - my] = t
    BY <1>2, <2>1, <2>2
  <2> QED
    BY <1>2, <2>1, <2>2, <2>3 DEF Last
<1> HIDE DEF z
<1>8. IsList(r) /\ Range(r) = Range(w) \cup Range(z) /\ Len(r) = Len(w) + Len(z) /\ Last(r) = Last(z)
  BY <1>1, <1>7, ConcatList
<1> HIDE DEF r
<1>9. Len(z) \in Nat
  BY <1>7, ListDomain
<1>10. ReplyFit(r, PrevHop(q), t)
  BY <1>1, <1>7, <1>8, <1>9 DEF ReplyFit
<1> QED
  BY <1>3, <1>10
-----------------------------------------------------------------------------
(* Steps.                                                                  *)

\* The time that passes keeps the events fit and every timer.
LEMMA ShiftedFit ==
    ASSUME NEW E, NEW n \in Nat, NEW t,
           \A x \in E : EventOK(x) /\ EventFit(x, t) /\ n <= x.due
    PROVE  /\ \A y \in Shifted(E, n) : EventFit(y, t)
           /\ \A k : HasTimer(E, k) => HasTimer(Shifted(E, n), k)
<1>1. ASSUME NEW x \in E
      PROVE  LET y == [x EXCEPT !.due = @ - n]
             IN  EventFit(y, t) /\ y.dev = x.dev /\ y.kind = x.kind /\ y \in Shifted(E, n)
  <2> DEFINE y == [x EXCEPT !.due = @ - n]
  <2>1. y.due = x.due - n /\ y.dev = x.dev /\ y.kind = x.kind /\ y.x = x.x
    BY DEF EventOK
  <2>2. y \in Shifted(E, n)
    BY DEF Shifted
  <2> HIDE DEF y
  <2>3. y.due \in Nat
    BY <2>1 DEF EventFit
  <2>4. EventFit(y, t)
    BY <2>1, <2>3 DEF EventFit
  <2> QED
    BY <2>1, <2>2, <2>4 DEF y
<1>2. \A y \in Shifted(E, n) : EventFit(y, t)
  BY <1>1 DEF Shifted
<1>3. \A k : HasTimer(E, k) => HasTimer(Shifted(E, n), k)
  BY <1>1 DEF HasTimer
<1> QED
  BY <1>2, <1>3

\* The events that are left when e is taken.
LEMMA RestFit ==
    ASSUME NEW t, ArmedInv(t), NEW e \in ev, First(e)
    PROVE  /\ \A y \in Rest(e) : EventFit(y, t)
           /\ \A k : HasTimer(ev, k) =>
                 HasTimer(Rest(e), k) \/ (e.kind = "RREQ_TIMEOUT" /\ e.dev = k)
<1> DEFINE n == e.due
           z == [e EXCEPT !.due = 0]
           S == Shifted(ev, n)
<1>1. \A x \in ev : EventOK(x) /\ EventFit(x, t) /\ n <= x.due
  BY DEF ArmedInv, DsrInv, Shapes, First
<1>2. n \in Nat
  BY <1>1 DEF EventFit
<1>3. Rest(e) = S \ {z}
  BY DEF Rest, Later, Shifted
<1>4. z.kind = e.kind /\ z.dev = e.dev
  BY <1>1 DEF EventOK
<1> HIDE DEF n, z, S
<1>5. (\A y \in S : EventFit(y, t)) /\ \A k : HasTimer(ev, k) => HasTimer(S, k)
  BY <1>1, <1>2, ShiftedFit DEF S
<1>6. ASSUME NEW k, HasTimer(ev, k), ~(e.kind = "RREQ_TIMEOUT" /\ e.dev = k)
      PROVE  HasTimer(Rest(e), k)
  <2>1. PICK x \in S : x.dev = k /\ x.kind = "RREQ_TIMEOUT"
    BY <1>5, <1>6 DEF HasTimer
  <2>2. x # z
    BY <1>4, <1>6, <2>1
  <2> QED
    BY <1>3, <2>1, <2>2 DEF HasTimer
<1> QED
  BY <1>3, <1>5, <1>6

\* The device of an event, and its variables when the event is taken.
LEMMA ArmedDevice ==
    ASSUME NEW t, ArmedInv(t), NEW e \in ev
    PROVE  LET d == e.dev
               v == Aged(dsr[d], e.due)
           IN  /\ d \in Dev /\ e.due \in Nat /\ Shapes /\ DsrInv /\ EventFit(e, t)
               /\ Fit(d, v, t) /\ v.sendBuffer = dsr[d].sendBuffer
<1>1. e.dev \in Dev /\ e.due \in Nat /\ Shapes /\ DsrInv /\ EventFit(e, t) /\ Fit(e.dev, dsr[e.dev], t)
  BY DEF ArmedInv, DsrInv, Shapes, EventOK, EventFit
<1> QED
  BY <1>1, AgedFit

\* A step that takes the event e and keeps the timers of the other devices.
LEMMA TakeArmed ==
    ASSUME NEW t, ArmedInv(t), DsrInv', NEW e \in ev, NEW w,
           Writes(e.dev, e.due, w), Fit(e.dev, w, t), \A x \in ev' : EventFit(x, t),
           \A k \in Dev \ {e.dev} : HasTimer(ev, k) => HasTimer(ev', k),
           w.sendBuffer # <<>> => HasTimer(ev', e.dev)
    PROVE  ArmedInv(t)'
<1>1. e.due \in Nat
  BY ArmedDevice
<1>2. ASSUME NEW k \in Dev
      PROVE  Fit(k, dsr'[k], t) /\ (dsr'[k].sendBuffer # <<>> => HasTimer(ev', k))
  <2>1. CASE k = e.dev
    BY <2>1 DEF Writes
  <2>2. CASE k # e.dev
    <3>1. dsr'[k] = Aged(dsr[k], e.due)
      BY <2>2 DEF Writes
    <3>2. Fit(k, dsr[k], t) /\ (dsr[k].sendBuffer # <<>> => HasTimer(ev, k))
      BY DEF ArmedInv
    <3>3. Fit(k, Aged(dsr[k], e.due), t) /\ Aged(dsr[k], e.due).sendBuffer = dsr[k].sendBuffer
      BY <1>1, <3>2, AgedFit
    <3> QED
      BY <2>2, <3>1, <3>2, <3>3
  <2> QED
    BY <2>1, <2>2
<1> QED
  BY <1>2 DEF ArmedInv

\* Such a step on an event that is no timer of a request, after which nothing
\* waits that did not wait before.
LEMMA TakeQuiet ==
    ASSUME NEW t, ArmedInv(t), DsrInv', NEW e \in ev, First(e), e.kind # "RREQ_TIMEOUT", NEW w,
           Writes(e.dev, e.due, w), Fit(e.dev, w, t),
           w.sendBuffer # <<>> => dsr[e.dev].sendBuffer # <<>>,
           NEW E, ev' = Rest(e) \cup E, \A x \in E : EventFit(x, t)
    PROVE  ArmedInv(t)'
<1>1. /\ \A y \in Rest(e) : EventFit(y, t)
      /\ \A k : HasTimer(ev, k) => HasTimer(Rest(e), k)
  BY RestFit
<1>2. \A x \in ev' : EventFit(x, t)
  BY <1>1
<1>3. \A k : HasTimer(ev, k) => HasTimer(ev', k)
  BY <1>1 DEF HasTimer
<1>4. e.dev \in Dev
  BY ArmedDevice
<1>5. w.sendBuffer # <<>> => HasTimer(ev', e.dev)
  BY <1>3, <1>4 DEF ArmedInv
<1> QED
  BY <1>2, <1>3, <1>5, TakeArmed

\* Such a step that adds no event.
LEMMA TakeSilent ==
    ASSUME NEW t, ArmedInv(t), DsrInv', NEW e \in ev, First(e), e.kind # "RREQ_TIMEOUT", NEW w,
           Writes(e.dev, e.due, w), Fit(e.dev, w, t),
           w.sendBuffer # <<>> => dsr[e.dev].sendBuffer # <<>>, ev' = Rest(e)
    PROVE  ArmedInv(t)'
<1> DEFINE E == {}
<1>1. ev' = Rest(e) \cup E /\ \A x \in E : EventFit(x, t)
  OBVIOUS
<1> HIDE DEF E
<1> QED
  BY <1>1, TakeQuiet

\* Frames.
LEMMA UnicastFit ==
    ASSUME NEW t, NEW d, NEW h, NEW k, NEW y, EventFit(Event(h, k, 1, y), t)
    PROVE  \A x \in Unicast(d, h, k, y) : EventFit(x, t)
<1> DEFINE z == Event(h, k, 1, y)
<1>1. Unicast(d, h, k, y) \subseteq {z}
  BY DEF Unicast
<1>2. EventFit(z, t)
  OBVIOUS
<1> HIDE DEF z
<1> QED
  BY <1>1, <1>2

\* What a frame, a timer or a packet carries.
LEMMA EventKinds ==
    ASSUME NEW t, NEW d, NEW n \in Nat, NEW y
    PROVE  /\ y \in Sendable(d, t) => EventFit(Event(d, "NETWORK_OUT", n, y), t)
           /\ y.pkt \in Pkt => EventFit(Event(d, "DATA", n, y), t)
           /\ RequestFit(y, t) => EventFit(Event(d, "RREQ", n, y), t)
           /\ ReplyFit(y.route, d, t) => EventFit(Event(d, "RREP", n, y), t)
           /\ y.target = t /\ d # t => EventFit(Event(d, "RREQ_TIMEOUT", n, y), t)
           /\ EventFit(Event(d, "ACK", n, y), t)
           /\ EventFit(Event(d, "MAINT_TIMEOUT", n, y), t)
           /\ EventFit(Event(d, "PROCESS_RERR", n, y), t)
<1>1. ASSUME NEW k
      PROVE  LET x == Event(d, k, n, y) IN x.dev = d /\ x.kind = k /\ x.due = n /\ x.x = y
  BY DEF Event
<1>2. ASSUME NEW k
      PROVE  EventFit(Event(d, k, n, y), t) <=>
                /\ k = "NETWORK_OUT" => y \in Sendable(d, t)
                /\ k = "DATA" => y.pkt \in Pkt
                /\ k = "RREQ" => RequestFit(y, t)
                /\ k = "RREP" => ReplyFit(y.route, d, t)
                /\ k = "RREQ_TIMEOUT" => y.target = t /\ d # t
  <2> DEFINE x == Event(d, k, n, y)
  <2>1. x.dev = d /\ x.kind = k /\ x.due = n /\ x.x = y
    BY <1>1
  <2> HIDE DEF x
  <2>2. EventFit(x, t) <=>
                /\ k = "NETWORK_OUT" => y \in Sendable(d, t)
                /\ k = "DATA" => y.pkt \in Pkt
                /\ k = "RREQ" => RequestFit(y, t)
                /\ k = "RREP" => ReplyFit(y.route, d, t)
                /\ k = "RREQ_TIMEOUT" => y.target = t /\ d # t
    BY <2>1 DEF EventFit
  <2> QED
    BY <2>2 DEF x
<1> QED
  BY <1>2

\* A request on its way.
LEMMA BroadcastFit ==
    ASSUME NEW t, NEW d, NEW y, RequestFit(y, t)
    PROVE  \A x \in Broadcast(d, y) : EventFit(x, t)
<1> SUFFICES ASSUME NEW x \in Broadcast(d, y) PROVE EventFit(x, t)
  OBVIOUS
<1>1. PICK r \in Dev : x = Event(r, "RREQ", 1, y)
  BY DEF Broadcast
<1> QED
  BY <1>1, EventKinds
\* A frame is lost.
LEMMA ArmedLose ==
    ASSUME NEW t, ArmedInv(t), NEW e \in ev, First(e), Lose(e)
    PROVE  ArmedInv(t)'
<1> DEFINE v == Aged(dsr[e.dev], e.due)
<1>1. e.dev \in Dev /\ Shapes /\ DsrInv /\ Fit(e.dev, v, t) /\ v.sendBuffer = dsr[e.dev].sendBuffer
  BY ArmedDevice
<1>2. DsrInv'
  BY <1>1, StepLose
<1>3. e.kind # "RREQ_TIMEOUT" /\ ev' = Rest(e)
  BY DEF Lose, Frames
<1>4. Writes(e.dev, e.due, v)
  BY <1>1, WritesDevice DEF Lose
<1> HIDE DEF v
<1> QED
  BY <1>1, <1>2, <1>3, <1>4, TakeSilent

\* A packet goes out on a route.
LEMMA ArmedSendOnRoute ==
    ASSUME NEW t, OneTarget(t), ArmedInv(t), NEW e \in ev, First(e), SendOnRoute(e)
    PROVE  ArmedInv(t)'
<1> DEFINE d == e.dev
           p == e.x
           v == Aged(dsr[d], e.due)
           found == Searched(v, p.dst)
           h == Route(v, p.dst)[2]
           w == AddToMaintBuffer(found, p, h)
           key == [hop |-> h, src |-> p.src, dst |-> p.dst]
           U == Unicast(d, h, "DATA", [pkt |-> p, from |-> d])
           T == IF MaintArms(v.maintBuffer, p, h) THEN {MaintTimer(d, key)} ELSE {}
           E == U \cup T
<1>1. /\ d \in Dev /\ Shapes /\ DsrInv /\ EventFit(e, t)
      /\ Fit(d, v, t) /\ v.sendBuffer = dsr[d].sendBuffer
  BY ArmedDevice
<1>2. DsrInv'
  BY <1>1, StepSendOnRoute
<1>3. e.kind = "NETWORK_OUT" /\ ev' = Rest(e) \cup E
  BY DEF SendOnRoute
<1>4. p \in Sendable(d, t) /\ p \in Pkt /\ p.dst = t
  BY <1>1, <1>3 DEF EventFit, Sendable, OneTarget
<1>5. Writes(d, e.due, w)
  BY <1>1, WritesDevice DEF SendOnRoute
<1>6. \A x \in E : EventFit(x, t)
  <2>1. EventFit(Event(h, "DATA", 1, [pkt |-> p, from |-> d]), t)
    BY <1>4, EventKinds
  <2>2. \A x \in U : EventFit(x, t)
    BY <2>1, UnicastFit
  <2>3. EventFit(MaintTimer(d, key), t)
    BY DsrAssumption, EventKinds DEF MaintTimer
  <2> HIDE DEF U, key
  <2> QED
    BY <2>2, <2>3
<1> HIDE DEF E, h, v
<1>7. Fit(d, found, t) /\ found.sendBuffer = v.sendBuffer
  <2>1. Fit(d, found, t)
    BY <1>1, <1>4, SearchedFit
  <2>2. found.sendBuffer = v.sendBuffer
    BY <1>1 DEF Searched, Fit, DeviceOK
  <2> QED
    BY <2>1, <2>2
<1> HIDE DEF found
<1>8. Fit(d, w, t) /\ w.sendBuffer = found.sendBuffer
  BY <1>4, <1>7, AddToMaintBufferFit
<1> HIDE DEF w
<1> QED
  BY <1>1, <1>2, <1>3, <1>5, <1>6, <1>7, <1>8, TakeQuiet

\* A packet waits for a route: the first one starts the timer.
LEMMA ArmedSendBuffered ==
    ASSUME NEW t, OneTarget(t), ArmedInv(t), NEW e \in ev, First(e), SendBuffered(e)
    PROVE  ArmedInv(t)'
<1> DEFINE d == e.dev
           p == e.x
           u == Aged(dsr[d], e.due)
           v == Searched(u, p.dst)
           b == AddToSendBuffer(v, p)
           init == InitRouteRequest(b, p.dst)
           id == init.nRREQIdentification
           T == RREQTimer(d, p.dst, id, NonpropRequestTimeout)
           B == Broadcast(d, RREQ(d, p.dst, id, 1))
<1>1. /\ d \in Dev /\ Shapes /\ DsrInv /\ EventFit(e, t)
      /\ Fit(d, u, t) /\ u.sendBuffer = dsr[d].sendBuffer
  BY ArmedDevice
<1>2. DsrInv'
  BY <1>1, StepSendBuffered
<1>3. e.kind = "NETWORK_OUT" /\ ~RouteFound(u, p.dst)
  BY DEF SendBuffered
<1>4. p \in Sendable(d, t) /\ p \in Pkt /\ p.dst = t /\ d # t
  BY <1>1, <1>3 DEF EventFit, Sendable, OneTarget
<1>5. /\ Fit(d, v, t) /\ v.sendBuffer = u.sendBuffer
      /\ \A c \in Range(v.cache) : ~Usable(c, t)
  <2>1. CacheFit(u.cache) /\ IsList(u.cache)
    BY <1>1 DEF Fit, CacheFit
  <2>2. \A c \in Range(u.cache) : ~Usable(c, t)
    BY <1>3, <1>4, <2>1, HitPlace DEF RouteFound
  <2>3. v.cache = FindCache(u.cache, t) /\ v.sendBuffer = u.sendBuffer
    BY <1>1, <1>4 DEF Searched, Fit, DeviceOK
  <2>4. \A c \in Range(FindCache(u.cache, t)) : ~Usable(c, t)
    BY <2>1, <2>2, FindCacheFit
  <2>5. Fit(d, v, t)
    BY <1>1, <1>4, SearchedFit
  <2> QED
    BY <2>3, <2>4, <2>5
<1>6. \/ /\ dsr' = [Ages(e.due) EXCEPT ![d] = init]
         /\ ev' = Rest(e) \cup {T} \cup B
      \/ /\ ~ \A x \in Range(v.sendBuffer) : x.target # p.dst
         /\ dsr' = [Ages(e.due) EXCEPT ![d] = b] /\ ev' = Rest(e)
  BY DEF SendBuffered
<1> HIDE DEF v, u
<1>7. Fit(d, b, t)
  BY <1>4, <1>5, AddToSendBufferFit
<1> HIDE DEF b
<1>8. Fit(d, init, t)
  BY <1>7, InitRouteRequestFit
<1>9. EventFit(T, t) /\ T.dev = d /\ T.kind = "RREQ_TIMEOUT"
  <2> DEFINE y == [target |-> t, id |-> id]
  <2>1. T = Event(d, "RREQ_TIMEOUT", NonpropRequestTimeout, y)
    BY <1>4 DEF RREQTimer
  <2>2. y.target = t
    OBVIOUS
  <2> HIDE DEF y, T
  <2>3. EventFit(T, t)
    BY <1>4, <2>1, <2>2, DsrAssumption, EventKinds
  <2> QED
    BY <2>1, <2>3 DEF Event
<1>10. \A x \in B : EventFit(x, t)
  <2> DEFINE y == RREQ(d, p.dst, id, 1)
  <2>1. IsList(<<>>)
    BY DEF IsList
  <2>2. RequestFit(y, t)
    BY <1>4, <2>1 DEF RequestFit, RREQ
  <2> HIDE DEF y
  <2> QED
    BY <2>2, BroadcastFit DEF y
<1> HIDE DEF init, T, B
<1>11. /\ \A y \in Rest(e) : EventFit(y, t)
       /\ \A k : HasTimer(ev, k) => HasTimer(Rest(e), k)
  BY <1>3, RestFit
<1>12. CASE /\ dsr' = [Ages(e.due) EXCEPT ![d] = init]
            /\ ev' = Rest(e) \cup {T} \cup B
  <2>1. Writes(d, e.due, init)
    BY <1>1, <1>12, WritesDevice
  <2>2. \A x \in ev' : EventFit(x, t)
    BY <1>9, <1>10, <1>11, <1>12
  <2>3. HasTimer(ev', d) /\ \A k : HasTimer(ev, k) => HasTimer(ev', k)
    BY <1>9, <1>11, <1>12 DEF HasTimer
  <2> QED
    BY <1>2, <1>8, <2>1, <2>2, <2>3, TakeArmed
<1>13. CASE /\ ~ \A x \in Range(v.sendBuffer) : x.target # p.dst
            /\ dsr' = [Ages(e.due) EXCEPT ![d] = b] /\ ev' = Rest(e)
  <2>1. Writes(d, e.due, b)
    BY <1>1, <1>13, WritesDevice
  <2>2. dsr[d].sendBuffer # <<>>
    <3>1. Range(v.sendBuffer) # {}
      BY <1>13
    <3>2. v.sendBuffer # <<>>
      BY <3>1 DEF Range
    <3> QED
      BY <1>1, <1>5, <3>2
  <2> QED
    BY <1>2, <1>3, <1>7, <1>13, <2>1, <2>2, TakeSilent
<1> QED
  BY <1>6, <1>12, <1>13
\* The timer of a request: the buffer is empty, or the next request starts a
\* timer of its own, or the limit empties the buffer.
LEMMA ArmedRREQTimeout ==
    ASSUME NEW t, ArmedInv(t), NEW e \in ev, First(e), RREQTimeout(e)
    PROVE  ArmedInv(t)'
<1> DEFINE d == e.dev
           a == e.x.target
           u == Aged(dsr[d], e.due)
           v == Searched(u, a)
           i == getRREQTable(v.rreqTable, a)
           retry == RetryRREQ(v, a)
           given == EmptySendBuffer(v, a)
           last == [given EXCEPT !.rreqTable = DeleteRREQTable(@, a)]
           id == retry.nRREQIdentification
           n == retry.rreqTable[i].dBackoff
           T == RREQTimer(d, a, id, n)
           B == Broadcast(d, RREQ(d, a, id, DSR_DISCOVERY_HOP_LIMIT))
<1>1. d \in Dev /\ Shapes /\ DsrInv /\ EventFit(e, t) /\ Fit(d, u, t)
  BY ArmedDevice
<1>2. DsrInv'
  BY <1>1, StepRREQTimeout
<1>3. e.kind = "RREQ_TIMEOUT"
  BY DEF RREQTimeout
<1>4. a = t /\ d # t
  BY <1>1, <1>3 DEF EventFit
<1>5. Fit(d, v, t)
  BY <1>1, <1>4, SearchedFit
<1>6. /\ \A y \in Rest(e) : EventFit(y, t)
      /\ \A k \in Dev \ {d} : HasTimer(ev, k) => HasTimer(Rest(e), k)
  BY RestFit
<1>7. \/ /\ RouteFound(v, a) /\ dsr' = [Ages(e.due) EXCEPT ![d] = v] /\ ev' = Rest(e)
      \/ /\ i # 0 /\ dsr' = [Ages(e.due) EXCEPT ![d] = retry] /\ ev' = Rest(e) \cup {T} \cup B
      \/ /\ dsr' = [Ages(e.due) EXCEPT ![d] = last] /\ ev' = Rest(e)
  BY DEF RREQTimeout
<1> HIDE DEF v
<1>8. CASE RouteFound(v, a) /\ dsr' = [Ages(e.due) EXCEPT ![d] = v] /\ ev' = Rest(e)
  <2>1. Writes(d, e.due, v)
    BY <1>1, <1>8, WritesDevice
  <2>2. v.sendBuffer = <<>>
    <3>1. IsList(v.cache)
      BY <1>5 DEF Fit, CacheFit
    <3> DEFINE c == v.cache
               k == Hit(c, t)
    <3>2. k \in 0..Len(c) /\ (k # 0 => Usable(c[k], t)) /\ k # 0
      BY <1>4, <1>8, <3>1, HitPlace DEF RouteFound
    <3>3. Len(c) \in Nat
      BY <3>1, ListDomain
    <3> HIDE DEF k
    <3>4. k \in 1..Len(c) /\ Usable(c[k], t)
      BY <3>2, <3>3
    <3>5. c[k] \in Range(c)
      BY <3>1, <3>4, ListDomain
    <3> QED
      BY <1>5, <3>4, <3>5 DEF Fit
  <2> QED
    BY <1>2, <1>5, <1>6, <1>8, <2>1, <2>2, TakeArmed
<1>9. CASE i # 0 /\ dsr' = [Ages(e.due) EXCEPT ![d] = retry] /\ ev' = Rest(e) \cup {T} \cup B
  <2>1. Writes(d, e.due, retry)
    BY <1>1, <1>9, WritesDevice
  <2>2. Fit(d, retry, t) /\ n \in Nat
    <3>1. getRREQTable(v.rreqTable, t) # 0
      BY <1>4, <1>9
    <3>2. LET w == RetryRREQ(v, t)
          IN  /\ Fit(d, w, t)
              /\ w.rreqTable[getRREQTable(v.rreqTable, t)].dBackoff \in Nat
      BY <1>5, <3>1, RetryFit
    <3> QED
      BY <1>4, <3>2
  <2> HIDE DEF n, retry
  <2>3. EventFit(T, t) /\ T.dev = d /\ T.kind = "RREQ_TIMEOUT"
    <3> DEFINE y == [target |-> t, id |-> id]
    <3>1. T = Event(d, "RREQ_TIMEOUT", n, y)
      BY <1>4 DEF RREQTimer
    <3>2. y.target = t
      OBVIOUS
    <3> HIDE DEF y, T
    <3>3. EventFit(T, t)
      BY <1>4, <2>2, <3>1, <3>2, EventKinds
    <3> QED
      BY <3>1, <3>3 DEF Event
  <2>4. \A x \in B : EventFit(x, t)
    <3> DEFINE y == RREQ(d, a, id, DSR_DISCOVERY_HOP_LIMIT)
    <3>1. IsList(<<>>)
      BY DEF IsList
    <3>2. RequestFit(y, t)
      BY <1>4, <3>1 DEF RequestFit, RREQ
    <3> HIDE DEF y
    <3> QED
      BY <3>2, BroadcastFit DEF y
  <2> HIDE DEF T, B
  <2>5. \A x \in ev' : EventFit(x, t)
    BY <1>6, <1>9, <2>3, <2>4
  <2>6. HasTimer(ev', d) /\ \A k \in Dev \ {d} : HasTimer(ev, k) => HasTimer(ev', k)
    BY <1>6, <1>9, <2>3 DEF HasTimer
  <2> QED
    BY <1>2, <2>1, <2>2, <2>5, <2>6, TakeArmed
<1>10. CASE dsr' = [Ages(e.due) EXCEPT ![d] = last] /\ ev' = Rest(e)
  <2>1. Writes(d, e.due, last)
    BY <1>1, <1>10, WritesDevice
  <2>2. Fit(d, given, t) /\ given.sendBuffer = <<>>
    BY <1>4, <1>5, EmptySendBufferFit
  <2> HIDE DEF given
  <2>3. TableFit(DeleteRREQTable(given.rreqTable, a))
    BY <2>2, DeleteFit DEF Fit
  <2>4. Fit(d, last, t)
    BY <2>2, <2>3, TableChange
  <2>5. last.sendBuffer = <<>>
    BY <2>2 DEF Fit, DeviceOK
  <2> HIDE DEF last
  <2> QED
    BY <1>2, <1>6, <1>10, <2>1, <2>4, <2>5, TakeArmed
<1> QED
  BY <1>7, <1>8, <1>9, <1>10

\* A request comes in: it is noted, answered or sent on.
LEMMA ArmedProcessRREQ ==
    ASSUME NEW t, ArmedInv(t), NEW e \in ev, First(e), ProcessRREQ(e)
    PROVE  ArmedInv(t)'
<1> DEFINE d == e.dev
           q == e.x
           v == Aged(dsr[d], e.due)
           once == [v EXCEPT !.rreqTable = Append(@, RREQEntry(q.target, q.id, 1, 0))]
           twice == [once EXCEPT !.rreqTable = Append(@, RREQEntry(q.target, q.id, 0, 0))]
           listed == OnRoute(d, q.addr)
           noted == IF listed THEN once ELSE Searched(twice, q.target)
           onward == [q EXCEPT !.addr = Append(@, d), !.ttl = @ - 1]
           R == GenerateRREP(d, q)
           r == Route(v, q.target)
           C == Unicast(d, PrevHop(q), "RREP", [route |-> CachedReply(r, q.src, q.addr, q.target)])
           B == Broadcast(d, onward)
<1>1. /\ d \in Dev /\ Shapes /\ DsrInv /\ EventFit(e, t)
      /\ Fit(d, v, t) /\ v.sendBuffer = dsr[d].sendBuffer
  BY ArmedDevice
<1>2. DsrInv'
  BY <1>1, StepProcessRREQ
<1>3. e.kind = "RREQ"
  BY DEF ProcessRREQ
<1>4. RequestFit(q, t) /\ q.target = t /\ DOMAIN q = {"src", "target", "id", "ttl", "addr"} /\ IsList(q.addr)
  BY <1>1, <1>3 DEF EventFit, RequestFit
<1>5. \/ dsr' = Ages(e.due) /\ ev' = Rest(e)
      \/ q.target = d /\ dsr' = [Ages(e.due) EXCEPT ![d] = once] /\ ev' = Rest(e) \cup R
      \/ /\ RouteFound(v, q.target) /\ dsr' = [Ages(e.due) EXCEPT ![d] = noted]
         /\ ev' = Rest(e) \cup C \/ ev' = Rest(e) \cup {}
      \/ /\ dsr' = [Ages(e.due) EXCEPT ![d] = noted]
         /\ ev' = Rest(e) \cup B \/ ev' = Rest(e) \cup {}
  BY DEF ProcessRREQ
<1>6. Fit(d, once, t) /\ once.sendBuffer = v.sendBuffer
  <2>1. TableFit(Append(v.rreqTable, RREQEntry(q.target, q.id, 1, 0)))
    BY <1>1, NoteFit DEF Fit
  <2>2. Fit(d, once, t)
    BY <1>1, <2>1, TableChange
  <2>3. once.sendBuffer = v.sendBuffer
    BY <1>1 DEF Fit, DeviceOK
  <2> QED
    BY <2>2, <2>3
<1> HIDE DEF once
<1>7. Fit(d, twice, t) /\ twice.sendBuffer = v.sendBuffer
  <2>1. TableFit(Append(once.rreqTable, RREQEntry(q.target, q.id, 0, 0)))
    BY <1>6, NoteFit DEF Fit
  <2>2. Fit(d, twice, t)
    BY <1>6, <2>1, TableChange
  <2>3. twice.sendBuffer = once.sendBuffer
    BY <1>6 DEF Fit, DeviceOK
  <2> QED
    BY <1>6, <2>2, <2>3
<1> HIDE DEF twice
<1>8. Fit(d, noted, t) /\ noted.sendBuffer = v.sendBuffer
  <2>1. Fit(d, Searched(twice, q.target), t)
    BY <1>4, <1>7, SearchedFit
  <2>2. Searched(twice, q.target).sendBuffer = twice.sendBuffer
    BY <1>7 DEF Searched, Fit, DeviceOK
  <2> QED
    BY <1>6, <1>7, <2>1, <2>2
<1> HIDE DEF noted
<1>9. ASSUME q.target = d
      PROVE  \A x \in R : EventFit(x, t)
  <2> DEFINE y == [route |-> <<q.src>> \o q.addr \o <<d>>]
  <2>1. ReplyFit(y.route, PrevHop(q), t)
    <3>1. ReplyFit(<<q.src>> \o q.addr \o <<t>>, PrevHop(q), t)
      BY <1>4, TargetReplyFit
    <3> QED
      BY <1>4, <1>9, <3>1
  <2>2. R = Unicast(d, PrevHop(q), "RREP", y)
    BY DEF GenerateRREP
  <2> HIDE DEF y, R
  <2>3. EventFit(Event(PrevHop(q), "RREP", 1, y), t)
    BY <2>1, EventKinds
  <2> QED
    BY <2>2, <2>3, UnicastFit
<1>10. ASSUME RouteFound(v, q.target)
       PROVE  \A x \in C : EventFit(x, t)
  <2> DEFINE y == [route |-> CachedReply(r, q.src, q.addr, q.target)]
  <2>1. IsList(r) /\ OnRoute(t, r)
    <3> DEFINE c == v.cache
               k == Hit(c, t)
    <3>1. CacheFit(c) /\ IsList(c)
      BY <1>1 DEF Fit, CacheFit
    <3>2. k \in 0..Len(c) /\ (k # 0 => Usable(c[k], t)) /\ k # 0
      BY <1>4, <1>10, <3>1, HitPlace DEF RouteFound
    <3>3. Len(c) \in Nat
      BY <3>1, ListDomain
    <3>4. r = c[k].route
      BY <1>4 DEF Route
    <3> HIDE DEF k, r
    <3>5. k \in 1..Len(c) /\ Usable(c[k], t)
      BY <3>2, <3>3
    <3>6. c[k] \in Range(c)
      BY <3>1, <3>5, ListDomain
    <3> QED
      BY <3>1, <3>4, <3>5, <3>6 DEF CacheFit, CacheEntry, Usable
  <2> HIDE DEF r
  <2>2. ReplyFit(y.route, PrevHop(q), t)
    BY <1>4, <2>1, CachedReplyFit
  <2> HIDE DEF y
  <2>3. EventFit(Event(PrevHop(q), "RREP", 1, y), t)
    BY <2>2, EventKinds
  <2>4. \A x \in Unicast(d, PrevHop(q), "RREP", y) : EventFit(x, t)
    BY <2>3, UnicastFit
  <2> QED
    BY <2>4 DEF y
<1>11. \A x \in B : EventFit(x, t)
  <2>1. IsList(Append(q.addr, d))
    BY <1>4, AppendList
  <2>2. RequestFit(onward, t)
    BY <1>4, <2>1 DEF RequestFit
  <2> HIDE DEF onward
  <2> QED
    BY <2>2, BroadcastFit
<1> HIDE DEF R, C, B
<1>12. PICK w \in {v, once, noted} : Writes(d, e.due, w)
  BY <1>1, <1>5, WritesDevice
<1>13. Fit(d, w, t) /\ w.sendBuffer = dsr[d].sendBuffer
  BY <1>1, <1>6, <1>8, <1>12
<1>14. PICK E : ev' = Rest(e) \cup E /\ \A x \in E : EventFit(x, t)
  <2>1. ev' = Rest(e) \cup {} \/ (q.target = d /\ ev' = Rest(e) \cup R)
           \/ (RouteFound(v, q.target) /\ ev' = Rest(e) \cup C) \/ ev' = Rest(e) \cup B
    BY <1>5
  <2> DEFINE Fits(E) == ev' = Rest(e) \cup E /\ \A x \in E : EventFit(x, t)
  <2>2. Fits({}) \/ Fits(R) \/ Fits(C) \/ Fits(B)
    BY <1>9, <1>10, <1>11, <2>1
  <2>3. \E E : Fits(E)
    <3> HIDE DEF Fits
    <3> QED
      BY <2>2
  <2> QED
    BY <2>3
<1> QED
  BY <1>2, <1>3, <1>12, <1>13, <1>14, TakeQuiet
\* A reply comes in: the buffer is served before the timer is cancelled, and
\* no timer of another device is.
LEMMA ArmedProcessRREP ==
    ASSUME NEW t, ArmedInv(t), NEW e \in ev, First(e), ProcessRREP(e)
    PROVE  ArmedInv(t)'
<1> DEFINE d == e.dev
           route == e.x.route
           u == Aged(dsr[d], e.due)
           v == UpdateRouteCache(u, d, route)
           sent == IF CheckSendBuffer(v) THEN Head(v.sendBuffer).pkts ELSE {}
           left == IF CheckSendBuffer(v) THEN [v EXCEPT !.sendBuffer = Tail(@)] ELSE v
           a == Last(route)
           S == ev \ ({e} \cup Cancelled(d, v, a))
           T == TransmitSendBuffer(d, sent)
           F == ForwardRREP(d, e.x)
<1>1. d \in Dev /\ e.due \in Nat /\ Shapes /\ DsrInv /\ EventFit(e, t) /\ Fit(d, u, t)
  BY ArmedDevice
<1>2. DsrInv'
  BY <1>1, StepProcessRREP
<1>3. e.kind = "RREP"
  BY DEF ProcessRREP
<1>4. ReplyFit(route, d, t)
  BY <1>1, <1>3 DEF EventFit
<1>5. \/ /\ dsr' = [Ages(e.due) EXCEPT ![d] = Answered(left, a)]
         /\ ev' = Shifted(S, e.due) \cup T
      \/ /\ route[1] # d /\ dsr' = [Ages(e.due) EXCEPT ![d] = left]
         /\ ev' = Rest(e) \cup T \cup F
  BY DEF ProcessRREP, Shifted
<1> HIDE DEF u, route
<1>6. Fit(d, left, t) /\ left.sendBuffer = <<>> /\ sent \subseteq Sendable(d, t)
  BY <1>1, <1>4, ServeFit
<1>7. \A x \in T : EventFit(x, t)
  <2>1. T = {Event(d, "NETWORK_OUT", 0, p) : p \in sent}
    BY DEF TransmitSendBuffer
  <2> HIDE DEF sent, T
  <2>2. \A p \in sent : EventFit(Event(d, "NETWORK_OUT", 0, p), t)
    BY <1>6, EventKinds
  <2> QED
    BY <2>1, <2>2
<1> HIDE DEF left, sent, T
<1>8. CASE /\ dsr' = [Ages(e.due) EXCEPT ![d] = Answered(left, a)]
           /\ ev' = Shifted(S, e.due) \cup T
  <2> DEFINE w == Answered(left, a)
  <2>1. Writes(d, e.due, w)
    BY <1>1, <1>8, WritesDevice
  <2>2. Fit(d, w, t) /\ w.sendBuffer = <<>>
    BY <1>6, AnsweredFit
  <2> HIDE DEF w
  <2>3. \A x \in S : EventOK(x) /\ EventFit(x, t) /\ e.due <= x.due
    BY DEF ArmedInv, DsrInv, Shapes, First
  <2>4. ASSUME NEW k \in Dev \ {d}, HasTimer(ev, k)
        PROVE  HasTimer(S, k)
    <3>1. PICK x \in ev : x.dev = k /\ x.kind = "RREQ_TIMEOUT"
      BY <2>4 DEF HasTimer
    <3>2. x # e /\ x \notin Cancelled(d, v, a)
      BY <1>3, <2>4, <3>1 DEF Cancelled
    <3> QED
      BY <3>1, <3>2 DEF HasTimer
  <2> HIDE DEF S
  <2>5. /\ \A y \in Shifted(S, e.due) : EventFit(y, t)
        /\ \A k : HasTimer(S, k) => HasTimer(Shifted(S, e.due), k)
    BY <1>1, <2>3, ShiftedFit
  <2>6. \A x \in ev' : EventFit(x, t)
    BY <1>7, <1>8, <2>5
  <2>7. \A k \in Dev \ {d} : HasTimer(ev, k) => HasTimer(ev', k)
    BY <1>8, <2>4, <2>5 DEF HasTimer
  <2> QED
    BY <1>2, <2>1, <2>2, <2>6, <2>7, TakeArmed
<1>9. CASE /\ route[1] # d /\ dsr' = [Ages(e.due) EXCEPT ![d] = left]
           /\ ev' = Rest(e) \cup T \cup F
  <2> DEFINE E == T \cup F
             i == SelectInSeq(route, LAMBDA y : y = d)
             h == route[i - 1]
  <2>1. Writes(d, e.due, left)
    BY <1>1, <1>9, WritesDevice
  <2>2. IsList(route) /\ d \in Range(route) /\ Len(route) \in Nat
    BY <1>4, ListDomain DEF ReplyFit
  <2>3. i \in 0..Len(route) /\ (i # 0 => route[i] = d) /\ i # 0
    BY <2>2, PlaceOf
  <2>4. F = Unicast(d, h, "RREP", e.x)
    BY DEF ForwardRREP, route
  <2> HIDE DEF i
  <2>5. i # 1
    BY <1>9, <2>3
  <2>6. i - 1 \in 1..Len(route)
    BY <2>2, <2>3, <2>5
  <2>7. h \in Range(route)
    BY <2>2, <2>6, ListDomain
  <2> HIDE DEF h
  <2>8. ReplyFit(e.x.route, h, t)
    BY <1>4, <2>7 DEF ReplyFit, route
  <2>9. EventFit(Event(h, "RREP", 1, e.x), t)
    BY <2>8, EventKinds
  <2> HIDE DEF F
  <2>10. \A x \in F : EventFit(x, t)
    BY <2>4, <2>9, UnicastFit
  <2>11. ev' = Rest(e) \cup E /\ \A x \in E : EventFit(x, t)
    BY <1>7, <1>9, <2>10
  <2> HIDE DEF E
  <2> QED
    BY <1>2, <1>3, <1>6, <2>1, <2>11, TakeQuiet
<1> QED
  BY <1>5, <1>8, <1>9

\* A data packet comes in.
LEMMA ArmedProcessSourceRouteOption ==
    ASSUME NEW t, OneTarget(t), ArmedInv(t), NEW e \in ev, First(e), ProcessSourceRouteOption(e)
    PROVE  ArmedInv(t)'
<1> DEFINE d == e.dev
           p == e.x.pkt
           v == Aged(dsr[d], e.due)
           A == Process_AckRequestOption(d, e.x.from)
           N == {Event(d, "NETWORK_OUT", 0, p)}
<1>1. /\ d \in Dev /\ Shapes /\ DsrInv /\ EventFit(e, t)
      /\ Fit(d, v, t) /\ v.sendBuffer = dsr[d].sendBuffer
  BY ArmedDevice
<1>2. DsrInv'
  BY <1>1, StepProcessSourceRouteOption
<1>3. e.kind = "DATA" /\ dsr' = Ages(e.due)
  BY DEF ProcessSourceRouteOption
<1>4. p \in Pkt /\ p.dst = t
  BY <1>1, <1>3 DEF EventFit, OneTarget
<1>5. Writes(d, e.due, v)
  BY <1>1, <1>3, WritesDevice
<1> HIDE DEF v
<1>6. ev' = Rest(e) \cup A \/ (p.dst # d /\ ev' = Rest(e) \cup (A \cup N))
  BY DEF ProcessSourceRouteOption
<1>7. \A x \in A : EventFit(x, t)
  <2> DEFINE y == [from |-> d]
  <2>1. EventFit(Event(e.x.from, "ACK", 1, y), t)
    BY EventKinds
  <2>2. A = Unicast(d, e.x.from, "ACK", y)
    BY DEF Process_AckRequestOption
  <2> HIDE DEF y, A
  <2> QED
    BY <2>1, <2>2, UnicastFit
<1>8. p.dst # d => \A x \in N : EventFit(x, t)
  <2>1. ASSUME p.dst # d PROVE EventFit(Event(d, "NETWORK_OUT", 0, p), t)
    <3>1. p \in Sendable(d, t)
      BY <1>4, <2>1 DEF Sendable
    <3> QED
      BY <3>1, EventKinds
  <2> QED
    BY <2>1
<1> HIDE DEF A, N
<1>9. CASE ev' = Rest(e) \cup A
  BY <1>1, <1>2, <1>3, <1>5, <1>7, <1>9, TakeQuiet
<1>10. CASE p.dst # d /\ ev' = Rest(e) \cup (A \cup N)
  <2> DEFINE E == A \cup N
  <2>1. ev' = Rest(e) \cup E /\ \A x \in E : EventFit(x, t)
    BY <1>7, <1>8, <1>10
  <2> HIDE DEF E
  <2> QED
    BY <1>1, <1>2, <1>3, <1>5, <2>1, TakeQuiet
<1> QED
  BY <1>6, <1>9, <1>10

\* An acknowledgement comes in.
LEMMA ArmedProcessAckOption ==
    ASSUME NEW t, ArmedInv(t), NEW e \in ev, First(e), ProcessAckOption(e)
    PROVE  ArmedInv(t)'
<1> DEFINE d == e.dev
           v == Aged(dsr[d], e.due)
           w == EmptyMaintBuffer(v, e.x.from)
<1>1. d \in Dev /\ Shapes /\ DsrInv /\ Fit(d, v, t) /\ v.sendBuffer = dsr[d].sendBuffer
  BY ArmedDevice
<1>2. DsrInv'
  BY <1>1, StepProcessAckOption
<1>3. e.kind # "RREQ_TIMEOUT" /\ ev' = Rest(e)
  BY DEF ProcessAckOption
<1>4. Writes(d, e.due, w)
  BY <1>1, WritesDevice DEF ProcessAckOption
<1> HIDE DEF v
<1>5. Fit(d, w, t) /\ w.sendBuffer = v.sendBuffer
  BY <1>1, EmptyMaintBufferFit
<1> HIDE DEF w
<1> QED
  BY <1>1, <1>2, <1>3, <1>4, <1>5, TakeSilent

\* A route error changes the cache of the device that raised it.
LEMMA ArmedProcessRerr ==
    ASSUME NEW t, ArmedInv(t), NEW e \in ev, First(e), ProcessRerr(e)
    PROVE  ArmedInv(t)'
<1> DEFINE d == e.dev
           v == Aged(dsr[d], e.due)
           w == [v EXCEPT !.cache = DeleteEntryFromRouteCache(@, d, e.x.hop)]
<1>1. d \in Dev /\ Shapes /\ DsrInv /\ Fit(d, v, t) /\ v.sendBuffer = dsr[d].sendBuffer
  BY ArmedDevice
<1>2. DsrInv'
  BY <1>1, StepProcessRerr
<1>3. e.kind # "RREQ_TIMEOUT" /\ ev' = Rest(e)
  BY DEF ProcessRerr
<1>4. Writes(d, e.due, w)
  BY <1>1, WritesDevice DEF ProcessRerr
<1> HIDE DEF v
<1>5. Fit(d, w, t) /\ w.sendBuffer = v.sendBuffer
  BY <1>1, BrokenFit
<1> HIDE DEF w
<1> QED
  BY <1>1, <1>2, <1>3, <1>4, <1>5, TakeSilent

\* A copy was not acknowledged in time.
LEMMA ArmedMaintTimeout ==
    ASSUME NEW t, ArmedInv(t), NEW e \in ev, First(e), MaintTimeout(e)
    PROVE  ArmedInv(t)'
<1> DEFINE d == e.dev
           v == Aged(dsr[d], e.due)
           b == v.maintBuffer
           i == SelectInSeq(b, LAMBDA z : MaintKey(z) = e.x)
           m == b[i]
           again == Retransmitted(v, i)
           empty == EmptyMaintBuffer(v, m.hop)
           reset == ResetCount(empty, i)
           R == RetransmitBuffer(d, m.pkts)
           G == {GenerateRERR(d, m.hop)}
<1>1. d \in Dev /\ Shapes /\ DsrInv /\ Fit(d, v, t) /\ v.sendBuffer = dsr[d].sendBuffer
  BY ArmedDevice
<1>2. DsrInv'
  BY <1>1, StepMaintTimeout
<1>3. e.kind # "RREQ_TIMEOUT"
  BY DEF MaintTimeout
<1>4. \/ dsr' = Ages(e.due) /\ ev' = Rest(e)
      \/ i # 0 /\ dsr' = [Ages(e.due) EXCEPT ![d] = again] /\ ev' = Rest(e) \cup R
      \/ dsr' = [Ages(e.due) EXCEPT ![d] = reset] /\ ev' = Rest(e) \cup G
  BY DEF MaintTimeout
<1>5. i # 0 => i \in DOMAIN b
  <2> DEFINE I == {j \in 1..Len(b) : MaintKey(b[j]) = e.x}
  <2>1. i = IF I # {} THEN Min(I) ELSE 0
    BY DEF SelectInSeq
  <2>2. DOMAIN b = 1..Len(b) /\ I \subseteq Nat /\ I \subseteq DOMAIN b
    BY <1>1, ListDomain DEF Fit, DeviceOK, Entries
  <2> HIDE DEF I, i
  <2>3. I # {} => Min(I) \in I
    BY <2>2, MinOf
  <2> QED
    BY <2>1, <2>2, <2>3
<1> HIDE DEF i, v
<1>6. CASE dsr' = Ages(e.due) /\ ev' = Rest(e)
  <2>1. Writes(d, e.due, v)
    BY <1>1, <1>6, WritesDevice DEF v
  <2> QED
    BY <1>1, <1>2, <1>3, <1>6, <2>1, TakeSilent
<1>7. CASE i # 0 /\ dsr' = [Ages(e.due) EXCEPT ![d] = again] /\ ev' = Rest(e) \cup R
  <2>1. Writes(d, e.due, again)
    BY <1>1, <1>7, WritesDevice
  <2>2. Fit(d, again, t) /\ again.sendBuffer = v.sendBuffer
    BY <1>1, RetransmittedFit
  <2> DEFINE P == m.pkts
  <2>3. P \subseteq Sendable(d, t)
    BY <1>1, <1>5, <1>7 DEF Fit, Only
  <2>4. R = {Event(d, "NETWORK_OUT", 0, p) : p \in P}
    BY DEF RetransmitBuffer
  <2> HIDE DEF P, R, again
  <2>5. \A p \in P : EventFit(Event(d, "NETWORK_OUT", 0, p), t)
    BY <2>3, EventKinds
  <2>6. \A x \in R : EventFit(x, t)
    BY <2>4, <2>5
  <2> QED
    BY <1>1, <1>2, <1>3, <1>7, <2>1, <2>2, <2>6, TakeQuiet
<1>8. CASE dsr' = [Ages(e.due) EXCEPT ![d] = reset] /\ ev' = Rest(e) \cup G
  <2>1. Writes(d, e.due, reset)
    BY <1>1, <1>8, WritesDevice
  <2>2. Fit(d, empty, t) /\ empty.sendBuffer = v.sendBuffer
    BY <1>1, EmptyMaintBufferFit
  <2>3. \A x \in G : EventFit(x, t)
    <3> DEFINE y == [hop |-> m.hop]
    <3>1. EventFit(Event(d, "PROCESS_RERR", 0, y), t)
      BY EventKinds
    <3> QED
      BY <3>1 DEF GenerateRERR
  <2> HIDE DEF empty, G
  <2>4. Fit(d, reset, t) /\ reset.sendBuffer = empty.sendBuffer
    BY <2>2, ResetCountFit
  <2> HIDE DEF reset
  <2> QED
    BY <1>1, <1>2, <1>3, <1>8, <2>1, <2>2, <2>3, <2>4, TakeQuiet
<1> QED
  BY <1>4, <1>6, <1>7, <1>8

\* The transport layer hands a packet down.
LEMMA ArmedSend ==
    ASSUME NEW t, OneTarget(t), ArmedInv(t), Send
    PROVE  ArmedInv(t)'
<1>1. PICK q \in todo, n \in 0..Gap :
         /\ \A x \in ev : n <= x.due
         /\ dsr' = Ages(n) /\ ev' = Later(n) \cup {Event(q.src, "NETWORK_OUT", 0, q)}
  BY DEF Send
<1> DEFINE x == Event(q.src, "NETWORK_OUT", 0, q)
<1>2. n \in Nat
  BY <1>1, DsrAssumption
<1>3. DsrInv' /\ Shapes
  BY StepSend DEF ArmedInv, DsrInv
<1>4. EventFit(x, t)
  <2>1. q \in Pkt /\ q.src # t
    BY <1>1, <1>3 DEF OneTarget, Shapes
  <2>2. q \in Sendable(q.src, t)
    BY <2>1 DEF Sendable
  <2> QED
    BY <2>2, EventKinds
<1> HIDE DEF x
<1>5. /\ \A y \in Shifted(ev, n) : EventFit(y, t)
      /\ \A k : HasTimer(ev, k) => HasTimer(Shifted(ev, n), k)
  <2>1. \A y \in ev : EventOK(y) /\ EventFit(y, t) /\ n <= y.due
    BY <1>1, <1>3 DEF ArmedInv, Shapes
  <2> QED
    BY <1>2, <2>1, ShiftedFit
<1>6. ev' = Shifted(ev, n) \cup {x}
  BY <1>1 DEF Later, Shifted, x
<1>7. \A y \in ev' : EventFit(y, t)
  BY <1>4, <1>5, <1>6
<1>8. \A k : HasTimer(ev, k) => HasTimer(ev', k)
  BY <1>5, <1>6 DEF HasTimer
<1>9. ASSUME NEW k \in Dev
      PROVE  Fit(k, dsr'[k], t) /\ (dsr'[k].sendBuffer # <<>> => HasTimer(ev', k))
  <2>1. dsr'[k] = Aged(dsr[k], n)
    BY <1>1 DEF Ages
  <2>2. Fit(k, dsr[k], t) /\ (dsr[k].sendBuffer # <<>> => HasTimer(ev, k))
    BY DEF ArmedInv
  <2>3. Fit(k, Aged(dsr[k], n), t) /\ Aged(dsr[k], n).sendBuffer = dsr[k].sendBuffer
    BY <1>2, <2>2, AgedFit
  <2> QED
    BY <1>8, <2>1, <2>2, <2>3
<1> QED
  BY <1>3, <1>7, <1>9 DEF ArmedInv

\* The initial state.
LEMMA ArmedInit ==
    ASSUME NEW t, Init
    PROVE  ArmedInv(t)
<1>1. IsList(<<>>) /\ DOMAIN <<>> = {} /\ Range(<<>>) = {}
  BY DEF IsList, Range
<1>2. DsrInv
  BY InitDsrInv
<1>3. /\ DeviceVar.cache = <<>> /\ DeviceVar.sendBuffer = <<>> /\ DeviceVar.rreqTable = <<>>
      /\ DeviceVar.maintBuffer = <<>>
  BY DEF DeviceVar
<1>4. ASSUME NEW d \in Dev
      PROVE  Fit(d, dsr[d], t) /\ dsr[d].sendBuffer = <<>>
  <2>1. dsr[d] = DeviceVar /\ DeviceOK(dsr[d])
    BY <1>2 DEF Init, DsrInv, Shapes
  <2> QED
    BY <1>1, <1>3, <2>1 DEF Fit, CacheFit, TableFit, Only
<1> QED
  BY <1>2, <1>4 DEF ArmedInv, Init

\* Every step keeps the invariant.
LEMMA ArmedStep ==
    ASSUME NEW t, OneTarget(t), ArmedInv(t), [Next]_vars
    PROVE  ArmedInv(t)'
<1>1. CASE Send
  BY <1>1, ArmedSend
<1>2. CASE Break
  <2>1. dsr' = dsr /\ ev' = ev
    BY <1>2 DEF Break
  <2>2. DsrInv'
    BY <1>2, StepDsrInv DEF Next, ArmedInv
  <2> QED
    BY <2>1, <2>2 DEF ArmedInv
<1>3. ASSUME NEW e \in ev, First(e), Lose(e)
      PROVE  ArmedInv(t)'
  BY <1>3, ArmedLose
<1>4. ASSUME NEW e \in ev, First(e), Handle(e)
      PROVE  ArmedInv(t)'
  BY <1>4, ArmedSendOnRoute, ArmedSendBuffered, ArmedRREQTimeout, ArmedProcessRREQ, ArmedProcessRREP,
     ArmedProcessSourceRouteOption, ArmedProcessAckOption, ArmedMaintTimeout, ArmedProcessRerr
     DEF Handle
<1>5. CASE UNCHANGED vars
  <2>1. dsr' = dsr /\ ev' = ev
    BY <1>5 DEF vars
  <2>2. DsrInv'
    BY <1>5, StepDsrInv DEF ArmedInv
  <2> QED
    BY <2>1, <2>2 DEF ArmedInv
<1> QED
  BY <1>1, <1>2, <1>3, <1>4, <1>5 DEF Next, Run

\* Where all packets go to one device that sends none itself, a device has at
\* most one entry in its send buffer, while it has one no usable route, and a
\* pending RREQ_TIMEOUT: ProcessRREP serves the buffer before the timer is
\* cancelled, and RREQTimeout finds the buffer empty, goes on or empties it.
THEOREM DsrArmedInvariant ==
    ASSUME NEW t, OneTarget(t)
    PROVE  Spec => []ArmedInv(t)
<1>1. Init => ArmedInv(t)
  BY ArmedInit
<1>2. ArmedInv(t) /\ [Next]_vars => ArmedInv(t)'
  BY ArmedStep
<1> QED
  BY <1>1, <1>2, PTL DEF Spec

\* There the discovery of a waiting packet goes on, whatever is lost and
\* whatever breaks.  With two targets it does not (see ClaimDsr.cfg).
THEOREM DsrWaitingArmed ==
    ASSUME NEW t, OneTarget(t)
    PROVE  Spec => []WaitingArmed
<1>1. ArmedInv(t) => WaitingArmed
  <2> SUFFICES ASSUME ArmedInv(t), NEW d \in Dev, NEW b \in Range(dsr[d].sendBuffer)
               PROVE  \E x \in ev : x.dev = d /\ x.kind = "RREQ_TIMEOUT" /\ x.x.target = b.target
    BY DEF WaitingArmed
  <2>1. b.target = t
    BY DEF ArmedInv, Fit, Range
  <2>2. dsr[d].sendBuffer # <<>>
    BY DEF Range
  <2>3. PICK x \in ev : x.dev = d /\ x.kind = "RREQ_TIMEOUT"
    BY <2>2 DEF ArmedInv, HasTimer
  <2>4. x.x.target = t
    BY <2>3 DEF ArmedInv, EventFit
  <2> QED
    BY <2>1, <2>3, <2>4
<1> QED
  BY <1>1, DsrArmedInvariant, PTL
=============================================================================
