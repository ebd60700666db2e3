------------------------------ MODULE WlanMac ------------------------------
(***************************************************************************)
(* The IEEE 802.11 MAC of the simulator under DCF: carrier sense, DIFS,    *)
(* backoff, RTS/CTS, acknowledgement, retry and drop, with the radio state *)
(* and the shared medium below it (Medium.c).                              *)
(*                                                                         *)
(* The simulator is event driven: ev holds the pending events with the     *)
(* time that is left until each is due, and a step handles one that is due *)
(* first.  The frames on the air are the pending PHY_IN events.  Times are *)
(* in slots; the offsets below a microsecond (0.01 of propagation, 0.1 of  *)
(* MacReInit) are 0, and events due together are handled in any order.     *)
(***************************************************************************)
EXTENDS Integers, Sequences, FiniteSets, SequencesExt

CONSTANTS
    Sta,                    \* the stations, numbered in device order
    Hears,                  \* Hears[s]: the stations in range of s
    Pkt,                    \* the packets, [id, src, dst, size]
    Loads,                  \* the sets of packets a simulation may have to send
    CWmin, CWmax,           \* contention window of the EDCA table
    dot11ShortRetryLimit,
    dot11LongRetryLimit,
    SIFS,
    DataTime, CtrlTime,     \* transmission times of data and control frames
    ACK_SLACK,              \* the 2 microseconds added to both timeouts
    QMAX                    \* packets that fit the qosList of a station

ASSUME WlanAssumption ==
    /\ Sta \subseteq Nat /\ IsFiniteSet(Sta)
    /\ Loads \subseteq SUBSET Pkt
    /\ Hears \in [Sta -> SUBSET Sta]
    /\ CWmin \in Nat /\ CWmax \in Nat /\ CWmin <= CWmax
    /\ dot11ShortRetryLimit \in Nat \ {0}
    /\ dot11LongRetryLimit \in Nat \ {0}

VARIABLES
    mac,     \* stru_802_11_Mac_Var and the radio of each station
    ev,      \* the pending events
    todo,    \* packets the network layer has not handed down yet
    sent,    \* packets it has handed down
    got,     \* got[s]: packets delivered to the network layer of s
    acked,   \* packets whose ReceiveAckNotification was called
    dropped, \* packets whose DropNotification was called, or that found no room
    fails    \* fails[p]: timeouts of the exchange of packet p

vars == <<mac, ev, todo, sent, got, acked, dropped, fails>>

BROADCAST == 0
None == [kind |-> "NONE"]
Slot == 1
DIFS == SIFS + 2 * Slot

\* A frame held by the MAC: the packet itself, or the RTS that stands for it.
WLAN_DATA(p) == [kind |-> "DATA", pkt |-> p]
CreateRTSPacket(p) == [kind |-> "RTS", pkt |-> p]
CreateCTSPacket(p) == [kind |-> "CTS", pkt |-> p]
CreateAckPacket(p) == [kind |-> "ACK", pkt |-> p]
isCtrlPacket(f) == f.kind # "DATA"

isBroadcastPacket(p) == p.dst = BROADCAST

decide_RTS_CTS_Mechanism_AnyFrame(f) ==
    ~isBroadcastPacket(f.pkt) /\ f.pkt.size \in {"at", "above"}

\* The size of a packet is told apart only by dot11RTSThreshold.
decide_RTS_CTS_Mechanism(f) ==
    /\ ~isCtrlPacket(f)
    /\ ~isBroadcastPacket(f.pkt)
    /\ f.pkt.size \in {"at", "above"}

CheckRetryLimit_OneMore(retry, size) ==
    retry < IF size \in {"below", "at"} THEN dot11ShortRetryLimit ELSE dot11LongRetryLimit

CheckRetryLimit(retry, size) ==
    IF size \in {"below", "at"} THEN retry < dot11ShortRetryLimit - 1
                                ELSE retry < dot11LongRetryLimit - 1

TransmissionTime(f) == IF isCtrlPacket(f) THEN CtrlTime ELSE DataTime

-----------------------------------------------------------------------------
(* One station.                                                            *)

MacState == {"IDLE", "Wait_DIFS", "BACKING_OFF", "TXing_MPDU",
             "Txing_BroadCast", "TXing_ACK", "TXing_RTS", "TXing_CTS",
             "Wait_CTS", "Wait_ACK"}
RadioState == {"RX_ON_IDLE", "RX_ON_BUSY", "TRX_ON_BUSY"}

InitMac == [state |-> "IDLE", prev |-> "IDLE", radio |-> "RX_ON_IDLE",
            peer |-> BROADCAST, tid |-> 0, ntid |-> 0, cur |-> None,
            wait |-> None, retry |-> 0, cw |-> CWmin, bo |-> 0,
            buf |-> <<>>, q |-> <<>>]

Change_Mac_State(m, st) == [m EXCEPT !.prev = m.state, !.state = st]

isMacTransmittingState(m) ==
    m.state \in {"TXing_MPDU", "Txing_BroadCast", "TXing_ACK", "TXing_RTS", "TXing_CTS"}

\* transmissionId counts the frames of one transmitter, so equal numbers
\* may belong to frames of different stations.
isChangeRadioIsPermitted(m, new, tid) ==
    /\ ~(new = "RX_ON_BUSY" /\ isMacTransmittingState(m))
    /\ m.radio = "RX_ON_IDLE" \/ m.tid = tid

set_radio_state(m, new, peer, tid) ==
    IF isChangeRadioIsPermitted(m, new, tid)
    THEN [m EXCEPT !.radio = new, !.peer = peer, !.tid = tid]
    ELSE m

set_mac_state_after_txend(m) ==
    CASE m.state \in {"TXing_ACK", "Txing_BroadCast", "TXing_CTS"} ->
            Change_Mac_State(m, "IDLE")
      [] m.state = "TXing_MPDU" -> Change_Mac_State(m, "Wait_ACK")
      [] m.state = "TXing_RTS" -> Change_Mac_State(m, "Wait_CTS")
      [] m.state = "IDLE" /\ m.prev = "Txing_BroadCast" -> m
      [] OTHER -> Change_Mac_State(m, "IDLE")

set_mac_state_for_tx(m, f) ==
    Change_Mac_State(m,
        CASE f.kind = "RTS" -> "TXing_RTS"
          [] f.kind = "DATA" /\ isBroadcastPacket(f.pkt) -> "Txing_BroadCast"
          [] OTHER -> "TXing_MPDU")

\* The slots of a new backoff are drawn from the contention window.
RandomBackOff_Wide(m) == 0..m.cw + 1
RandomBackOff(m) == 0..m.cw

IncreaseCW(m) == [m EXCEPT !.cw = Min({2 * m.cw + 1, CWmax})]

RTS_CTS_Init(m) ==
    IF decide_RTS_CTS_Mechanism(m.cur)
    THEN [m EXCEPT !.wait = m.cur, !.cur = CreateRTSPacket(m.cur.pkt)]
    ELSE m

GetPacketFromQueue_Fresh(m) ==
    IF m.q = <<>> THEN m
    ELSE [m EXCEPT !.cur = WLAN_DATA(Head(m.q)), !.q = Tail(m.q), !.cw = CWmin]

GetPacketFromQueue(m) ==
    IF m.cur # None THEN m
    ELSE [m EXCEPT !.cur = WLAN_DATA(Head(m.q)), !.q = Tail(m.q), !.cw = CWmin]

isSTAIdle_Radio(m) == m.radio = "RX_ON_IDLE"

isSTAIdle(m) == m.state = "IDLE" /\ m.radio = "RX_ON_IDLE"
CanInit(m) == isSTAIdle(m) /\ (m.cur # None \/ m.q # <<>>)

\* fn_NetSim_IEEE802_11_CSMACA_Init adds the CS event exactly when CanInit.
CSMACA_Init(m) == IF CanInit(m) THEN RTS_CTS_Init(GetPacketFromQueue(m)) ELSE m

-----------------------------------------------------------------------------
(* Events and the medium.                                                  *)

Event(s, k, due, f) == [dev |-> s, kind |-> k, due |-> due, frame |-> f]
Sub(s, k, due) == Event(s, k, due, None)

InitEvent(s, m) == IF CanInit(m) THEN {Sub(s, "CS", 0)} ELSE {}

\* The events that are left when e has been taken, at the time of e.
Rest(e) == {[x EXCEPT !.due = @ - e.due] : x \in ev \ {e}}
Next1(e) == e \in ev /\ \A x \in ev : e.due <= x.due

OnAir(E) == {x \in E : x.kind = "PHY_IN"}
Transmitters(E) == {x.frame.tx : x \in OnAir(E)}

\* The cumulative received power of s is below its ED threshold.
medium_isIdle(s, E) == Transmitters(E) \cap (Hears[s] \ {s}) = {}

\* medium_change_callbackHandler, in the compiled part of the library: a
\* busy medium stops the wait for DIFS and the backoff, an idle one starts
\* the MAC again.
BusyCallback(s, m) ==
    CASE m.state = "Wait_DIFS" -> {Sub(s, "DIFS_FAILED", 0)}
      [] m.state = "BACKING_OFF" -> {Sub(s, "BACKOFF_PAUSED", 0)}
      [] OTHER -> {}
IdleCallback(s) == {Sub(s, "MAC_OUT", 0)}

\* A frame is lost at its receiver when another station in range of the
\* receiver is on the air, or when the receiver itself transmits.
Collided(x, E, M) ==
    \/ (Transmitters(E) \cap (Hears[x.dev] \ {x.dev})) \ {x.frame.tx} # {}
    \/ M[x.dev].radio = "TRX_ON_BUSY"

\* Only the first copy of a transmission is announced to the medium: it
\* marks the frames that now collide, except the transmitter's other ones.
medium_mark_collision(new, E, M) ==
    {IF x.kind = "PHY_IN" /\ (x.frame.tx # new.frame.tx \/ x = new)
           /\ Collided(x, E, M)
     THEN [x EXCEPT !.frame.bad = TRUE] ELSE x : x \in E}

medium_notify_packet_send(new, E, M) ==
    IF new.frame.tx \in Transmitters(E) THEN E \cup {new}
    ELSE medium_mark_collision(new, E \cup {new}, M) \cup
         UNION {BusyCallback(s, M[s]) : s \in
                   {r \in Sta \ {new.dev, new.frame.tx} : ~medium_isIdle(r, E \cup {new})}}

medium_notify_packet_received(x, E, M) ==
    LET tx == x.frame.tx IN
    IF tx \in Transmitters(E) THEN E
    ELSE E \cup UNION {IdleCallback(s) : s \in
                         {r \in Sta \ {x.dev, tx} : medium_isIdle(r, E)}
                         \cup {r \in {tx} : M[r].radio = "RX_ON_IDLE"}}

-----------------------------------------------------------------------------
Init ==
    /\ mac = [s \in Sta |-> InitMac]
    /\ ev = {}
    /\ todo \in Loads
    /\ sent = {}
    /\ got = [s \in Sta |-> {}]
    /\ acked = {}
    /\ dropped = {}
    /\ fails = [p \in Pkt |-> 0]

ghosts == <<todo, sent, got, acked, dropped, fails>>

\* The network layer puts a packet into the access buffer and, if it was
\* empty, adds a MAC_OUT event.  It may do so at any time d.
NetworkOut ==
    \E p \in todo, d \in 0..DIFS :
       /\ \A x \in ev : d <= x.due
       /\ todo' = todo \ {p}
       /\ sent' = sent \cup {p}
       /\ mac' = [mac EXCEPT ![p.src].buf = Append(@, p)]
       /\ ev' = {[x EXCEPT !.due = @ - d] : x \in ev} \cup
                (IF mac[p.src].buf = <<>> THEN {Sub(p.src, "MAC_OUT", 0)} ELSE {})
       /\ UNCHANGED <<got, acked, dropped, fails>>

\* MAC_OUT, subevent 0: MacInit moves the access buffer to the qosList as far
\* as it has room, and the contention starts.
MacOut(e) ==
    LET s == e.dev
        m == mac[s]
        room == QMAX - Len(m.q)
        n == Min({room, Len(m.buf)})
        m1 == [m EXCEPT !.buf = <<>>, !.q = @ \o SubSeq(m.buf, 1, n)]
    IN  /\ e.kind = "MAC_OUT"
        /\ dropped' = dropped \cup {m.buf[i] : i \in (n + 1)..Len(m.buf)}
        /\ mac' = [mac EXCEPT ![s] = CSMACA_Init(m1)]
        /\ ev' = Rest(e) \cup InitEvent(s, m1)
        /\ UNCHANGED <<todo, sent, got, acked, fails>>

\* CS and CheckNAV: dNAV is never assigned, so only the carrier counts.
CarrierSense(e) ==
    LET s == e.dev
        free == isSTAIdle(mac[s]) /\ medium_isIdle(s, Rest(e))
    IN  /\ e.kind = "CS"
        /\ mac' = [mac EXCEPT ![s] = IF free THEN Change_Mac_State(@, "Wait_DIFS") ELSE @]
        /\ ev' = Rest(e) \cup (IF free THEN {Sub(s, "DIFS_END", DIFS)} ELSE {})
        /\ UNCHANGED ghosts

DIFSEnd(e) ==
    LET s == e.dev IN
    /\ e.kind = "DIFS_END"
    /\ \/ /\ medium_isIdle(s, Rest(e))
          /\ \E n \in IF mac[s].bo = 0 THEN RandomBackOff(mac[s]) ELSE {mac[s].bo} :
                mac' = [mac EXCEPT ![s] =
                          [Change_Mac_State(mac[s], "BACKING_OFF") EXCEPT !.bo = n]]
          /\ ev' = Rest(e) \cup {Sub(s, "BACKOFF", Slot)}
       \/ /\ ~medium_isIdle(s, Rest(e))
          /\ mac' = [mac EXCEPT ![s] =
                       IF @.state = "Wait_DIFS" THEN Change_Mac_State(@, "IDLE") ELSE @]
          /\ ev' = Rest(e)
    /\ UNCHANGED ghosts

\* ieee802_11_csmaca_difs_failed and ieee802_11_csmaca_pause_backoff delete
\* the event they interrupt and make the MAC idle.
Interrupted(e) ==
    /\ e.kind \in {"DIFS_FAILED", "BACKOFF_PAUSED"}
    /\ LET victim == IF e.kind = "DIFS_FAILED" THEN "DIFS_END" ELSE "BACKOFF"
       IN  ev' = {x \in Rest(e) : ~(x.dev = e.dev /\ x.kind = victim)}
    /\ mac' = [mac EXCEPT ![e.dev] = Change_Mac_State(@, "IDLE")]
    /\ UNCHANGED ghosts

BackoffFailed(m) ==
    [(IF m.state = "BACKING_OFF" THEN Change_Mac_State(m, "IDLE") ELSE m)
       EXCEPT !.bo = 0]

\* fn_NetSim_IEEE802_11_SendToPhy: a broadcast frame leaves the MAC here, of
\* any other frame a copy is sent.
SendToPhy(m) ==
    LET m1 == set_mac_state_for_tx(m, m.cur)
    IN  IF m.cur.kind = "DATA" /\ isBroadcastPacket(m.cur.pkt)
        THEN [m1 EXCEPT !.cur = None] ELSE m1

Backoff(e) ==
    LET s == e.dev
        m == mac[s]
        idle == medium_isIdle(s, Rest(e))
    IN  /\ e.kind = "BACKOFF"
        /\ \/ /\ \/ m.radio # "RX_ON_IDLE"
                 \/ ~idle /\ m.bo <= 1
              /\ mac' = [mac EXCEPT ![s] = BackoffFailed(m)]
              /\ ev' = Rest(e)
           \/ /\ m.radio = "RX_ON_IDLE" /\ m.bo > 1
              /\ mac' = [mac EXCEPT ![s].bo = IF idle THEN @ - 1 ELSE @]
              /\ ev' = Rest(e) \cup {Sub(s, "BACKOFF", Slot)}
           \/ /\ m.radio = "RX_ON_IDLE" /\ idle /\ m.bo <= 1
              /\ IF m.cur = None
                 THEN mac' = [mac EXCEPT ![s].bo = 0] /\ ev' = Rest(e)
                 ELSE /\ mac' = [mac EXCEPT ![s] = SendToPhy([m EXCEPT !.bo = 0])]
                      /\ ev' = Rest(e) \cup {Event(s, "PHY_OUT", 0, m.cur)}
        /\ UNCHANGED ghosts

-----------------------------------------------------------------------------
(* Physical layer.                                                         *)

\* The station a frame of s goes to: the answer of a packet's own receiver
\* goes back to its source.
Receiver(s, f) == IF f.kind \in {"ACK", "CTS"} THEN f.pkt.src ELSE f.pkt.dst

\* fn_NetSim_IEEE802_11_TransmitFrame for one receiver: the radios change
\* and the copy goes on the air, unless the transmitter's radio is in use.
TransmitFrame(s, r, f, tid, st) ==
    LET copy == Event(r, "PHY_IN", TransmissionTime(f),
                      [kind |-> f.kind, pkt |-> f.pkt, tx |-> s, tid |-> tid, bad |-> FALSE])
        M1 == [st.mac EXCEPT ![s] = set_radio_state(@, "TRX_ON_BUSY", r, tid)]
        M2 == [M1 EXCEPT ![r] = set_radio_state(@, "RX_ON_BUSY", s, tid)]
    IN  IF isChangeRadioIsPermitted(st.mac[s], "TRX_ON_BUSY", tid)
        THEN [mac |-> M2, ev |-> medium_notify_packet_send(copy, st.ev, M2), sent |-> TRUE]
        ELSE st

\* fn_NetSim_IEEE802_11_TransmitBroadcastFrame: one copy for every other
\* station of the link, in device order.
TransmitBroadcastFrame(s, f, tid, st) ==
    FoldLeft(LAMBDA acc, r : TransmitFrame(s, r, f, tid, acc),
             st, SetToSortSeq(Sta \ {s}, <))

Timeout_Short(s, f) ==
    CASE f.kind = "DATA" /\ ~isBroadcastPacket(f.pkt) ->
            {Sub(s, "ACK_TIMEOUT", DataTime + SIFS + ACK_SLACK)}
      [] f.kind = "RTS" -> {Sub(s, "CTS_TIMEOUT", CtrlTime + SIFS + CtrlTime + ACK_SLACK)}
      [] OTHER -> {}

Timeout_DataOnly(s, f) ==
    IF f.kind = "DATA" /\ ~isBroadcastPacket(f.pkt)
    THEN {Sub(s, "ACK_TIMEOUT", DataTime + SIFS + CtrlTime + ACK_SLACK)} ELSE {}

Timeout(s, f) ==
    CASE f.kind = "DATA" /\ ~isBroadcastPacket(f.pkt) ->
            {Sub(s, "ACK_TIMEOUT", DataTime + SIFS + CtrlTime + ACK_SLACK)}
      [] f.kind = "RTS" ->
            {Sub(s, "CTS_TIMEOUT", CtrlTime + SIFS + CtrlTime + ACK_SLACK)}
      [] OTHER -> {}

\* The timeout is armed even when the frame could not be sent.
PhyOut(e) ==
    LET s == e.dev
        f == e.frame
        tid == mac[s].ntid + 1
        st == [mac |-> [mac EXCEPT ![s].ntid = tid], ev |-> Rest(e), sent |-> FALSE]
        out == IF Receiver(s, f) = BROADCAST
               THEN TransmitBroadcastFrame(s, f, tid, st)
               ELSE TransmitFrame(s, Receiver(s, f), f, tid, st)
        unsent == Receiver(s, f) = BROADCAST /\ ~out.sent
    IN  /\ e.kind = "PHY_OUT"
        /\ mac' = [out.mac EXCEPT ![s] = IF unsent THEN set_mac_state_after_txend(@) ELSE @]
        /\ ev' = out.ev \cup Timeout(s, f)
        /\ UNCHANGED ghosts

\* The end of a frame at one receiver: the transmitter's radio and state, the
\* medium, the receiver's radio, then the fate of the frame.  A frame without
\* collision may still be received in error.
PhyIn(e) ==
    LET r == e.dev
        f == e.frame
        t == f.tx
        M1 == [mac EXCEPT ![t] =
                 IF isChangeRadioIsPermitted(@, "RX_ON_IDLE", f.tid)
                 THEN set_mac_state_after_txend(set_radio_state(@, "RX_ON_IDLE", r, f.tid))
                 ELSE @]
        M2 == [M1 EXCEPT ![r] = set_radio_state(@, "RX_ON_IDLE", t, f.tid)]
    IN  /\ e.kind = "PHY_IN"
        /\ mac' = M2
        /\ \E received \in BOOLEAN :
              /\ received => r \in Hears[t] /\ ~f.bad
              /\ ev' = medium_notify_packet_received(e, Rest(e), M1) \cup
                       (IF received THEN {Event(r, "MAC_IN", 0, f)} ELSE {})
        /\ UNCHANGED ghosts

-----------------------------------------------------------------------------
(* MAC_IN and the answers.                                                 *)

ReceiveMpdu(e) ==
    LET s == e.dev
        p == e.frame.pkt
        unicast == ~isBroadcastPacket(p)
    IN  /\ e.kind = "MAC_IN" /\ e.frame.kind = "DATA"
        /\ got' = [got EXCEPT ![s] = @ \cup {p}]
        /\ mac' = [mac EXCEPT ![s] = IF unicast THEN Change_Mac_State(@, "TXing_ACK") ELSE @]
        /\ ev' = Rest(e) \cup
                 (IF unicast THEN {Event(s, "SEND_ACK", 0, e.frame)} ELSE {})
        /\ UNCHANGED <<todo, sent, acked, dropped, fails>>

SendACK(e) ==
    /\ e.kind = "SEND_ACK"
    /\ mac' = [mac EXCEPT ![e.dev] = Change_Mac_State(@, "TXing_ACK")]
    /\ ev' = Rest(e) \cup {Event(e.dev, "PHY_OUT", SIFS, CreateAckPacket(e.frame.pkt))}
    /\ UNCHANGED ghosts

ProcessRTS(e) ==
    /\ e.kind = "MAC_IN" /\ e.frame.kind = "RTS"
    /\ mac' = [mac EXCEPT ![e.dev] = Change_Mac_State(@, "TXing_CTS")]
    /\ ev' = Rest(e) \cup {Event(e.dev, "SEND_CTS", SIFS, e.frame)}
    /\ UNCHANGED ghosts

SendCTS(e) ==
    /\ e.kind = "SEND_CTS"
    /\ ev' = Rest(e) \cup {Event(e.dev, "PHY_OUT", 0, CreateCTSPacket(e.frame.pkt))}
    /\ UNCHANGED <<mac, ghosts>>

Without(E, s, k) == {x \in E : ~(x.dev = s /\ x.kind = k)}

\* The CTS replaces the RTS by the packet that waited for it.
ProcessCTS(e) ==
    LET s == e.dev IN
    /\ e.kind = "MAC_IN" /\ e.frame.kind = "CTS"
    /\ mac' = [mac EXCEPT ![s] =
                 [Change_Mac_State(@, "TXing_MPDU") EXCEPT !.cur = mac[s].wait, !.wait = None]]
    /\ ev' = Without(Rest(e), s, "CTS_TIMEOUT") \cup {Sub(s, "SEND_MPDU", SIFS)}
    /\ UNCHANGED ghosts

SendMpdu(e) ==
    /\ e.kind = "SEND_MPDU"
    /\ IF mac[e.dev].cur = None
       THEN mac' = mac /\ ev' = Rest(e)
       ELSE /\ mac' = [mac EXCEPT ![e.dev] = SendToPhy(@)]
            /\ ev' = Rest(e) \cup {Event(e.dev, "PHY_OUT", 0, mac[e.dev].cur)}
    /\ UNCHANGED ghosts

\* Whatever packet is being processed is taken as acknowledged.
ProcessAck(e) ==
    LET s == e.dev
        m == mac[s]
        m1 == [Change_Mac_State(m, "IDLE") EXCEPT !.cur = None, !.retry = 0]
    IN  /\ e.kind = "MAC_IN" /\ e.frame.kind = "ACK"
        /\ acked' = acked \cup (IF m.cur = None THEN {} ELSE {m.cur.pkt})
        /\ mac' = [mac EXCEPT ![s] = CSMACA_Init(m1)]
        /\ ev' = Without(Rest(e), s, "ACK_TIMEOUT") \cup InitEvent(s, m1)
        /\ UNCHANGED <<todo, sent, got, dropped, fails>>

-----------------------------------------------------------------------------
(* Timeouts.                                                               *)

\* The exchange of the packet held is tried again with a larger window, or
\* given up, which leaves the station as gone.
RetryOrDrop(e, held, again, idle, gone) ==
    LET s == e.dev
        m1 == IF again THEN IncreaseCW([idle EXCEPT !.retry = @ + 1])
                       ELSE [gone EXCEPT !.retry = 0]
    IN  /\ mac' = [mac EXCEPT ![s] = CSMACA_Init(m1)]
        /\ ev' = Rest(e) \cup InitEvent(s, m1)
        /\ dropped' = dropped \cup (IF again \/ held = None THEN {} ELSE {held.pkt})
        /\ fails' = IF held = None THEN fails ELSE [fails EXCEPT ![held.pkt] = @ + 1]
        /\ UNCHANGED <<todo, sent, got, acked>>

AckTimeOut(e) ==
    LET m == mac[e.dev]
        idle == Change_Mac_State(m, "IDLE")
    IN  /\ e.kind = "ACK_TIMEOUT"
        /\ \/ /\ m.state \in {"Wait_ACK", "TXing_MPDU"}
              /\ RetryOrDrop(e, m.cur, CheckRetryLimit(m.retry, m.cur.pkt.size),
                             idle, [idle EXCEPT !.cur = None])
           \/ /\ m.state \notin {"Wait_ACK", "TXing_MPDU"}
              /\ ev' = Rest(e)
              /\ UNCHANGED <<mac, ghosts>>

\* The RTS counts as a short frame (frameLength 1).
CTSTimeOut(e) ==
    LET m == mac[e.dev]
        idle == Change_Mac_State(m, "IDLE")
    IN  /\ e.kind = "CTS_TIMEOUT"
        /\ RetryOrDrop(e, m.wait, CheckRetryLimit(m.retry, "below"), idle,
                       IF m.wait = None THEN idle
                       ELSE [idle EXCEPT !.cur = None, !.wait = None])

-----------------------------------------------------------------------------
Handle(e) ==
    \/ MacOut(e) \/ CarrierSense(e) \/ DIFSEnd(e) \/ Interrupted(e) \/ Backoff(e)
    \/ PhyOut(e) \/ PhyIn(e) \/ ReceiveMpdu(e) \/ SendACK(e) \/ ProcessRTS(e)
    \/ SendCTS(e) \/ ProcessCTS(e) \/ SendMpdu(e) \/ ProcessAck(e)
    \/ AckTimeOut(e) \/ CTSTimeOut(e)

Step == \E e \in ev : Next1(e) /\ Handle(e)

Next == NetworkOut \/ Step

Spec == Init /\ [][Next]_vars

\* The kernel never stops while an event is pending.
FairSpec == Spec /\ WF_vars(Step)

-----------------------------------------------------------------------------
(* Properties.                                                             *)

Frame == {None} \cup [kind: {"DATA", "RTS"}, pkt: Pkt]

\* The types; the contention window stays within its limits, the qosList too.
TypeOK ==
    /\ \A s \in Sta :
          /\ mac[s].state \in MacState /\ mac[s].prev \in MacState
          /\ mac[s].radio \in RadioState
          /\ mac[s].cur \in Frame /\ mac[s].wait \in Frame
          /\ mac[s].cw \in CWmin..CWmax /\ mac[s].bo \in 0..CWmax
          /\ Len(mac[s].q) <= QMAX
    /\ \A e \in ev : e.due \in Nat /\ e.dev \in Sta
    /\ acked \subseteq Pkt /\ dropped \subseteq Pkt

Kinds(s) == {e \in ev : e.dev = s}
Holds(s, p) ==
    \/ p \in Range(mac[s].buf) \cup Range(mac[s].q)
    \/ mac[s].cur # None /\ mac[s].cur.pkt = p

\* RTS_CTS.c keeps the packet aside while its RTS is being processed, and
\* ProcessCTS and AckTimeOut use the pointers without a test: the RTS being
\* processed and the packet set aside are always of the same exchange, and a
\* CTS or an acknowledgement timeout that counts finds its packet.
ExchangeHeld ==
    \A s \in Sta :
       /\ mac[s].wait # None <=> mac[s].cur.kind = "RTS"
       /\ mac[s].wait # None => mac[s].wait.pkt = mac[s].cur.pkt
       /\ \A e \in Kinds(s) :
             /\ e.kind = "MAC_IN" /\ e.frame.kind = "CTS" => mac[s].wait # None
             /\ e.kind = "ACK_TIMEOUT" /\ mac[s].state \in {"Wait_ACK", "TXing_MPDU"}
                   => mac[s].cur # None

\* ProcessAck takes any ACK for the packet in hand and tells its sender so
\* (ReceiveAckNotification): the receiver has in fact been given that packet.
AckMeansDelivered == \A p \in acked : p \in got[p.dst]

\* A unicast packet is in exactly one place, from the access buffer to its
\* acknowledgement or its drop, however its frames and answers are lost.
HeldOnce ==
    \A p \in sent : p.dst # BROADCAST =>
       /\ Holds(p.src, p) <=> p \notin acked \cup dropped
       /\ ~(p \in acked /\ p \in dropped)

\* nRetryCount counts the timeouts of the packet in hand and of no other:
\* it starts at 0 for each packet, and the retry limits bound it.
RetryOwned ==
    \A s \in Sta :
       /\ mac[s].retry = IF mac[s].cur = None THEN 0 ELSE fails[mac[s].cur.pkt]
       /\ \A p \in Pkt : fails[p] <=
             IF dot11LongRetryLimit > dot11ShortRetryLimit
             THEN dot11LongRetryLimit ELSE dot11ShortRetryLimit

\* EVENTID holds one event of each kind: a second one would be lost to
\* fnDeleteEvent and fire for an exchange that is over.
OneTimer ==
    \A s \in Sta : \A k \in {"DIFS_END", "BACKOFF", "ACK_TIMEOUT", "CTS_TIMEOUT"} :
       Cardinality({e \in Kinds(s) : e.kind = k}) <= 1

\* A station that contends or waits for the answer to its own frame gets on,
\* whatever is lost and whoever else transmits: no RTS, MPDU or broadcast in
\* flight, DIFS or backoff that was interrupted, CTS or ACK that never comes,
\* leaves it where it is.  (TXing_ACK and TXing_CTS are not among them: an
\* answer that its radio refuses leaves the MAC in that state.)
Contending == {"Wait_DIFS", "BACKING_OFF", "TXing_RTS", "TXing_MPDU",
               "Txing_BroadCast", "Wait_CTS", "Wait_ACK"}
SenderGetsOn == \A s \in Sta : []<>(mac[s].state \notin Contending)
=============================================================================
