-------------------------------- MODULE Tcp --------------------------------
(***************************************************************************)
(* TCP (TCP/): one application's packets from a client to a server: the    *)
(* handshake and its end when the SYN retries are exhausted, the transfer  *)
(* with retransmission and congestion window (Old Tahoe, Tahoe, Reno, New  *)
(* Reno), the close, and a new connection after a reset.                   *)
(*                                                                         *)
(* Sequence numbers and windows count segments of one MSS (4096 octets, so *)
(* that a 16-bit window has U16 = 16 of them); a SYN takes one number too. *)
(* Everything a handler changes at a device is in its record ep[d]; "out"  *)
(* holds the packets the handler hands to the network layer, "up" those it *)
(* hands to the application.  SACK, BIC, CUBIC, window scaling and the     *)
(* time-stamp option are off.  RTO values are not modelled: the oldest     *)
(* timer runs out when nothing is in flight or, counted as a fault, before *)
(* its time.                                                               *)
(***************************************************************************)
EXTENDS Integers, Sequences, FiniteSets, SequencesExt, FiniteSetsExt

CONSTANTS
    Packets,        \* the application generates packets 1..Packets
    Variant,        \* "OLDTAHOE", "TAHOE", "RENO" or "NEWRENO"
    Delayed,        \* whether ackType is TCPACKTYPE_DELAYED
    MaxSynRetries,
    InitSSThresh,   \* initSSThresh, which is the receive window as well
    FaultBound,     \* at most this many losses, overtakings and early timers
    DialBound       \* at most this many sockets the client opens

ASSUME TcpAssumption ==
    /\ {Packets, MaxSynRetries, InitSSThresh, DialBound} \subseteq Nat \ {0}
    /\ FaultBound \in Nat
    /\ Variant \in {"OLDTAHOE", "TAHOE", "RENO", "NEWRENO"}
    /\ Delayed \in BOOLEAN

VARIABLES
    ep,         \* socket and TCB of each device
    timers,     \* the pending RTO events <<device, SeqNum>>, oldest first
    net,        \* the packets in flight, oldest first
    faults,     \* losses, overtakings and early timers so far
    delivered,  \* packets the server's application received, in order
    crashed     \* an assertion failed or freed memory was used

vars == <<ep, timers, net, faults, delivered, crashed>>

U16 == 16
TCP_DupThresh == 3
LW == 1
IW == 2
Peer(d) == IF d = "c" THEN "s" ELSE "c"

\* Initial sequence numbers grow with time: a later socket's first number is
\* outside every window of an earlier one.
calculate_initial_seq_num(d, n) == IF d = "c" THEN 50 * n - 49 ELSE 50 * n - 47

NoSocket ==
    [st |-> "None", avail |-> 0, fetched |-> 0, dials |-> 0, iss |-> 0, una |-> 0, nxt |-> 0, rcv |-> 0,
     irs |-> 0, rq |-> {}, ooo |-> {}, syn |-> 0, cancel |-> FALSE,
     ackedLast |-> FALSE, cwnd |-> 0, ssth |-> 0, dup |-> 0, fr |-> FALSE,
     recover |-> 0, waitFromApp |-> FALSE, isAPPClose |-> FALSE,
     tw |-> 0, twAgain |-> FALSE,
     out |-> <<>>, arm |-> <<>>, up |-> <<>>, crash |-> FALSE]

Init ==
    /\ ep = [d \in {"c", "s"} |-> NoSocket]
    /\ timers = <<>>
    /\ net = <<>>
    /\ faults = 0
    /\ delivered = <<>>
    /\ crashed = FALSE

-----------------------------------------------------------------------------
(* Segments, the two queues and the timers *)

Seg(d, fl, seq, ack, pkt) ==
    [to |-> Peer(d), fl |-> fl, seq |-> seq, ack |-> ack, pkt |-> pkt]

get_seg_len(m) == IF "S" \in m.fl \/ m.pkt > 0 THEN 1 ELSE 0

send_to_network(e, m) == [e EXCEPT !.out = Append(@, m)]

\* The queue holds a copy, and the event another one, found again by its
\* sequence number.
add_timeout_event(e, m) == [e EXCEPT !.rq = @ \cup {m}, !.arm = Append(@, m.seq)]

SendTimed(e, m) == add_timeout_event(send_to_network(e, m), m)

isSegmentInQueue(q, seq) == \E m \in q : m.seq = seq

get_segment_from_queue(q, seq) == CHOOSE m \in q : m.seq = seq

delete_segment_from_queue_Next(q, ack) == {m \in q : m.seq > ack}
delete_segment_from_queue(q, ack) == {m \in q : m.seq + get_seg_len(m) > ack}

tcp_change_state(e, st) == [e EXCEPT !.st = st]

\* What outlives a socket: the packets of the application, the events.
Apart(e) ==
    [NoSocket EXCEPT !.avail = e.avail, !.fetched = e.fetched, !.dials = e.dials,
       !.tw = e.tw, !.out = e.out, !.up = e.up]

create_TCB(d, e) ==
    LET iss == calculate_initial_seq_num(d, e.dials + 1)
    IN [Apart(e) EXCEPT !.dials = @ + 1, !.iss = iss,
          !.cwnd = InitSSThresh, !.ssth = InitSSThresh,
          !.recover = IF Variant = "NEWRENO" THEN iss ELSE 0]

\* The socket stays in the list without a TCB.
delete_tcb(e) ==
    [Apart(e) EXCEPT !.st = "NoTcb", !.waitFromApp = e.waitFromApp,
                     !.isAPPClose = e.isAPPClose]

\* The socket is taken out of the list and freed.
tcp_close_socket(e) == Apart(e)

send_ack(d, e, seq, ack) == send_to_network(e, Seg(d, {"A"}, seq, ack, 0))
send_fin_ack(d, e, seq, ack) == send_to_network(e, Seg(d, {"A", "F"}, seq, ack, 0))

\* SeqNum skips one when nothing was sent after the SYN.  A FIN has no timer.
send_fin(d, e) ==
    send_to_network(e, Seg(d, {"F"}, IF e.iss + 1 = e.nxt THEN e.nxt + 1 ELSE e.nxt, 0, 0))

\* AckNum is SeqNum plus the header's length, a number beyond any SND.NXT.
send_rst(d, e, m, c) ==
    send_to_network(e, IF "A" \in m.fl \/ c = 1 THEN Seg(d, {"R"}, m.ack, 0, 0)
                       ELSE Seg(d, {"R", "A"}, 0, m.seq + 2, 0))

-----------------------------------------------------------------------------
(* Congestion window.  A 16-bit difference of two numbers wraps. *)

FlightSize(e) == (e.nxt - e.una) % U16
set_cwnd(e, w) == [e EXCEPT !.cwnd = w % U16]
increase_cwnd(e, w) == [e EXCEPT !.cwnd = Min({@ + w, U16 - 1})]

\* Both sides take the smaller MSS and start from the initial window.
congestion_set_MSS(e) == set_cwnd(e, IW)

slowStart(e, m) == increase_cwnd(e, Min({(m.ack - e.una) % U16, 1}))

\* "due" tells whether a round-trip time has passed since the last increase.
CongestionAvoidance(e, m, due) == IF due THEN slowStart(e, m) ELSE e

Grow(e, m, due) ==
    IF e.cwnd <= e.ssth THEN slowStart(e, m) ELSE CongestionAvoidance(e, m, due)

\* A copy is sent; the segment keeps its place in the queue and its timer.
resend_segment_without_timeout(e, seq) ==
    IF isSegmentInQueue(e.rq, seq)
    THEN send_to_network(e, get_segment_from_queue(e.rq, seq)) ELSE e

FastRetransmit(e, m) ==
    IF e.dup = TCP_DupThresh
    THEN LET t == Max({FlightSize(e) \div 2, 2})
         IN resend_segment_without_timeout(
              set_cwnd([e EXCEPT !.ssth = t, !.fr = Variant \in {"RENO", "NEWRENO"}],
                       t + TCP_DupThresh), m.ack)
    ELSE increase_cwnd(e, 1)

FastRecovery(e) == set_cwnd([e EXCEPT !.fr = FALSE, !.dup = 0], e.ssth)

newReno_FastRecovery(e, m) ==
    LET f == [e EXCEPT !.dup = 0]
    IN IF m.ack >= e.recover
       THEN set_cwnd([f EXCEPT !.fr = FALSE],
                     Min({e.ssth, Max({FlightSize(e), 1}) + 1}))
       ELSE resend_segment_without_timeout(
              increase_cwnd(f, (m.ack - e.recover) % U16), m.ack)

\* Counts of duplicates above the threshold are all alike.
isDupAck(e, m) == m.ack <= e.una
CountDup(e) == [e EXCEPT !.dup = Min({@ + 1, TCP_DupThresh + 1})]

tahoe_ack_received(e, m, due) ==
    CASE isDupAck(e, m) -> LET f == CountDup(e)
                           IN IF f.dup < TCP_DupThresh THEN f ELSE FastRetransmit(f, m)
      [] ~isDupAck(e, m) /\ e.dup > 0 -> set_cwnd([e EXCEPT !.dup = 0], LW)
      [] OTHER -> Grow(e, m, due)

reno_ack_received(e, m, due) ==
    CASE isDupAck(e, m) -> LET f == CountDup(e)
                           IN IF f.dup < TCP_DupThresh THEN f ELSE FastRetransmit(f, m)
      [] ~isDupAck(e, m) /\ e.fr -> FastRecovery(e)
      [] OTHER -> Grow(e, m, due)

newreno_ack_received(e, m, due) ==
    CASE isDupAck(e, m) ->
           LET f == CountDup(e)
           IN IF f.dup < TCP_DupThresh \/ f.recover >= m.ack - 1 THEN f
              ELSE FastRetransmit([f EXCEPT !.recover = f.nxt], m)
      [] ~isDupAck(e, m) /\ e.fr -> newReno_FastRecovery(e, m)
      [] OTHER -> Grow(e, m, due)

ack_received(e, m, due) ==
    CASE Variant = "OLDTAHOE" -> Grow(e, m, due)
      [] Variant = "TAHOE" -> tahoe_ack_received(e, m, due)
      [] Variant = "RENO" -> reno_ack_received(e, m, due)
      [] OTHER -> newreno_ack_received(e, m, due)

congestion_rto_timeout(e) ==
    set_cwnd([e EXCEPT !.ssth = Max({FlightSize(e) \div 2, 2}),
                       !.recover = IF Variant = "NEWRENO" THEN e.nxt ELSE @,
                       !.fr = @ /\ Variant # "NEWRENO"], LW)

-----------------------------------------------------------------------------
(* Sending.  The socket interface holds packets fetched + 1 .. avail. *)

tcp_close(d, e) ==
    IF e.rq = {} THEN tcp_change_state(send_fin(d, e), "FinWait1") ELSE e

\* As many segments as the window lets go, each queued and timed.
send_segment(d, e) ==
    LET w == e.avail - e.fetched
        n == Max({0, Min({w, e.una + e.cwnd - e.nxt})})
        new == [i \in 1..n |-> Seg(d, {}, e.nxt + i - 1, 0, e.fetched + i)]
        h == [e EXCEPT !.out = @ \o new, !.rq = @ \cup {new[i] : i \in 1..n},
                !.arm = @ \o [i \in 1..n |-> new[i].seq],
                !.nxt = @ + n, !.fetched = @ + n,
                !.waitFromApp = @ \/ w = 0,
                !.isAPPClose = @ \/ (n > 0 /\ e.fetched + n = Packets),
                !.crash = @ \/ e.cwnd < 1]
    IN IF h.isAPPClose THEN tcp_close(d, h) ELSE h

-----------------------------------------------------------------------------
(* The handshake *)

send_syn(d, e) ==
    SendTimed([e EXCEPT !.una = e.iss, !.nxt = e.iss + 1, !.st = "SynSent", !.syn = @ + 1],
              Seg(d, {"S"}, e.iss, 0, 0))

tcp_active_open(d, e) == send_syn(d, create_TCB(d, e))

rcv_SYN(d, e, m) ==
    LET f == [congestion_set_MSS(e) EXCEPT !.rcv = m.seq + 1, !.irs = m.seq,
                !.st = "SynRcvd", !.una = e.iss, !.nxt = e.iss + 1, !.syn = @ + 1]
    IN SendTimed(f, Seg(d, {"S", "A"}, e.iss, f.rcv, 0))

tcp_accept(d, e, m) == rcv_SYN(d, create_TCB(d, e), m)

\* A socket whose connection fell back to LISTEN has no listen_callback.
packet_arrives_at_listen_state(d, e, m) ==
    CASE "R" \in m.fl -> e
      [] "R" \notin m.fl /\ "A" \in m.fl -> send_rst(d, e, m, 0)
      [] m.fl = {"S"} -> IF e.irs # m.seq \/ e.rcv # m.seq + 1
                         THEN send_rst(d, e, m, 2) ELSE [e EXCEPT !.crash = TRUE]
      [] OTHER -> e

packet_arrives_at_synsent_state(d, e, m) ==
    LET wrong == "A" \in m.fl /\ (m.ack <= e.iss \/ m.ack > e.nxt)
        ok == ~wrong /\ "A" \in m.fl /\ e.una <= m.ack /\ m.ack <= e.nxt
        f == congestion_set_MSS(
               [e EXCEPT !.rcv = m.seq + 1, !.irs = m.seq, !.una = m.ack,
                  !.rq = delete_segment_from_queue(@, m.ack)])
    IN CASE wrong -> send_rst(d, e, m, 0)
         [] ok /\ "R" \in m.fl -> [e EXCEPT !.crash = TRUE]
         [] ok /\ "R" \notin m.fl /\ "S" \in m.fl ->
              send_segment(d, tcp_change_state(send_ack(d, f, f.nxt, f.rcv), "Estab"))
         [] OTHER -> e

resend_syn(e, m) ==
    CASE e.st \notin {"SynSent", "SynRcvd"} -> [e EXCEPT !.crash = TRUE]
      [] e.st \in {"SynSent", "SynRcvd"} /\ e.syn < MaxSynRetries ->
           SendTimed([e EXCEPT !.una = e.iss, !.nxt = e.iss + 1, !.syn = @ + 1], m)
      [] OTHER -> tcp_close_socket(e)

-----------------------------------------------------------------------------
(* Segments of a connection *)

Validate_segment(e, m) ==
    LET InWindow(n) == e.rcv <= n /\ n < e.rcv + InitSSThresh
    IN InWindow(m.seq) \/ (get_seg_len(m) > 0 /\ InWindow(m.seq + get_seg_len(m) - 1))

\* SYN_RECEIVED is only entered from LISTEN.  The retransmission queue is
\* freed, but still pointed to.
process_rst_packet(e) ==
    IF e.st = "SynRcvd" THEN tcp_change_state(e, "Listen") ELSE tcp_close_socket(e)

process_syn_packet(e) ==
    IF e.st = "SynRcvd" THEN tcp_change_state(e, "Listen") ELSE tcp_close_socket(e)

start_timewait_timer(e) == [e EXCEPT !.tw = @ + 1, !.cancel = TRUE]

Acks(e, m) == e.una < m.ack /\ m.ack <= e.nxt

process_ack_in_establishedState(d, e, m, due) ==
    LET f == ack_received(e, m, due)
    IN CASE Acks(e, m) -> [f EXCEPT !.una = m.ack,
                              !.rq = delete_segment_from_queue(@, m.ack)]
         [] m.ack > e.nxt -> send_ack(d, f, m.seq, m.ack)
         [] OTHER -> f

\* A new acknowledgement lets more segments go.
AckThenSend(d, e, m, due) ==
    LET f == process_ack_in_establishedState(d, e, m, due)
    IN IF Acks(e, m) THEN send_segment(d, f) ELSE f

process_ack_packet(d, e, m, due) ==
    CASE e.st = "SynRcvd" ->
           IF e.una <= m.ack /\ m.ack <= e.nxt
           THEN AckThenSend(d, tcp_change_state(e, "Estab"), m, due)
           ELSE send_rst(d, e, m, 1)
      [] e.st \in {"Estab", "FinWait2", "CloseWait"} -> AckThenSend(d, e, m, due)
      [] e.st = "FinWait1" ->
           LET f == AckThenSend(d, e, m, due)
           IN IF "F" \in m.fl THEN tcp_change_state(f, "FinWait2") ELSE f
      [] e.st = "Closing" ->
           LET f == AckThenSend(d, e, m, due)
           IN IF "F" \in m.fl THEN tcp_change_state(start_timewait_timer(f), "TimeWait")
              ELSE f
      [] e.st = "LastAck" -> delete_tcb(e)
      [] OTHER -> [start_timewait_timer(send_fin_ack(d, e, m.seq, m.ack))
                     EXCEPT !.twAgain = TRUE]

process_fin_packet(d, e, m) ==
    CASE e.st \in {"SynRcvd", "Estab"} ->
           [send_fin(d, send_fin_ack(d, e, e.nxt, e.rcv))
              EXCEPT !.st = "LastAck", !.cancel = TRUE]
      [] e.st = "FinWait1" ->
           send_fin_ack(d, tcp_change_state(e, "Closing"), e.nxt, e.rcv)
      [] e.st = "FinWait2" ->
           send_ack(d, start_timewait_timer(tcp_change_state(e, "TimeWait")),
                    e.nxt + 1, m.seq + 1)
      [] e.st = "TimeWait" -> [start_timewait_timer(e) EXCEPT !.twAgain = TRUE]
      [] OTHER -> e

\* RCV.NXT moves over the segments kept out of order, in one ascending pass.
check_segment_in_queue(e) ==
    [e EXCEPT !.rcv = CHOOSE n \in @ .. (@ + Cardinality(e.ooo)) :
        /\ \A i \in @ .. (n - 1) : \E q \in e.ooo : q.seq = i /\ get_seg_len(q) > 0
        /\ ~\E q \in e.ooo : q.seq = n /\ get_seg_len(q) > 0]

check_segment(e, m) ==
    CASE e.rcv = m.seq -> check_segment_in_queue([e EXCEPT !.rcv = @ + get_seg_len(m)])
      [] e.rcv # m.seq /\ (e.rcv > m.seq \/ isSegmentInQueue(e.ooo, m.seq)) -> e
      [] OTHER -> [e EXCEPT !.ooo = @ \cup {m}]

\* The packets of the segments S that carry one, in ascending order.
Ascending(S) ==
    LET data == {q \in S : q.pkt > 0}
        inOrder == CHOOSE f \in [1..Cardinality(data) -> data] :
                     \A i, j \in DOMAIN f : i < j => f[i].seq < f[j].seq
    IN [i \in DOMAIN inOrder |-> inOrder[i].pkt]

send_to_application_Keep(e, m) ==
    [e EXCEPT !.up = Ascending({m} \cup {q \in e.ooo : q.seq < e.rcv})]

\* The segment and then those of the queue that RCV.NXT has passed.
send_to_application(e, m) ==
    LET passed == {q \in e.ooo : q.seq < e.rcv}
    IN [e EXCEPT !.ooo = @ \ passed, !.up = Ascending({m} \cup passed)]

\* "due" tells whether the delayed-ack time has passed.
send_ack_or_not(e, due) == ~Delayed \/ due \/ ~e.ackedLast
NoteAck(e, due) ==
    IF Delayed THEN [e EXCEPT !.ackedLast = send_ack_or_not(e, due)] ELSE e

Text(d, e, m, due) ==
    LET inorder == e.rcv = m.seq
        f == check_segment(e, m)
        g == IF inorder THEN NoteAck(f, due) ELSE f
        h == IF (inorder => send_ack_or_not(e, due)) /\ "F" \notin m.fl
             THEN send_ack(d, g, g.nxt, g.rcv) ELSE g
    IN IF inorder THEN send_to_application(h, m) ELSE h

process_segment_text(d, e, m, due) ==
    LET f == IF e.st \in {"Estab", "FinWait1", "FinWait2"} THEN Text(d, e, m, due) ELSE e
    IN IF "F" \in m.fl THEN process_fin_packet(d, f, m) ELSE f

packet_arrives_at_incoming_tcp(d, e, m, due) ==
    CASE ~Validate_segment(e, m) ->
           IF "R" \in m.fl THEN e ELSE send_ack(d, e, e.nxt, e.rcv)
      [] Validate_segment(e, m) /\ "R" \in m.fl -> process_rst_packet(e)
      [] Validate_segment(e, m) /\ "R" \notin m.fl /\ "S" \in m.fl -> process_syn_packet(e)
      [] Validate_segment(e, m) /\ m.fl \cap {"R", "S"} = {} /\ "A" \in m.fl ->
           process_ack_packet(d, e, m, due)
      [] OTHER -> process_segment_text(d, e, m, due)

\* Only a SYN without ACK finds the listening socket.
packet_arrive_from_network_layer(d, e, m, due) ==
    CASE e.st = "None" -> IF m.fl = {"S"} THEN tcp_accept(d, e, m) ELSE e
      [] e.st = "NoTcb" -> e
      [] e.st = "Listen" -> packet_arrives_at_listen_state(d, e, m)
      [] e.st = "SynSent" -> packet_arrives_at_synsent_state(d, e, m)
      [] OTHER -> packet_arrives_at_incoming_tcp(d, e, m, due)

-----------------------------------------------------------------------------
(* Actions *)

\* Device d's record becomes next; what it sends and hands up leaves it.
Becomes(d, next, rest, pending) ==
    \E e \in {next} :
       /\ ep' = [ep EXCEPT ![d] = [e EXCEPT !.out = <<>>, !.arm = <<>>, !.up = <<>>,
                                            !.crash = FALSE]]
       /\ net' = rest \o e.out
       /\ timers' = pending \o [i \in DOMAIN e.arm |-> <<d, e.arm[i]>>]
       /\ delivered' = delivered \o e.up
       /\ crashed' = e.crash

Fault == faults < FaultBound /\ faults' = faults + 1

packet_arrive_from_application_layer_Early(e) ==
    CASE e.st = "None" -> tcp_active_open("c", e)
      [] e.st # "None" /\ e.waitFromApp -> [e EXCEPT !.waitFromApp = FALSE]
      [] OTHER -> e

\* TRANSPORT_OUT.  TCP opens a connection when there is none, sends when it
\* waits for the application, and leaves the packets where they are otherwise.
packet_arrive_from_application_layer(e) ==
    CASE e.st = "None" -> tcp_active_open("c", e)
      [] e.st # "None" /\ e.waitFromApp ->
           IF e.st = "NoTcb" THEN [e EXCEPT !.crash = TRUE]
           ELSE [send_segment("c", e) EXCEPT !.waitFromApp = FALSE]
      [] OTHER -> e

\* The application puts its next packet into the socket interface, and TCP
\* is told when it finds the interface empty.
HandleTransportOut ==
    LET e == ep["c"]
        f == [e EXCEPT !.avail = @ + 1]
    IN /\ ~crashed /\ e.avail < Packets
       /\ \/ /\ e.avail = e.fetched
             /\ e.st = "None" => e.dials < DialBound
             /\ Becomes("c", packet_arrive_from_application_layer(f), net, timers)
          \/ /\ e.avail # e.fetched
             /\ Becomes("c", f, net, timers)
       /\ UNCHANGED faults

\* The network delivers its oldest packet, or a later one.
HandleTransportIn(i) ==
    LET m == net[i]
    IN /\ ~crashed
       /\ IF i = 1 THEN UNCHANGED faults ELSE Fault
       /\ \E due \in BOOLEAN :
            Becomes(m.to, packet_arrive_from_network_layer(m.to, ep[m.to], m, due),
                    RemoveAt(net, i), timers)

Lose(i) ==
    /\ ~crashed
    /\ Fault
    /\ net' = RemoveAt(net, i)
    /\ UNCHANGED <<ep, timers, delivered, crashed>>

handle_rto_timer_Once(e, n) ==
    IF e.st \in {"None", "NoTcb", "Listen"} \/ e.cancel \/ ~isSegmentInQueue(e.rq, n) THEN e
    ELSE LET m == get_segment_from_queue(e.rq, n)
         IN IF "S" \in m.fl THEN resend_syn(e, m)
            ELSE send_to_network(congestion_rto_timeout(e), m)

\* RTO event of the segment numbered n.  With the connection back in LISTEN
\* the queue it looks into was freed.
handle_rto_timer(e, n) ==
    CASE e.st \in {"None", "NoTcb"} \/ e.cancel -> e
      [] e.st = "Listen" /\ ~e.cancel -> [e EXCEPT !.crash = TRUE]
      [] OTHER ->
           IF ~isSegmentInQueue(e.rq, n) THEN e
           ELSE LET m == get_segment_from_queue(e.rq, n)
                IN IF "S" \in m.fl THEN resend_syn(e, m)
                   ELSE SendTimed(congestion_rto_timeout(e), m)

RtoTimeout(i) ==
    LET d == timers[i][1]
    IN /\ ~crashed
       /\ IF net = <<>> /\ i = 1 THEN UNCHANGED faults ELSE Fault
       /\ Becomes(d, handle_rto_timer(ep[d], timers[i][2]), net, RemoveAt(timers, i))

\* The event holds the socket, not its addresses.
handle_time_wait_timeout(e) ==
    CASE e.st \in {"None", "NoTcb"} -> [e EXCEPT !.crash = TRUE]
      [] e.st \notin {"None", "NoTcb"} /\ e.twAgain -> [e EXCEPT !.twAgain = FALSE]
      [] OTHER -> delete_tcb(e)

TimeWaitTimeout(d) ==
    /\ ~crashed
    /\ ep[d].tw > 0
    /\ Becomes(d, handle_time_wait_timeout([ep[d] EXCEPT !.tw = @ - 1]), net, timers)
    /\ UNCHANGED faults

Receive == \E i \in DOMAIN net : HandleTransportIn(i)
Timer == \E i \in DOMAIN timers : RtoTimeout(i)
TimeWait == \E d \in {"c", "s"} : TimeWaitTimeout(d)

Next ==
    \/ HandleTransportOut
    \/ Receive
    \/ \E i \in DOMAIN net : Lose(i)
    \/ Timer
    \/ TimeWait

Spec == Init /\ [][Next]_vars /\ WF_vars(Receive \/ Timer \/ TimeWait)

-----------------------------------------------------------------------------
(* Properties *)

\* The application of the server receives packets in the order they were
\* generated and none twice, whatever is lost, overtaken or sent again
\* (check_segment, send_to_application).
InOrderOnce == \A i, j \in DOMAIN delivered : i < j => delivered[i] < delivered[j]

\* Neither end has opened a second socket.
OneSocket == \A d \in {"c", "s"} : ep[d].dials <= 1

\* A packet TCP took from the application is with the server's application
\* or still kept for retransmission at the client: an acknowledgement never
\* removes a segment that the server has not received, and no socket is
\* closed over unacknowledged data (delete_segment_from_queue, tcp_close).
\* When the server has given up and takes a late second SYN for a new
\* connection, the reset that ends it closes the client's socket as well.
NoneLost ==
    OneSocket => \A p \in 1..ep["c"].fetched :
        p \in ToSet(delivered) \/ \E m \in ep["c"].rq : m.pkt = p

\* An established sender can always go on: every unacknowledged segment has
\* its RTO event pending, and with none unacknowledged no packet is left in
\* the socket interface and the application's next one will be sent at once
\* (waitFromApp is set by send_segment and cleared by the arrival).
SenderAlive ==
    LET e == ep["c"]
    IN e.st = "Estab" /\ ~crashed =>
        /\ \A m \in e.rq : <<"c", m.seq>> \in ToSet(timers)
        /\ e.rq = {} => e.waitFromApp /\ e.avail = e.fetched

\* Device d lost its socket, after MaxSynRetries or by a reset, and may have
\* opened another one since.
GaveUp(d) == ep[d].dials > 1 \/ (ep[d].st = "None" /\ ep[d].dials > 0)

\* Retransmission gets every packet through in the end, unless an end gives
\* up the handshake (handle_rto_timer re-arms what it sends).
AllDelivered ==
    <>[](crashed \/ GaveUp("c") \/ GaveUp("s") \/ Len(delivered) = ep["c"].avail)
=============================================================================
