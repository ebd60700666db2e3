-------------------------------- MODULE Arp --------------------------------
(***************************************************************************)
(* Address resolution (ARP/): the table, the packet buffer, the request    *)
(* flag and the retry count of every device, the request and reply packets *)
(* on a LAN that loses frames, and the timeout of a request.               *)
(*                                                                         *)
(* IP and MAC addresses are both named by their device: no address changes *)
(* during a simulation.  Events are kept with the ticks that are left      *)
(* until they are due, as in WlanMac, and with their event type, by which  *)
(* fn_NetSim_ARP_Run dispatches before it looks at the subevent.  The      *)
(* packet buffer is a bag: the packets for an address leave it together,   *)
(* in one handler.                                                         *)
(***************************************************************************)
EXTENDS Integers

CONSTANTS
    Dev,              \* the devices of the LAN
    Pkt,              \* packets to send, [id, src, hop, dst]
    ARP_RETRY_LIMIT,
    RetryInterval,    \* ARP_RETRY_INTERVAL in ticks
    Delay             \* ticks from the access buffer to the receivers

BROADCAST == 0

ASSUME ArpAssumption ==
    /\ ARP_RETRY_LIMIT \in Nat \ {0} /\ RetryInterval \in Nat \ {0} /\ Delay \in Nat
    /\ BROADCAST \notin Dev
    /\ \A p \in Pkt : p.src \in Dev /\ {p.hop, p.dst} \subseteq Dev \cup {BROADCAST}

VARIABLES
    arp,      \* ARP_VARIABLES of each device
    ev,       \* the pending events
    todo,     \* packets the network layer has not sent yet
    out,      \* packets that reached the access buffer of their interface
    dropped,  \* packets dropped at the retry limit
    unheard,  \* unheard[d][h]: requests d sent for h since it last heard of h
    lost      \* <<d, h>>: a request of d that reached h, or its reply, was lost

vars == <<arp, ev, todo, out, dropped, unheard, lost>>

NoPkt == [id |-> 0]
NoneBuffered == [p \in Pkt |-> 0]

Event(d, t, k, due, p, from) ==
    [dev |-> d, type |-> t, kind |-> k, due |-> due, pkt |-> p, from |-> from]
Rest(e) == {[x EXCEPT !.due = @ - e.due] : x \in ev \ {e}}
First(e) == e \in ev /\ \A x \in ev : e.due <= x.due

\* ARP_VARIABLES: the addresses in the table, the buffered packets, and
\* request flag and retry count by device.  fn_NetSim_ARP_Init_F is in the
\* compiled part of the library; UpdateArpTable.c does not store the head of
\* the list back, so the table is taken to start with the device's own entry.
ArpVariables(d) ==
    [table |-> {d}, buffer |-> NoneBuffered, pnArpRequestFlag |-> [h \in Dev |-> 0],
     pnArpRetryCount |-> [h \in Dev |-> 0]]

Init ==
    /\ arp = [d \in Dev |-> ArpVariables(d)]
    /\ ev = {}
    /\ todo = Pkt
    /\ out = {}
    /\ dropped = {}
    /\ unheard = [d \in Dev |-> [h \in Dev |-> 0]]
    /\ lost = {}

AddToTable(a, ip) == [a EXCEPT !.table = @ \cup {ip}]

read_table(a, ip) == ip = BROADCAST \/ ip \in a.table

Buffered(a, h) == {p \in Pkt : a.buffer[p] > 0 /\ p.hop = h}

Unbuffer_One(a, h) ==
    IF Buffered(a, h) = {} THEN a
    ELSE [a EXCEPT !.buffer[CHOOSE p \in Buffered(a, h) : TRUE] = 0]

Unbuffer(a, h) ==
    [a EXCEPT !.buffer = [p \in Pkt |-> IF p.hop = h THEN 0 ELSE a.buffer[p]]]

\* The retry count of h starts again, and the next packet may ask.
Reset_CountOnly(a, h) == [a EXCEPT !.pnArpRetryCount[h] = 0]
Reset_FlagOnly(a, h) == [a EXCEPT !.pnArpRequestFlag[h] = 0]
Reset(a, h) == [a EXCEPT !.pnArpRequestFlag[h] = 0, !.pnArpRetryCount[h] = 0]

-----------------------------------------------------------------------------
\* NETWORK_OUT: fn_NetSim_Read_ARP_Table for a packet of the network layer,
\* which may hand it down at any time.
Read_ARP_Table ==
    \E p \in todo, t \in 0..RetryInterval :
       LET a == arp[p.src]
           later == {[x EXCEPT !.due = @ - t] : x \in ev}
           wait == [a EXCEPT !.buffer[p] = @ + 1]
       IN  /\ \A x \in ev : t <= x.due
           /\ todo' = todo \ {p}
           /\ \/ /\ read_table(a, p.hop)
                 /\ out' = out \cup {p}
                 /\ ev' = later
                 /\ UNCHANGED arp
              \/ /\ ~read_table(a, p.hop)
                 /\ a.pnArpRequestFlag[p.hop] = 0
                 /\ arp' = [arp EXCEPT ![p.src] = [wait EXCEPT !.pnArpRequestFlag[p.hop] = 1]]
                 /\ ev' = later \cup {Event(p.src, "NETWORK_OUT", "GENERATE_ARP_REQUEST", 0, p, p.src)}
                 /\ UNCHANGED out
              \/ /\ ~read_table(a, p.hop)
                 /\ a.pnArpRequestFlag[p.hop] # 0
                 /\ arp' = [arp EXCEPT ![p.src] = wait]
                 /\ ev' = later
                 /\ UNCHANGED out
           /\ UNCHANGED <<dropped, unheard, lost>>

\* NETWORK_OUT of GENERATE_ARP_REQUEST.  The request asks for the next hop,
\* but flag and count are those of the packet's destination.
Generate_ARP_Request(e) ==
    LET d == e.dev
        p == e.pkt
    IN  /\ e.kind = "GENERATE_ARP_REQUEST"
        /\ arp' = [arp EXCEPT ![d].pnArpRequestFlag[p.dst] = 1,
                              ![d].pnArpRetryCount[p.dst] = @ + 1]
        /\ ev' = Rest(e)
             \cup {Event(d, "TIMER", "ARP_REQUEST_TIMEOUT", RetryInterval, p, d)}
             \cup {Event(r, "NETWORK_IN", "REQUEST_PACKET", Delay, p, d) : r \in Dev \ {d}}
        /\ unheard' = [unheard EXCEPT ![d][p.hop] = @ + 1]
        /\ UNCHANGED <<todo, out, dropped, lost>>

\* The timeout looks at flag and count of the next hop.  Below the limit it
\* makes its own event the retry: the subevent changes, the event type does
\* not.  At the limit it reads the head of the buffer without a test before
\* it drops the packets (see RoundOfFlag).
ARP_Request_Timeout(e) ==
    LET d == e.dev
        h == e.pkt.hop
        a == arp[d]
        reset == Reset(a, h)
    IN  /\ e.kind = "ARP_REQUEST_TIMEOUT"
        /\ \/ /\ h \in a.table
              /\ arp' = [arp EXCEPT ![d] = reset]
              /\ ev' = Rest(e)
              /\ UNCHANGED <<dropped, unheard>>
           \/ /\ h \notin a.table /\ a.pnArpRetryCount[h] < ARP_RETRY_LIMIT
              /\ arp' = [arp EXCEPT ![d].pnArpRequestFlag[h] = 0]
              /\ ev' = Rest(e) \cup {[e EXCEPT !.kind = "GENERATE_ARP_REQUEST", !.due = 0]}
              /\ UNCHANGED <<dropped, unheard>>
           \/ /\ h \notin a.table /\ a.pnArpRetryCount[h] >= ARP_RETRY_LIMIT
              /\ arp' = [arp EXCEPT ![d] = Unbuffer(reset, h)]
              /\ dropped' = dropped \cup Buffered(a, h)
              /\ unheard' = [unheard EXCEPT ![d][h] = 0]
              /\ ev' = Rest(e)
        /\ UNCHANGED <<todo, out, lost>>

\* TIMER_EVENT has no case for the retry, which is the end of it.
RetryIgnored(e) ==
    /\ e.kind = "GENERATE_ARP_REQUEST"
    /\ ev' = Rest(e)
    /\ UNCHANGED <<arp, todo, out, dropped, unheard, lost>>

\* NETWORK_IN of a request: the device asked for answers, any other learns
\* the sender's address.
CheckDestinationDevice(e) ==
    /\ e.kind = "REQUEST_PACKET"
    /\ \/ /\ e.dev = e.pkt.hop
          /\ ev' = Rest(e) \cup {[e EXCEPT !.kind = "GENERATE_ARP_REPLY", !.due = 0]}
          /\ UNCHANGED arp
       \/ /\ e.dev # e.pkt.hop
          /\ ev' = Rest(e)
          /\ arp' = [arp EXCEPT ![e.dev] = AddToTable(arp[e.dev], e.from)]
    /\ UNCHANGED <<todo, out, dropped, unheard, lost>>

Generate_ARP_Reply(e) ==
    /\ e.kind = "GENERATE_ARP_REPLY"
    /\ arp' = [arp EXCEPT ![e.dev] = AddToTable(arp[e.dev], e.from)]
    /\ ev' = Rest(e)
         \cup {Event(e.from, "NETWORK_IN", "REPLY_PACKET", Delay, NoPkt, e.dev)}
    /\ UNCHANGED <<todo, out, dropped, unheard, lost>>

\* NETWORK_IN of a reply, and the subevent UPDATE_ARP_TABLE_FWD_PKT it adds:
\* the table is extended and the packets that waited for the sender go out.
ReplyIn(e) ==
    /\ e.kind = "REPLY_PACKET"
    /\ ev' = Rest(e) \cup {[e EXCEPT !.kind = "UPDATE_ARP_TABLE_FWD_PKT", !.due = 0]}
    /\ UNCHANGED <<arp, todo, out, dropped, unheard, lost>>

Update_ARP_Table_ForwardPacket_IfAsked(e) ==
    LET d == e.dev
        h == e.from
        a == arp[d]
        asked == a.pnArpRequestFlag[h] # 0
    IN  /\ e.kind = "UPDATE_ARP_TABLE_FWD_PKT"
        /\ out' = IF asked THEN out \cup Buffered(a, h) ELSE out
        /\ arp' = IF asked
                  THEN [arp EXCEPT ![d] =
                          [Unbuffer(AddToTable(a, h), h) EXCEPT !.pnArpRequestFlag[h] = 0]]
                  ELSE arp
        /\ unheard' = [unheard EXCEPT ![d][h] = 0]
        /\ ev' = Rest(e)
        /\ UNCHANGED <<todo, dropped, lost>>

Update_ARP_Table_ForwardPacket(e) ==
    LET d == e.dev
        h == e.from
    IN  /\ e.kind = "UPDATE_ARP_TABLE_FWD_PKT"
        /\ out' = out \cup Buffered(arp[d], h)
        /\ arp' = [arp EXCEPT ![d] =
                     [Unbuffer(AddToTable(arp[d], h), h) EXCEPT !.pnArpRequestFlag[h] = 0]]
        /\ unheard' = [unheard EXCEPT ![d][h] = 0]
        /\ ev' = Rest(e)
        /\ UNCHANGED <<todo, dropped, lost>>

\* The LAN may lose a frame at one of its receivers.
Lose(e) ==
    /\ \/ /\ e.kind = "REQUEST_PACKET" /\ e.dev = e.pkt.hop
          /\ lost' = lost \cup {<<e.from, e.dev>>}
       \/ /\ e.kind = "REQUEST_PACKET" /\ e.dev # e.pkt.hop
          /\ UNCHANGED lost
       \/ /\ e.kind = "REPLY_PACKET"
          /\ lost' = lost \cup {<<e.dev, e.from>>}
    /\ ev' = Rest(e)
    /\ UNCHANGED <<arp, todo, out, dropped, unheard>>

\* fn_NetSim_ARP_Run, and the frames it does not get.
Step ==
    \E e \in ev :
       /\ First(e)
       /\ \/ e.type = "NETWORK_OUT" /\ Generate_ARP_Request(e)
          \/ e.type = "TIMER" /\ (ARP_Request_Timeout(e) \/ RetryIgnored(e))
          \/ /\ e.type = "NETWORK_IN"
             /\ \/ CheckDestinationDevice(e) \/ Generate_ARP_Reply(e)
                \/ ReplyIn(e) \/ Update_ARP_Table_ForwardPacket(e) \/ Lose(e)

Next == Read_ARP_Table \/ Step

Spec == Init /\ [][Next]_vars
FairSpec == Spec /\ WF_vars(Step)

-----------------------------------------------------------------------------
\* Every packet handed down to ARP is in exactly one place: the buffer, the
\* access buffer of its interface, or the drop count.  Late replies, new
\* requests and drops for one address may interleave.
PacketsAccounted ==
    \A p \in Pkt \ todo :
       arp[p.src].buffer[p] + (IF p \in out THEN 1 ELSE 0)
                            + (IF p \in dropped THEN 1 ELSE 0) = 1

Waiting(d) == {p \in Pkt : arp[d].buffer[p] > 0}

\* The packets of d whose destination is h have it as their next hop.
\* Generate_ARP_Request keeps flag and count by destination, everything else
\* by next hop: flag and count of h are h's own only under this condition.
Direct(d, h) == \A p \in Pkt : p.src = d /\ p.dst = h => p.hop = h

\* The request of d for h that is about to be sent, or its timeout.
Round(d, h) ==
    {e \in ev : /\ \/ e.kind = "GENERATE_ARP_REQUEST" /\ e.type = "NETWORK_OUT"
                   \/ e.kind = "ARP_REQUEST_TIMEOUT"
                /\ e.dev = d /\ e.pkt.hop = h}

\* As long as the address is not known, the request flag, which keeps other
\* packets from asking, is set while exactly one request is outstanding, and
\* a packet waits for it: so a packet that comes after the end of a request
\* asks again, and the timeout at the limit finds the buffer filled, whose
\* head it reads without a test (RequestTimeOut.c:118).
RoundOfFlag ==
    \A d \in Dev : \A h \in Dev \ arp[d].table :
       \/ /\ Round(d, h) = {}
          /\ Direct(d, h) => arp[d].pnArpRequestFlag[h] = 0
       \/ /\ \E e \in ev : Round(d, h) = {e}
          /\ arp[d].pnArpRequestFlag[h] = 1
          /\ \E p \in Waiting(d) : p.hop = h

\* GenerateArpRequest.c, "If you got the reply, farward the buffered packet,
\* else drop the buffered packets": packets are dropped only when the device
\* has asked ARP_RETRY_LIMIT times, once for each packet that came when no
\* request was outstanding, and has heard nothing since.
DropEarned ==
    [][\A p \in dropped' \ dropped :
          Direct(p.src, p.hop) => unheard[p.src][p.hop] >= ARP_RETRY_LIMIT]_vars

\* Only the loss of a request or of its reply leaves a packet in the buffer:
\* neither a reply that comes with the timeout or after it, nor an address
\* learnt from the other's own request before the reply is there.
EventuallySent ==
    \A p \in Pkt : Direct(p.src, p.hop) =>
       (p \in Waiting(p.src) ~> p \in out \/ <<p.src, p.hop>> \in lost)

\* GenerateArpRequest.c: "buffer the packet till you get reply or
\* RequestSentCount reaches  ARP_RETRY_LIMIT."  As long as a packet is in the
\* buffer, a request for its address or its retry is pending.
BufferedTillDecided ==
    \A d \in Dev : \A p \in Waiting(d) :
       \E e \in ev : /\ e.kind \in {"GENERATE_ARP_REQUEST", "ARP_REQUEST_TIMEOUT"}
                      /\ e.dev = d /\ e.pkt.hop = p.hop
=============================================================================
