----------------------------- MODULE MCWlanMac -----------------------------
(***************************************************************************)
(* Three stations in a line, the outer two hidden from each other.         *)
(***************************************************************************)
EXTENDS WlanMac

Line == [s \in 1..3 |-> CASE s = 1 -> {1, 2} [] s = 2 -> {1, 2, 3} [] s = 3 -> {2, 3}]

P(i, s, d, z) == [id |-> i, src |-> s, dst |-> d, size |-> z]

\* Two hidden senders to the station between them; a sender with two packets
\* beside a hidden broadcast; two stations that send to each other.
Pkts == {P(1, 1, 2, "above"), P(2, 1, 2, "below"), P(3, 2, 1, "at"),
         P(4, 3, 2, "below"), P(5, 3, BROADCAST, "below")}
Traffic == {{p \in Pkts : p.id \in ids} : ids \in {{1, 4}, {1, 2, 5}, {1, 3}}}
=============================================================================
