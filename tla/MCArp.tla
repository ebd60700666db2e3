------------------------------- MODULE MCArp -------------------------------
(***************************************************************************)
(* Three devices of one LAN; device 1 sends three packets to 2, device 2   *)
(* one to 3 by way of 1.                                                   *)
(***************************************************************************)
EXTENDS Arp

P(i, s, h, d) == [id |-> i, src |-> s, hop |-> h, dst |-> d]
Traffic == {P(1, 1, 2, 2), P(2, 1, 2, 2), P(3, 1, 2, 2), P(4, 2, 1, 3)}
=============================================================================
