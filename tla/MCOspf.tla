------------------------------- MODULE MCOspf -------------------------------
(***************************************************************************)
(* Instance of Ospf: two routers over one link, whose clocks give the same *)
(* first sequence number.                                                  *)
(***************************************************************************)
EXTENDS Ospf

PairLink == {{1, 2}}

Clock == [r \in Router |-> 1]
=============================================================================
