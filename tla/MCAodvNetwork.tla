--------------------------- MODULE MCAodvNetwork ---------------------------
(***************************************************************************)
(* The scenarios TLC runs: a pair of devices and a line of three.          *)
(***************************************************************************)
EXTENDS AodvNetwork

CONSTANTS a, b, c

Both(pairs) == pairs \cup {<<p[2], p[1]>> : p \in pairs}

PairLink == Both({<<a, b>>})
LineLink == Both({<<a, b>>, <<b, c>>})

OneFlow == {<<a, b, 0>>}
LadderFlow == {<<a, b, 0>>, <<b, a, 30>>, <<a, b, 40>>}
MergeFlow == {<<a, c, 0>>, <<b, c, 0>>}
=============================================================================
