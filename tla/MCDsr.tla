------------------------------- MODULE MCDsr -------------------------------
EXTENDS Dsr

Sym(S) == S \cup {<<l[2], l[1]>> : l \in S}

\* Three devices in range of each other; the link between 1 and 3 may break
\* and leaves the route over 2.
Triangle == Sym({<<1, 2>>, <<2, 3>>, <<1, 3>>})
OneBreaks == {<<1, 3>>}
Stream == {[id |-> 1, src |-> 1, dst |-> 3], [id |-> 2, src |-> 1, dst |-> 3],
           [id |-> 3, src |-> 2, dst |-> 3]}
TwoTargets == {[id |-> 1, src |-> 1, dst |-> 3], [id |-> 2, src |-> 1, dst |-> 2]}
============================================================================
