----------------------------- MODULE RouteCache -----------------------------
(***************************************************************************)
(* What the route table of a device promises, without events, packets or   *)
(* flags: a soft-state cache.  An entry stays for at least                 *)
(* ACTIVE_ROUTE_TIMEOUT, its deadline only moves into the future, its      *)
(* sequence number never goes back, its next hop is fixed for as long as   *)
(* it lives, and it is gone once its deadline has passed.                  *)
(***************************************************************************)
EXTENDS Integers

CONSTANTS Node, ACTIVE_ROUTE_TIMEOUT

VARIABLES
    now,     \* the simulation clock
    cache    \* destination -> [seq, next, life]

vars == <<now, cache>>

CacheEntry == [seq: Nat, next: Node, life: Nat]

Init == /\ now = 0
        /\ cache = [d \in {} |-> 0]

\* A message or a data packet installs and refreshes any number of routes.
Learn ==
    /\ now' = now
    /\ DOMAIN cache \subseteq DOMAIN cache'
    /\ DOMAIN cache' \subseteq Node
    /\ cache' \in [DOMAIN cache' -> CacheEntry]
    /\ \A d \in DOMAIN cache :
          /\ cache'[d].next = cache[d].next
          /\ cache'[d].seq >= cache[d].seq
          /\ cache'[d].life >= cache[d].life
    /\ \A d \in DOMAIN cache' \ DOMAIN cache :
          cache'[d].life >= now + ACTIVE_ROUTE_TIMEOUT

\* A route is forgotten at its deadline.
Forget(d) ==
    /\ cache[d].life = now
    /\ cache' = [e \in DOMAIN cache \ {d} |-> cache[e]]
    /\ now' = now

\* The clock does not move past the deadline of a cached route.
Tick == /\ now' \in Nat
        /\ now' > now
        /\ \A d \in DOMAIN cache : now' <= cache[d].life
        /\ cache' = cache

Next == Learn \/ (\E d \in DOMAIN cache : Forget(d)) \/ Tick

Spec == Init /\ [][Next]_vars
=============================================================================
