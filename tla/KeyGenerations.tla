---------------------------- MODULE KeyGenerations ----------------------------
(***************************************************************************)
(* What 1-RTT key update promises, whatever the network does: each endpoint *)
(* moves through the generations one at a time, and moves on only while it *)
(* is not already ahead of the other one.                                  *)
(***************************************************************************)
EXTENDS Integers

CONSTANTS Endpoint, Peer(_)

VARIABLE gen    \* gen[e]: the generation endpoint e sends with

Init == gen = [e \in Endpoint |-> 0]

Advance(e) ==
    /\ gen[e] <= gen[Peer(e)]
    /\ gen' = [gen EXCEPT ![e] = @ + 1]

Next == \E e \in Endpoint : Advance(e)

Spec == Init /\ [][Next]_gen
=============================================================================
