------------------------------ MODULE MCServer ------------------------------
(* A small instance of Server. *)
EXTENDS Server, TLC

Lifetimes == [kind \in {"RETRY", "NEW"} |-> IF kind = "RETRY" THEN 0 ELSE 1]

\* No port is told from another.
AnyPort == Permutations(Ports)
=============================================================================
