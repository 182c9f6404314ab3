---------------------------- MODULE MCLifecycle -----------------------------
(* A small instance of Lifecycle. *)
EXTENDS Lifecycle

IdleTimeout == [e \in End |-> IF e = "client" THEN 2 ELSE 4]

SomeDelays == [e \in End |-> IF e = "client" THEN {1} ELSE {}]
=============================================================================
