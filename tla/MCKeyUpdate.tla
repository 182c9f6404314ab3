---------------------------- MODULE MCKeyUpdate ----------------------------
(* Model checking instance of KeyUpdate. *)
EXTENDS KeyUpdate
=============================================================================
