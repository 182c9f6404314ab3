----------------------------- MODULE MCRecovery -----------------------------
(* Model checking instances of Recovery. *)
EXTENDS Recovery

\* One busy application space.
AppPackets == [l \in Level |-> IF l = "ONE_RTT" THEN 4 ELSE 0]

\* All three spaces, a few packets each.
HandshakePackets == [l \in Level |-> IF l = "HANDSHAKE" THEN 2 ELSE 1]
=============================================================================
