----------------------------- MODULE MCSendPath -----------------------------
(* Small instances of SendPath: two units to a datagram. *)
EXTENDS SendPath
=============================================================================
