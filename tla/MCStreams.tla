----------------------------- MODULE MCStreams ------------------------------
(* Three streams, two of which may be open at a time. *)
EXTENDS Streams, TLC

ThreeStreams == 0 :> <<1>> @@ 1 :> <<2>> @@ 2 :> <<>>
=============================================================================
