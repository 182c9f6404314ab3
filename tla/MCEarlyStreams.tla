--------------------------- MODULE MCEarlyStreams ---------------------------
(* Small instances of EarlyStreams. *)
EXTENDS EarlyStreams

OneStream == 0 :> <<1, 2, 3, 4>>

Smaller == [stream_data |-> 1, data |-> 1, streams |-> 1]
LargerStream == [stream_data |-> 2, data |-> 2, streams |-> 2]
=============================================================================
