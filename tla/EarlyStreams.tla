---------------------------- MODULE EarlyStreams ----------------------------
(***************************************************************************)
(* Streams of a client that sends 0-RTT data.  Until its handshake         *)
(* completes it runs under the limits it remembers with the ticket         *)
(* (Connection.connect); then it takes over the fresh ones                 *)
(* (update_peer_limits), and sends again what a server that refused 0-RTT  *)
(* never read (_on_handshake_complete).  A HelloRetryRequest withdraws the *)
(* offer: the early keys are gone on both sides, and what was sent stays   *)
(* with loss detection.  The server's own limits are the fresh ones from   *)
(* the start.                                                              *)
(***************************************************************************)
EXTENDS Streams, SequencesExt

CONSTANTS
    Remembered,         \* limits remembered: stream_data, data, streams
    Answers             \* how the server may answer the offer of 0-RTT

ASSUME EarlyConstants ==
    /\ Remembered \in [stream_data : Nat, data : Nat, streams : Nat]
    /\ Answers \subseteq {"accepted", "rejected", "retried"}

VARIABLES
    answer,             \* the server's answer to the offer
    complete            \* the client's handshake is complete

earlyVars == <<answer, complete>>
allVars == <<vars, earlyVars>>

\* reduces_zero_rtt_limits
Reduces ==
    \/ DataWindow < Remembered.data
    \/ StreamWindow < Remembered.stream_data
    \/ StreamsWindow < Remembered.streams

\* connect: the streams exist, with the remembered limits.  A server accepts
\* only when it reduces none of them.
EarlyInit ==
    /\ answer \in {a \in Answers : a = "accepted" => ~Reduces}
    /\ complete = FALSE
    /\ snd = [s \in Stream |-> NewSendStream(Remembered.stream_data)]
    /\ next_sequence = 0
    /\ written = [s \in Stream |-> 0]
    /\ max_data = Remembered.data /\ data_sent = 0
    /\ max_streams = Remembered.streams
    /\ ReceiverInit
    /\ packets = [p \in Slot |-> Free]
    /\ losses = 0

\* Before the handshake completes nothing of the server's is read at this level,
\* and only a server that accepted has the keys of what it receives.
EarlyStep ==
    /\ ~complete
    /\ \/ Application
       \/ \E s \in Stream, room \in Rooms : SendStreamFrame(s, room)
       \/ \E p \in DataSlots : answer = "accepted" /\ DeliverStreamFrame(p)
       \/ SendLimit
       \/ \E p \in Slot : Drop(p)
       \/ Probe
    /\ UNCHANGED earlyVars

\* update_peer_limits: a stream already open keeps the larger of its two limits.
Adopt(s) ==
    IF s < next_sequence THEN OnMaxStreamData(snd[s], StreamWindow)
    ELSE NewSendStream(StreamWindow)

\* restart_space: everything sent is queued again, in the order it was sent.
Restarted(streams) ==
    FoldLeft(RequeueFrame, streams, SetToSortSeq(Outstanding(DataSlots), <))

\* A packet the server has no keys for is never read.
Remains(p) ==
    IF p \notin DataSlots \/ answer = "accepted" THEN packets[p]
    ELSE IF answer = "retried" /\ packets[p].outstanding
         THEN [packets[p] EXCEPT !.at = "gone"]
    ELSE Free

\* Mutant: what was refused is left to loss detection, which never sees it.
OnHandshakeCompleteNoRestart ==
    /\ ~complete
    /\ complete' = TRUE
    /\ max_data' = DataWindow
    /\ max_streams' = StreamsWindow
    /\ snd' = [s \in Stream |-> Adopt(s)]
    /\ packets' = [p \in Slot |-> Remains(p)]
    /\ UNCHANGED <<next_sequence, written, data_sent, receiverVars, losses, answer>>

\* Mutant: what is sent again is not charged to the connection any more.
OnHandshakeCompleteUncharged ==
    /\ ~complete
    /\ complete' = TRUE
    /\ max_data' = DataWindow
    /\ max_streams' = StreamsWindow
    /\ LET adopted == [s \in Stream |-> Adopt(s)]
       IN  snd' = IF answer = "rejected" THEN Restarted(adopted) ELSE adopted
    /\ packets' = [p \in Slot |-> Remains(p)]
    /\ data_sent' = IF answer = "rejected" THEN 0 ELSE data_sent
    /\ UNCHANGED <<next_sequence, written, receiverVars, losses, answer>>

OnHandshakeComplete ==
    /\ ~complete
    /\ complete' = TRUE
    /\ max_data' = DataWindow
    /\ max_streams' = StreamsWindow
    /\ LET adopted == [s \in Stream |-> Adopt(s)]
       IN  snd' = IF answer = "rejected" THEN Restarted(adopted) ELSE adopted
    /\ packets' = [p \in Slot |-> Remains(p)]
    /\ UNCHANGED <<next_sequence, written, data_sent, receiverVars, losses, answer>>

EarlyNext ==
    /\ error = "none"
    /\ \/ EarlyStep
       \/ OnHandshakeComplete
       \/ complete /\ Next /\ UNCHANGED earlyVars

\* The handshake completes, and then as in Streams.
EarlySpec ==
    /\ EarlyInit /\ [][EarlyNext]_allVars
    /\ WF_allVars(error = "none" /\ OnHandshakeComplete)
    /\ WF_allVars(complete /\ error = "none" /\ Protocol /\ UNCHANGED earlyVars)

-----------------------------------------------------------------------------
\* Once the handshake is complete the client believes in no more credit than its
\* server has given it: "after a rejection the fresh values simply replace the
\* remembered ones".
FreshLimitsReplace ==
    complete =>
        /\ max_data <= local_max_data
        /\ max_streams <= local_max_streams
        /\ \A s \in Stream : snd[s].max_stream_data <= rcv[s].max_stream_data
=============================================================================
