------------------------------ MODULE Streams -------------------------------
(***************************************************************************)
(* One endpoint sends on the streams it opens, its peer receives: the      *)
(* StreamManager of each (streams.py), and what Connection does with their *)
(* frames (_handle_stream, _handle_ack, _handle_limit, _requeue_lost), over*)
(* a network that loses and reorders packets.                              *)
(*                                                                         *)
(* A packet carries one frame and is received at most once, since a packet *)
(* number seen before is dropped.  It may be declared lost although it     *)
(* arrives, or its acknowledgement does not: losses counts every drop,     *)
(* every such false alarm and every probe, up to MaxLosses.  A packet      *)
(* dropped is declared lost in the end, which is what Recovery is about.   *)
(* Streams are numbered by their sequence, stream_id >> 2.                 *)
(***************************************************************************)
EXTENDS StreamHalves

CONSTANTS
    Content,            \* what the application has to write, per stream
    StreamWindow,       \* receiver's initial_max_stream_data_bidi_remote
    DataWindow,         \* receiver's initial_max_data
    StreamsWindow,      \* receiver's initial_max_streams_bidi
    Rooms,              \* room for a STREAM frame's data in a packet
    DataSlots,          \* bound: packets under way with stream data
    LimitSlots,         \* bound: packets under way with limits
    MaxLosses           \* bound: drops, false alarms and probes

Stream == DOMAIN Content
Slot == DataSlots \cup LimitSlots

ASSUME StreamsConstants ==
    /\ Stream \subseteq Nat /\ IsFiniteSet(Stream)
    /\ \A s \in Stream : Content[s] \in Seq(Nat)
    /\ {StreamWindow, DataWindow, StreamsWindow, MaxLosses} \subseteq Nat
    /\ Rooms \subseteq Nat \ {0}
    /\ DataSlots \cup LimitSlots \subseteq Nat /\ DataSlots \cap LimitSlots = {}

VARIABLES
    \* the sender
    snd,                \* SendStream of each stream
    next_sequence,      \* streams opened
    written,            \* bytes of Content handed to write
    max_data, data_sent,
    max_streams,        \* max_streams_bidi
    \* the receiver
    rcv,                \* RecvStream of each stream
    known,              \* streams it has created
    local_max_data, data_received,
    local_max_streams,  \* local_max_streams_bidi
    control_frames,     \* limits queued
    delivered,          \* data of the StreamDataReceived events, per stream
    ended,              \* events with end_stream, per stream
    error,              \* what on_stream_frame raised
    \* the network
    packets,
    losses

senderVars == <<snd, next_sequence, written, max_data, data_sent, max_streams>>
receiverVars == <<rcv, known, local_max_data, data_received, local_max_streams,
                  control_frames, delivered, ended, error>>
vars == <<senderVars, receiverVars, packets, losses>>

\* A packet: whether the loss detector still holds it, where it is, and the
\* frame it carries, with its stream.
Free == [outstanding |-> FALSE, at |-> "gone", stream |-> 0, frame |-> "none"]

ReceiverInit ==
    /\ rcv = [s \in Stream |-> NewRecvStream(StreamWindow)]
    /\ known = {}
    /\ local_max_data = DataWindow /\ data_received = 0
    /\ local_max_streams = StreamsWindow
    /\ control_frames = <<>>
    /\ delivered = [s \in Stream |-> <<>>]
    /\ ended = [s \in Stream |-> 0]
    /\ error = "none"

Init ==
    /\ snd = [s \in Stream |-> NewSendStream(StreamWindow)]
    /\ next_sequence = 0
    /\ written = [s \in Stream |-> 0]
    /\ max_data = DataWindow /\ data_sent = 0
    /\ max_streams = StreamsWindow
    /\ ReceiverInit
    /\ packets = [p \in Slot |-> Free]
    /\ losses = 0

-----------------------------------------------------------------------------
(* The sending application. *)

OpenStream ==
    /\ next_sequence < max_streams
    /\ next_sequence \in Stream
    /\ next_sequence' = next_sequence + 1
    /\ UNCHANGED <<snd, written, max_data, data_sent, max_streams, receiverVars,
                   packets, losses>>

SendStreamData(s, n, fin) ==
    /\ s < next_sequence
    /\ ~snd[s].fin_queued
    /\ n > 0 \/ fin
    /\ written[s] + n <= Len(Content[s])
    /\ snd' = [snd EXCEPT ![s] =
                  Write(@, SubSeq(Content[s], written[s] + 1, written[s] + n), fin)]
    /\ written' = [written EXCEPT ![s] = @ + n]
    /\ UNCHANGED <<next_sequence, max_data, data_sent, max_streams, receiverVars,
                   packets, losses>>

-----------------------------------------------------------------------------
(* Packets. *)

Outstanding(slots) == {p \in slots : packets[p].outstanding}

\* A packet leaves, in the first free slot.
Depart(slots, s, frame) ==
    LET free == {p \in slots : packets[p] = Free}
    IN  /\ free # {}
        /\ packets' = [packets EXCEPT ![Min(free)] =
               [outstanding |-> TRUE, at |-> "transit", stream |-> s,
                frame |-> frame]]

\* A slot is free again when the packet is neither under way nor remembered.
Becomes(p, outstanding, at) ==
    packets' = [packets EXCEPT ![p] =
        IF ~outstanding /\ at # "transit" THEN Free
        ELSE [outstanding |-> outstanding, at |-> at,
              stream |-> packets[p].stream, frame |-> packets[p].frame]]

SendStreamFrame(s, room) ==
    LET credit == max_data - data_sent
    IN  /\ s < next_sequence
        /\ HasFrame(snd[s], room, credit)
        /\ Depart(DataSlots, s, NextFrame(snd[s], room, credit))
        /\ snd' = [snd EXCEPT ![s] = AfterFrame(@, room, credit)]
        /\ data_sent' = data_sent + snd'[s].highest_offset_sent
                                  - snd[s].highest_offset_sent
        /\ UNCHANGED <<next_sequence, written, max_data, max_streams, receiverVars,
                       losses>>

SendLimit ==
    /\ control_frames # <<>>
    /\ Depart(LimitSlots, Head(control_frames).stream, Head(control_frames))
    /\ control_frames' = Tail(control_frames)
    /\ UNCHANGED <<senderVars, rcv, known, local_max_data, data_received,
                   local_max_streams, delivered, ended, error, losses>>

Drop(p) ==
    /\ packets[p].at = "transit"
    /\ losses < MaxLosses
    /\ losses' = losses + 1
    /\ Becomes(p, packets[p].outstanding, "gone")
    /\ UNCHANGED <<senderVars, receiverVars>>

-----------------------------------------------------------------------------
(* Receiving a STREAM frame. *)

Limit(kind, s, maximum) == [kind |-> kind, stream |-> s, maximum |-> maximum]

\* The bytes of all streams from one offset up to another, as pairs of stream and
\* offset.  Sums over the streams are counts of such pairs.
BytesBetween(from, to) == UNION {{s} \X (from[s] .. to[s] - 1) : s \in Stream}

Start == [s \in Stream |-> 0]
HighestOffset(streams) == [s \in Stream |-> streams[s].highest_offset]
ReadOffset(streams) == [s \in Stream |-> streams[s].read_offset]

\* The sum of the read offsets.
Consumed(streams) == Cardinality(BytesBetween(Start, ReadOffset(streams)))

\* max_data_update.
MaxDataUpdate(consumed) ==
    IF 2 * (local_max_data - consumed) >= DataWindow THEN local_max_data
    ELSE consumed + DataWindow

\* max_streams_update.
MaxStreamsUpdate(opened, closed) ==
    IF 2 * (local_max_streams - opened) >= StreamsWindow THEN local_max_streams
    ELSE Max({local_max_streams, closed + StreamsWindow})

\* The frame is refused: a stream beyond the limit, a frame its stream refuses,
\* or more data than the connection allows.
StreamError(s, f) ==
    LET more == Max({rcv[s].highest_offset, End(f)}) - rcv[s].highest_offset
    IN  IF s \notin known /\ s >= local_max_streams THEN "STREAM_LIMIT_ERROR"
        ELSE IF FrameError(rcv[s], f) # "none" THEN FrameError(rcv[s], f)
        ELSE IF data_received + more > local_max_data THEN "FLOW_CONTROL_ERROR"
        ELSE "none"

\* _handle_stream with _maybe_extend_credit, for the stream once the frame is in
\* it and once it was read: what was read is reported, and limits that moved
\* are queued.
HandleStream(s, got, read) ==
    LET data == ReadData(got)
        streams == [rcv EXCEPT ![s] = Extended(read)]
        opened == known \cup {s}
        closed == {t \in opened : streams[t].state = "DATA_READ"}
        fully_read == read.state = "DATA_READ"
        reported == data # <<>> \/ (fully_read /\ got.state # "DATA_READ")
        data_limit == MaxDataUpdate(Consumed(streams))
        streams_limit == MaxStreamsUpdate(Cardinality(opened), Cardinality(closed))
        when(moved, limit) == IF moved THEN <<limit>> ELSE <<>>
    IN  /\ rcv' = streams
        /\ known' = opened
        /\ data_received' = data_received + got.highest_offset
                                          - rcv[s].highest_offset
        /\ local_max_data' = data_limit
        /\ local_max_streams' = streams_limit
        /\ delivered' = [delivered EXCEPT ![s] = @ \o data]
        /\ ended' = [ended EXCEPT ![s] = IF reported /\ fully_read THEN @ + 1 ELSE @]
        /\ control_frames' = control_frames
               \o when(Extends(read),
                       Limit("MAX_STREAM_DATA", s, streams[s].max_stream_data))
               \o when(data_limit # local_max_data, Limit("MAX_DATA", 0, data_limit))
               \o when(streams_limit # local_max_streams,
                       Limit("MAX_STREAMS", 0, streams_limit))
        /\ UNCHANGED error

\* An error closes the connection; nothing else of the frame matters then.
DeliverStreamFrame(p) ==
    LET s == packets[p].stream
        f == packets[p].frame
    IN  /\ packets[p].at = "transit"
        /\ Becomes(p, packets[p].outstanding, "arrived")
        /\ IF StreamError(s, f) = "none"
           THEN \E got \in {OnStreamFrame(rcv[s], f)} : \E read \in {Read(got)} :
                   HandleStream(s, got, read)
           ELSE /\ error' = StreamError(s, f)
                /\ UNCHANGED <<rcv, known, local_max_data, data_received,
                               local_max_streams, control_frames, delivered, ended>>
        /\ UNCHANGED <<senderVars, losses>>

-----------------------------------------------------------------------------
(* Limits, acknowledgements and losses. *)

\* _handle_limit at the sender.
DeliverLimit(p) ==
    LET limit == packets[p].frame
        s == packets[p].stream
    IN  /\ packets[p].at = "transit"
        /\ Becomes(p, packets[p].outstanding, "arrived")
        /\ snd' = IF limit.kind = "MAX_STREAM_DATA"
                  THEN [snd EXCEPT ![s] = OnMaxStreamData(@, limit.maximum)] ELSE snd
        /\ max_data' = IF limit.kind = "MAX_DATA"
                       THEN Max({max_data, limit.maximum}) ELSE max_data
        /\ max_streams' = IF limit.kind = "MAX_STREAMS"
                          THEN Max({max_streams, limit.maximum}) ELSE max_streams
        /\ UNCHANGED <<next_sequence, written, data_sent, receiverVars, losses>>

\* _requeue_lost: a STREAM frame as it was, a limit with its current value.
RequeueFrame(streams, p) ==
    [streams EXCEPT ![packets[p].stream] = Requeue(@, packets[p].frame)]

CurrentLimit(limit) ==
    Limit(limit.kind, limit.stream,
          CASE limit.kind = "MAX_STREAM_DATA" -> rcv[limit.stream].max_stream_data
            [] limit.kind = "MAX_DATA" -> local_max_data
            [] limit.kind = "MAX_STREAMS" -> local_max_streams)

\* An acknowledgement that reports the packet reaches its sender.
Acknowledge(p) ==
    /\ packets[p].outstanding /\ packets[p].at = "arrived"
    /\ Becomes(p, FALSE, "arrived")
    /\ snd' = IF p \in DataSlots
              THEN [snd EXCEPT ![packets[p].stream] =
                       OnFrameAcked(@, packets[p].frame)]
              ELSE snd
    /\ UNCHANGED <<next_sequence, written, max_data, data_sent, max_streams,
                   receiverVars, losses>>

\* A packet that was dropped costs nothing more; any other is a false alarm.
CountAlarm(p) ==
    IF packets[p].at = "gone" THEN losses' = losses
    ELSE losses < MaxLosses /\ losses' = losses + 1

\* Mutant: a lost limit is not sent again.
DeclareLostForgetsLimits(p) ==
    /\ packets[p].outstanding
    /\ CountAlarm(p)
    /\ Becomes(p, FALSE, packets[p].at)
    /\ snd' = IF p \in DataSlots THEN RequeueFrame(snd, p) ELSE snd
    /\ UNCHANGED <<next_sequence, written, max_data, data_sent, max_streams,
                   receiverVars>>

DeclareLost(p) ==
    /\ packets[p].outstanding
    /\ CountAlarm(p)
    /\ Becomes(p, FALSE, packets[p].at)
    /\ IF p \in DataSlots
       THEN snd' = RequeueFrame(snd, p) /\ UNCHANGED control_frames
       ELSE /\ control_frames' = Append(control_frames, CurrentLimit(packets[p].frame))
            /\ UNCHANGED snd
    /\ UNCHANGED <<next_sequence, written, max_data, data_sent, max_streams, rcv,
                   known, local_max_data, data_received, local_max_streams,
                   delivered, ended, error>>

\* A PTO with nothing queued sends one or two outstanding packets' frames again
\* and keeps the packets (_prepare_probe).
Probe ==
    /\ \A s \in Stream : ~HasPending(snd[s])
    /\ losses < MaxLosses
    /\ losses' = losses + 1
    /\ \E p, q \in Outstanding(DataSlots) :
          snd' = IF p = q THEN RequeueFrame(snd, p)
                 ELSE RequeueFrame(RequeueFrame(snd, p), q)
    /\ UNCHANGED <<next_sequence, written, max_data, data_sent, max_streams,
                   receiverVars, packets>>

ProbeLimits ==
    /\ control_frames = <<>>
    /\ losses < MaxLosses
    /\ losses' = losses + 1
    /\ \E p, q \in Outstanding(LimitSlots) :
          control_frames' =
              <<CurrentLimit(packets[p].frame)>>
              \o (IF p = q THEN <<>> ELSE <<CurrentLimit(packets[q].frame)>>)
    /\ UNCHANGED <<senderVars, rcv, known, local_max_data, data_received,
                   local_max_streams, delivered, ended, error, packets>>

-----------------------------------------------------------------------------
Application ==
    \/ OpenStream
    \/ \E s \in Stream : \E n \in 0 .. Len(Content[s]), fin \in BOOLEAN :
          SendStreamData(s, n, fin)

\* What the endpoints and the network do of themselves.
Protocol ==
    \/ \E s \in Stream, room \in Rooms : SendStreamFrame(s, room)
    \/ SendLimit
    \/ \E p \in DataSlots : DeliverStreamFrame(p)
    \/ \E p \in LimitSlots : DeliverLimit(p)
    \/ \E p \in Slot : Acknowledge(p)
    \/ \E p \in Slot : packets[p].at = "gone" /\ DeclareLost(p)

Trouble ==
    \/ \E p \in Slot : Drop(p)
    \/ \E p \in Slot : packets[p].at # "gone" /\ DeclareLost(p)
    \/ Probe
    \/ ProbeLimits

Next == error = "none" /\ (Application \/ Protocol \/ Trouble)

\* Once the network has done its worst, what can be sent is sent, arrives, is
\* acknowledged, and what was dropped is noticed.
Spec == Init /\ [][Next]_vars /\ WF_vars(error = "none" /\ Protocol)

-----------------------------------------------------------------------------
\* Every variable has its type.
TypeOK ==
    /\ \A s \in Stream : /\ snd[s] \in SendStreamType
                         /\ rcv[s] \in RecvStreamType
                         /\ Len(rcv[s].buffer) = rcv[s].highest_offset
    /\ next_sequence \in Nat /\ known \subseteq 0 .. next_sequence - 1
    /\ {max_data, data_sent, max_streams, local_max_data, data_received,
        local_max_streams, losses} \subseteq Nat
    /\ \A p \in Slot : packets[p].at \in {"transit", "arrived", "gone"}

\* Neither endpoint ever raises a stream error against the other, however
\* frames are lost, repeated and reordered: offsets, final sizes, credit and
\* stream counts always agree.
NoStreamError == error = "none"

\* The application gets what was written, from the start and without a gap.
DeliveredIsPrefix ==
    \A s \in Stream :
        /\ Len(delivered[s]) <= written[s]
        /\ delivered[s] = SubSeq(Content[s], 1, Len(delivered[s]))

\* A sender in Data Recvd knows that its peer has every byte and the FIN.
SenderKnows ==
    \A s \in Stream : snd[s].state = "DATA_RECVD" =>
        CoversTo(rcv[s].received, written[s]) /\ rcv[s].final_size = written[s]

\* The receiver never has to hold more than the window beyond what was read, on
\* a stream or on the connection.
BufferBounded ==
    /\ \A s \in Stream :
          rcv[s].highest_offset - rcv[s].read_offset <= StreamWindow
    /\ Cardinality(BytesBetween(ReadOffset(rcv), HighestOffset(rcv))) <= DataWindow

\* The states of Figures 2 and 3 only advance.
SendOrder == [READY |-> 0, SEND |-> 1, DATA_SENT |-> 2, DATA_RECVD |-> 3]
RecvOrder == [RECV |-> 0, SIZE_KNOWN |-> 1, DATA_RECVD |-> 2, DATA_READ |-> 3]

StatesAdvance ==
    [][\A s \in Stream :
          /\ SendOrder[snd[s].state] <= SendOrder[snd'[s].state]
          /\ RecvOrder[rcv[s].state] <= RecvOrder[rcv'[s].state]]_vars

\* The two halves, their retransmissions and their credit implement a reliable
\* byte stream: in order, without a gap, the end reported once and after all
\* the data, and everything delivered once the losses are over.
Abstract == INSTANCE ByteStream
    WITH closed <- [s \in Stream |-> snd[s].fin_queued]

ReliableByteStream == Abstract!Spec

\* A stream that was finished is in the end known to be received.
FinishIsConfirmed ==
    \A s \in Stream : snd[s].fin_queued ~> snd[s].state = "DATA_RECVD"

\* A peer that keeps finishing its streams is always let open the next one.
LimitMoves ==
    \A s \in Stream :
        (\A t \in Stream : t < s => snd[t].fin_queued) ~> max_streams > s
=============================================================================
