---------------------------- MODULE StreamHalves ----------------------------
(***************************************************************************)
(* The two halves of a stream, SendStream and RecvStream (streams.py), as  *)
(* records and one operator per method.  A RangeSet is the set of offsets  *)
(* it covers.  A frame is [offset, data, fin], its data a sequence of      *)
(* bytes.                                                                  *)
(***************************************************************************)
EXTENDS Integers, Sequences, FiniteSetsExt

NoSize == -1    \* final_size is None
Zero == 0       \* what bytearray.extend fills a gap with

End(f) == f.offset + Len(f.data)
Offsets(f) == f.offset .. End(f) - 1

\* RangeSet.covers(0, n)
CoversTo(ranges, n) == 0 .. n - 1 \subseteq ranges

\* RangeSet.contiguous_from(start), for ranges that end at limit
ContiguousFrom(ranges, start, limit) == Min({e \in start .. limit : e \notin ranges})

-----------------------------------------------------------------------------
(* SendStream *)

NewSendStream(max_stream_data) ==
    [state               |-> "READY",
     max_stream_data     |-> max_stream_data,
     pending             |-> <<>>,
     base_offset         |-> 0,
     retransmit          |-> <<>>,
     highest_offset_sent |-> 0,
     fin_queued          |-> FALSE,
     fin_sent            |-> FALSE,
     final_size          |-> NoSize,
     acked               |-> {},
     fin_acked           |-> FALSE]

Write(s, data, fin) ==
    [s EXCEPT !.pending = @ \o data,
              !.fin_queued = fin,
              !.final_size = IF fin THEN s.base_offset + Len(s.pending) + Len(data)
                             ELSE @]

\* next_frame sends a lost frame again, before anything new, if it fits.
Resends(s, max_bytes) ==
    s.retransmit # <<>> /\ Len(Head(s.retransmit).data) <= max_bytes

\* As many of the pending bytes as the packet and both credits allow.
NewBytes(s, max_bytes, credit) ==
    Max({n \in 0 .. Len(s.pending) :
            n = 0 \/ (/\ n <= max_bytes
                     /\ s.base_offset + n <= s.max_stream_data
                     /\ n <= credit)})

FinNow(s, n) == s.fin_queued /\ ~s.fin_sent /\ n = Len(s.pending)

\* The frame next_frame returns, when it returns one, and the stream after it.
HasFrame(s, max_bytes, credit) ==
    LET n == NewBytes(s, max_bytes, credit)
    IN  Resends(s, max_bytes) \/ n > 0 \/ FinNow(s, n)

NextFrame(s, max_bytes, credit) ==
    LET n == NewBytes(s, max_bytes, credit)
    IN  IF Resends(s, max_bytes) THEN Head(s.retransmit)
        ELSE [offset |-> s.base_offset,
              data   |-> SubSeq(s.pending, 1, n),
              fin    |-> FinNow(s, n)]

AfterFrame(s, max_bytes, credit) ==
    LET n == NewBytes(s, max_bytes, credit)
        fin_sent == s.fin_sent \/ FinNow(s, n)
    IN  IF Resends(s, max_bytes) THEN [s EXCEPT !.retransmit = Tail(@)]
        ELSE [s EXCEPT !.pending = SubSeq(@, n + 1, Len(@)),
                       !.base_offset = @ + n,
                       !.fin_sent = fin_sent,
                       !.highest_offset_sent = Max({@, s.base_offset + n}),
                       !.state = IF fin_sent THEN "DATA_SENT" ELSE "SEND"]

OnMaxStreamData(s, maximum) ==
    [s EXCEPT !.max_stream_data = Max({@, maximum})]

\* Mutant: the acknowledged FIN is taken for the whole stream.
OnFrameAckedFinOnly(s, f) ==
    [s EXCEPT !.acked = @ \cup Offsets(f),
              !.fin_acked = @ \/ f.fin,
              !.state = IF s.fin_acked \/ f.fin THEN "DATA_RECVD" ELSE @]

OnFrameAcked(s, f) ==
    LET acked == s.acked \cup Offsets(f)
        fin_acked == s.fin_acked \/ f.fin
        all == fin_acked /\ s.final_size # NoSize /\ CoversTo(acked, s.final_size)
    IN  [s EXCEPT !.acked = acked,
                  !.fin_acked = fin_acked,
                  !.state = IF all THEN "DATA_RECVD" ELSE @]

\* Mutant: a lost frame with no data is forgotten, its FIN with it.
RequeueDataOnly(s, f) ==
    IF f.data # <<>> THEN [s EXCEPT !.retransmit = Append(@, f)] ELSE s

Requeue(s, f) ==
    IF f.data # <<>> \/ f.fin THEN [s EXCEPT !.retransmit = Append(@, f)] ELSE s

HasPending(s) ==
    s.retransmit # <<>> \/ s.pending # <<>> \/ (s.fin_queued /\ ~s.fin_sent)

-----------------------------------------------------------------------------
(* RecvStream *)

NewRecvStream(max_stream_data) ==
    [state           |-> "RECV",
     max_stream_data |-> max_stream_data,
     window          |-> max_stream_data,
     buffer          |-> <<>>,
     received        |-> {},
     read_offset     |-> 0,
     final_size      |-> NoSize,
     highest_offset  |-> 0]

\* The error on_stream_frame raises, or "none".
FrameError(r, f) ==
    LET past == r.final_size # NoSize /\ End(f) > r.final_size
        moved == r.final_size # NoSize /\ f.fin /\ End(f) # r.final_size
        short == f.fin /\ End(f) < r.highest_offset
    IN  IF past \/ moved \/ short THEN "FINAL_SIZE_ERROR"
        ELSE IF End(f) > r.max_stream_data THEN "FLOW_CONTROL_ERROR"
        ELSE "none"

\* The buffer is extended with zeros to the frame's end and the frame's bytes
\* are put in their place.
Overwrite(buffer, f) ==
    [i \in 1 .. Max({Len(buffer), End(f)}) |->
        IF i - 1 \in Offsets(f) THEN f.data[i - f.offset]
        ELSE IF i <= Len(buffer) THEN buffer[i] ELSE Zero]

\* Mutant: a frame that comes again reopens a stream already read.
ReceivedStateReopens(r, final_size, received) ==
    IF final_size = NoSize THEN r.state
    ELSE IF CoversTo(received, final_size) THEN "DATA_RECVD" ELSE "SIZE_KNOWN"

ReceivedState(r, final_size, received) ==
    IF final_size = NoSize \/ r.state = "DATA_READ" THEN r.state
    ELSE IF CoversTo(received, final_size) THEN "DATA_RECVD" ELSE "SIZE_KNOWN"

OnStreamFrame(r, f) ==
    LET final_size == IF f.fin THEN End(f) ELSE r.final_size
        received == r.received \cup Offsets(f)
    IN  [r EXCEPT !.final_size = final_size,
                  !.buffer = Overwrite(@, f),
                  !.received = received,
                  !.highest_offset = Max({@, End(f)}),
                  !.state = ReceivedState(r, final_size, received)]

ReadableEnd(r) == ContiguousFrom(r.received, r.read_offset, r.highest_offset)

\* What read returns, and the stream after it.
ReadData(r) == SubSeq(r.buffer, r.read_offset + 1, ReadableEnd(r))

Read(r) ==
    [r EXCEPT !.read_offset = ReadableEnd(r),
              !.state = IF r.final_size = ReadableEnd(r) THEN "DATA_READ" ELSE @]

\* credit_update has a new limit to advertise, and the stream after it.
Extends(r) ==
    r.final_size = NoSize /\ 2 * (r.max_stream_data - r.read_offset) < r.window

Extended(r) ==
    IF Extends(r) THEN [r EXCEPT !.max_stream_data = r.read_offset + r.window]
    ELSE r

-----------------------------------------------------------------------------
StreamFrame == [offset : Nat, data : Seq(Nat), fin : BOOLEAN]

SendStreamType ==
    [state : {"READY", "SEND", "DATA_SENT", "DATA_RECVD"},
     max_stream_data : Nat, pending : Seq(Nat), base_offset : Nat,
     retransmit : Seq(StreamFrame),
     highest_offset_sent : Nat, fin_queued : BOOLEAN, fin_sent : BOOLEAN,
     final_size : Nat \cup {NoSize}, acked : SUBSET Nat, fin_acked : BOOLEAN]

RecvStreamType ==
    [state : {"RECV", "SIZE_KNOWN", "DATA_RECVD", "DATA_READ"},
     max_stream_data : Nat, window : Nat, buffer : Seq(Nat),
     received : SUBSET Nat, read_offset : Nat,
     final_size : Nat \cup {NoSize}, highest_offset : Nat]
=============================================================================
