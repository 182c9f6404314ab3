--------------------------- MODULE StreamsProofs ----------------------------
(***************************************************************************)
(* The arrival of a STREAM frame keeps the invariant; hence what Streams   *)
(* promises, for any contents, windows, frame sizes and losses.            *)
(***************************************************************************)
EXTENDS StreamsInvariant


\* What becomes of the stream when the frame is taken, what has become
\* contiguous is read, and the limit moves: got, read and q in turn.
Taken(s, f, got, read, q) ==
    /\ RecvGood(q, snd[s], Content[s])
    /\ RecvLater(rcv[s], q)
    /\ Offsets(f) \subseteq q.received
    /\ f.fin => q.final_size # NoSize
    /\ got.highest_offset = q.highest_offset
    /\ delivered[s] \o ReadData(got) = SubSeq(Content[s], 1, q.read_offset)
    /\ q.state = read.state
    /\ got.state = "DATA_READ" <=> rcv[s].state = "DATA_READ"
    /\ rcv[s].state = "DATA_READ" =>
          read.state = "DATA_READ" /\ ReadData(got) = <<>>

\* _handle_stream on the stream itself does that.
LEMMA TakeFrameGood ==
    ASSUME IInv, NEW s \in Stream, NEW f, Genuine(f, snd[s], Content[s]),
           NEW got, got = OnStreamFrame(rcv[s], f), NEW read, read = Read(got),
           NEW q, q = Extended(read)
    PROVE  Taken(s, f, got, read, q)
<1> DEFINE r == rcv[s]  x == snd[s]  c == Content[s]
<1>1. /\ r \in RecvStreamType /\ x \in SendStreamType /\ c \in Seq(Nat)
      /\ SendGood(x, c, written[s]) /\ RecvGood(r, x, c)
      /\ delivered[s] = SubSeq(c, 1, r.read_offset) /\ written[s] \in Nat
  BY Constants DEF IInv, HalvesInv
<1>2. x.base_offset <= Len(c)
  <2>1. x.base_offset \in Nat /\ Len(x.pending) \in Nat /\ Len(c) \in Nat
    BY <1>1 DEF SendStreamType
  <2>2. written[s] = x.base_offset + Len(x.pending) /\ written[s] <= Len(c)
    BY <1>1 DEF SendGood
  <2> QED BY <2>1, <2>2
<1>3. Genuine(f, x, c) /\ got = OnStreamFrame(r, f)
  OBVIOUS
<1> HIDE DEF r, x, c
<1>4. /\ RecvGood(got, x, c) /\ RecvLater(r, got)
      /\ Offsets(f) \subseteq got.received /\ (f.fin => got.final_size # NoSize)
      /\ got.read_offset = r.read_offset
      /\ (got.state = "DATA_READ" <=> r.state = "DATA_READ")
  <2>1. x \in SendStreamType /\ RecvGood(r, x, c) /\ Genuine(f, x, c)
    BY <1>1, <1>3
  <2> DEFINE o == OnStreamFrame(r, f)
  <2>2. /\ RecvGood(o, x, c) /\ RecvLater(r, o)
        /\ Offsets(f) \subseteq o.received /\ (f.fin => o.final_size # NoSize)
        /\ o.read_offset = r.read_offset
        /\ (o.state = "DATA_READ" <=> r.state = "DATA_READ")
    BY ONLY <2>1, OnStreamFrameGood
  <2>3. got = o
    BY <1>3
  <2> HIDE DEF o
  <2> QED BY ONLY <2>2, <2>3
<1>5. /\ RecvGood(read, x, c) /\ RecvLater(got, read)
      /\ read.highest_offset = got.highest_offset
      /\ read.received = got.received /\ read.final_size = got.final_size
      /\ SubSeq(c, 1, got.read_offset) \o ReadData(got) = SubSeq(c, 1, read.read_offset)
      /\ (ReadData(got) = <<>> <=> read.read_offset = got.read_offset)
      /\ (read.state = "DATA_READ" <=> got.final_size = read.read_offset)
  <2>1. read = Read(got)
    OBVIOUS
  <2> QED BY ONLY <1>1, <1>2, <1>4, <2>1, ReadGood
<1>6. /\ RecvGood(q, x, c) /\ RecvLater(read, q)
      /\ q.highest_offset = read.highest_offset /\ q.read_offset = read.read_offset
      /\ q.received = read.received /\ q.final_size = read.final_size
      /\ q.state = read.state
  <2>1. q = Extended(read)
    OBVIOUS
  <2> QED BY ONLY <1>5, <2>1, ExtendedGood
<1>7. got \in RecvStreamType /\ read \in RecvStreamType /\ q \in RecvStreamType
  BY <1>4, <1>5, <1>6 DEF RecvGood
<1>8. RecvLater(r, q)
  <2>1. RecvLater(r, read)
    BY ONLY <1>1, <1>4, <1>5, <1>7, RecvLaterTransitive
  <2> QED BY ONLY <1>1, <1>6, <1>7, <2>1, RecvLaterTransitive
<1>9. r.state = "DATA_READ" => read.state = "DATA_READ" /\ ReadData(got) = <<>>
  <2> SUFFICES ASSUME r.state = "DATA_READ"
               PROVE  read.state = "DATA_READ" /\ ReadData(got) = <<>>
    OBVIOUS
  <2>1. got.final_size = got.read_offset
    BY <1>4 DEF RecvGood
  <2>2. read.state = "DATA_READ"
    BY <1>4, <1>5 DEF RecvLater
  <2> QED BY <1>5, <2>1, <2>2
<1>10. Offsets(f) \subseteq q.received /\ (f.fin => q.final_size # NoSize)
  BY <1>4, <1>5, <1>6
<1>11. delivered[s] \o ReadData(got) = SubSeq(c, 1, q.read_offset)
  BY <1>1, <1>4, <1>5, <1>6
<1>12. got.highest_offset = q.highest_offset
  BY <1>5, <1>6
<1> QED BY <1>4, <1>6, <1>8, <1>9, <1>10, <1>11, <1>12, Zenon DEF Taken, r, x, c

\* max_data_update and max_streams_update never lower a limit, and the first
\* allows no more than the window beyond what was consumed.
LEMMA UpdatesGood ==
    ASSUME IInv, NEW n \in Nat, Consumed(rcv) <= n, Consumed(rcv) \in Nat,
           NEW o \in Nat, NEW k \in Nat
    PROVE  /\ MaxDataUpdate(n) \in Nat /\ local_max_data <= MaxDataUpdate(n)
           /\ MaxDataUpdate(n) <= n + DataWindow
           /\ MaxStreamsUpdate(o, k) \in Nat
           /\ local_max_streams <= MaxStreamsUpdate(o, k)
<1>1. /\ local_max_data \in Nat /\ local_max_streams \in Nat /\ DataWindow \in Nat
      /\ StreamsWindow \in Nat /\ local_max_data <= Consumed(rcv) + DataWindow
  BY Constants DEF IInv, CreditInv
<1>2. /\ MaxDataUpdate(n) \in Nat /\ local_max_data <= MaxDataUpdate(n)
      /\ MaxDataUpdate(n) <= n + DataWindow
  BY <1>1 DEF MaxDataUpdate
<1> DEFINE v == k + StreamsWindow
<1>3. v \in Nat /\ v \in Int /\ local_max_streams \in Int
  BY <1>1
<1> HIDE DEF v
<1>4. Max({local_max_streams, v}) = IF local_max_streams >= v THEN local_max_streams
                                    ELSE v
  BY <1>3, MaxOfTwo, Zenon
<1>5. /\ Max({local_max_streams, v}) \in Nat
      /\ local_max_streams <= Max({local_max_streams, v})
  BY <1>1, <1>3, <1>4
<1>6. MaxStreamsUpdate(o, k) \in {local_max_streams, Max({local_max_streams, v})}
  BY DEF MaxStreamsUpdate, v
<1> QED BY <1>1, <1>2, <1>5, <1>6

\* A STREAM frame that arrives touches nothing of the sender, nor of any other
\* stream.
Heard(s) ==
    /\ UNCHANGED senderVars
    /\ \A t \in Stream \ {s} : delivered'[t] = delivered[t] /\ ended'[t] = ended[t]

\* What HandleStream does, apart from the limits it computes.
Handled(s, got, read) ==
    /\ rcv' = [rcv EXCEPT ![s] = Extended(read)]
    /\ known' = known \cup {s}
    /\ data_received' = data_received + got.highest_offset - rcv[s].highest_offset
    /\ delivered' = [delivered EXCEPT ![s] = delivered[s] \o ReadData(got)]
    /\ ended' = [ended EXCEPT ![s] =
          IF /\ ReadData(got) # <<>> \/ (read.state = "DATA_READ"
                                         /\ got.state # "DATA_READ")
             /\ read.state = "DATA_READ"
          THEN ended[s] + 1 ELSE ended[s]]
    /\ control_frames' = control_frames
          \o (IF Extends(read)
              THEN <<Limit("MAX_STREAM_DATA", s, rcv'[s].max_stream_data)>> ELSE <<>>)
          \o (IF local_max_data' # local_max_data
              THEN <<Limit("MAX_DATA", 0, local_max_data')>> ELSE <<>>)
          \o (IF local_max_streams' # local_max_streams
              THEN <<Limit("MAX_STREAMS", 0, local_max_streams')>> ELSE <<>>)
    /\ error' = error

\* HandleStream in these terms, and its limits from what is then read and known.
LEMMA HandleStreamHandled ==
    ASSUME NEW s, NEW got, NEW read, HandleStream(s, got, read)
    PROVE  /\ Handled(s, got, read)
           /\ local_max_data' = MaxDataUpdate(Consumed(rcv'))
           /\ local_max_streams' = MaxStreamsUpdate(Cardinality(known'),
                 Cardinality({t \in known' : rcv'[t].state = "DATA_READ"}))
<1> DEFINE streams == [rcv EXCEPT ![s] = Extended(read)]
           opened == known \cup {s}
           closed == {t \in opened : streams[t].state = "DATA_READ"}
           dl == MaxDataUpdate(Consumed(streams))
           sl == MaxStreamsUpdate(Cardinality(opened), Cardinality(closed))
<1>1. rcv' = streams /\ known' = opened
  BY Zenon DEF HandleStream
<1>2. local_max_data' = dl /\ local_max_streams' = sl
  BY Zenon DEF HandleStream
<1>3. /\ data_received' = data_received + got.highest_offset - rcv[s].highest_offset
      /\ error' = error
  BY Zenon DEF HandleStream
<1>4. delivered' = [delivered EXCEPT ![s] = delivered[s] \o ReadData(got)]
  BY DEF HandleStream
<1>5. ended' = [ended EXCEPT ![s] =
          IF /\ ReadData(got) # <<>> \/ (read.state = "DATA_READ"
                                         /\ got.state # "DATA_READ")
             /\ read.state = "DATA_READ"
          THEN ended[s] + 1 ELSE ended[s]]
  BY DEF HandleStream
<1>6. control_frames' = control_frames
          \o (IF Extends(read)
              THEN <<Limit("MAX_STREAM_DATA", s, streams[s].max_stream_data)>> ELSE <<>>)
          \o (IF dl # local_max_data
              THEN <<Limit("MAX_DATA", 0, dl)>> ELSE <<>>)
          \o (IF sl # local_max_streams
              THEN <<Limit("MAX_STREAMS", 0, sl)>> ELSE <<>>)
  BY Zenon DEF HandleStream
<1>7. /\ local_max_data' = MaxDataUpdate(Consumed(rcv'))
      /\ local_max_streams' = MaxStreamsUpdate(Cardinality(known'),
             Cardinality({t \in known' : rcv'[t].state = "DATA_READ"}))
  BY <1>1, <1>2, Zenon
<1>8. rcv' = [rcv EXCEPT ![s] = Extended(read)] /\ known' = known \cup {s}
  BY <1>1
<1> HIDE DEF streams, opened, closed, dl, sl
<1>9. control_frames' = control_frames
          \o (IF Extends(read)
              THEN <<Limit("MAX_STREAM_DATA", s, rcv'[s].max_stream_data)>> ELSE <<>>)
          \o (IF local_max_data' # local_max_data
              THEN <<Limit("MAX_DATA", 0, local_max_data')>> ELSE <<>>)
          \o (IF local_max_streams' # local_max_streams
              THEN <<Limit("MAX_STREAMS", 0, local_max_streams')>> ELSE <<>>)
  BY ONLY <1>1, <1>2, <1>6
<1>10. Handled(s, got, read)
  BY ONLY <1>3, <1>4, <1>5, <1>8, <1>9, Zenon DEF Handled
<1> QED BY ONLY <1>7, <1>10

\* A good limit is queued, or nothing.
LEMMA QueueGood ==
    ASSUME NEW r, NEW d, NEW n, NEW a \in Seq(LimitFrame),
           \A i \in 1 .. Len(a) : LimitGood(a[i], r, d, n),
           NEW moved, NEW l, moved => LimitGood(l, r, d, n),
           NEW b, b = a \o (IF moved THEN <<l>> ELSE <<>>)
    PROVE  /\ b \in Seq(LimitFrame)
           /\ \A i \in 1 .. Len(b) : LimitGood(b[i], r, d, n)
<1>1. CASE moved
  <2> DEFINE u == <<l>>
  <2>1. l \in LimitFrame /\ LimitGood(l, r, d, n)
    BY <1>1 DEF LimitGood
  <2>2. b = a \o u
    BY <1>1
  <2>3. u \in Seq(LimitFrame) /\ Len(u) = 1 /\ u[1] = l
    BY <2>1
  <2>4. Len(a) \in Nat
    OBVIOUS
  <2> HIDE DEF u
  <2>5. /\ b \in Seq(LimitFrame) /\ Len(b) = Len(a) + 1
        /\ \A i \in 1 .. Len(a) + 1 :
              b[i] = IF i <= Len(a) THEN a[i] ELSE u[i - Len(a)]
    BY <2>2, <2>3, <2>4, ConcatProperties
  <2>6. \A i \in 1 .. Len(b) : i \in 1 .. Len(a) \/ i = Len(a) + 1
    BY <2>4, <2>5
  <2>7. b[Len(a) + 1] = l
    BY <2>3, <2>4, <2>5
  <2>8. \A i \in 1 .. Len(a) : b[i] = a[i]
    BY <2>4, <2>5
  <2> QED BY <2>1, <2>5, <2>6, <2>7, <2>8
<1>2. CASE ~moved
  <2>1. b = a \o <<>>
    BY <1>2
  <2>2. b = a
    BY <2>1, ConcatEmptySeq
  <2> QED BY <2>2
<1> QED BY <1>1, <1>2

\* The limits _handle_stream queues are those the receiver then has.
LEMMA HandledControl ==
    ASSUME IInv, NEW s \in Stream, NEW got, NEW read, Handled(s, got, read),
           rcv' \in [Stream -> RecvStreamType],
           local_max_data' \in Nat, local_max_streams' \in Nat,
           \A l : LimitGood(l, rcv, local_max_data, local_max_streams) =>
                     LimitGood(l, rcv', local_max_data', local_max_streams')
    PROVE  ControlInv'
<1> DEFINE m == rcv'[s].max_stream_data
           l1 == Limit("MAX_STREAM_DATA", s, m)
           l2 == Limit("MAX_DATA", 0, local_max_data')
           l3 == Limit("MAX_STREAMS", 0, local_max_streams')
           c1 == control_frames \o (IF Extends(read) THEN <<l1>> ELSE <<>>)
           c2 == c1 \o (IF local_max_data' # local_max_data THEN <<l2>> ELSE <<>>)
           c3 == c2 \o (IF local_max_streams' # local_max_streams
                        THEN <<l3>> ELSE <<>>)
           Fine(l) == LimitGood(l, rcv', local_max_data', local_max_streams')
<1>1. s \in Nat /\ m \in Nat
  BY Constants DEF RecvStreamType
<1>2. Fine(l1)
  <2>1. m <= m
    BY <1>1
  <2> QED BY <1>1, <2>1 DEF LimitGood, LimitFrame, Limit
<1>3. Fine(l2)
  BY DEF LimitGood, LimitFrame, Limit
<1>4. Fine(l3)
  BY DEF LimitGood, LimitFrame, Limit
<1>5. /\ control_frames \in Seq(LimitFrame)
      /\ \A i \in 1 .. Len(control_frames) : Fine(control_frames[i])
  BY DEF IInv, ControlInv
<1>6. control_frames' = c3
  BY Zenon DEF Handled
<1> HIDE DEF l1, l2, l3, m
<1>7. /\ c1 \in Seq(LimitFrame)
      /\ \A i \in 1 .. Len(c1) : Fine(c1[i])
  <2> HIDE DEF c1
  <2>1. c1 = control_frames \o (IF Extends(read) THEN <<l1>> ELSE <<>>)
    BY DEF c1
  <2> QED BY ONLY <1>2, <1>5, <2>1, QueueGood
<1> HIDE DEF c1
<1>8. /\ c2 \in Seq(LimitFrame)
      /\ \A i \in 1 .. Len(c2) : Fine(c2[i])
  <2> HIDE DEF c2
  <2>1. c2 = c1 \o (IF local_max_data' # local_max_data THEN <<l2>> ELSE <<>>)
    BY DEF c2
  <2> QED BY ONLY <1>3, <1>7, <2>1, QueueGood
<1> HIDE DEF c2
<1>9. /\ c3 \in Seq(LimitFrame)
      /\ \A i \in 1 .. Len(c3) : Fine(c3[i])
  <2> HIDE DEF c3
  <2>1. c3 = c2 \o (IF local_max_streams' # local_max_streams THEN <<l3>> ELSE <<>>)
    BY DEF c3
  <2> QED BY ONLY <1>4, <1>8, <2>1, QueueGood
<1> HIDE DEF c3
<1> QED BY <1>6, <1>9 DEF ControlInv

\* The stream that took the frame is as good as before, and what was reported
\* to the application is what was read.
LEMMA HandledHalves ==
    ASSUME IInv, NEW s \in Stream, NEW f, Genuine(f, snd[s], Content[s]),
           NEW got, got = OnStreamFrame(rcv[s], f), NEW read, read = Read(got),
           Handled(s, got, read), UNCHANGED senderVars
    PROVE  /\ HalvesInv'
           /\ \A t \in Stream : RecvLater(rcv[t], rcv'[t])
           /\ Offsets(f) \subseteq rcv'[s].received
           /\ f.fin => rcv'[s].final_size # NoSize
           /\ got.highest_offset = rcv'[s].highest_offset
           /\ \A t \in Stream \ {s} : rcv'[t] = rcv[t]
           /\ Heard(s)
<1> DEFINE q == Extended(read)
<1>1. /\ RecvGood(q, snd[s], Content[s]) /\ RecvLater(rcv[s], q)
      /\ Offsets(f) \subseteq q.received /\ (f.fin => q.final_size # NoSize)
      /\ got.highest_offset = q.highest_offset
      /\ delivered[s] \o ReadData(got) = SubSeq(Content[s], 1, q.read_offset)
      /\ q.state = read.state
      /\ (got.state = "DATA_READ" <=> rcv[s].state = "DATA_READ")
      /\ (rcv[s].state = "DATA_READ" =>
             read.state = "DATA_READ" /\ ReadData(got) = <<>>)
  <2>1. Taken(s, f, got, read, q)
    BY TakeFrameGood
  <2> HIDE DEF q
  <2> QED BY ONLY <2>1, Zenon DEF Taken
<1> HIDE DEF q
<1>2. /\ snd \in [Stream -> SendStreamType] /\ rcv \in [Stream -> RecvStreamType]
      /\ written \in [Stream -> Nat] /\ delivered \in [Stream -> Seq(Nat)]
      /\ ended \in [Stream -> Nat] /\ snd' = snd /\ written' = written
  BY DEF IInv, HalvesInv, senderVars
<1>3. q \in RecvStreamType
  BY <1>1 DEF RecvGood
<1>4. /\ rcv' \in [Stream -> RecvStreamType] /\ rcv'[s] = q
      /\ \A t \in Stream \ {s} : rcv'[t] = rcv[t]
  BY <1>2, <1>3 DEF Handled, q
<1>5. RecvLater(rcv[s], rcv'[s]) /\ \A t \in Stream \ {s} : RecvLater(rcv[t], rcv'[t])
  <2>1. \A t \in Stream : RecvLater(rcv[t], rcv[t])
    <3> SUFFICES ASSUME NEW t \in Stream PROVE RecvLater(rcv[t], rcv[t])
      OBVIOUS
    <3>1. /\ rcv[t].max_stream_data \in Nat /\ rcv[t].read_offset \in Nat
          /\ rcv[t].highest_offset \in Nat
      BY <1>2 DEF RecvStreamType
    <3> QED BY <3>1 DEF RecvLater
  <2> QED BY <1>1, <1>4, <2>1
<1>6. /\ delivered' \in [Stream -> Seq(Nat)]
      /\ delivered'[s] = SubSeq(Content[s], 1, q.read_offset)
      /\ \A t \in Stream \ {s} : delivered'[t] = delivered[t]
  <2>1. SubSeq(Content[s], 1, q.read_offset) \in Seq(Nat)
    <3>1. Content[s] \in Seq(Nat) /\ q.read_offset \in Nat /\ Len(Content[s]) \in Nat
      BY <1>3, Constants DEF RecvStreamType
    <3>2. q.read_offset <= Len(Content[s])
      <4>1. SendGood(snd[s], Content[s], written[s])
        BY DEF IInv, HalvesInv
      <4>2. /\ snd[s].base_offset \in Nat /\ Len(snd[s].pending) \in Nat
            /\ q.highest_offset \in Nat
        <5>1. snd[s] \in SendStreamType /\ q \in RecvStreamType
          BY <1>2, <1>3
        <5>2. snd[s].base_offset \in Nat /\ snd[s].pending \in Seq(Nat)
          BY ONLY <5>1 DEF SendStreamType
        <5>3. q.highest_offset \in Nat
          BY ONLY <5>1 DEF RecvStreamType
        <5> QED BY ONLY <5>2, <5>3
      <4>3. /\ q.read_offset <= q.highest_offset
            /\ q.highest_offset <= snd[s].base_offset
            /\ snd[s].base_offset + Len(snd[s].pending) <= Len(Content[s])
        BY <1>1, <4>1 DEF RecvGood, SendGood
      <4> QED BY <3>1, <4>2, <4>3
    <3>3. \A i \in 1 .. q.read_offset : Content[s][i] \in Nat
      BY <3>1, <3>2
    <3> QED BY <3>1, <3>3, SubSeqProperties
  <2>2. delivered' = [delivered EXCEPT ![s] = SubSeq(Content[s], 1, q.read_offset)]
    BY <1>1 DEF Handled
  <2> QED BY <1>2, <2>1, <2>2
<1>7. /\ ended' \in [Stream -> Nat]
      /\ ended'[s] = IF q.state = "DATA_READ" THEN 1 ELSE 0
      /\ \A t \in Stream \ {s} : ended'[t] = ended[t]
  <2> DEFINE e == IF q.state = "DATA_READ" THEN 1 ELSE 0
  <2>1. ended[s] = IF rcv[s].state = "DATA_READ" THEN 1 ELSE 0
    BY DEF IInv, HalvesInv
  <2>2. e = IF /\ ReadData(got) # <<>> \/ (read.state = "DATA_READ"
                                          /\ got.state # "DATA_READ")
               /\ read.state = "DATA_READ"
            THEN ended[s] + 1 ELSE ended[s]
    BY <1>1, <2>1
  <2>3. ended' = [ended EXCEPT ![s] = e]
    BY <2>2 DEF Handled
  <2>4. e \in Nat
    OBVIOUS
  <2> HIDE DEF e
  <2>5. ended' \in [Stream -> Nat] /\ ended'[s] = e
        /\ \A t \in Stream \ {s} : ended'[t] = ended[t]
    BY <1>2, <2>3, <2>4
  <2> QED BY <2>5 DEF e
<1>8. HalvesInv'
  <2>1. ASSUME NEW t \in Stream, t # s
        PROVE  /\ SendGood(snd'[t], Content[t], written'[t])
               /\ RecvGood(rcv'[t], snd'[t], Content[t])
               /\ Agree(snd'[t], rcv'[t])
               /\ rcv'[t].window = StreamWindow
               /\ delivered'[t] = SubSeq(Content[t], 1, rcv'[t].read_offset)
               /\ ended'[t] = IF rcv'[t].state = "DATA_READ" THEN 1 ELSE 0
    <3>1. /\ snd'[t] = snd[t] /\ written'[t] = written[t] /\ rcv'[t] = rcv[t]
          /\ delivered'[t] = delivered[t] /\ ended'[t] = ended[t]
      BY <1>2, <1>4, <1>6, <1>7, <2>1
    <3> QED BY <3>1 DEF IInv, HalvesInv
  <2>2. Agree(snd[s], q) /\ q.window = StreamWindow
    <3>1. Agree(snd[s], rcv[s]) /\ rcv[s].window = StreamWindow
      BY DEF IInv, HalvesInv
    <3>2. Agree(snd[s], q)
      BY <1>1, <1>2, <1>3, <3>1, AgreeLater
    <3> QED BY <1>1, <3>1, <3>2 DEF RecvLater
  <2>3. SendGood(snd[s], Content[s], written[s])
    BY DEF IInv, HalvesInv
  <2>4. /\ SendGood(snd'[s], Content[s], written'[s])
        /\ RecvGood(rcv'[s], snd'[s], Content[s])
        /\ Agree(snd'[s], rcv'[s])
        /\ rcv'[s].window = StreamWindow
        /\ delivered'[s] = SubSeq(Content[s], 1, rcv'[s].read_offset)
        /\ ended'[s] = IF rcv'[s].state = "DATA_READ" THEN 1 ELSE 0
    BY <1>1, <1>2, <1>4, <1>6, <1>7, <2>2, <2>3
  <2>5. /\ snd' \in [Stream -> SendStreamType] /\ rcv' \in [Stream -> RecvStreamType]
        /\ written' \in [Stream -> Nat] /\ delivered' \in [Stream -> Seq(Nat)]
        /\ ended' \in [Stream -> Nat]
    BY <1>2, <1>4, <1>6, <1>7
  <2> QED BY ONLY <2>1, <2>4, <2>5 DEF HalvesInv
<1>9. Heard(s)
  BY <1>6, <1>7 DEF Heard
<1> QED BY <1>1, <1>4, <1>5, <1>8, <1>9

\* Received and consumed bytes are counted, and no limit is lowered or
\* reaches further than the window allows.
LEMMA HandledCredit ==
    ASSUME IInv, NEW s \in Stream, s < next_sequence,
           NEW got, NEW read, Handled(s, got, read),
           local_max_data' = MaxDataUpdate(Consumed(rcv')),
           local_max_streams' = MaxStreamsUpdate(Cardinality(known'),
               Cardinality({t \in known' : rcv'[t].state = "DATA_READ"})),
           UNCHANGED <<senderVars, losses>>, HalvesInv',
           \A t \in Stream : RecvLater(rcv[t], rcv'[t]),
           got.highest_offset = rcv'[s].highest_offset,
           \A t \in Stream \ {s} : rcv'[t] = rcv[t]
    PROVE  /\ CreditInv'
           /\ local_max_data <= local_max_data'
           /\ local_max_streams <= local_max_streams'
<1> DEFINE g == ReadOffset(rcv)  h == ReadOffset(rcv')
           u == HighestOffset(rcv)  v == HighestOffset(rcv')
           n == rcv'[s].highest_offset - rcv[s].highest_offset
<1>1. /\ rcv \in [Stream -> RecvStreamType] /\ rcv' \in [Stream -> RecvStreamType]
      /\ \A t \in Stream : /\ rcv[t].highest_offset \in Nat
                           /\ rcv'[t].highest_offset \in Nat
                           /\ rcv[t].read_offset \in Nat
                           /\ rcv'[t].read_offset \in Nat
                           /\ rcv[t].read_offset <= rcv'[t].read_offset
                           /\ rcv[t].highest_offset <= rcv'[t].highest_offset
  BY DEF IInv, HalvesInv, RecvStreamType, RecvLater
<1>2. /\ {max_data, data_sent, local_max_data, data_received, next_sequence,
          max_streams, local_max_streams, losses} \subseteq Nat
      /\ known \subseteq 0 .. next_sequence - 1
      /\ next_sequence <= max_streams /\ max_streams <= local_max_streams
      /\ data_sent <= max_data /\ max_data <= local_max_data
  BY DEF IInv, CreditInv
<1>3. /\ g \in [Stream -> Nat] /\ h \in [Stream -> Nat]
      /\ u \in [Stream -> Nat] /\ v \in [Stream -> Nat]
      /\ \A t \in Stream : g[t] <= h[t]
  BY <1>1 DEF ReadOffset, HighestOffset
<1>4. Consumed(rcv) \in Nat /\ Consumed(rcv') \in Nat /\ Consumed(rcv) <= Consumed(rcv')
  <2>1. Consumed(rcv) = Cardinality(BytesBetween(Start, g))
        /\ Consumed(rcv') = Cardinality(BytesBetween(Start, h))
    BY DEF Consumed
  <2> HIDE DEF g, h
  <2>2. /\ Cardinality(BytesBetween(Start, g)) \in Nat
        /\ Cardinality(BytesBetween(Start, h)) \in Nat
    BY <1>3, StartType, BytesFinite
  <2>3. Cardinality(BytesBetween(Start, g)) <= Cardinality(BytesBetween(Start, h))
    BY <1>3, BytesMonotone
  <2> QED BY <2>1, <2>2, <2>3
<1>5. /\ known' \subseteq 0 .. next_sequence - 1 /\ Cardinality(known') \in Nat
      /\ Cardinality({t \in known' : rcv'[t].state = "DATA_READ"}) \in Nat
  <2>1. s \in Nat /\ known' = known \cup {s}
    BY Constants DEF Handled
  <2>2. known' \subseteq 0 .. next_sequence - 1
    BY <1>2, <2>1
  <2> DEFINE A == 0 .. next_sequence - 1  B == known'
             C == {t \in known' : rcv'[t].state = "DATA_READ"}
  <2>3. IsFiniteSet(A)
    <3>1. 0 \in Int /\ next_sequence - 1 \in Int
      BY <1>2
    <3> QED BY <3>1, FS_Interval
  <2>4. B \subseteq A /\ C \subseteq A
    BY <2>2
  <2> HIDE DEF A, B, C
  <2>5. IsFiniteSet(B) /\ IsFiniteSet(C)
    BY <2>3, <2>4, FS_Subset
  <2>6. Cardinality(B) \in Nat /\ Cardinality(C) \in Nat
    BY <2>5, FS_CardinalityType
  <2> QED BY <2>2, <2>6 DEF A, B, C
<1>6. /\ local_max_data' \in Nat /\ local_max_data <= local_max_data'
      /\ local_max_data' <= Consumed(rcv') + DataWindow
      /\ local_max_streams' \in Nat /\ local_max_streams <= local_max_streams'
  <2> DEFINE m == Consumed(rcv')  o == Cardinality(known')
             k == Cardinality({t \in known' : rcv'[t].state = "DATA_READ"})
  <2>1. m \in Nat /\ o \in Nat /\ k \in Nat /\ Consumed(rcv) <= m
    BY <1>4, <1>5
  <2>2. local_max_data' = MaxDataUpdate(m) /\ local_max_streams' = MaxStreamsUpdate(o, k)
    OBVIOUS
  <2> HIDE DEF m, o, k
  <2>3. /\ MaxDataUpdate(m) \in Nat /\ local_max_data <= MaxDataUpdate(m)
        /\ MaxDataUpdate(m) <= m + DataWindow
        /\ MaxStreamsUpdate(o, k) \in Nat
        /\ local_max_streams <= MaxStreamsUpdate(o, k)
    BY <1>4, <2>1, UpdatesGood
  <2> QED BY <2>2, <2>3 DEF m
<1>7. /\ data_received' \in Nat
      /\ data_received' = Cardinality(BytesBetween(Start, v))
  <2>1. n \in Nat
    BY <1>1
  <2>2. data_received' = data_received + n
    <3>1. data_received' = data_received + got.highest_offset - rcv[s].highest_offset
      BY Zenon DEF Handled
    <3> QED BY <1>1, <1>2, <3>1
  <2>3. v = [u EXCEPT ![s] = u[s] + n]
    <3>1. u[s] + n = rcv'[s].highest_offset
      BY <1>1 DEF HighestOffset
    <3>2. \A t \in Stream : v[t] = IF t = s THEN u[s] + n ELSE u[t]
      BY <3>1 DEF HighestOffset
    <3> HIDE DEF u, v, n
    <3> QED BY <1>3, <3>2
  <2>4. data_received = Cardinality(BytesBetween(Start, u))
    BY DEF IInv, CreditInv
  <2> HIDE DEF u, v, n
  <2>5. Cardinality(BytesBetween(Start, v)) = Cardinality(BytesBetween(Start, u)) + n
    BY <1>3, <2>1, <2>3, BytesGrow
  <2> QED BY <1>2, <2>1, <2>2, <2>4, <2>5
<1>8. /\ max_data' = max_data /\ data_sent' = data_sent /\ max_streams' = max_streams
      /\ next_sequence' = next_sequence /\ losses' = losses /\ snd' = snd
  BY DEF senderVars
<1>9. data_sent' = Cardinality(BytesBetween(Start, BaseOffset(snd')))
  BY <1>8 DEF IInv, CreditInv
<1>10. max_streams <= local_max_streams' /\ max_data <= local_max_data'
  BY <1>2, <1>6
<1>11. known' \subseteq 0 .. next_sequence' - 1
  BY <1>5, <1>8
<1>12. {max_data', data_sent', local_max_data', data_received', next_sequence',
        max_streams', local_max_streams', losses'} \subseteq Nat
  BY <1>2, <1>6, <1>7, <1>8
<1> QED BY <1>2, <1>6, <1>7, <1>8, <1>9, <1>10, <1>11, <1>12, Zenon DEF CreditInv, v

\* A STREAM frame arrives.
LEMMA DeliverStreamFrameGood ==
    ASSUME IInv, NEW p \in DataSlots, DeliverStreamFrame(p)
    PROVE  IInv' /\ Onward /\ \E s \in Stream : Heard(s)
<1> DEFINE s == packets[p].stream  f == packets[p].frame
           got == OnStreamFrame(rcv[s], f)  read == Read(got)
<1>1. /\ packets[p].at = "transit" /\ Becomes(p, packets[p].outstanding, "arrived")
      /\ UNCHANGED <<senderVars, losses>>
  BY Zenon DEF DeliverStreamFrame
<1>2. s \in Stream /\ s < next_sequence /\ Genuine(f, snd[s], Content[s])
  BY <1>1 DEF IInv, SlotInv, Held, DataGood
<1>3. StreamError(s, f) = "none"
  <2> HIDE DEF s, f
  <2> QED BY <1>2, FrameAccepted
<1>4. HandleStream(s, got, read)
  BY <1>3, Zenon DEF DeliverStreamFrame
<1> HIDE DEF s, f, got, read
<1>5. /\ Handled(s, got, read)
      /\ local_max_data' = MaxDataUpdate(Consumed(rcv'))
      /\ local_max_streams' = MaxStreamsUpdate(Cardinality(known'),
             Cardinality({t \in known' : rcv'[t].state = "DATA_READ"}))
  BY ONLY <1>4, HandleStreamHandled, Zenon
<1>6. /\ HalvesInv'
      /\ \A t \in Stream : RecvLater(rcv[t], rcv'[t])
      /\ Offsets(f) \subseteq rcv'[s].received
      /\ (f.fin => rcv'[s].final_size # NoSize)
      /\ got.highest_offset = rcv'[s].highest_offset
      /\ \A t \in Stream \ {s} : rcv'[t] = rcv[t]
      /\ Heard(s)
  <2>1. got = OnStreamFrame(rcv[s], f) /\ read = Read(got) /\ UNCHANGED senderVars
    BY <1>1 DEF got, read
  <2> QED BY <1>2, <1>5, <2>1, HandledHalves
<1>7. /\ CreditInv' /\ local_max_data <= local_max_data'
      /\ local_max_streams <= local_max_streams'
  BY <1>1, <1>2, <1>5, <1>6, HandledCredit
<1>8. Onward
  <2>1. snd' = snd /\ next_sequence' = next_sequence /\ next_sequence \in Nat
    BY <1>1 DEF senderVars, IInv, CreditInv
  <2>2. \A t \in Stream : SendLater(snd[t], snd'[t])
    BY <2>1, SameLater DEF IInv, HalvesInv
  <2> QED BY <1>6, <1>7, <2>1, <2>2 DEF Onward
<1>9. /\ \A k : DataGood(k, next_sequence, snd, rcv) =>
                   DataGood(k, next_sequence', snd', rcv')
      /\ \A l : LimitGood(l, rcv, local_max_data, local_max_streams) =>
                   LimitGood(l, rcv', local_max_data', local_max_streams')
  <2>1. {next_sequence, next_sequence', local_max_data, local_max_data',
         local_max_streams, local_max_streams'} \subseteq Nat
    BY <1>7 DEF IInv, CreditInv
  <2> QED BY <1>6, <1>8, <2>1, GoodLater DEF IInv
<1>10. ControlInv'
  <2>1. /\ rcv' \in [Stream -> RecvStreamType]
        /\ local_max_data' \in Nat /\ local_max_streams' \in Nat
    BY <1>6, <1>7 DEF HalvesInv, CreditInv
  <2> QED BY <1>2, <1>5, <1>9, <2>1, HandledControl
<1>11. SlotInv'
  <2>1. p \in Slot /\ Held(packets[p]) /\ SlotInv
    BY <1>1, Constants DEF Held, IInv
  <2>2. LET k == packets[p]
        IN  /\ Offsets(k.frame) \subseteq rcv'[k.stream].received
            /\ k.frame.fin => rcv'[k.stream].final_size # NoSize
    BY <1>6 DEF s, f
  <2> QED BY <1>1, <1>9, <2>1, <2>2, BecomesGood
<1>12. error' = "none"
  BY <1>5 DEF Handled, IInv
<1> QED BY <1>2, <1>6, <1>7, <1>8, <1>10, <1>11, <1>12 DEF IInv

-----------------------------------------------------------------------------
(* Every step. *)

\* Every step keeps the invariant and takes nothing back.  The applications see
\* nothing of it, or one of them writes, or the other is given data.
LEMMA StepGood ==
    ASSUME IInv, [Next]_vars
    PROVE  /\ IInv' /\ Onward
           /\ \/ Silent
              \/ \E s \in Stream : \E n \in 0 .. Len(Content[s]), fin \in BOOLEAN :
                    SendStreamData(s, n, fin)
              \/ \E s \in Stream : Heard(s)
<1>1. CASE OpenStream
  BY <1>1, OpenStreamGood
<1>2. CASE \E s \in Stream : \E n \in 0 .. Len(Content[s]), fin \in BOOLEAN :
              SendStreamData(s, n, fin)
  <2>1. PICK s \in Stream : \E n \in 0 .. Len(Content[s]), fin \in BOOLEAN :
              SendStreamData(s, n, fin)
    BY <1>2
  <2>2. PICK n \in 0 .. Len(Content[s]), fin \in BOOLEAN : SendStreamData(s, n, fin)
    BY <2>1
  <2>3. n \in Nat
    BY Constants
  <2>4. IInv' /\ Onward
    BY <2>2, <2>3, SendStreamDataGood
  <2> QED BY <1>2, <2>4
<1>3. CASE \E s \in Stream, room \in Rooms : SendStreamFrame(s, room)
  BY <1>3, SendStreamFrameGood
<1>4. CASE SendLimit
  BY <1>4, SendLimitGood
<1>5. CASE \E p \in DataSlots : DeliverStreamFrame(p)
  BY <1>5, DeliverStreamFrameGood
<1>6. CASE \E p \in LimitSlots : DeliverLimit(p)
  BY <1>6, DeliverLimitGood
<1>7. CASE \E p \in Slot : Acknowledge(p)
  BY <1>7, AcknowledgeGood
<1>8. CASE \E p \in Slot : DeclareLost(p)
  BY <1>8, DeclareLostGood
<1>9. CASE \E p \in Slot : Drop(p)
  BY <1>9, DropGood
<1>10. CASE Probe
  BY <1>10, ProbeGood
<1>11. CASE ProbeLimits
  BY <1>11, ProbeLimitsGood
<1>12. CASE UNCHANGED vars
  <2>1. /\ snd' = snd /\ next_sequence' = next_sequence /\ written' = written
        /\ max_data' = max_data /\ data_sent' = data_sent /\ max_streams' = max_streams
        /\ rcv' = rcv /\ known' = known /\ local_max_data' = local_max_data
        /\ data_received' = data_received /\ local_max_streams' = local_max_streams
        /\ control_frames' = control_frames /\ delivered' = delivered
        /\ ended' = ended /\ error' = error /\ packets' = packets /\ losses' = losses
    BY <1>12 DEF vars, senderVars, receiverVars
  <2>2. HalvesInv' /\ SlotInv' /\ ControlInv' /\ CreditInv' /\ error' = "none"
    BY <2>1 DEF IInv, HalvesInv, SlotInv, ControlInv, CreditInv
  <2>3. \A t \in Stream : SendLater(snd[t], snd'[t]) /\ RecvLater(rcv[t], rcv'[t])
    BY <2>1, SameLater DEF IInv, HalvesInv
  <2>4. Onward
    <3>1. next_sequence \in Nat /\ local_max_data \in Nat /\ local_max_streams \in Nat
      BY CreditTypes DEF IInv
    <3>2. /\ next_sequence <= next_sequence' /\ local_max_data <= local_max_data'
          /\ local_max_streams <= local_max_streams'
      BY ONLY <2>1, <3>1
    <3> QED BY ONLY <2>3, <3>2, Zenon DEF Onward
  <2>5. Silent
    BY ONLY <2>1 DEF Silent
  <2>6. IInv'
    BY ONLY <2>2 DEF IInv
  <2> QED BY ONLY <2>4, <2>5, <2>6
<1> QED BY <1>1, <1>2, <1>3, <1>4, <1>5, <1>6, <1>7, <1>8, <1>9, <1>10, <1>11, <1>12,
           Zenon DEF Next, Application, Protocol, Trouble

\* The inductive invariant holds throughout.
LEMMA Invariant == Spec => []IInv
<1>1. IInv /\ [Next]_vars => IInv'
  BY StepGood
<1> QED BY InitGood, <1>1, PTL DEF Spec

-----------------------------------------------------------------------------
(* What Streams promises. *)

\* Every field keeps its type, and the buffer of a RecvStream always ends at its
\* highest offset.
THEOREM TypeCorrect == Spec => []TypeOK
<1>1. IInv => TypeOK
  <2> SUFFICES ASSUME IInv PROVE TypeOK
    OBVIOUS
  <2>1. \A s \in Stream : /\ snd[s] \in SendStreamType /\ rcv[s] \in RecvStreamType
                          /\ Len(rcv[s].buffer) = rcv[s].highest_offset
    BY DEF IInv, HalvesInv, RecvGood
  <2> QED BY <2>1 DEF IInv, TypeOK, CreditInv, SlotInv
<1> QED BY Invariant, <1>1, PTL

\* However frames are lost, repeated and reordered, on_stream_frame never raises
\* a stream limit, flow control or final size error.
THEOREM NeverStreamError == Spec => []NoStreamError
<1>1. IInv => NoStreamError
  BY DEF IInv, NoStreamError
<1> QED BY Invariant, <1>1, PTL

\* What the StreamDataReceived events carried is a prefix of what was written.
THEOREM PrefixDelivered == Spec => []DeliveredIsPrefix
<1>1. IInv => DeliveredIsPrefix
  <2> SUFFICES ASSUME IInv, NEW s \in Stream
               PROVE  /\ Len(delivered[s]) <= written[s]
                      /\ delivered[s] = SubSeq(Content[s], 1, Len(delivered[s]))
    BY DEF DeliveredIsPrefix
  <2> DEFINE n == rcv[s].read_offset  c == Content[s]
  <2>1. /\ SendGood(snd[s], c, written[s]) /\ RecvGood(rcv[s], snd[s], c)
        /\ delivered[s] = SubSeq(c, 1, n)
        /\ snd[s] \in SendStreamType /\ rcv[s] \in RecvStreamType /\ written[s] \in Nat
    BY DEF IInv, HalvesInv
  <2>2. /\ n \in Nat /\ rcv[s].highest_offset \in Nat /\ snd[s].base_offset \in Nat
        /\ Len(snd[s].pending) \in Nat
    <3>1. snd[s].base_offset \in Nat /\ snd[s].pending \in Seq(Nat)
      BY ONLY <2>1 DEF SendStreamType
    <3>2. n \in Nat /\ rcv[s].highest_offset \in Nat
      BY ONLY <2>1 DEF RecvStreamType
    <3> QED BY ONLY <3>1, <3>2
  <2>3. /\ n <= rcv[s].highest_offset /\ rcv[s].highest_offset <= snd[s].base_offset
        /\ written[s] = snd[s].base_offset + Len(snd[s].pending)
        /\ written[s] <= Len(c)
    BY <2>1 DEF SendGood, RecvGood
  <2>4. c \in Seq(Nat) /\ Len(c) \in Nat
    BY Constants
  <2>5. n <= written[s] /\ n <= Len(c)
    BY <2>1, <2>2, <2>3, <2>4
  <2> HIDE DEF n, c
  <2>6. Len(SubSeq(c, 1, n)) = n
    BY <2>2, <2>4, <2>5, SubSeqProperties
  <2> QED BY <2>1, <2>5, <2>6 DEF c
<1> QED BY Invariant, <1>1, PTL

\* A SendStream in Data Recvd is right about its peer: every byte written and the
\* final size have arrived.
THEOREM SenderIsRight == Spec => []SenderKnows
<1>1. IInv => SenderKnows
  <2> SUFFICES ASSUME IInv, NEW s \in Stream, snd[s].state = "DATA_RECVD"
               PROVE  /\ CoversTo(rcv[s].received, written[s])
                      /\ rcv[s].final_size = written[s]
    BY DEF SenderKnows
  <2> DEFINE x == snd[s]  r == rcv[s]
  <2>1. /\ SendGood(x, Content[s], written[s]) /\ RecvGood(r, x, Content[s])
        /\ Agree(x, r) /\ x \in SendStreamType /\ written[s] \in Nat
    BY DEF IInv, HalvesInv
  <2>2. /\ x.fin_acked /\ x.fin_sent /\ CoversTo(x.acked, written[s])
    BY <2>1 DEF SendGood
  <2>3. written[s] = x.base_offset
    <3>1. x.pending = <<>> /\ written[s] = x.base_offset + Len(x.pending)
      BY <2>1, <2>2 DEF SendGood
    <3>2. x.base_offset \in Nat
      BY <2>1 DEF SendStreamType
    <3>3. Len(x.pending) = 0
      BY <3>1
    <3> QED BY <3>1, <3>2, <3>3
  <2>4. r.final_size = x.base_offset
    BY <2>1, <2>2 DEF Agree, RecvGood
  <2>5. CoversTo(r.received, written[s])
    BY <2>1, <2>2 DEF Agree, CoversTo
  <2> QED BY <2>3, <2>4, <2>5
<1> QED BY Invariant, <1>1, PTL

\* The receiver never holds more than a window beyond what was read, on a stream
\* or on the connection: credit is extended by what was read and nothing else.
THEOREM BuffersBounded == Spec => []BufferBounded
<1>1. IInv => BufferBounded
  <2> SUFFICES ASSUME IInv PROVE BufferBounded
    OBVIOUS
  <2>1. ASSUME NEW s \in Stream
        PROVE  rcv[s].highest_offset - rcv[s].read_offset <= StreamWindow
    <3>1. /\ SendGood(snd[s], Content[s], written[s])
          /\ RecvGood(rcv[s], snd[s], Content[s])
          /\ Agree(snd[s], rcv[s]) /\ rcv[s].window = StreamWindow
          /\ snd[s] \in SendStreamType /\ rcv[s] \in RecvStreamType
      BY DEF IInv, HalvesInv
    <3>2. /\ rcv[s].highest_offset \in Nat /\ rcv[s].read_offset \in Nat
          /\ rcv[s].max_stream_data \in Nat /\ snd[s].max_stream_data \in Nat
          /\ snd[s].base_offset \in Nat /\ StreamWindow \in Nat
      BY <3>1, Constants DEF SendStreamType, RecvStreamType
    <3>3. /\ rcv[s].highest_offset <= snd[s].base_offset
          /\ snd[s].base_offset <= snd[s].max_stream_data
          /\ snd[s].max_stream_data <= rcv[s].max_stream_data
          /\ rcv[s].max_stream_data <= rcv[s].read_offset + StreamWindow
      BY <3>1 DEF SendGood, RecvGood, Agree
    <3> QED BY <3>2, <3>3
  <2>2. Cardinality(BytesBetween(ReadOffset(rcv), HighestOffset(rcv))) <= DataWindow
    <3> DEFINE g == ReadOffset(rcv)  h == HighestOffset(rcv)  b == BaseOffset(snd)
    <3>1. \A s \in Stream : /\ rcv[s].read_offset \in Nat
                            /\ rcv[s].highest_offset \in Nat
                            /\ snd[s].base_offset \in Nat
                            /\ rcv[s].read_offset <= rcv[s].highest_offset
                            /\ rcv[s].highest_offset <= snd[s].base_offset
      BY DEF IInv, HalvesInv, RecvGood, RecvStreamType, SendStreamType
    <3>2. /\ g \in [Stream -> Nat] /\ h \in [Stream -> Nat] /\ b \in [Stream -> Nat]
          /\ \A s \in Stream : g[s] <= h[s] /\ h[s] <= b[s]
      BY <3>1 DEF ReadOffset, HighestOffset, BaseOffset
    <3>3. /\ Consumed(rcv) = Cardinality(BytesBetween(Start, g))
          /\ data_sent = Cardinality(BytesBetween(Start, b))
          /\ data_sent <= max_data /\ max_data <= local_max_data
          /\ local_max_data <= Consumed(rcv) + DataWindow
      BY DEF IInv, CreditInv, Consumed
    <3>4. max_data \in Nat /\ local_max_data \in Nat /\ DataWindow \in Nat
      BY CreditTypes, Constants DEF IInv
    <3> HIDE DEF g, h, b
    <3>5. /\ Cardinality(BytesBetween(Start, g)) \in Nat
          /\ Cardinality(BytesBetween(Start, h)) \in Nat
          /\ Cardinality(BytesBetween(Start, b)) \in Nat
          /\ Cardinality(BytesBetween(g, h)) \in Nat
      BY <3>2, StartType, BytesFinite
    <3>6. Cardinality(BytesBetween(Start, h)) <= Cardinality(BytesBetween(Start, b))
      BY <3>2, BytesMonotone
    <3>7. Cardinality(BytesBetween(Start, h))
             = Cardinality(BytesBetween(Start, g)) + Cardinality(BytesBetween(g, h))
      BY <3>2, BytesSplit
    <3>8. Cardinality(BytesBetween(g, h)) <= DataWindow
      BY <3>3, <3>4, <3>5, <3>6, <3>7
    <3> QED BY <3>8 DEF g, h
  <2> QED BY <2>1, <2>2 DEF BufferBounded
<1> QED BY Invariant, <1>1, PTL

\* No step takes a SendStream or a RecvStream back to an earlier state.
THEOREM StatesOnlyAdvance == Spec => StatesAdvance
<1>1. ASSUME IInv, [Next]_vars
      PROVE  \A s \in Stream :
                /\ SendOrder[snd[s].state] <= SendOrder[snd'[s].state]
                /\ RecvOrder[rcv[s].state] <= RecvOrder[rcv'[s].state]
  <2>1. IInv' /\ Onward
    BY <1>1, StepGood
  <2> TAKE s \in Stream
  <2>2. /\ snd[s].state \in {"READY", "SEND", "DATA_SENT", "DATA_RECVD"}
        /\ snd'[s].state \in {"READY", "SEND", "DATA_SENT", "DATA_RECVD"}
        /\ rcv[s].state \in {"RECV", "SIZE_KNOWN", "DATA_RECVD", "DATA_READ"}
        /\ rcv'[s].state \in {"RECV", "SIZE_KNOWN", "DATA_RECVD", "DATA_READ"}
    BY <1>1, <2>1 DEF IInv, HalvesInv, SendStreamType, RecvStreamType
  <2>3. SendLater(snd[s], snd'[s]) /\ RecvLater(rcv[s], rcv'[s])
    BY <2>1 DEF Onward
  <2>4. /\ SendOrder["READY"] = 0 /\ SendOrder["SEND"] = 1
        /\ SendOrder["DATA_SENT"] = 2 /\ SendOrder["DATA_RECVD"] = 3
        /\ RecvOrder["RECV"] = 0 /\ RecvOrder["SIZE_KNOWN"] = 1
        /\ RecvOrder["DATA_RECVD"] = 2 /\ RecvOrder["DATA_READ"] = 3
    BY DEF SendOrder, RecvOrder
  <2>5. SendOrder[snd[s].state] <= SendOrder[snd'[s].state]
    BY <2>2, <2>3, <2>4 DEF SendLater
  <2>6. RecvOrder[rcv[s].state] <= RecvOrder[rcv'[s].state]
    BY <2>2, <2>3, <2>4 DEF RecvLater
  <2> QED BY <2>5, <2>6
<1> QED BY Invariant, <1>1, PTL DEF Spec, StatesAdvance

-----------------------------------------------------------------------------
(* Streams implements ByteStream, its fairness aside. *)

\* send_stream_data is a write.
LEMMA SendStreamDataWrites ==
    ASSUME IInv, NEW s \in Stream, NEW n \in 0 .. Len(Content[s]),
           NEW fin \in BOOLEAN, SendStreamData(s, n, fin)
    PROVE  Abstract!Next
<1> DEFINE closed == [t \in Stream |-> snd[t].fin_queued]
           closed2 == [t \in Stream |-> snd'[t].fin_queued]
           y == Write(snd[s], SubSeq(Content[s], written[s] + 1, written[s] + n), fin)
<1>1. /\ snd \in [Stream -> SendStreamType] /\ written \in [Stream -> Nat]
      /\ snd[s] \in SendStreamType /\ written[s] \in Nat /\ n \in Nat
      /\ Len(Content[s]) \in Nat
  BY Constants DEF IInv, HalvesInv
<1>2. /\ ~snd[s].fin_queued /\ written[s] + n <= Len(Content[s])
      /\ written' = [written EXCEPT ![s] = written[s] + n]
      /\ snd' = [snd EXCEPT ![s] = y] /\ delivered' = delivered /\ ended' = ended
  BY DEF SendStreamData, receiverVars
<1>3. y.fin_queued = fin
  BY <1>1 DEF Write, SendStreamType
<1> HIDE DEF y
<1>4. /\ snd'[s] = y /\ \A t \in Stream \ {s} : snd'[t] = snd[t]
  BY <1>1, <1>2
<1>5. closed2 \in {closed, [closed EXCEPT ![s] = TRUE]}
  <2>1. CASE fin
    <3>1. closed2 = [closed EXCEPT ![s] = TRUE]
      BY <1>3, <1>4, <2>1
    <3> QED BY <3>1
  <2>2. CASE ~fin
    <3>1. snd[s].fin_queued = FALSE /\ snd'[s].fin_queued = FALSE
      BY <1>1, <1>2, <1>3, <1>4, <2>2 DEF SendStreamType
    <3>2. \A t \in Stream : snd'[t].fin_queued = snd[t].fin_queued
      BY <1>4, <3>1
    <3>3. closed2 = closed
      BY <3>2
    <3> QED BY <3>3
  <2> QED BY <2>1, <2>2
<1>6. written[s] + n \in written[s] .. Len(Content[s])
  BY <1>1, <1>2
<1>7. ~closed[s]
  BY <1>2
<1>8. Abstract!Write(s)
  BY <1>2, <1>5, <1>6, <1>7, Zenon DEF Abstract!Write
<1> QED BY <1>8, Zenon DEF Abstract!Next, Abstract!Stream, Stream

\* A STREAM frame that arrives delivers something of its stream, or nothing.
LEMMA HeardDelivers ==
    ASSUME IInv, IInv', Onward, NEW s \in Stream, Heard(s)
    PROVE  [Abstract!Next]_(Abstract!vars)
<1> DEFINE closed == [t \in Stream |-> snd[t].fin_queued]
           n == rcv'[s].read_offset
           last == IF rcv'[s].state = "DATA_READ" THEN 1 ELSE 0
<1>1. /\ snd' = snd /\ written' = written
      /\ \A t \in Stream \ {s} : delivered'[t] = delivered[t] /\ ended'[t] = ended[t]
  BY DEF Heard, senderVars
<1>2. /\ delivered \in [Stream -> Seq(Nat)] /\ delivered' \in [Stream -> Seq(Nat)]
      /\ ended \in [Stream -> Nat] /\ ended' \in [Stream -> Nat]
      /\ delivered[s] = SubSeq(Content[s], 1, rcv[s].read_offset)
      /\ delivered'[s] = SubSeq(Content[s], 1, n)
      /\ ended[s] = (IF rcv[s].state = "DATA_READ" THEN 1 ELSE 0) /\ ended'[s] = last
  BY DEF IInv, HalvesInv
<1>3. /\ delivered' = [delivered EXCEPT ![s] = SubSeq(Content[s], 1, n)]
      /\ ended' = [ended EXCEPT ![s] = last]
  BY <1>1, <1>2
<1>4. /\ SendGood(snd[s], Content[s], written[s])
      /\ RecvGood(rcv[s], snd[s], Content[s]) /\ RecvGood(rcv'[s], snd[s], Content[s])
      /\ RecvLater(rcv[s], rcv'[s])
      /\ snd[s] \in SendStreamType /\ written[s] \in Nat
      /\ rcv[s] \in RecvStreamType /\ rcv'[s] \in RecvStreamType
  BY <1>1 DEF IInv, HalvesInv, Onward
<1>5. /\ n \in Nat /\ rcv[s].read_offset \in Nat /\ snd[s].base_offset \in Nat
      /\ rcv[s].highest_offset \in Nat /\ rcv'[s].highest_offset \in Nat
      /\ Len(snd[s].pending) \in Nat
  <2>1. /\ snd[s] \in SendStreamType /\ rcv[s] \in RecvStreamType
        /\ rcv'[s] \in RecvStreamType
    BY <1>4
  <2>2. snd[s].base_offset \in Nat /\ snd[s].pending \in Seq(Nat)
    BY ONLY <2>1 DEF SendStreamType
  <2>3. /\ n \in Nat /\ rcv[s].read_offset \in Nat
        /\ rcv[s].highest_offset \in Nat /\ rcv'[s].highest_offset \in Nat
    BY ONLY <2>1 DEF RecvStreamType
  <2> QED BY <2>2, <2>3
<1>6. CASE rcv[s].state = "DATA_READ"
  <2>1. rcv'[s].state = "DATA_READ" /\ n = rcv[s].read_offset
    BY <1>4, <1>6 DEF RecvLater, RecvGood
  <2>2. delivered'[s] = delivered[s] /\ ended'[s] = ended[s]
    BY <1>2, <1>6, <2>1
  <2>3. delivered' = delivered /\ ended' = ended
    <3>1. \A t \in Stream : delivered'[t] = delivered[t] /\ ended'[t] = ended[t]
      BY <1>1, <2>2
    <3> QED BY ONLY <1>2, <3>1
  <2>4. UNCHANGED Abstract!vars
    BY <1>1, <2>3, Zenon DEF Abstract!vars
  <2> QED BY <2>4
<1>7. CASE rcv[s].state # "DATA_READ"
  <2>1. ended[s] = 0
    BY <1>2, <1>7
  <2>2. /\ rcv[s].read_offset <= n /\ n <= rcv'[s].highest_offset
        /\ rcv'[s].highest_offset <= snd[s].base_offset
        /\ written[s] = snd[s].base_offset + Len(snd[s].pending)
        /\ written[s] <= Len(Content[s])
    BY <1>4 DEF RecvLater, RecvGood, SendGood
  <2>3. Len(delivered[s]) = rcv[s].read_offset
    <3> DEFINE c == Content[s]  m == rcv[s].read_offset
    <3>1. c \in Seq(Nat) /\ Len(c) \in Nat /\ m \in Nat /\ m <= Len(c)
      <4>1. c \in Seq(Nat) /\ Len(c) \in Nat
        BY Constants
      <4>2. written[s] \in Nat
        BY <1>4
      <4> QED BY ONLY <1>5, <2>2, <4>1, <4>2
    <3>2. delivered[s] = SubSeq(c, 1, m)
      BY <1>2
    <3> HIDE DEF c, m
    <3>3. Len(SubSeq(c, 1, m)) = m
      BY ONLY <3>1, SubSeqProperties
    <3> QED BY <3>2, <3>3 DEF m
  <2>4. n \in Len(delivered[s]) .. written[s]
    <3> DEFINE low == rcv[s].read_offset  sent == snd[s].base_offset
               h == rcv'[s].highest_offset  more == Len(snd[s].pending)
               w == written[s]
    <3>1. /\ n \in Nat /\ low \in Nat /\ h \in Nat /\ sent \in Nat /\ more \in Nat
          /\ w \in Nat
      BY <1>4, <1>5
    <3>2. low <= n /\ n <= h /\ h <= sent /\ w = sent + more
      BY ONLY <2>2
    <3> HIDE DEF n, low, sent, h, more, w
    <3>3. low <= n /\ n <= w
      BY ONLY <3>1, <3>2
    <3>4. n \in low .. w
      BY ONLY <3>1, <3>3
    <3> QED BY <2>3, <3>4 DEF low, w
  <2>5. last \in {0, 1} /\ (last = 1 => closed[s] /\ n = written[s])
    <3> SUFFICES ASSUME rcv'[s].state = "DATA_READ"
                 PROVE  closed[s] /\ n = written[s]
      OBVIOUS
    <3>1. /\ rcv'[s].state # "RECV" => rcv'[s].final_size # NoSize
          /\ rcv'[s].final_size # NoSize =>
                snd[s].fin_sent /\ rcv'[s].final_size = snd[s].base_offset
          /\ rcv'[s].state = "DATA_READ" => rcv'[s].final_size = rcv'[s].read_offset
      <4>1. RecvGood(rcv'[s], snd[s], Content[s])
        BY <1>4
      <4> QED BY ONLY <4>1, Zenon DEF RecvGood
    <3>2. snd[s].fin_sent /\ n = snd[s].base_offset
      BY ONLY <3>1, rcv'[s].state = "DATA_READ"
    <3>3. snd[s].fin_queued /\ snd[s].pending = <<>>
      BY <1>4, <3>2 DEF SendGood
    <3>4. Len(snd[s].pending) = 0
      BY ONLY <3>3
    <3>5. written[s] = snd[s].base_offset
      BY ONLY <1>5, <2>2, <3>4
    <3> QED BY ONLY <3>2, <3>3, <3>5, s \in Stream
  <2>6. Abstract!Deliver(s)
    <3> HIDE DEF n, last
    <3>1. [t \in Stream |-> snd'[t].fin_queued] = closed
      BY <1>1
    <3> QED BY ONLY <1>1, <1>3, <2>1, <2>4, <2>5, <3>1, s \in Stream, Zenon
            DEF Abstract!Deliver
  <2> QED BY <2>6, Zenon DEF Abstract!Next, Abstract!Stream, Stream
<1> QED BY <1>6, <1>7

\* Bytes come out in order, each once, and after the last of them the end, once:
\* the safety part of ReliableByteStream.
THEOREM ImplementsByteStream ==
    Spec => Abstract!Init /\ [][Abstract!Next]_(Abstract!vars)
<1>1. Init => Abstract!Init
  BY DEF Init, ReceiverInit, Abstract!Init, Abstract!Stream, Stream, NewSendStream
<1>2. ASSUME IInv, [Next]_vars
      PROVE  [Abstract!Next]_(Abstract!vars)
  <2>1. CASE Silent
    <3>1. [s \in Stream |-> snd'[s].fin_queued] = [s \in Stream |-> snd[s].fin_queued]
      BY <2>1 DEF Silent
    <3>2. written' = written /\ delivered' = delivered /\ ended' = ended
      BY <2>1 DEF Silent
    <3>3. UNCHANGED Abstract!vars
      BY <3>1, <3>2, Zenon DEF Abstract!vars
    <3> QED BY <3>3
  <2>2. CASE \E s \in Stream : \E n \in 0 .. Len(Content[s]), fin \in BOOLEAN :
                SendStreamData(s, n, fin)
    BY <1>2, <2>2, SendStreamDataWrites
  <2>3. CASE \E s \in Stream : Heard(s)
    <3>1. IInv' /\ Onward
      BY <1>2, StepGood
    <3> QED BY <1>2, <2>3, <3>1, HeardDelivers
  <2> QED BY <1>2, <2>1, <2>2, <2>3, StepGood
<1> QED BY Invariant, <1>1, <1>2, PTL DEF Spec
=============================================================================
