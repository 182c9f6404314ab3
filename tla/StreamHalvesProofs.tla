------------------------- MODULE StreamHalvesProofs -------------------------
(***************************************************************************)
(* What each method of SendStream and RecvStream keeps true, for contents, *)
(* frames and credits of any size.  x is a sending half, r the receiving   *)
(* half of the same stream, c what there is to write and w how much of it  *)
(* was written.                                                            *)
(***************************************************************************)
EXTENDS StreamHalves, SequenceTheorems, WellFoundedInduction, TLAPS

-----------------------------------------------------------------------------
(* Min and Max. *)

\* The smallest member of a set of naturals is one of them, and bounds the others.
LEMMA MinOfNaturals ==
    ASSUME NEW S \in SUBSET Nat, S # {}
    PROVE  Min(S) \in S /\ \A y \in S : Min(S) <= y
<1> DEFINE R == OpToRel(<, Nat)
<1>1. IsWellFoundedOn(R, Nat)
  BY ONLY NatLessThanWellFounded, Zenon
<1>2. \A x, y \in Nat : x < y => <<x, y>> \in R
  BY DEF OpToRel
<1> HIDE DEF R
<1>3. PICK x \in S : \A y \in S : ~(<<y, x>> \in R)
  BY <1>1, WFMin
<1>4. \A y \in S : x <= y
  <2>1. \A y \in S : ~(y < x)
    BY <1>2, <1>3, Zenon
  <2> QED BY <2>1
<1> QED BY <1>3, <1>4 DEF Min

\* The largest member of a bounded set of naturals is one of them, and bounds
\* the others.
LEMMA MaxOfBounded ==
    ASSUME NEW n \in Nat, NEW S \in SUBSET (0 .. n), S # {}
    PROVE  Max(S) \in S /\ \A y \in S : Max(S) >= y
<1> DEFINE T == {n - x : x \in S}
<1>1. T \in SUBSET Nat /\ T # {}
  <2>1. \A x \in S : n - x \in Nat
    OBVIOUS
  <2> QED BY <2>1, Zenon
<1>2. PICK m \in T : \A y \in T : m <= y
  <2> HIDE DEF T
  <2> QED BY <1>1, MinOfNaturals
<1>3. PICK x \in S : m = n - x
  BY <1>2
<1>4. \A y \in S : x >= y
  <2>1. \A y \in S : n - x <= n - y
    BY <1>2, <1>3
  <2> QED BY <2>1
<1> QED BY <1>3, <1>4 DEF Max

\* The larger of two integers.
LEMMA MaxOfTwo ==
    ASSUME NEW a \in Int, NEW b \in Int
    PROVE  Max({a, b}) = IF a >= b THEN a ELSE b
<1>1. CASE a >= b
  BY <1>1 DEF Max
<1>2. CASE ~(a >= b)
  BY <1>2 DEF Max
<1> QED BY <1>1, <1>2

\* The frame carries what was written, where it belongs, and has been sent.
Genuine(f, x, c) ==
    /\ f \in StreamFrame
    /\ End(f) <= x.base_offset
    /\ \A i \in 1 .. Len(f.data) : f.data[i] = c[f.offset + i]
    /\ f.fin => x.fin_sent /\ End(f) = x.base_offset

SendGood(x, c, w) ==
    /\ x \in SendStreamType
    /\ w = x.base_offset + Len(x.pending) /\ w <= Len(c)
    /\ \A i \in 1 .. Len(x.pending) : x.pending[i] = c[x.base_offset + i]
    /\ x.highest_offset_sent = x.base_offset
    /\ x.base_offset <= x.max_stream_data
    /\ x.fin_sent => x.fin_queued /\ x.pending = <<>>
    /\ x.final_size = IF x.fin_queued THEN w ELSE NoSize
    /\ x.fin_acked => x.fin_sent
    /\ x.state \in {"DATA_SENT", "DATA_RECVD"} => x.fin_sent
    /\ x.state = "DATA_RECVD" => x.fin_acked /\ CoversTo(x.acked, x.final_size)
    /\ \A i \in 1 .. Len(x.retransmit) : Genuine(x.retransmit[i], x, c)

RecvGood(r, x, c) ==
    /\ r \in RecvStreamType
    /\ Len(r.buffer) = r.highest_offset /\ r.highest_offset <= x.base_offset
    /\ r.received \subseteq 0 .. r.highest_offset - 1
    /\ r.read_offset <= r.highest_offset /\ CoversTo(r.received, r.read_offset)
    /\ \A o \in r.received : r.buffer[o + 1] = c[o + 1]
    /\ r.final_size # NoSize => x.fin_sent /\ r.final_size = x.base_offset
    /\ r.max_stream_data <= r.read_offset + r.window
    /\ r.state # "RECV" => r.final_size # NoSize
    /\ r.state = "DATA_RECVD" => CoversTo(r.received, r.final_size)
    /\ r.state = "DATA_READ" => r.final_size = r.read_offset

\* What the sender believes of the receiver is so.
Agree(x, r) ==
    /\ x.max_stream_data <= r.max_stream_data
    /\ x.acked \subseteq r.received
    /\ x.fin_acked => r.final_size # NoSize

\* y is what x may become, q what r may become.
SendLater(x, y) ==
    /\ x.base_offset <= y.base_offset
    /\ x.fin_sent => y.fin_sent /\ y.base_offset = x.base_offset
    /\ x.state = "SEND" => y.state # "READY"
    /\ x.state = "DATA_SENT" => y.state \in {"DATA_SENT", "DATA_RECVD"}
    /\ x.state = "DATA_RECVD" => y.state = "DATA_RECVD"

SameAcks(x, y) == y.acked = x.acked /\ y.fin_acked = x.fin_acked

RecvLater(r, q) ==
    /\ r.received \subseteq q.received
    /\ r.max_stream_data <= q.max_stream_data
    /\ r.read_offset <= q.read_offset
    /\ r.highest_offset <= q.highest_offset
    /\ r.window = q.window
    /\ r.final_size # NoSize => q.final_size = r.final_size
    /\ r.state = "SIZE_KNOWN" => q.state # "RECV"
    /\ r.state = "DATA_RECVD" => q.state \in {"DATA_RECVD", "DATA_READ"}
    /\ r.state = "DATA_READ" => q.state = "DATA_READ"

-----------------------------------------------------------------------------
(* What stays true of frames and of the other half when a half moves on. *)

\* A frame that was right to send stays right while its SendStream moves on.
LEMMA GenuineLater ==
    ASSUME NEW x \in SendStreamType, NEW y \in SendStreamType, NEW c, NEW f,
           Genuine(f, x, c), SendLater(x, y)
    PROVE  Genuine(f, y, c)
<1>1. End(f) \in Nat /\ x.base_offset \in Nat /\ y.base_offset \in Nat
  BY DEF Genuine, StreamFrame, End, SendStreamType
<1> QED BY <1>1 DEF Genuine, SendLater

\* What a RecvStream holds stays right while the SendStream moves on.
LEMMA RecvGoodLater ==
    ASSUME NEW x \in SendStreamType, NEW y \in SendStreamType, NEW c, NEW r,
           RecvGood(r, x, c), SendLater(x, y)
    PROVE  RecvGood(r, y, c)
<1>1. r.highest_offset \in Nat /\ x.base_offset \in Nat /\ y.base_offset \in Nat
  BY DEF RecvGood, RecvStreamType, SendStreamType
<1> QED BY <1>1 DEF RecvGood, SendLater

\* What a SendStream believes stays true while the RecvStream moves on.
LEMMA AgreeLater ==
    ASSUME NEW x \in SendStreamType, NEW r \in RecvStreamType,
           NEW q \in RecvStreamType, Agree(x, r), RecvLater(r, q)
    PROVE  Agree(x, q)
<1>1. {x.max_stream_data, r.max_stream_data, q.max_stream_data} \subseteq Nat
  BY DEF RecvStreamType, SendStreamType
<1> QED BY <1>1 DEF Agree, RecvLater

-----------------------------------------------------------------------------
(* SendStream *)

\* The two halves as their constructors leave them.
LEMMA NewStreamsGood ==
    ASSUME NEW c \in Seq(Nat), NEW m \in Nat
    PROVE  /\ SendGood(NewSendStream(m), c, 0)
           /\ RecvGood(NewRecvStream(m), NewSendStream(m), c)
           /\ Agree(NewSendStream(m), NewRecvStream(m))
<1> DEFINE x == NewSendStream(m)  r == NewRecvStream(m)
<1>1. x \in SendStreamType /\ r \in RecvStreamType
  BY DEF NewSendStream, NewRecvStream, SendStreamType, RecvStreamType, NoSize
<1>2. SendGood(x, c, 0)
  BY <1>1 DEF SendGood, NewSendStream, NoSize
<1>3. RecvGood(r, x, c)
  BY <1>1 DEF RecvGood, NewSendStream, NewRecvStream, CoversTo, NoSize
<1>4. Agree(x, r)
  BY DEF Agree, NewSendStream, NewRecvStream
<1> QED BY <1>2, <1>3, <1>4

\* A change that leaves what was sent alone keeps the retransmissions genuine.
LEMMA RetransmitLater ==
    ASSUME NEW x \in SendStreamType, NEW y \in SendStreamType, NEW c,
           \A i \in 1 .. Len(x.retransmit) : Genuine(x.retransmit[i], x, c),
           SendLater(x, y), y.retransmit = x.retransmit
    PROVE  \A i \in 1 .. Len(y.retransmit) : Genuine(y.retransmit[i], y, c)
BY GenuineLater

\* write.
LEMMA WriteGood ==
    ASSUME NEW c \in Seq(Nat), NEW w \in Nat, NEW x, SendGood(x, c, w),
           ~x.fin_queued, NEW n \in Nat, w + n <= Len(c), NEW fin \in BOOLEAN
    PROVE  LET y == Write(x, SubSeq(c, w + 1, w + n), fin)
           IN  /\ SendGood(y, c, w + n)
               /\ SendLater(x, y)
               /\ SameAcks(x, y)
               /\ y.max_stream_data = x.max_stream_data
               /\ y.base_offset = x.base_offset
               /\ y.fin_queued = fin
<1> DEFINE d == SubSeq(c, w + 1, w + n)
           y == Write(x, d, fin)
<1>1. /\ d \in Seq(Nat) /\ Len(d) = n
      /\ \A i \in 1 .. n : d[i] = c[w + i]
  <2>1. Len(c) \in Nat /\ \A i \in w + 1 .. w + n : c[i] \in Nat
    OBVIOUS
  <2>2. /\ d \in Seq(Nat)
        /\ Len(d) = IF w + 1 <= w + n THEN (w + n) - (w + 1) + 1 ELSE 0
        /\ \A i \in 1 .. (w + n) - (w + 1) + 1 : d[i] = c[(w + 1) + i - 1]
    BY <2>1, SubSeqProperties
  <2>3. \A i \in 1 .. n : (w + 1) + i - 1 = w + i
    OBVIOUS
  <2>4. \A i \in 1 .. n : i \in 1 .. (w + n) - (w + 1) + 1
    OBVIOUS
  <2> HIDE DEF d
  <2>5. Len(d) = n
    BY ONLY <2>2, n \in Nat, w \in Nat
  <2>6. ASSUME NEW i \in 1 .. n PROVE d[i] = c[w + i]
    <3>1. d[i] = c[(w + 1) + i - 1]
      BY ONLY <2>2, <2>4, i \in 1 .. n
    <3>2. (w + 1) + i - 1 = w + i
      BY <2>3
    <3> QED BY ONLY <3>1, <3>2
  <2> QED BY ONLY <2>2, <2>5, <2>6
<1> HIDE DEF d
<1>2. /\ x \in SendStreamType /\ x.pending \in Seq(Nat) /\ x.base_offset \in Nat
      /\ Len(x.pending) \in Nat
  BY DEF SendGood, SendStreamType
<1>3. /\ x.pending \o d \in Seq(Nat)
      /\ Len(x.pending \o d) = Len(x.pending) + n
      /\ \A i \in 1 .. Len(x.pending) + n : (x.pending \o d)[i] =
            IF i <= Len(x.pending) THEN x.pending[i] ELSE d[i - Len(x.pending)]
  <2>1. /\ x.pending \in Seq(Nat) /\ d \in Seq(Nat) /\ Len(d) = n
    BY <1>1, <1>2
  <2> QED BY ONLY <2>1, ConcatProperties
<1>4. /\ y.pending = x.pending \o d /\ y.fin_queued = fin
      /\ y.final_size = IF fin THEN x.base_offset + Len(x.pending) + n
                        ELSE x.final_size
  BY <1>1, <1>2 DEF Write, SendStreamType
<1>5. /\ y \in SendStreamType
      /\ y.state = x.state /\ y.max_stream_data = x.max_stream_data
      /\ y.base_offset = x.base_offset /\ y.retransmit = x.retransmit
      /\ y.highest_offset_sent = x.highest_offset_sent
      /\ y.fin_sent = x.fin_sent /\ y.acked = x.acked /\ y.fin_acked = x.fin_acked
  <2>1. y.final_size \in Nat \cup {NoSize}
    BY <1>2, <1>4 DEF SendStreamType
  <2> QED BY <1>2, <1>3, <1>4, <2>1 DEF SendStreamType, Write
<1> HIDE DEF y
<1>6. ~x.fin_sent /\ x.state \notin {"DATA_SENT", "DATA_RECVD"} /\ ~x.fin_acked
  BY DEF SendGood
<1>7. SendLater(x, y)
  BY <1>2, <1>5 DEF SendLater
<1>8. \A i \in 1 .. Len(y.pending) : y.pending[i] = c[y.base_offset + i]
  <2> TAKE i \in 1 .. Len(y.pending)
  <2>1. w = x.base_offset + Len(x.pending)
    BY DEF SendGood
  <2>2. CASE i <= Len(x.pending)
    BY <1>2, <1>3, <1>4, <1>5, <2>2 DEF SendGood
  <2>3. CASE ~(i <= Len(x.pending))
    <3>1. i - Len(x.pending) \in 1 .. n
      BY <1>2, <1>3, <1>4, <2>3
    <3>2. d[i - Len(x.pending)] = c[w + (i - Len(x.pending))]
      BY <1>1, <3>1
    <3>3. w + (i - Len(x.pending)) = y.base_offset + i
      BY <1>2, <1>5, <2>1
    <3> QED BY <1>2, <1>3, <1>4, <2>3, <3>2, <3>3
  <2> QED BY <2>2, <2>3
<1>9. w + n = y.base_offset + Len(y.pending)
  BY <1>2, <1>3, <1>4, <1>5 DEF SendGood
<1>10. y.final_size = IF y.fin_queued THEN w + n ELSE NoSize
  BY <1>2, <1>4 DEF SendGood
<1>11. \A i \in 1 .. Len(y.retransmit) : Genuine(y.retransmit[i], y, c)
  BY <1>2, <1>5, <1>7, RetransmitLater DEF SendGood
<1>12. SendGood(y, c, w + n)
  <2>1. y.highest_offset_sent = y.base_offset /\ y.base_offset <= y.max_stream_data
    BY <1>5 DEF SendGood
  <2> QED BY <1>5, <1>6, <1>8, <1>9, <1>10, <1>11, <2>1 DEF SendGood
<1> QED BY <1>4, <1>5, <1>7, <1>12 DEF y, d, SameAcks

\* next_frame takes no more than is pending and than either credit allows.
LEMMA NewBytesBounded ==
    ASSUME NEW x \in SendStreamType, NEW room \in Int, NEW credit \in Int
    PROVE  LET n == NewBytes(x, room, credit)
           IN  /\ n \in 0 .. Len(x.pending)
               /\ n = 0 \/ (/\ n <= credit
                            /\ x.base_offset + n <= x.max_stream_data)
<1> DEFINE S == {n \in 0 .. Len(x.pending) :
                    n = 0 \/ (/\ n <= room
                              /\ x.base_offset + n <= x.max_stream_data
                              /\ n <= credit)}
<1>1. Len(x.pending) \in Nat
  BY DEF SendStreamType
<1>2. S \in SUBSET (0 .. Len(x.pending)) /\ 0 \in S
  BY <1>1
<1>3. Max(S) \in S
  <2> HIDE DEF S
  <2> QED BY <1>1, <1>2, MaxOfBounded
<1> QED BY <1>3 DEF NewBytes

\* next_frame: the frame it returns, and the stream after it.
LEMMA NextFrameGood ==
    ASSUME NEW c \in Seq(Nat), NEW w \in Nat, NEW x, SendGood(x, c, w),
           NEW room \in Int, NEW credit \in Int, HasFrame(x, room, credit)
    PROVE  LET y == AfterFrame(x, room, credit)
           IN  /\ SendGood(y, c, w)
               /\ SendLater(x, y)
               /\ SameAcks(x, y)
               /\ y.max_stream_data = x.max_stream_data
               /\ y.fin_queued = x.fin_queued
               /\ \/ y.base_offset = x.base_offset
                  \/ y.base_offset - x.base_offset <= credit
               /\ Genuine(NextFrame(x, room, credit), y, c)
<1> DEFINE n == NewBytes(x, room, credit)
           y == AfterFrame(x, room, credit)
           f == NextFrame(x, room, credit)
<1>1. /\ x \in SendStreamType /\ x.pending \in Seq(Nat) /\ x.base_offset \in Nat
      /\ Len(x.pending) \in Nat /\ x.max_stream_data \in Nat
      /\ x.retransmit \in Seq(StreamFrame)
      /\ x.highest_offset_sent = x.base_offset
  BY DEF SendGood, SendStreamType
<1>2. CASE Resends(x, room)
  <2>1. x.retransmit # <<>> /\ f = Head(x.retransmit)
    BY <1>2 DEF Resends, NextFrame
  <2>2. /\ Head(x.retransmit) = x.retransmit[1] /\ 1 \in 1 .. Len(x.retransmit)
        /\ Tail(x.retransmit) \in Seq(StreamFrame)
        /\ Len(Tail(x.retransmit)) = Len(x.retransmit) - 1
        /\ \A i \in 1 .. Len(Tail(x.retransmit)) :
              Tail(x.retransmit)[i] = x.retransmit[i + 1]
    BY <1>1, <2>1, HeadTailProperties
  <2>3. y = [x EXCEPT !.retransmit = Tail(x.retransmit)]
    BY <1>2 DEF AfterFrame
  <2>4. /\ y \in SendStreamType /\ y.retransmit = Tail(x.retransmit)
        /\ y.state = x.state /\ y.max_stream_data = x.max_stream_data
        /\ y.base_offset = x.base_offset /\ y.pending = x.pending
        /\ y.highest_offset_sent = x.highest_offset_sent
        /\ y.fin_queued = x.fin_queued /\ y.final_size = x.final_size
        /\ y.fin_sent = x.fin_sent /\ y.acked = x.acked /\ y.fin_acked = x.fin_acked
    BY <1>1, <2>2, <2>3 DEF SendStreamType
  <2> HIDE DEF y, f
  <2>5. SendLater(x, y)
    BY <1>1, <2>4 DEF SendLater
  <2>6. Genuine(f, y, c)
    <3>1. Genuine(f, x, c)
      BY <2>1, <2>2 DEF SendGood
    <3> QED BY <1>1, <2>4, <2>5, <3>1, GenuineLater
  <2>7. \A i \in 1 .. Len(y.retransmit) : Genuine(y.retransmit[i], y, c)
    <3> TAKE i \in 1 .. Len(y.retransmit)
    <3>1. i + 1 \in 1 .. Len(x.retransmit) /\ y.retransmit[i] = x.retransmit[i + 1]
      BY <1>1, <2>2, <2>4
    <3>2. Genuine(x.retransmit[i + 1], x, c)
      BY <3>1 DEF SendGood
    <3> QED BY <1>1, <2>4, <2>5, <3>1, <3>2, GenuineLater
  <2>8. SendGood(y, c, w)
    BY <2>4, <2>7 DEF SendGood
  <2> QED BY <2>4, <2>5, <2>6, <2>8 DEF y, f, SameAcks
<1>3. CASE ~Resends(x, room)
  <2> DEFINE fin == FinNow(x, n)
             sent == x.fin_sent \/ fin
             d == SubSeq(x.pending, 1, n)
             rest == SubSeq(x.pending, n + 1, Len(x.pending))
  <2>1. /\ n \in 0 .. Len(x.pending)
        /\ n = 0 \/ (n <= credit /\ x.base_offset + n <= x.max_stream_data)
    BY <1>1, NewBytesBounded
  <2>2. ~x.fin_sent /\ x.state \notin {"DATA_SENT", "DATA_RECVD"} /\ ~x.fin_acked
    <3>1. x.fin_sent => Len(x.pending) = 0
      BY DEF SendGood
    <3>2. n > 0 \/ fin
      BY <1>3 DEF HasFrame
    <3>3. fin => ~x.fin_sent
      BY DEF FinNow
    <3> HIDE DEF n, fin
    <3>4. ~x.fin_sent
      BY <1>1, <2>1, <3>1, <3>2, <3>3
    <3> QED BY <3>4 DEF SendGood
  <2>3. f = [offset |-> x.base_offset, data |-> d, fin |-> fin]
    BY <1>3 DEF NextFrame
  <2>4. y = [x EXCEPT !.pending = rest, !.base_offset = x.base_offset + n,
                      !.fin_sent = sent,
                      !.highest_offset_sent = Max({@, x.base_offset + n}),
                      !.state = IF sent THEN "DATA_SENT" ELSE "SEND"]
    BY <1>3, Zenon DEF AfterFrame
  <2>5. /\ fin \in BOOLEAN
        /\ fin => x.fin_queued /\ n = Len(x.pending)
        /\ sent \in BOOLEAN /\ (sent <=> fin)
    BY <1>1, <2>1, <2>2 DEF FinNow, SendStreamType
  <2> HIDE DEF n, fin, sent, y, f
  <2>6. Max({x.base_offset, x.base_offset + n}) = x.base_offset + n
    <3>1. /\ x.base_offset \in Int /\ x.base_offset + n \in Int
          /\ x.base_offset + n >= x.base_offset
      BY <1>1, <2>1
    <3>2. \A a, b \in Int : b >= a => Max({a, b}) = b
      BY MaxOfTwo
    <3> QED BY <3>1, <3>2, Zenon
  <2>7. /\ d \in Seq(Nat) /\ Len(d) = n
        /\ \A i \in 1 .. n : d[i] = x.pending[i]
    <3>1. \A i \in 1 .. n : x.pending[i] \in Nat
      <4>1. x.pending \in Seq(Nat) /\ n \in 0 .. Len(x.pending)
        BY <1>1, <2>1
      <4>2. \A i \in 1 .. n : i \in 1 .. Len(x.pending)
        BY ONLY <4>1
      <4> QED BY ONLY <4>1, <4>2
    <3>2. /\ d \in Seq(Nat)
          /\ Len(d) = IF 1 <= n THEN n - 1 + 1 ELSE 0
          /\ \A i \in 1 .. n - 1 + 1 : d[i] = x.pending[1 + i - 1]
      BY <2>1, <3>1, SubSeqProperties
    <3>3. n - 1 + 1 = n /\ \A i \in 1 .. n : 1 + i - 1 = i
      BY <2>1
    <3> HIDE DEF d
    <3> QED BY <2>1, <3>2, <3>3
  <2>8. /\ rest \in Seq(Nat) /\ Len(rest) = Len(x.pending) - n
        /\ \A i \in 1 .. Len(x.pending) - n : rest[i] = x.pending[n + i]
    <3> DEFINE m == Len(x.pending)
    <3>1. \A i \in n + 1 .. m : x.pending[i] \in Nat
      <4>1. x.pending \in Seq(Nat) /\ m \in Nat /\ n \in Nat
        BY <1>1, <2>1
      <4>2. \A i \in n + 1 .. m : i \in 1 .. Len(x.pending)
        BY ONLY <4>1
      <4> QED BY ONLY <4>1, <4>2
    <3>2. /\ rest \in Seq(Nat)
          /\ Len(rest) = IF n + 1 <= m THEN m - (n + 1) + 1 ELSE 0
          /\ \A i \in 1 .. m - (n + 1) + 1 : rest[i] = x.pending[(n + 1) + i - 1]
      BY <1>1, <2>1, <3>1, SubSeqProperties
    <3>3. m - (n + 1) + 1 = m - n /\ \A i \in 1 .. m - n : (n + 1) + i - 1 = n + i
      BY <1>1, <2>1
    <3> HIDE DEF rest
    <3> QED BY <1>1, <2>1, <3>2, <3>3
  <2> HIDE DEF d, rest
  <2>9. /\ y.pending = rest /\ y.base_offset = x.base_offset + n
        /\ y.fin_sent = sent /\ y.highest_offset_sent = x.base_offset + n
        /\ y.state = IF sent THEN "DATA_SENT" ELSE "SEND"
        /\ y.max_stream_data = x.max_stream_data /\ y.retransmit = x.retransmit
        /\ y.fin_queued = x.fin_queued /\ y.final_size = x.final_size
        /\ y.acked = x.acked /\ y.fin_acked = x.fin_acked
    BY <1>1, <2>4, <2>6 DEF SendStreamType
  <2>10. y \in SendStreamType
    <3>1. x.base_offset + n \in Nat
      BY <1>1, <2>1
    <3> QED BY <1>1, <2>4, <2>5, <2>6, <2>8, <3>1 DEF SendStreamType
  <2>11. SendLater(x, y)
    BY <1>1, <2>1, <2>2, <2>9, <2>10 DEF SendLater, SendStreamType
  <2>12. Genuine(f, y, c)
    <3>1. f \in StreamFrame /\ f.offset = x.base_offset /\ f.data = d /\ f.fin = fin
      BY <1>1, <2>3, <2>5, <2>7 DEF StreamFrame
    <3>2. End(f) = y.base_offset
      BY <2>7, <2>9, <3>1 DEF End
    <3>3. \A i \in 1 .. n : x.pending[i] = c[x.base_offset + i]
      BY <1>1, <2>1 DEF SendGood
    <3>4. y.base_offset \in Nat
      BY <2>10 DEF SendStreamType
    <3>5. \A i \in 1 .. Len(f.data) : f.data[i] = c[f.offset + i]
      BY <2>7, <3>1, <3>3
    <3>6. f.fin => y.fin_sent
      BY <2>5, <2>9, <3>1
    <3> QED BY <3>1, <3>2, <3>4, <3>5, <3>6 DEF Genuine
  <2>13. \A i \in 1 .. Len(y.pending) : y.pending[i] = c[y.base_offset + i]
    <3> TAKE i \in 1 .. Len(y.pending)
    <3>1. n + i \in 1 .. Len(x.pending) /\ y.pending[i] = x.pending[n + i]
      <4>1. /\ Len(x.pending) \in Nat /\ n \in Nat /\ y.pending = rest
            /\ Len(rest) = Len(x.pending) - n
            /\ \A k \in 1 .. Len(x.pending) - n : rest[k] = x.pending[n + k]
        BY <1>1, <2>1, <2>8, <2>9
      <4>2. i \in 1 .. Len(x.pending) - n
        BY ONLY <4>1, i \in 1 .. Len(y.pending)
      <4>3. n + i \in 1 .. Len(x.pending)
        BY ONLY <4>1, <4>2
      <4> QED BY ONLY <4>1, <4>2, <4>3
    <3>2. x.base_offset + (n + i) = y.base_offset + i
      BY <1>1, <2>1, <2>9, <3>1
    <3> QED BY <3>1, <3>2 DEF SendGood
  <2>14. \A i \in 1 .. Len(y.retransmit) : Genuine(y.retransmit[i], y, c)
    BY <1>1, <2>9, <2>10, <2>11, RetransmitLater DEF SendGood
  <2>15. w = y.base_offset + Len(y.pending)
    BY <1>1, <2>1, <2>8, <2>9 DEF SendGood
  <2>16. y.fin_sent => y.fin_queued /\ y.pending = <<>>
    <3>1. fin => Len(rest) = 0
      BY <1>1, <2>1, <2>5, <2>8
    <3>2. fin => rest = <<>>
      BY <2>8, <3>1, EmptySeq
    <3> QED BY <2>5, <2>9, <3>2
  <2>17. /\ y.highest_offset_sent = y.base_offset
         /\ y.base_offset <= y.max_stream_data
    BY <1>1, <2>1, <2>9 DEF SendGood
  <2>18. SendGood(y, c, w)
    <3>1. y.state \in {"DATA_SENT", "DATA_RECVD"} => y.fin_sent
      BY <2>5, <2>9
    <3>2. y.state # "DATA_RECVD" /\ ~y.fin_acked
      BY <2>2, <2>5, <2>9
    <3>3. y.final_size = IF y.fin_queued THEN w ELSE NoSize
      BY <2>9 DEF SendGood
    <3> QED BY <2>10, <2>13, <2>14, <2>15, <2>16, <2>17, <3>1, <3>2, <3>3
            DEF SendGood
  <2>19. y.base_offset = x.base_offset \/ y.base_offset - x.base_offset <= credit
    BY <1>1, <2>1, <2>9
  <2> QED BY <2>9, <2>11, <2>12, <2>18, <2>19 DEF y, f, SameAcks
<1> QED BY <1>2, <1>3

\* on_max_stream_data.
LEMMA OnMaxStreamDataGood ==
    ASSUME NEW c, NEW w \in Nat, NEW x, SendGood(x, c, w),
           NEW r \in RecvStreamType, Agree(x, r),
           NEW m \in Nat, m <= r.max_stream_data
    PROVE  LET y == OnMaxStreamData(x, m)
           IN  /\ SendGood(y, c, w)
               /\ SendLater(x, y)
               /\ Agree(y, r)
               /\ y.base_offset = x.base_offset
               /\ y.fin_queued = x.fin_queued
<1> DEFINE y == OnMaxStreamData(x, m)
           high == Max({x.max_stream_data, m})
<1>1. /\ x \in SendStreamType /\ x.max_stream_data \in Nat
      /\ x.base_offset \in Nat /\ r.max_stream_data \in Nat
  BY DEF SendGood, SendStreamType, RecvStreamType
<1>2. high \in Nat /\ x.max_stream_data <= high /\ high <= r.max_stream_data
  BY <1>1, MaxOfTwo DEF Agree
<1>3. y = [x EXCEPT !.max_stream_data = high]
  BY DEF OnMaxStreamData
<1> HIDE DEF y, high
<1>4. /\ y \in SendStreamType /\ y.max_stream_data = high
      /\ y.state = x.state /\ y.retransmit = x.retransmit
      /\ y.base_offset = x.base_offset /\ y.pending = x.pending
      /\ y.highest_offset_sent = x.highest_offset_sent
      /\ y.fin_queued = x.fin_queued /\ y.final_size = x.final_size
      /\ y.fin_sent = x.fin_sent /\ y.acked = x.acked /\ y.fin_acked = x.fin_acked
  BY <1>1, <1>2, <1>3 DEF SendStreamType
<1>5. SendLater(x, y)
  BY <1>1, <1>4 DEF SendLater
<1>6. \A i \in 1 .. Len(y.retransmit) : Genuine(y.retransmit[i], y, c)
  BY <1>1, <1>4, <1>5, RetransmitLater DEF SendGood
<1>7. y.base_offset <= y.max_stream_data
  BY <1>1, <1>2, <1>4 DEF SendGood
<1>8. SendGood(y, c, w)
  BY <1>4, <1>6, <1>7 DEF SendGood
<1>9. Agree(y, r)
  BY <1>2, <1>4 DEF Agree
<1> QED BY <1>4, <1>5, <1>8, <1>9 DEF y

\* r has taken all of f.
Arrived(f, r) ==
    Offsets(f) \subseteq r.received /\ (f.fin => r.final_size # NoSize)

\* y is x with more of it acknowledged.
Acked(x, y, r, c, w) ==
    /\ SendGood(y, c, w) /\ SendLater(x, y) /\ Agree(y, r)
    /\ y.base_offset = x.base_offset /\ y.fin_queued = x.fin_queued

\* on_frame_acked, for a frame the receiver has.
LEMMA OnFrameAckedGood ==
    ASSUME NEW c, NEW w, NEW x, SendGood(x, c, w),
           NEW r, Agree(x, r),
           NEW f, Genuine(f, x, c), Arrived(f, r)
    PROVE  Acked(x, OnFrameAcked(x, f), r, c, w)
<1> USE DEF Arrived
<1> DEFINE y == OnFrameAcked(x, f)
           acked == x.acked \cup Offsets(f)
           fin_acked == x.fin_acked \/ f.fin
           all == fin_acked /\ x.final_size # NoSize /\ CoversTo(acked, x.final_size)
<1>1. /\ x \in SendStreamType /\ x.base_offset \in Nat /\ x.acked \subseteq Nat
      /\ f \in StreamFrame
  BY DEF SendGood, SendStreamType, Genuine
<1>2. acked \in SUBSET Nat /\ x.acked \subseteq acked
  <2>1. f.offset \in Nat /\ Len(f.data) \in Nat
    BY <1>1 DEF StreamFrame
  <2>2. Offsets(f) \subseteq Nat
    BY <2>1 DEF Offsets, End
  <2> QED BY <1>1, <2>2
<1>3. fin_acked \in BOOLEAN /\ (x.fin_acked => fin_acked)
  BY <1>1 DEF SendStreamType, StreamFrame
<1>4. y = [x EXCEPT !.acked = acked, !.fin_acked = fin_acked,
                    !.state = IF all THEN "DATA_RECVD" ELSE @]
  BY DEF OnFrameAcked
<1>5. fin_acked => x.fin_sent
  BY DEF SendGood, Genuine
<1>6. acked \subseteq r.received /\ (fin_acked => r.final_size # NoSize)
  BY DEF Agree
<1>7. all => fin_acked /\ CoversTo(acked, x.final_size)
  OBVIOUS
<1>8. CoversTo(x.acked, x.final_size) => CoversTo(acked, x.final_size)
  BY <1>2 DEF CoversTo
<1> HIDE DEF y, acked, fin_acked, all
<1>9. /\ y \in SendStreamType /\ y.acked = acked /\ y.fin_acked = fin_acked
      /\ y.max_stream_data = x.max_stream_data /\ y.retransmit = x.retransmit
      /\ y.base_offset = x.base_offset /\ y.pending = x.pending
      /\ y.highest_offset_sent = x.highest_offset_sent
      /\ y.fin_queued = x.fin_queued /\ y.final_size = x.final_size
      /\ y.fin_sent = x.fin_sent
      /\ y.state = IF all THEN "DATA_RECVD" ELSE x.state
  BY <1>1, <1>2, <1>3, <1>4 DEF SendStreamType
<1>10. SendLater(x, y)
  BY <1>1, <1>9 DEF SendLater
<1>11. \A i \in 1 .. Len(y.retransmit) : Genuine(y.retransmit[i], y, c)
  BY <1>1, <1>9, <1>10, RetransmitLater DEF SendGood
<1>12. /\ y.fin_acked => y.fin_sent
       /\ y.state \in {"DATA_SENT", "DATA_RECVD"} => y.fin_sent
       /\ y.state = "DATA_RECVD" => y.fin_acked /\ CoversTo(y.acked, y.final_size)
  BY <1>3, <1>5, <1>7, <1>8, <1>9 DEF SendGood
<1>13. SendGood(y, c, w)
  BY <1>9, <1>11, <1>12 DEF SendGood
<1>14. Agree(y, r)
  BY <1>6, <1>9 DEF Agree
<1> QED BY <1>9, <1>10, <1>13, <1>14 DEF y, Acked

\* requeue, for a frame of the stream.
LEMMA RequeueGood ==
    ASSUME NEW c, NEW w \in Nat, NEW x, SendGood(x, c, w),
           NEW f, Genuine(f, x, c)
    PROVE  LET y == Requeue(x, f)
           IN  /\ SendGood(y, c, w)
               /\ SendLater(x, y)
               /\ SameAcks(x, y)
               /\ y.max_stream_data = x.max_stream_data
               /\ y.base_offset = x.base_offset
               /\ y.fin_queued = x.fin_queued
<1> DEFINE y == Requeue(x, f)
<1>1. /\ x \in SendStreamType /\ x.retransmit \in Seq(StreamFrame)
      /\ x.base_offset \in Nat /\ f \in StreamFrame
  BY DEF SendGood, SendStreamType, Genuine
<1>2. SendLater(x, x)
  BY <1>1 DEF SendLater
<1>3. CASE y = x
  BY <1>2, <1>3 DEF SameAcks
<1>4. CASE y = [x EXCEPT !.retransmit = Append(x.retransmit, f)]
  <2> HIDE DEF y
  <2> DEFINE q == Append(x.retransmit, f)
  <2>1. /\ q \in Seq(StreamFrame) /\ Len(q) = Len(x.retransmit) + 1
        /\ \A i \in 1 .. Len(x.retransmit) : q[i] = x.retransmit[i]
        /\ q[Len(x.retransmit) + 1] = f
    BY <1>1, AppendProperties
  <2> HIDE DEF q
  <2>2. /\ y \in SendStreamType /\ y.retransmit = q
        /\ y.state = x.state /\ y.max_stream_data = x.max_stream_data
        /\ y.base_offset = x.base_offset /\ y.pending = x.pending
        /\ y.highest_offset_sent = x.highest_offset_sent
        /\ y.fin_queued = x.fin_queued /\ y.final_size = x.final_size
        /\ y.fin_sent = x.fin_sent /\ y.acked = x.acked /\ y.fin_acked = x.fin_acked
    BY <1>1, <1>4, <2>1 DEF SendStreamType, q
  <2>3. SendLater(x, y)
    BY <1>1, <2>2 DEF SendLater
  <2>4. \A i \in 1 .. Len(y.retransmit) : Genuine(y.retransmit[i], y, c)
    <3> TAKE i \in 1 .. Len(y.retransmit)
    <3>1. Genuine(q[i], x, c)
      <4>1. i \in 1 .. Len(x.retransmit) \/ i = Len(x.retransmit) + 1
        BY <1>1, <2>1, <2>2
      <4> QED BY <2>1, <4>1 DEF SendGood
    <3> QED BY <1>1, <2>2, <2>3, <3>1, GenuineLater
  <2>5. SendGood(y, c, w)
    BY <2>2, <2>4 DEF SendGood
  <2> QED BY <2>2, <2>3, <2>5 DEF y, SameAcks
<1> QED BY <1>3, <1>4 DEF Requeue

-----------------------------------------------------------------------------
(* RecvStream *)

\* A function on an initial segment is a sequence of that length.
LEMMA FunctionIsSeq ==
    ASSUME NEW m \in Nat, NEW b \in [1 .. m -> Nat]
    PROVE  b \in Seq(Nat) /\ Len(b) = m
<1>1. b \in Seq(Nat)
  BY SeqDef
<1>2. Len(b) \in Nat /\ DOMAIN b = 1 .. Len(b)
  BY <1>1, LenProperties
<1>3. \A l \in Nat : 1 .. l = 1 .. m => l = m
  <2> SUFFICES ASSUME NEW l \in Nat, 1 .. l = 1 .. m PROVE l = m
    OBVIOUS
  <2>1. l > 0 => l \in 1 .. m
    OBVIOUS
  <2>2. m > 0 => m \in 1 .. l
    OBVIOUS
  <2> QED BY <2>1, <2>2
<1> QED BY <1>1, <1>2, <1>3

\* The buffer once a frame was put into it.
LEMMA OverwriteGood ==
    ASSUME NEW b \in Seq(Nat), NEW f \in StreamFrame
    PROVE  LET q == Overwrite(b, f)
           IN  /\ q \in Seq(Nat)
               /\ Len(q) = IF Len(b) >= End(f) THEN Len(b) ELSE End(f)
               /\ \A o \in Offsets(f) : q[o + 1] = f.data[(o + 1) - f.offset]
               /\ \A o \in 0 .. Len(b) - 1 :
                     o \notin Offsets(f) => q[o + 1] = b[o + 1]
<1> DEFINE m == Max({Len(b), End(f)})
           v(i) == IF i - 1 \in Offsets(f) THEN f.data[i - f.offset]
                   ELSE IF i <= Len(b) THEN b[i] ELSE Zero
           q == Overwrite(b, f)
<1>1. /\ f.offset \in Nat /\ f.data \in Seq(Nat) /\ Len(f.data) \in Nat
      /\ End(f) \in Nat /\ Len(b) \in Nat /\ End(f) = f.offset + Len(f.data)
  BY DEF StreamFrame, End
<1>2. m = (IF Len(b) >= End(f) THEN Len(b) ELSE End(f)) /\ m \in Nat
  <2>1. Len(b) \in Int /\ End(f) \in Int
    BY <1>1
  <2>2. m = IF Len(b) >= End(f) THEN Len(b) ELSE End(f)
    BY <2>1, MaxOfTwo, Zenon
  <2> HIDE DEF m
  <2> QED BY <1>1, <2>2
<1> HIDE DEF m
<1>3. \A i \in 1 .. m : v(i) \in Nat
  <2> TAKE i \in 1 .. m
  <2>1. CASE i - 1 \in Offsets(f)
    <3>1. i - f.offset \in 1 .. Len(f.data)
      <4>1. i \in Int /\ f.offset \in Nat /\ Len(f.data) \in Nat
            /\ i - 1 \in f.offset .. (f.offset + Len(f.data)) - 1
        BY <1>1, <1>2, <2>1 DEF Offsets
      <4> QED BY ONLY <4>1
    <3>2. f.data[i - f.offset] \in Nat
      BY ONLY <1>1, <3>1, ElementOfSeq
    <3> QED BY <2>1, <3>2
  <2>2. CASE i - 1 \notin Offsets(f)
    BY <1>1, <1>2, <2>2 DEF Zero
  <2> QED BY <2>1, <2>2
<1>4. q = [i \in 1 .. m |-> v(i)]
  BY DEF Overwrite, m
<1> HIDE DEF q
<1>5. q \in [1 .. m -> Nat] /\ \A i \in 1 .. m : q[i] = v(i)
  BY <1>3, <1>4
<1>6. q \in Seq(Nat) /\ Len(q) = m
  BY <1>2, <1>5, FunctionIsSeq
<1>7. \A o \in Offsets(f) : q[o + 1] = f.data[(o + 1) - f.offset]
  <2> TAKE o \in Offsets(f)
  <2>1. o + 1 \in 1 .. m /\ o \in Int /\ (o + 1) - 1 = o
    BY <1>1, <1>2 DEF Offsets
  <2>2. q[o + 1] = v(o + 1)
    BY <1>5, <2>1
  <2>3. (o + 1) - 1 \in Offsets(f)
    BY <2>1
  <2>4. v(o + 1) = f.data[(o + 1) - f.offset]
    BY <2>3
  <2> HIDE DEF v
  <2> QED BY <2>2, <2>4
<1>8. \A o \in 0 .. Len(b) - 1 : o \notin Offsets(f) => q[o + 1] = b[o + 1]
  <2> TAKE o \in 0 .. Len(b) - 1
  <2>1. o + 1 \in 1 .. m /\ (o + 1) - 1 = o /\ o + 1 <= Len(b)
    BY <1>1, <1>2
  <2>2. q[o + 1] = v(o + 1)
    BY <1>5, <2>1
  <2> QED BY <2>1, <2>2
<1> QED BY <1>2, <1>6, <1>7, <1>8 DEF q

\* on_stream_frame, for a frame of the stream.
LEMMA OnStreamFrameGood ==
    ASSUME NEW c, NEW x \in SendStreamType, NEW r, RecvGood(r, x, c),
           NEW f, Genuine(f, x, c)
    PROVE  LET q == OnStreamFrame(r, f)
           IN  /\ RecvGood(q, x, c)
               /\ RecvLater(r, q)
               /\ Offsets(f) \subseteq q.received
               /\ (f.fin => q.final_size # NoSize)
               /\ q.read_offset = r.read_offset
               /\ q.max_stream_data = r.max_stream_data
               /\ q.state = "DATA_READ" <=> r.state = "DATA_READ"
<1> DEFINE q == OnStreamFrame(r, f)
           size == IF f.fin THEN End(f) ELSE r.final_size
           received == r.received \cup Offsets(f)
           buffer == Overwrite(r.buffer, f)
           high == Max({r.highest_offset, End(f)})
           state == ReceivedState(r, size, received)
<1>1. /\ f \in StreamFrame /\ f.offset \in Nat /\ f.data \in Seq(Nat)
      /\ Len(f.data) \in Nat /\ End(f) = f.offset + Len(f.data)
      /\ f.fin \in BOOLEAN
  BY DEF Genuine, StreamFrame, End
<1>2. /\ r \in RecvStreamType /\ r.buffer \in Seq(Nat) /\ r.highest_offset \in Nat
      /\ r.received \in SUBSET Nat /\ r.read_offset \in Nat /\ x.base_offset \in Nat
      /\ r.max_stream_data \in Nat /\ r.window \in Nat
      /\ r.final_size \in Nat \cup {NoSize} /\ r.highest_offset = Len(r.buffer)
      /\ r.highest_offset <= x.base_offset
  BY DEF RecvGood, RecvStreamType, SendStreamType
<1>3. /\ high = (IF r.highest_offset >= End(f) THEN r.highest_offset ELSE End(f))
      /\ high \in Nat /\ r.highest_offset <= high /\ End(f) <= high
      /\ high <= x.base_offset
  <2>1. r.highest_offset \in Int /\ End(f) \in Int /\ End(f) <= x.base_offset
    BY <1>1, <1>2 DEF Genuine
  <2>2. high = IF r.highest_offset >= End(f) THEN r.highest_offset ELSE End(f)
    BY <2>1, MaxOfTwo, Zenon
  <2> HIDE DEF high
  <2> QED BY <1>1, <1>2, <2>1, <2>2
<1>4. /\ buffer \in Seq(Nat) /\ Len(buffer) = high
      /\ \A o \in Offsets(f) : buffer[o + 1] = f.data[(o + 1) - f.offset]
      /\ \A o \in 0 .. r.highest_offset - 1 :
            o \notin Offsets(f) => buffer[o + 1] = r.buffer[o + 1]
  BY <1>1, <1>2, <1>3, OverwriteGood
<1>5. /\ received \in SUBSET Nat /\ received \subseteq 0 .. high - 1
  <2>1. /\ r.received \subseteq 0 .. r.highest_offset - 1
        /\ Offsets(f) = f.offset .. End(f) - 1
    BY DEF RecvGood, Offsets
  <2>2. /\ f.offset \in Nat /\ End(f) \in Nat /\ r.highest_offset \in Nat
        /\ high \in Nat /\ r.highest_offset <= high /\ End(f) <= high
    BY <1>1, <1>2, <1>3
  <2> HIDE DEF high
  <2>3. r.received \subseteq 0 .. high - 1
    BY ONLY <2>1, <2>2
  <2>4. Offsets(f) \subseteq 0 .. high - 1
    BY ONLY <2>1, <2>2
  <2>5. 0 .. high - 1 \subseteq Nat
    BY ONLY <2>2
  <2> QED BY ONLY <2>3, <2>4, <2>5
<1>6. /\ size \in Nat \cup {NoSize}
      /\ size # NoSize => x.fin_sent /\ size = x.base_offset
      /\ r.final_size # NoSize => size = r.final_size
      /\ f.fin => size # NoSize
  BY <1>1, <1>2 DEF Genuine, RecvGood, NoSize
<1>7. q = [r EXCEPT !.final_size = size, !.buffer = buffer, !.received = received,
                    !.highest_offset = high, !.state = state]
  BY DEF OnStreamFrame
<1>8. \A o \in received : buffer[o + 1] = c[o + 1]
  <2> TAKE o \in received
  <2>1. CASE o \in Offsets(f)
    <3>1. (o + 1) - f.offset \in 1 .. Len(f.data) /\ o \in Nat
      BY <1>1, <2>1 DEF Offsets
    <3>2. f.data[(o + 1) - f.offset] = c[f.offset + ((o + 1) - f.offset)]
      BY <3>1 DEF Genuine
    <3>3. f.offset + ((o + 1) - f.offset) = o + 1
      BY <1>1, <3>1
    <3> QED BY <1>4, <2>1, <3>2, <3>3
  <2>2. CASE o \notin Offsets(f)
    <3>1. o \in r.received /\ o \in 0 .. r.highest_offset - 1
      BY <2>2 DEF RecvGood
    <3> QED BY <1>4, <2>2, <3>1 DEF RecvGood
  <2> QED BY <2>1, <2>2
<1>9. /\ state \in {"RECV", "SIZE_KNOWN", "DATA_RECVD", "DATA_READ"}
      /\ state = "DATA_READ" <=> r.state = "DATA_READ"
      /\ state # "RECV" => size # NoSize
      /\ state = "DATA_RECVD" => CoversTo(received, size)
      /\ r.state = "SIZE_KNOWN" => state # "RECV"
      /\ r.state = "DATA_RECVD" => state \in {"DATA_RECVD", "DATA_READ"}
  <2>1. r.state \in {"RECV", "SIZE_KNOWN", "DATA_RECVD", "DATA_READ"}
    BY <1>2 DEF RecvStreamType
  <2>2. r.state = "DATA_RECVD" => CoversTo(received, size)
    BY <1>6 DEF RecvGood, CoversTo
  <2>3. r.state # "RECV" => size # NoSize
    BY <1>6 DEF RecvGood
  <2> HIDE DEF size, received
  <2> QED BY <2>1, <2>2, <2>3 DEF ReceivedState
<1>10. /\ r.received \subseteq received /\ Offsets(f) \subseteq received
       /\ CoversTo(received, r.read_offset)
  BY DEF RecvGood, CoversTo
<1> HIDE DEF q, size, received, buffer, high, state
<1>11. /\ q \in RecvStreamType /\ q.state = state /\ q.buffer = buffer
       /\ q.received = received /\ q.highest_offset = high /\ q.final_size = size
       /\ q.read_offset = r.read_offset /\ q.window = r.window
       /\ q.max_stream_data = r.max_stream_data
  BY <1>2, <1>3, <1>4, <1>5, <1>6, <1>7, <1>9 DEF RecvStreamType
<1>12. RecvLater(r, q)
  BY <1>2, <1>3, <1>6, <1>9, <1>10, <1>11 DEF RecvLater
<1>13. RecvGood(q, x, c)
  <2>1. q.read_offset <= q.highest_offset
    BY <1>2, <1>3, <1>11 DEF RecvGood
  <2>2. q.state = "DATA_READ" => q.final_size = q.read_offset
    BY <1>6, <1>9, <1>11 DEF RecvGood, RecvStreamType, NoSize
  <2>3. q.max_stream_data <= q.read_offset + q.window
    BY <1>11 DEF RecvGood
  <2> QED BY <1>3, <1>4, <1>5, <1>6, <1>8, <1>9, <1>10, <1>11, <2>1, <2>2, <2>3
          DEF RecvGood
<1> QED BY <1>6, <1>9, <1>10, <1>11, <1>12, <1>13 DEF q, high

\* contiguous_from stops within what arrived, and everything before it is there.
LEMMA ReadableEndGood ==
    ASSUME NEW c, NEW x, NEW r, RecvGood(r, x, c)
    PROVE  /\ ReadableEnd(r) \in r.read_offset .. r.highest_offset
           /\ CoversTo(r.received, ReadableEnd(r))
<1> DEFINE gaps == {e \in r.read_offset .. r.highest_offset : e \notin r.received}
<1>1. /\ r.read_offset \in Nat /\ r.highest_offset \in Nat
      /\ r.read_offset <= r.highest_offset
      /\ \A o \in 0 .. r.read_offset - 1 : o \in r.received
  BY DEF RecvGood, RecvStreamType, CoversTo
<1>2. gaps \in SUBSET Nat /\ r.highest_offset \in gaps
  <2>1. r.highest_offset \notin r.received
    <3>1. r.highest_offset \notin 0 .. r.highest_offset - 1
      BY <1>1
    <3> QED BY <3>1 DEF RecvGood
  <2> QED BY <1>1, <2>1
<1>3. ReadableEnd(r) = Min(gaps)
  BY DEF ReadableEnd, ContiguousFrom
<1>4. Min(gaps) \in gaps /\ \A e \in gaps : Min(gaps) <= e
  <2> HIDE DEF gaps
  <2> QED BY <1>2, MinOfNaturals
<1> DEFINE m == Min(gaps)
<1>5. m \in r.read_offset .. r.highest_offset
  BY <1>4
<1>6. \A o \in 0 .. m - 1 : o \in r.received
  <2> SUFFICES ASSUME NEW o \in 0 .. m - 1, o \notin r.received
               PROVE  FALSE
    OBVIOUS
  <2>1. o \in gaps
    <3> HIDE DEF m
    <3>1. o \in r.read_offset .. r.highest_offset
      BY <1>1, <1>5
    <3> QED BY <3>1
  <2>2. m <= o
    BY <1>4, <2>1
  <2> HIDE DEF m
  <2> QED BY <1>1, <1>5, <2>2
<1> QED BY <1>3, <1>5, <1>6 DEF CoversTo

\* read: the data it returns goes on where the last read ended.
LEMMA ReadGood ==
    ASSUME NEW c \in Seq(Nat), NEW x \in SendStreamType,
           x.base_offset <= Len(c), NEW r, RecvGood(r, x, c)
    PROVE  LET q == Read(r)
           IN  /\ RecvGood(q, x, c)
               /\ RecvLater(r, q)
               /\ q.highest_offset = r.highest_offset
               /\ q.received = r.received
               /\ q.final_size = r.final_size
               /\ SubSeq(c, 1, r.read_offset) \o ReadData(r)
                     = SubSeq(c, 1, q.read_offset)
               /\ ReadData(r) = <<>> <=> q.read_offset = r.read_offset
               /\ q.state = "DATA_READ" <=> r.final_size = q.read_offset
<1> DEFINE q == Read(r)
           e == ReadableEnd(r)
           done == r.final_size = e
<1>1. /\ r \in RecvStreamType /\ r.buffer \in Seq(Nat) /\ r.highest_offset \in Nat
      /\ r.read_offset \in Nat /\ x.base_offset \in Nat
      /\ r.max_stream_data \in Nat /\ r.window \in Nat
      /\ r.final_size \in Nat \cup {NoSize} /\ r.highest_offset = Len(r.buffer)
      /\ r.highest_offset <= x.base_offset
  BY DEF RecvGood, RecvStreamType, SendStreamType
<1>2. e \in r.read_offset .. r.highest_offset /\ CoversTo(r.received, e)
  BY ReadableEndGood
<1>3. q = [r EXCEPT !.read_offset = e, !.state = IF done THEN "DATA_READ" ELSE @]
  BY DEF Read
<1>4. ReadData(r) = SubSeq(c, r.read_offset + 1, e)
  <2> DEFINE a == r.read_offset + 1
             s == SubSeq(r.buffer, a, e)
             u == SubSeq(c, a, e)
  <2> HIDE DEF e
  <2>1. a \in Int /\ e \in Int
    BY <1>1, <1>2
  <2>2. \A i \in a .. e : r.buffer[i] \in Nat /\ c[i] \in Nat /\ r.buffer[i] = c[i]
    <3> TAKE i \in a .. e
    <3>1. i \in 1 .. Len(r.buffer) /\ i \in 1 .. Len(c) /\ i - 1 \in 0 .. e - 1
      <4>1. Len(c) \in Nat /\ r.highest_offset <= Len(c)
        BY <1>1
      <4>2. i \in Nat /\ 1 <= i /\ i <= e /\ e <= r.highest_offset /\ e \in Nat
        BY <1>1, <1>2
      <4>3. r.highest_offset = Len(r.buffer) /\ r.highest_offset \in Nat
        BY <1>1
      <4> QED BY ONLY <4>1, <4>2, <4>3
    <3>2. i - 1 \in r.received /\ (i - 1) + 1 = i
      BY <1>2, <3>1 DEF CoversTo
    <3>3. r.buffer[i] = c[i]
      BY <3>2 DEF RecvGood
    <3>4. c \in Seq(Nat)
      OBVIOUS
    <3>5. c[i] \in Nat
      BY ONLY <3>1, <3>4, ElementOfSeq
    <3> QED BY ONLY <3>3, <3>5
  <2> HIDE DEF a
  <2>3. /\ s \in Seq(Nat)
        /\ Len(s) = IF a <= e THEN e - a + 1 ELSE 0
        /\ \A i \in 1 .. e - a + 1 : s[i] = r.buffer[a + i - 1]
    BY <2>1, <2>2, SubSeqProperties
  <2>4. /\ u \in Seq(Nat)
        /\ Len(u) = IF a <= e THEN e - a + 1 ELSE 0
        /\ \A i \in 1 .. e - a + 1 : u[i] = c[a + i - 1]
    BY <2>1, <2>2, SubSeqProperties
  <2> HIDE DEF s, u
  <2>5. \A i \in 1 .. Len(s) : s[i] = u[i]
    <3> TAKE i \in 1 .. Len(s)
    <3>1. i \in 1 .. e - a + 1 /\ a + i - 1 \in a .. e
      BY <2>1, <2>3
    <3>2. s[i] = r.buffer[a + i - 1] /\ u[i] = c[a + i - 1]
      BY <2>3, <2>4, <3>1
    <3> QED BY <2>2, <3>1, <3>2
  <2>6. s = u
    BY <2>3, <2>4, <2>5, SeqEqual
  <2> QED BY <2>6 DEF ReadData, s, u, a, e
<1>5. SubSeq(c, 1, r.read_offset) \o ReadData(r) = SubSeq(c, 1, e)
  <2> HIDE DEF e
  <2>1. /\ 1 \in 1 .. Len(c) + 1 /\ r.read_offset \in 1 - 1 .. Len(c)
        /\ e \in r.read_offset .. Len(c)
    BY <1>1, <1>2
  <2> QED BY <1>4, <2>1, ConcatAdjacentSubSeq
<1>6. ReadData(r) = <<>> <=> e = r.read_offset
  <2> HIDE DEF e
  <2>1. CASE e = r.read_offset
    BY <1>1, <1>2, <1>4, <2>1, SubSeqEmpty
  <2>2. CASE e # r.read_offset
    <3>1. r.read_offset + 1 <= e /\ \A i \in r.read_offset + 1 .. e : c[i] \in Nat
      <4>1. /\ c \in Seq(Nat) /\ r.read_offset \in Nat /\ Len(c) \in Nat
            /\ e \in r.read_offset .. Len(c)
        BY <1>1, <1>2
      <4>2. \A i \in r.read_offset + 1 .. e : i \in 1 .. Len(c)
        BY ONLY <4>1
      <4>3. r.read_offset + 1 <= e
        BY ONLY <2>2, <4>1
      <4> QED BY ONLY <4>1, <4>2, <4>3
    <3>2. Len(ReadData(r)) = (e - (r.read_offset + 1)) + 1
      BY <1>1, <1>2, <1>4, <3>1, SubSeqProperties
    <3>3. Len(ReadData(r)) # 0
      BY <1>1, <1>2, <3>1, <3>2
    <3> QED BY <2>2, <3>3
  <2> QED BY <2>1, <2>2
<1>7. r.state = "DATA_READ" => done
  <2> HIDE DEF e
  <2>1. r.state = "DATA_READ" => /\ r.final_size = r.read_offset
                                 /\ r.final_size = x.base_offset
    BY DEF RecvGood
  <2> QED BY <1>1, <1>2, <2>1
<1> HIDE DEF q, e, done
<1>8. /\ q \in RecvStreamType /\ q.read_offset = e
      /\ q.state = IF done THEN "DATA_READ" ELSE r.state
      /\ q.buffer = r.buffer /\ q.received = r.received
      /\ q.highest_offset = r.highest_offset /\ q.final_size = r.final_size
      /\ q.window = r.window /\ q.max_stream_data = r.max_stream_data
  <2>1. e \in Nat
    BY <1>1, <1>2
  <2> QED BY <1>1, <1>3, <2>1 DEF RecvStreamType
<1>9. RecvLater(r, q)
  BY <1>1, <1>2, <1>8 DEF RecvLater
<1>10. q.state = "DATA_READ" <=> r.final_size = q.read_offset
  BY <1>7, <1>8 DEF done
<1>11. RecvGood(q, x, c)
  <2>1. q.read_offset <= q.highest_offset
    BY <1>1, <1>2, <1>8
  <2>2. q.max_stream_data <= q.read_offset + q.window
    <3>1. r.max_stream_data <= r.read_offset + r.window
      BY DEF RecvGood
    <3> QED BY <1>1, <1>2, <1>8, <3>1
  <2>3. done => r.final_size # NoSize
    <3>1. e \in Nat
      BY <1>1, <1>2
    <3> QED BY <3>1 DEF done, NoSize
  <2>4. q.state # "RECV" => q.final_size # NoSize
    BY <1>8, <2>3 DEF RecvGood
  <2>5. q.state = "DATA_RECVD" => CoversTo(q.received, q.final_size)
    BY <1>8 DEF RecvGood
  <2> QED BY <1>2, <1>8, <1>10, <2>1, <2>2, <2>4, <2>5 DEF RecvGood
<1> QED BY <1>5, <1>6, <1>8, <1>9, <1>10, <1>11 DEF q

\* credit_update.
LEMMA ExtendedGood ==
    ASSUME NEW c, NEW x, NEW r, RecvGood(r, x, c)
    PROVE  LET q == Extended(r)
           IN  /\ RecvGood(q, x, c)
               /\ RecvLater(r, q)
               /\ q.highest_offset = r.highest_offset
               /\ q.read_offset = r.read_offset
               /\ q.received = r.received
               /\ q.final_size = r.final_size
               /\ q.state = r.state
<1> DEFINE q == Extended(r)
           m == r.read_offset + r.window
<1>1. /\ r \in RecvStreamType /\ r.read_offset \in Nat /\ r.window \in Nat
      /\ r.max_stream_data \in Nat /\ r.highest_offset \in Nat
  BY DEF RecvGood, RecvStreamType
<1>2. CASE Extends(r)
  <2>1. m \in Nat /\ r.max_stream_data <= m
    BY <1>1, <1>2 DEF Extends
  <2>2. q = [r EXCEPT !.max_stream_data = m]
    BY <1>2 DEF Extended
  <2> HIDE DEF q
  <2>3. /\ q \in RecvStreamType /\ q.max_stream_data = r.read_offset + r.window
        /\ q.state = r.state /\ q.read_offset = r.read_offset
        /\ q.buffer = r.buffer /\ q.received = r.received
        /\ q.highest_offset = r.highest_offset /\ q.final_size = r.final_size
        /\ q.window = r.window
    BY <1>1, <2>1, <2>2 DEF RecvStreamType
  <2>4. RecvLater(r, q)
    BY <1>1, <2>1, <2>3 DEF RecvLater
  <2>5. q.max_stream_data <= q.read_offset + q.window
    BY <1>1, <2>3
  <2>6. RecvGood(q, x, c)
    BY <2>3, <2>5 DEF RecvGood
  <2> QED BY <2>3, <2>4, <2>6 DEF q
<1>3. CASE ~Extends(r)
  <2>1. q = r
    BY <1>3 DEF Extended
  <2>2. RecvLater(r, r)
    BY <1>1 DEF RecvLater
  <2> QED BY <2>1, <2>2
<1> QED BY <1>2, <1>3
=============================================================================
