-------------------------- MODULE StreamsInvariant --------------------------
(***************************************************************************)
(* The inductive invariant of Streams, for any contents, windows, frame    *)
(* sizes and losses; that it holds at first; what its parts need to be     *)
(* kept by a step; and that every step keeps it, all but the arrival of a  *)
(* STREAM frame, which is shown never to be refused.                       *)
(***************************************************************************)
EXTENDS Streams, StreamHalvesProofs, FiniteSetTheorems

BaseOffset(streams) == [s \in Stream |-> streams[s].base_offset]

LimitFrame ==
    [kind : {"MAX_STREAM_DATA", "MAX_DATA", "MAX_STREAMS"}, stream : Nat,
     maximum : Nat]

Held(k) == k.outstanding \/ k.at = "transit"

\* A data packet carries a frame of an open stream, and what arrived was taken.
DataGood(k, opened, senders, receivers) ==
    /\ k.stream \in Stream /\ k.stream < opened
    /\ Genuine(k.frame, senders[k.stream], Content[k.stream])
    /\ k.at = "arrived" =>
          /\ Offsets(k.frame) \subseteq receivers[k.stream].received
          /\ k.frame.fin => receivers[k.stream].final_size # NoSize

\* A limit under way is not beyond what its sender allows.
LimitGood(l, receivers, data, streams) ==
    /\ l \in LimitFrame
    /\ l.kind = "MAX_STREAM_DATA" =>
          l.stream \in Stream /\ l.maximum <= receivers[l.stream].max_stream_data
    /\ l.kind = "MAX_DATA" => l.maximum <= data
    /\ l.kind = "MAX_STREAMS" => l.maximum <= streams

HalvesInv ==
    /\ snd \in [Stream -> SendStreamType] /\ rcv \in [Stream -> RecvStreamType]
    /\ written \in [Stream -> Nat] /\ delivered \in [Stream -> Seq(Nat)]
    /\ ended \in [Stream -> Nat]
    /\ \A s \in Stream :
          /\ SendGood(snd[s], Content[s], written[s])
          /\ RecvGood(rcv[s], snd[s], Content[s])
          /\ Agree(snd[s], rcv[s])
          /\ rcv[s].window = StreamWindow
          /\ delivered[s] = SubSeq(Content[s], 1, rcv[s].read_offset)
          /\ ended[s] = IF rcv[s].state = "DATA_READ" THEN 1 ELSE 0

SlotInv ==
    /\ DOMAIN packets = Slot
    /\ \A p \in Slot : packets[p].at \in {"transit", "arrived", "gone"}
    /\ \A p \in DataSlots : Held(packets[p]) =>
          DataGood(packets[p], next_sequence, snd, rcv)
    /\ \A p \in LimitSlots : Held(packets[p]) =>
          /\ LimitGood(packets[p].frame, rcv, local_max_data, local_max_streams)
          /\ packets[p].stream = packets[p].frame.stream

ControlInv ==
    /\ control_frames \in Seq(LimitFrame)
    /\ \A i \in 1 .. Len(control_frames) :
          LimitGood(control_frames[i], rcv, local_max_data, local_max_streams)

\* What is sent, received and consumed adds up, within what is allowed.
CreditInv ==
    /\ {max_data, data_sent, local_max_data, data_received, next_sequence,
        max_streams, local_max_streams, losses} \subseteq Nat
    /\ known \subseteq 0 .. next_sequence - 1
    /\ next_sequence <= max_streams /\ max_streams <= local_max_streams
    /\ data_sent = Cardinality(BytesBetween(Start, BaseOffset(snd)))
    /\ data_received = Cardinality(BytesBetween(Start, HighestOffset(rcv)))
    /\ data_sent <= max_data /\ max_data <= local_max_data
    /\ local_max_data <= Consumed(rcv) + DataWindow

\* The inductive invariant of Streams.
IInv == error = "none" /\ HalvesInv /\ SlotInv /\ ControlInv /\ CreditInv

-----------------------------------------------------------------------------
(* Counting bytes. *)

\* A byte is a stream and an offset of that stream.
LEMMA BytesElement ==
    ASSUME NEW from, NEW to, NEW b
    PROVE  b \in BytesBetween(from, to) <=>
               \E s \in Stream, o \in Int : o \in from[s] .. to[s] - 1 /\ b = <<s, o>>
<1>1. b \in BytesBetween(from, to) <=>
          \E s \in Stream : b \in {s} \X (from[s] .. to[s] - 1)
  BY Zenon DEF BytesBetween
<1>2. \A s : b \in {s} \X (from[s] .. to[s] - 1) <=>
                 \E o \in Int : o \in from[s] .. to[s] - 1 /\ b = <<s, o>>
  OBVIOUS
<1> QED BY <1>1, <1>2, Zenon

\* The bytes between two offsets can be counted.
LEMMA BytesFinite ==
    ASSUME NEW from \in [Stream -> Nat], NEW to \in [Stream -> Nat]
    PROVE  /\ IsFiniteSet(BytesBetween(from, to))
           /\ Cardinality(BytesBetween(from, to)) \in Nat
<1> DEFINE T == {{s} \X (from[s] .. to[s] - 1) : s \in Stream}
           f == [s \in Stream |-> {s} \X (from[s] .. to[s] - 1)]
<1>1. IsFiniteSet(Stream)
  BY StreamsConstants
<1>2. f \in Surjection(Stream, T)
  BY Zenon DEF Surjection
<1>3. IsFiniteSet(T)
  <2> HIDE DEF f, T
  <2> QED BY <1>1, <1>2, FS_Surjection
<1>4. \A s \in Stream : IsFiniteSet({s} \X (from[s] .. to[s] - 1))
  <2> TAKE s \in Stream
  <2> DEFINE A == {s}  B == from[s] .. to[s] - 1
  <2>1. IsFiniteSet(A)
    BY FS_Singleton
  <2>2. IsFiniteSet(B)
    <3>1. from[s] \in Int /\ to[s] - 1 \in Int
      OBVIOUS
    <3> QED BY <3>1, FS_Interval
  <2> HIDE DEF A, B
  <2>3. IsFiniteSet(A \X B)
    BY <2>1, <2>2, FS_Product
  <2> QED BY <2>3 DEF A, B
<1>5. \A t \in T : IsFiniteSet(t)
  BY <1>4, Zenon
<1>6. IsFiniteSet(UNION T)
  <2> HIDE DEF T
  <2> QED BY <1>3, <1>5, FS_UNION
<1>7. IsFiniteSet(BytesBetween(from, to))
  BY <1>6, Zenon DEF BytesBetween
<1> QED BY <1>7, FS_CardinalityType

\* Counting starts at offset zero of every stream.
LEMMA StartType == Start \in [Stream -> Nat] /\ \A s \in Stream : Start[s] = 0
BY DEF Start

\* More bytes, a larger count.
LEMMA BytesMonotone ==
    ASSUME NEW g \in [Stream -> Nat], NEW h \in [Stream -> Nat],
           \A s \in Stream : g[s] <= h[s]
    PROVE  Cardinality(BytesBetween(Start, g)) <= Cardinality(BytesBetween(Start, h))
<1> DEFINE A == BytesBetween(Start, g)  B == BytesBetween(Start, h)
<1>1. \A b \in A : b \in B
  <2> TAKE b \in A
  <2>1. PICK s \in Stream, o \in Int :
            o \in Start[s] .. g[s] - 1 /\ b = <<s, o>>
    BY BytesElement
  <2>2. o \in Start[s] .. h[s] - 1
    BY <2>1, StartType
  <2> QED BY <2>1, <2>2, BytesElement, Zenon
<1>2. IsFiniteSet(B)
  BY StartType, BytesFinite
<1> HIDE DEF A, B
<1>3. Cardinality(A) <= Cardinality(B)
  BY <1>1, <1>2, FS_Subset
<1> QED BY <1>3 DEF A, B

\* A stream that grows by n bytes adds n to the count.
LEMMA BytesGrow ==
    ASSUME NEW g \in [Stream -> Nat], NEW s \in Stream, NEW n \in Nat,
           NEW h, h = [g EXCEPT ![s] = g[s] + n]
    PROVE  Cardinality(BytesBetween(Start, h)) = Cardinality(BytesBetween(Start, g)) + n
<1> DEFINE A == BytesBetween(Start, g)  B == BytesBetween(Start, h)
           X == {s}  I == g[s] .. (g[s] + n) - 1
           C == X \X I
<1>1. h \in [Stream -> Nat]
  <2>1. g[s] + n \in Nat
    OBVIOUS
  <2> QED BY <2>1
<1>2. B = A \cup C
  <2>1. \A b \in B : b \in A \cup C
    <3> TAKE b \in B
    <3>0. b \in BytesBetween(Start, h)
      OBVIOUS
    <3>1. PICK t \in Stream, o \in Int :
            o \in Start[t] .. h[t] - 1 /\ b = <<t, o>>
      BY ONLY <3>0, BytesElement
    <3>2. CASE o < g[t]
      <4>1. o \in Start[t] .. g[t] - 1
        BY <3>1, <3>2, StartType
      <4> QED BY <3>1, <4>1, BytesElement, Zenon
    <3>3. CASE ~(o < g[t])
      <4>1. t = s /\ o \in I
        BY <3>1, <3>3, StartType
      <4> QED BY <3>1, <4>1
    <3> QED BY <3>2, <3>3
  <2>2. \A b \in A : b \in B
    <3> TAKE b \in A
    <3>1. PICK t \in Stream, o \in Int :
            o \in Start[t] .. g[t] - 1 /\ b = <<t, o>>
      BY BytesElement
    <3>2. o \in Start[t] .. h[t] - 1
      BY <3>1, StartType
    <3> QED BY <3>1, <3>2, BytesElement, Zenon
  <2>3. \A b \in C : b \in B
    <3> TAKE b \in C
    <3>1. PICK o \in Int : o \in I /\ b = <<s, o>>
      OBVIOUS
    <3>2. o \in Start[s] .. h[s] - 1
      BY <3>1, StartType
    <3> QED BY <3>1, <3>2, BytesElement, Zenon
  <2> HIDE DEF A, B, C
  <2> QED BY <2>1, <2>2, <2>3
<1>3. A \cap C = {}
  <2> SUFFICES ASSUME NEW b \in A, b \in C PROVE FALSE
    OBVIOUS
  <2>1. PICK t \in Stream, o \in Int :
            o \in Start[t] .. g[t] - 1 /\ b = <<t, o>>
    BY BytesElement
  <2>2. t = s /\ o \in I
    BY <2>1
  <2> QED BY <2>1, <2>2, StartType
<1>4. IsFiniteSet(A) /\ Cardinality(A) \in Nat
  BY StartType, BytesFinite
<1>5. IsFiniteSet(X) /\ Cardinality(X) = 1
  BY FS_Singleton
<1>6. IsFiniteSet(I) /\ Cardinality(I) = n
  <2> DEFINE u == g[s]  v == (g[s] + n) - 1
  <2>1. u \in Int /\ v \in Int /\ (IF u > v THEN 0 ELSE v - u + 1) = n
    OBVIOUS
  <2>2. I = u .. v
    OBVIOUS
  <2> HIDE DEF u, v, I
  <2> QED BY <2>1, <2>2, FS_Interval
<1> HIDE DEF X, I
<1>7. IsFiniteSet(C) /\ Cardinality(C) = n
  <2>1. IsFiniteSet(X \X I) /\ Cardinality(X \X I) = Cardinality(X) * Cardinality(I)
    BY <1>5, <1>6, FS_Product
  <2> QED BY <1>5, <1>6, <2>1
<1> HIDE DEF A, B, C
<1>8. Cardinality(A \cup C) = Cardinality(A) + Cardinality(C) - Cardinality(A \cap C)
  BY <1>4, <1>7, FS_Union
<1>9. Cardinality(B) = Cardinality(A) + n
  <2>1. Cardinality(A \cap C) = 0
    BY <1>3, FS_EmptySet
  <2> QED BY <1>2, <1>4, <1>7, <1>8, <2>1
<1> QED BY <1>9 DEF A, B

\* What lies between two offsets is the difference of the counts.
LEMMA BytesSplit ==
    ASSUME NEW g \in [Stream -> Nat], NEW h \in [Stream -> Nat],
           \A s \in Stream : g[s] <= h[s]
    PROVE  Cardinality(BytesBetween(Start, h))
               = Cardinality(BytesBetween(Start, g)) + Cardinality(BytesBetween(g, h))
<1> DEFINE A == BytesBetween(Start, g)  B == BytesBetween(Start, h)
           C == BytesBetween(g, h)
<1>1. B = A \cup C
  <2>1. \A b \in B : b \in A \cup C
    <3> TAKE b \in B
    <3>1. PICK t \in Stream, o \in Int :
            o \in Start[t] .. h[t] - 1 /\ b = <<t, o>>
      BY BytesElement
    <3>2. o \in Start[t] .. g[t] - 1 \/ o \in g[t] .. h[t] - 1
      BY <3>1, StartType
    <3> QED BY <3>1, <3>2, BytesElement, Zenon
  <2>2. \A b \in A : b \in B
    <3> TAKE b \in A
    <3>1. PICK t \in Stream, o \in Int :
            o \in Start[t] .. g[t] - 1 /\ b = <<t, o>>
      BY BytesElement
    <3>2. o \in Start[t] .. h[t] - 1
      BY <3>1, StartType
    <3> QED BY <3>1, <3>2, BytesElement, Zenon
  <2>3. \A b \in C : b \in B
    <3> TAKE b \in C
    <3>1. PICK t \in Stream, o \in Int :
            o \in g[t] .. h[t] - 1 /\ b = <<t, o>>
      BY BytesElement
    <3>2. o \in Start[t] .. h[t] - 1
      BY <3>1, StartType
    <3> QED BY <3>1, <3>2, BytesElement, Zenon
  <2> HIDE DEF A, B, C
  <2> QED BY <2>1, <2>2, <2>3
<1>2. A \cap C = {}
  <2> SUFFICES ASSUME NEW b \in A, b \in C PROVE FALSE
    OBVIOUS
  <2>1. PICK t \in Stream, o \in Int :
          o \in Start[t] .. g[t] - 1 /\ b = <<t, o>>
    BY BytesElement
  <2>2. PICK u \in Stream, e \in Int :
          e \in g[u] .. h[u] - 1 /\ b = <<u, e>>
    BY BytesElement
  <2>3. t = u /\ o = e
    BY <2>1, <2>2
  <2> QED BY <2>1, <2>2, <2>3
<1>3. /\ IsFiniteSet(A) /\ Cardinality(A) \in Nat
      /\ IsFiniteSet(C) /\ Cardinality(C) \in Nat
  BY StartType, BytesFinite
<1> HIDE DEF A, B, C
<1>4. Cardinality(A \cup C) = Cardinality(A) + Cardinality(C) - Cardinality(A \cap C)
  BY <1>3, FS_Union
<1>5. Cardinality(A \cap C) = 0
  BY <1>2, FS_EmptySet
<1>6. Cardinality(B) = Cardinality(A) + Cardinality(C)
  BY <1>1, <1>3, <1>4, <1>5
<1> QED BY <1>6 DEF A, B, C

-----------------------------------------------------------------------------
(* Packets and limits stay good while the halves and the limits move on. *)

\* The assumptions on the constants, in the form the proofs use.
LEMMA Constants ==
    /\ Stream \subseteq Nat
    /\ \A s \in Stream : Content[s] \in Seq(Nat) /\ Len(Content[s]) \in Nat
    /\ StreamWindow \in Nat /\ DataWindow \in Nat /\ StreamsWindow \in Nat
    /\ \A room \in Rooms : room \in Int
    /\ Slot = DataSlots \cup LimitSlots /\ Slot \subseteq Nat
    /\ \A p \in DataSlots : p \notin LimitSlots
<1>1. \A s \in Stream : Content[s] \in Seq(Nat)
  BY StreamsConstants
<1>2. \A s \in Stream : Len(Content[s]) \in Nat
  BY <1>1
<1> QED BY <1>1, <1>2, StreamsConstants DEF Slot

\* Nothing the endpoints know is taken back.
Onward ==
    /\ next_sequence <= next_sequence'
    /\ \A s \in Stream : SendLater(snd[s], snd'[s]) /\ RecvLater(rcv[s], rcv'[s])
    /\ local_max_data <= local_max_data'
    /\ local_max_streams <= local_max_streams'

\* The applications see nothing of the step.
Silent ==
    /\ UNCHANGED <<written, delivered, ended>>
    /\ \A s \in Stream : snd'[s].fin_queued = snd[s].fin_queued

\* A data packet stays good while the halves move on.
LEMMA DataGoodLater ==
    ASSUME NEW n \in Nat, NEW m \in Nat, n <= m,
           NEW senders \in [Stream -> SendStreamType],
           NEW senders2 \in [Stream -> SendStreamType],
           NEW receivers, NEW receivers2,
           \A s \in Stream : /\ SendLater(senders[s], senders2[s])
                             /\ RecvLater(receivers[s], receivers2[s]),
           NEW k, DataGood(k, n, senders, receivers)
    PROVE  DataGood(k, m, senders2, receivers2)
<1> DEFINE s == k.stream
<1>1. s \in Stream /\ s \in Nat /\ s < m
  <2>1. s \in Stream /\ s < n
    BY DEF DataGood
  <2>2. s \in Nat
    BY <2>1, Constants
  <2> QED BY <2>1, <2>2
<1>2. Genuine(k.frame, senders2[s], Content[s])
  BY <1>1, GenuineLater DEF DataGood
<1>3. k.at = "arrived" => /\ Offsets(k.frame) \subseteq receivers2[s].received
                          /\ k.frame.fin => receivers2[s].final_size # NoSize
  BY <1>1 DEF DataGood, RecvLater
<1> QED BY <1>1, <1>2, <1>3 DEF DataGood

\* A limit stays good while the receiver only raises its limits.
LEMMA LimitGoodLater ==
    ASSUME NEW d \in Nat, NEW e \in Nat, d <= e,
           NEW n \in Nat, NEW m \in Nat, n <= m,
           NEW receivers \in [Stream -> RecvStreamType],
           NEW receivers2 \in [Stream -> RecvStreamType],
           \A s \in Stream : RecvLater(receivers[s], receivers2[s]),
           NEW l, LimitGood(l, receivers, d, n)
    PROVE  LimitGood(l, receivers2, e, m)
<1>1. l \in LimitFrame /\ l.maximum \in Nat
  BY DEF LimitGood, LimitFrame
<1>2. l.kind = "MAX_STREAM_DATA" =>
          l.stream \in Stream /\ l.maximum <= receivers2[l.stream].max_stream_data
  <2> SUFFICES ASSUME l.kind = "MAX_STREAM_DATA"
               PROVE  /\ l.stream \in Stream
                      /\ l.maximum <= receivers2[l.stream].max_stream_data
    OBVIOUS
  <2>1. l.stream \in Stream /\ l.maximum <= receivers[l.stream].max_stream_data
    BY DEF LimitGood
  <2>2. /\ receivers[l.stream].max_stream_data \in Nat
        /\ receivers2[l.stream].max_stream_data \in Nat
        /\ receivers[l.stream].max_stream_data
               <= receivers2[l.stream].max_stream_data
    BY <2>1 DEF RecvStreamType, RecvLater
  <2> QED BY <1>1, <2>1, <2>2
<1>3. l.kind = "MAX_DATA" => l.maximum <= e
  BY <1>1 DEF LimitGood
<1>4. l.kind = "MAX_STREAMS" => l.maximum <= m
  BY <1>1 DEF LimitGood
<1> QED BY <1>1, <1>2, <1>3, <1>4 DEF LimitGood

\* Both, for the state before and after a step.
LEMMA GoodLater ==
    ASSUME HalvesInv, HalvesInv', Onward,
           {next_sequence, next_sequence', local_max_data, local_max_data',
            local_max_streams, local_max_streams'} \subseteq Nat
    PROVE  /\ \A k : DataGood(k, next_sequence, snd, rcv) =>
                        DataGood(k, next_sequence', snd', rcv')
           /\ \A l : LimitGood(l, rcv, local_max_data, local_max_streams) =>
                        LimitGood(l, rcv', local_max_data', local_max_streams')
<1>1. \A k : DataGood(k, next_sequence, snd, rcv) =>
                DataGood(k, next_sequence', snd', rcv')
  BY DataGoodLater DEF HalvesInv, Onward
<1>2. \A l : LimitGood(l, rcv, local_max_data, local_max_streams) =>
                LimitGood(l, rcv', local_max_data', local_max_streams')
  BY LimitGoodLater DEF HalvesInv, Onward
<1> QED BY <1>1, <1>2

\* A packet changes where it is, or leaves its slot.
LEMMA BecomesGood ==
    ASSUME SlotInv,
           \A k : DataGood(k, next_sequence, snd, rcv) =>
                     DataGood(k, next_sequence', snd', rcv'),
           \A l : LimitGood(l, rcv, local_max_data, local_max_streams) =>
                     LimitGood(l, rcv', local_max_data', local_max_streams'),
           NEW p \in Slot, NEW out, NEW at \in {"transit", "arrived", "gone"},
           Becomes(p, out, at), Held(packets[p]),
           p \in DataSlots /\ out /\ at = "arrived" =>
              LET k == packets[p]
              IN  /\ Offsets(k.frame) \subseteq rcv'[k.stream].received
                  /\ k.frame.fin => rcv'[k.stream].final_size # NoSize
    PROVE  SlotInv'
<1> DEFINE old == packets[p]
           new == [outstanding |-> out, at |-> at, stream |-> old.stream,
                   frame |-> old.frame]
           put == IF ~out /\ at # "transit" THEN Free ELSE new
<1>1. packets' = [packets EXCEPT ![p] = put]
  BY DEF Becomes
<1>2. /\ new.outstanding = out /\ new.at = at
      /\ new.stream = old.stream /\ new.frame = old.frame
  OBVIOUS
<1>3. ~Held(Free) /\ Free.at = "gone"
  BY DEF Held, Free
<1>4. put.at \in {"transit", "arrived", "gone"} /\ (Held(put) => put = new)
  BY <1>2, <1>3
<1>5. Held(put) => (put.at = "arrived" => out)
  BY <1>2, <1>3, <1>4
<1>6. ASSUME p \in DataSlots, Held(put)
      PROVE  DataGood(put, next_sequence', snd', rcv')
  <2>1. DataGood(old, next_sequence', snd', rcv')
    BY <1>6 DEF SlotInv
  <2>2. put = new
    BY <1>4, <1>6
  <2>3. put.at = "arrived" =>
           /\ Offsets(old.frame) \subseteq rcv'[old.stream].received
           /\ old.frame.fin => rcv'[old.stream].final_size # NoSize
    BY <1>2, <1>5, <1>6, <2>2
  <2> QED BY <1>2, <2>1, <2>2, <2>3 DEF DataGood
<1>7. ASSUME p \in LimitSlots, Held(put)
      PROVE  /\ LimitGood(put.frame, rcv', local_max_data', local_max_streams')
             /\ put.stream = put.frame.stream
  <2>1. /\ LimitGood(old.frame, rcv', local_max_data', local_max_streams')
        /\ old.stream = old.frame.stream
    BY <1>7 DEF SlotInv
  <2> QED BY <1>2, <1>4, <1>7, <2>1
<1> HIDE DEF put, new, old
<1>8. DOMAIN packets' = Slot /\ \A q \in Slot :
         packets'[q] = IF q = p THEN put ELSE packets[q]
  BY <1>1 DEF SlotInv
<1>9. \A q \in Slot : packets'[q].at \in {"transit", "arrived", "gone"}
  BY <1>4, <1>8 DEF SlotInv
<1>10. \A q \in DataSlots : Held(packets'[q]) =>
          DataGood(packets'[q], next_sequence', snd', rcv')
  BY <1>6, <1>8, Constants DEF SlotInv
<1>11. \A q \in LimitSlots : Held(packets'[q]) =>
          /\ LimitGood(packets'[q].frame, rcv', local_max_data', local_max_streams')
          /\ packets'[q].stream = packets'[q].frame.stream
  BY <1>7, <1>8, Constants DEF SlotInv
<1> QED BY <1>8, <1>9, <1>10, <1>11 DEF SlotInv

\* A packet leaves with a good frame.
LEMMA DepartGood ==
    ASSUME SlotInv,
           \A k : DataGood(k, next_sequence, snd, rcv) =>
                     DataGood(k, next_sequence', snd', rcv'),
           \A l : LimitGood(l, rcv, local_max_data, local_max_streams) =>
                     LimitGood(l, rcv', local_max_data', local_max_streams'),
           NEW slots, NEW s, NEW f, Depart(slots, s, f),
           \/ /\ slots = DataSlots
              /\ DataGood([outstanding |-> TRUE, at |-> "transit", stream |-> s,
                           frame |-> f], next_sequence', snd', rcv')
           \/ /\ slots = LimitSlots
              /\ LimitGood(f, rcv', local_max_data', local_max_streams')
              /\ s = f.stream
    PROVE  SlotInv'
<1> DEFINE new == [outstanding |-> TRUE, at |-> "transit", stream |-> s, frame |-> f]
           free == {p \in slots : packets[p] = Free}
           p == Min(free)
<1>1. packets' = [packets EXCEPT ![p] = new] /\ free # {}
  BY DEF Depart
<1>2. p \in slots
  <2>1. free \in SUBSET Nat
    BY Constants
  <2> HIDE DEF free
  <2>2. p \in free
    BY <1>1, <2>1, MinOfNaturals
  <2> QED BY <2>2 DEF free
<1>3. new.at = "transit" /\ new.stream = s /\ new.frame = f
  OBVIOUS
<1>4. p \in DataSlots => DataGood(new, next_sequence', snd', rcv')
  BY <1>2, Constants
<1>5. p \in LimitSlots =>
         /\ LimitGood(new.frame, rcv', local_max_data', local_max_streams')
         /\ new.stream = new.frame.stream
  BY <1>2, <1>3, Constants
<1>6. p \in Slot
  BY <1>2, Constants
<1> HIDE DEF p, new
<1>8. DOMAIN packets' = Slot /\ \A q \in Slot :
         packets'[q] = IF q = p THEN new ELSE packets[q]
  BY <1>1, <1>6 DEF SlotInv
<1>9. \A q \in Slot : packets'[q].at \in {"transit", "arrived", "gone"}
  BY <1>3, <1>8 DEF SlotInv
<1>10. \A q \in DataSlots : Held(packets'[q]) =>
          DataGood(packets'[q], next_sequence', snd', rcv')
  BY <1>4, <1>8, Constants DEF SlotInv
<1>11. \A q \in LimitSlots : Held(packets'[q]) =>
          /\ LimitGood(packets'[q].frame, rcv', local_max_data', local_max_streams')
          /\ packets'[q].stream = packets'[q].frame.stream
  BY <1>5, <1>8, Constants DEF SlotInv
<1> QED BY <1>8, <1>9, <1>10, <1>11 DEF SlotInv

-----------------------------------------------------------------------------
(* The initial states. *)

\* The invariant holds of two managers that have just been made.
LEMMA InitGood == Init => IInv
<1> SUFFICES ASSUME Init PROVE IInv
  OBVIOUS
<1> USE DEF Init, ReceiverInit
<1>1. HalvesInv
  <2>1. /\ snd \in [Stream -> SendStreamType] /\ rcv \in [Stream -> RecvStreamType]
        /\ \A s \in Stream :
              /\ SendGood(snd[s], Content[s], written[s])
              /\ RecvGood(rcv[s], snd[s], Content[s])
              /\ Agree(snd[s], rcv[s])
    <3>1. \A s \in Stream :
             /\ SendGood(NewSendStream(StreamWindow), Content[s], 0)
             /\ RecvGood(NewRecvStream(StreamWindow), NewSendStream(StreamWindow),
                         Content[s])
             /\ Agree(NewSendStream(StreamWindow), NewRecvStream(StreamWindow))
      BY NewStreamsGood, Constants
    <3>2. \A s \in Stream : /\ NewSendStream(StreamWindow) \in SendStreamType
                            /\ NewRecvStream(StreamWindow) \in RecvStreamType
      BY <3>1 DEF SendGood, RecvGood
    <3> QED BY <3>1, <3>2
  <2>2. \A s \in Stream :
           /\ rcv[s].window = StreamWindow
           /\ rcv[s].read_offset = 0 /\ rcv[s].state = "RECV"
    BY DEF NewRecvStream
  <2>3. \A s \in Stream : SubSeq(Content[s], 1, 0) = <<>>
    BY SubSeqEmpty
  <2>4. written \in [Stream -> Nat] /\ ended \in [Stream -> Nat]
    OBVIOUS
  <2>5. delivered \in [Stream -> Seq(Nat)]
    BY EmptySeq
  <2>6. \A s \in Stream :
           /\ delivered[s] = SubSeq(Content[s], 1, rcv[s].read_offset)
           /\ ended[s] = IF rcv[s].state = "DATA_READ" THEN 1 ELSE 0
    BY <2>2, <2>3
  <2> QED BY <2>1, <2>2, <2>4, <2>5, <2>6 DEF HalvesInv
<1>2. SlotInv
  <2>1. ~Held(Free) /\ Free.at = "gone"
    BY DEF Held, Free
  <2> QED BY <2>1, Constants DEF SlotInv
<1>3. ControlInv
  BY DEF ControlInv
<1>4. CreditInv
  <2>1. BaseOffset(snd) = Start /\ HighestOffset(rcv) = Start /\ ReadOffset(rcv) = Start
    BY DEF BaseOffset, HighestOffset, ReadOffset, Start, NewSendStream, NewRecvStream
  <2>2. Cardinality(BytesBetween(Start, Start)) = 0
    <3>1. \A b \in BytesBetween(Start, Start) : FALSE
      <4> TAKE b \in BytesBetween(Start, Start)
      <4>1. PICK t \in Stream, o \in Int :
              o \in Start[t] .. Start[t] - 1 /\ b = <<t, o>>
        BY BytesElement
      <4> QED BY <4>1, StartType
    <3>2. BytesBetween(Start, Start) = {}
      BY <3>1
    <3> QED BY <3>2, FS_EmptySet
  <2>3. Consumed(rcv) = 0
    BY <2>1, <2>2 DEF Consumed
  <2>4. known \subseteq 0 .. next_sequence - 1
    OBVIOUS
  <2> QED BY <2>1, <2>2, <2>3, <2>4, Constants DEF CreditInv
<1> QED BY <1>1, <1>2, <1>3, <1>4 DEF IInv

-----------------------------------------------------------------------------
(* What a step leaves alone. *)

\* A half that is left alone has moved on trivially.
LEMMA SameLater ==
    /\ \A x \in SendStreamType : SendLater(x, x)
    /\ \A r \in RecvStreamType : RecvLater(r, r)
<1>1. \A x \in SendStreamType : x.base_offset \in Nat
  BY DEF SendStreamType
<1>2. \A r \in RecvStreamType : /\ r.max_stream_data \in Nat /\ r.read_offset \in Nat
                                /\ r.highest_offset \in Nat
  BY DEF RecvStreamType
<1> QED BY <1>1, <1>2 DEF SendLater, RecvLater

\* One sending half moves on.
LEMMA SendStep ==
    ASSUME HalvesInv, NEW s \in Stream, NEW y, NEW w \in Nat,
           snd' = [snd EXCEPT ![s] = y], written' = [written EXCEPT ![s] = w],
           SendGood(y, Content[s], w), SendLater(snd[s], y), Agree(y, rcv[s]),
           UNCHANGED <<rcv, delivered, ended>>
    PROVE  /\ HalvesInv'
           /\ \A t \in Stream : SendLater(snd[t], snd'[t]) /\ RecvLater(rcv[t], rcv'[t])
<1>1. /\ snd \in [Stream -> SendStreamType] /\ rcv \in [Stream -> RecvStreamType]
      /\ written \in [Stream -> Nat]
  BY DEF HalvesInv
<1>2. y \in SendStreamType
  BY DEF SendGood
<1>3. /\ snd' \in [Stream -> SendStreamType] /\ written' \in [Stream -> Nat]
      /\ \A t \in Stream : /\ snd'[t] = IF t = s THEN y ELSE snd[t]
                           /\ written'[t] = IF t = s THEN w ELSE written[t]
  BY <1>1, <1>2
<1>4. RecvGood(rcv[s], y, Content[s])
  BY <1>1, <1>2, RecvGoodLater DEF HalvesInv
<1>5. \A t \in Stream : /\ SendGood(snd'[t], Content[t], written'[t])
                        /\ RecvGood(rcv[t], snd'[t], Content[t])
                        /\ Agree(snd'[t], rcv[t])
  BY <1>3, <1>4 DEF HalvesInv
<1>6. HalvesInv'
  BY <1>1, <1>3, <1>5 DEF HalvesInv
<1>7. \A t \in Stream : SendLater(snd[t], snd'[t]) /\ RecvLater(rcv[t], rcv[t])
  BY <1>1, <1>3, SameLater
<1> QED BY <1>6, <1>7

\* What it sends anew is counted.
LEMMA SentBytes ==
    ASSUME HalvesInv, NEW s \in Stream, NEW y, NEW n \in Nat,
           snd' = [snd EXCEPT ![s] = y], y.base_offset = snd[s].base_offset + n
    PROVE  Cardinality(BytesBetween(Start, BaseOffset(snd')))
               = Cardinality(BytesBetween(Start, BaseOffset(snd))) + n
<1> DEFINE g == BaseOffset(snd)  h == BaseOffset(snd')
<1>1. snd \in [Stream -> SendStreamType]
  BY DEF HalvesInv
<1>2. g \in [Stream -> Nat] /\ g[s] = snd[s].base_offset
  BY <1>1 DEF BaseOffset, SendStreamType
<1>3. h = [g EXCEPT ![s] = g[s] + n]
  BY <1>1, <1>2 DEF BaseOffset
<1> HIDE DEF g, h
<1>4. Cardinality(BytesBetween(Start, h)) = Cardinality(BytesBetween(Start, g)) + n
  BY <1>2, <1>3, BytesGrow
<1> QED BY <1>4 DEF g, h

\* A step that leaves the halves alone.
LEMMA HalvesSame ==
    ASSUME HalvesInv, UNCHANGED <<snd, rcv, written, delivered, ended>>
    PROVE  /\ HalvesInv'
           /\ \A t \in Stream : SendLater(snd[t], snd'[t]) /\ RecvLater(rcv[t], rcv'[t])
<1>1. HalvesInv'
  BY DEF HalvesInv
<1>2. \A t \in Stream : snd[t] \in SendStreamType /\ rcv[t] \in RecvStreamType
  BY DEF HalvesInv
<1> QED BY <1>1, <1>2, SameLater

\* A step that leaves the packets alone.
LEMMA SlotsSame ==
    ASSUME SlotInv, packets' = packets,
           \A k : DataGood(k, next_sequence, snd, rcv) =>
                     DataGood(k, next_sequence', snd', rcv'),
           \A l : LimitGood(l, rcv, local_max_data, local_max_streams) =>
                     LimitGood(l, rcv', local_max_data', local_max_streams')
    PROVE  SlotInv'
BY DEF SlotInv

\* A step that leaves the queued limits alone.
LEMMA ControlSame ==
    ASSUME ControlInv, control_frames' = control_frames,
           \A l : LimitGood(l, rcv, local_max_data, local_max_streams) =>
                     LimitGood(l, rcv', local_max_data', local_max_streams')
    PROVE  ControlInv'
BY DEF ControlInv

\* The counters are natural numbers.
LEMMA CreditTypes ==
    ASSUME CreditInv
    PROVE  /\ max_data \in Nat /\ data_sent \in Nat /\ local_max_data \in Nat
           /\ data_received \in Nat /\ next_sequence \in Nat /\ max_streams \in Nat
           /\ local_max_streams \in Nat /\ losses \in Nat
BY DEF CreditInv

\* What a step of the sender's application or a loss leaves of the credit.
LEMMA CreditSame ==
    ASSUME CreditInv, losses' \in Nat,
           UNCHANGED <<rcv, known, max_data, data_sent, local_max_data, data_received,
                       next_sequence, max_streams, local_max_streams>>,
           Cardinality(BytesBetween(Start, BaseOffset(snd')))
               = Cardinality(BytesBetween(Start, BaseOffset(snd)))
    PROVE  CreditInv'
BY DEF CreditInv, Consumed

-----------------------------------------------------------------------------
(* Steps of the sender. *)

\* open_stream keeps the invariant.
LEMMA OpenStreamGood == IInv /\ OpenStream => IInv' /\ Onward /\ Silent
<1> SUFFICES ASSUME IInv, OpenStream PROVE IInv' /\ Onward /\ Silent
  OBVIOUS
<1> USE DEF IInv, OpenStream, receiverVars
<1>1. HalvesInv' /\ \A t \in Stream :
         SendLater(snd[t], snd'[t]) /\ RecvLater(rcv[t], rcv'[t])
  BY HalvesSame
<1>2. Onward
  BY <1>1, CreditTypes DEF Onward
<1>3. CreditInv'
  <2>1. /\ next_sequence \in Nat /\ max_streams \in Nat /\ next_sequence' \in Nat
        /\ next_sequence' <= max_streams
    BY CreditTypes
  <2>2. known \subseteq 0 .. next_sequence' - 1
    BY <2>1 DEF CreditInv
  <2> QED BY <2>1, <2>2 DEF CreditInv, Consumed
<1>4. /\ \A k : DataGood(k, next_sequence, snd, rcv) =>
                   DataGood(k, next_sequence', snd', rcv')
      /\ \A l : LimitGood(l, rcv, local_max_data, local_max_streams) =>
                   LimitGood(l, rcv', local_max_data', local_max_streams')
  <2>1. {next_sequence, next_sequence', local_max_data, local_max_data',
         local_max_streams, local_max_streams'} \subseteq Nat
    BY CreditTypes
  <2> QED BY <1>1, <1>2, <2>1, GoodLater
<1>5. SlotInv' /\ ControlInv'
  BY <1>4, SlotsSame, ControlSame
<1> QED BY <1>1, <1>2, <1>3, <1>5 DEF Silent

\* send_stream_data keeps the invariant.
LEMMA SendStreamDataGood ==
    ASSUME IInv, NEW s \in Stream, NEW n \in Nat, NEW fin \in BOOLEAN,
           SendStreamData(s, n, fin)
    PROVE  IInv' /\ Onward
<1> USE DEF IInv, receiverVars
<1> DEFINE w == written[s]
           y == Write(snd[s], SubSeq(Content[s], w + 1, w + n), fin)
<1>1. /\ Content[s] \in Seq(Nat) /\ w \in Nat /\ w + n \in Nat
      /\ SendGood(snd[s], Content[s], w) /\ Agree(snd[s], rcv[s])
      /\ snd \in [Stream -> SendStreamType] /\ written \in [Stream -> Nat]
  BY Constants DEF HalvesInv
<1>2. ~snd[s].fin_queued /\ w + n <= Len(Content[s])
  BY DEF SendStreamData
<1>3. snd' = [snd EXCEPT ![s] = y] /\ written' = [written EXCEPT ![s] = w + n]
  BY <1>1 DEF SendStreamData
<1>4. /\ SendGood(y, Content[s], w + n)
      /\ SendLater(snd[s], y)
      /\ SameAcks(snd[s], y)
      /\ y.max_stream_data = snd[s].max_stream_data
      /\ y.base_offset = snd[s].base_offset
  <2>1. PICK x, c, v, g : /\ x = snd[s] /\ c = Content[s] /\ v = w
                          /\ g = Write(x, SubSeq(c, v + 1, v + n), fin)
    OBVIOUS
  <2>2. /\ c \in Seq(Nat) /\ v \in Nat /\ SendGood(x, c, v) /\ ~x.fin_queued
        /\ v + n <= Len(c)
    BY <1>1, <1>2, <2>1, Zenon
  <2>3. /\ SendGood(g, c, v + n) /\ SendLater(x, g) /\ SameAcks(x, g)
        /\ g.max_stream_data = x.max_stream_data /\ g.base_offset = x.base_offset
    BY <2>1, <2>2, WriteGood
  <2> QED BY <2>1, <2>3, Zenon
<1> HIDE DEF y, w
<1>5. Agree(y, rcv[s])
  BY <1>1, <1>4 DEF Agree, SameAcks
<1>6. UNCHANGED <<rcv, delivered, ended, packets, control_frames, next_sequence,
                  local_max_data, local_max_streams, known, max_data, data_sent,
                  data_received, max_streams, losses, error>>
  BY DEF SendStreamData
<1>7. HalvesInv' /\ \A t \in Stream :
         SendLater(snd[t], snd'[t]) /\ RecvLater(rcv[t], rcv'[t])
  BY <1>1, <1>3, <1>4, <1>5, <1>6, SendStep
<1>8. Onward
  BY <1>6, <1>7, CreditTypes DEF Onward
<1>9. CreditInv'
  <2>1. snd[s].base_offset = snd[s].base_offset + 0
    BY <1>1 DEF SendStreamType
  <2>2. Cardinality(BytesBetween(Start, BaseOffset(snd'))) =
            Cardinality(BytesBetween(Start, BaseOffset(snd))) + 0
    BY <1>3, <1>4, <2>1, SentBytes
  <2>3. Cardinality(BytesBetween(Start, BaseOffset(snd))) \in Nat
    BY CreditTypes DEF CreditInv
  <2> QED BY <1>6, <2>2, <2>3, CreditTypes, CreditSame
<1>10. /\ \A k : DataGood(k, next_sequence, snd, rcv) =>
                    DataGood(k, next_sequence', snd', rcv')
       /\ \A l : LimitGood(l, rcv, local_max_data, local_max_streams) =>
                    LimitGood(l, rcv', local_max_data', local_max_streams')
  <2>1. {next_sequence, next_sequence', local_max_data, local_max_data',
         local_max_streams, local_max_streams'} \subseteq Nat
    BY <1>6, CreditTypes
  <2> QED BY <1>7, <1>8, <2>1, GoodLater
<1>11. SlotInv' /\ ControlInv'
  BY <1>6, <1>10, SlotsSame, ControlSame
<1> QED BY <1>6, <1>7, <1>8, <1>9, <1>11

\* A packet with the frame of next_frame leaves.
LEMMA SendStreamFrameGood ==
    ASSUME IInv, NEW s \in Stream, NEW room \in Rooms, SendStreamFrame(s, room)
    PROVE  IInv' /\ Onward /\ Silent
<1> USE DEF IInv, receiverVars
<1> DEFINE credit == max_data - data_sent
           x == snd[s]
           y == AfterFrame(x, room, credit)
           f == NextFrame(x, room, credit)
           n == y.base_offset - x.base_offset
<1>1. /\ Content[s] \in Seq(Nat) /\ written[s] \in Nat
      /\ SendGood(x, Content[s], written[s]) /\ Agree(x, rcv[s])
      /\ snd \in [Stream -> SendStreamType] /\ x \in SendStreamType
      /\ written \in [Stream -> Nat] /\ room \in Int
      /\ written = [written EXCEPT ![s] = written[s]]
  BY Constants DEF HalvesInv
<1>2. credit \in Int /\ credit >= 0
  BY CreditTypes DEF CreditInv
<1>3. /\ s < next_sequence /\ HasFrame(x, room, credit)
      /\ Depart(DataSlots, s, f)
      /\ snd' = [snd EXCEPT ![s] = y]
      /\ data_sent' = data_sent + snd'[s].highest_offset_sent - x.highest_offset_sent
      /\ UNCHANGED <<rcv, delivered, ended, control_frames, next_sequence, written,
                     local_max_data, local_max_streams, known, max_data,
                     data_received, max_streams, losses, error>>
  BY DEF SendStreamFrame
<1> HIDE DEF credit
<1>4. /\ SendGood(y, Content[s], written[s])
      /\ SendLater(x, y)
      /\ SameAcks(x, y)
      /\ y.max_stream_data = x.max_stream_data
      /\ y.base_offset = x.base_offset \/ y.base_offset - x.base_offset <= credit
      /\ Genuine(f, y, Content[s])
      /\ y.fin_queued = x.fin_queued
  BY <1>1, <1>2, <1>3, NextFrameGood
<1> HIDE DEF y, f
<1>5. Agree(y, rcv[s])
  BY <1>1, <1>4 DEF Agree, SameAcks
<1>6. HalvesInv' /\ \A t \in Stream :
         SendLater(snd[t], snd'[t]) /\ RecvLater(rcv[t], rcv'[t])
  BY <1>1, <1>3, <1>4, <1>5, SendStep
<1>7. Onward
  BY <1>3, <1>6, CreditTypes DEF Onward
<1>8. /\ n \in Nat /\ n <= credit /\ y.base_offset = x.base_offset + n
      /\ data_sent' = data_sent + n
  <2>1. x.base_offset \in Nat /\ y.base_offset \in Nat /\ x.base_offset <= y.base_offset
    BY <1>1, <1>4 DEF SendGood, SendStreamType, SendLater
  <2>2. /\ x.highest_offset_sent = x.base_offset
        /\ snd'[s] = y /\ y.highest_offset_sent = y.base_offset
    BY <1>1, <1>3, <1>4 DEF SendGood
  <2> HIDE DEF x
  <2>3. data_sent' = data_sent + n
    BY <1>3, <2>1, <2>2, CreditTypes
  <2> QED BY <1>2, <1>4, <2>1, <2>3
<1>9. CreditInv'
  <2>1. Cardinality(BytesBetween(Start, BaseOffset(snd'))) =
            Cardinality(BytesBetween(Start, BaseOffset(snd))) + n
    BY <1>3, <1>8, SentBytes
  <2> HIDE DEF n
  <2>2. data_sent' = Cardinality(BytesBetween(Start, BaseOffset(snd')))
    BY <1>8, <2>1 DEF CreditInv
  <2>3. data_sent' \in Nat /\ data_sent' <= max_data
    BY <1>2, <1>8, CreditTypes DEF credit
  <2> QED BY <1>3, <2>2, <2>3 DEF CreditInv, Consumed
<1>10. /\ \A k : DataGood(k, next_sequence, snd, rcv) =>
                    DataGood(k, next_sequence', snd', rcv')
       /\ \A l : LimitGood(l, rcv, local_max_data, local_max_streams) =>
                    LimitGood(l, rcv', local_max_data', local_max_streams')
  <2>1. {next_sequence, next_sequence', local_max_data, local_max_data',
         local_max_streams, local_max_streams'} \subseteq Nat
    BY <1>3, CreditTypes
  <2> QED BY <1>6, <1>7, <2>1, GoodLater
<1>11. SlotInv'
  <2> DEFINE k == [outstanding |-> TRUE, at |-> "transit", stream |-> s, frame |-> f]
  <2>1. snd'[s] = y /\ next_sequence' = next_sequence
    BY <1>1, <1>3
  <2>2. DataGood(k, next_sequence', snd', rcv')
    BY <1>3, <1>4, <2>1 DEF DataGood
  <2> QED BY <1>3, <1>10, <2>2, DepartGood
<1>12. ControlInv'
  BY <1>3, <1>10, ControlSame
<1>13. Silent
  BY <1>1, <1>3, <1>4 DEF Silent
<1> QED BY <1>3, <1>6, <1>7, <1>9, <1>11, <1>12, <1>13

-----------------------------------------------------------------------------
(* Limits, acknowledgements, losses and probes. *)

\* The sending halves with acknowledgements, retransmissions or credit added.
SendersGood(senders) ==
    /\ senders \in [Stream -> SendStreamType]
    /\ \A s \in Stream :
          /\ SendGood(senders[s], Content[s], written[s])
          /\ SendLater(snd[s], senders[s])
          /\ Agree(senders[s], rcv[s])
          /\ senders[s].base_offset = snd[s].base_offset
          /\ senders[s].fin_queued = snd[s].fin_queued

\* A SendStream that moves on twice has moved on.
LEMMA SendLaterTransitive ==
    ASSUME NEW x \in SendStreamType, NEW y \in SendStreamType,
           NEW z \in SendStreamType, SendLater(x, y), SendLater(y, z)
    PROVE  SendLater(x, z)
<1>1. /\ x.base_offset \in Nat /\ y.base_offset \in Nat /\ z.base_offset \in Nat
      /\ y.state \in {"READY", "SEND", "DATA_SENT", "DATA_RECVD"}
  BY DEF SendStreamType
<1> QED BY <1>1 DEF SendLater

\* The senders of a state that has the invariant are good.
LEMMA SendersNow == HalvesInv => SendersGood(snd)
BY SameLater DEF HalvesInv, SendersGood

\* One of them moves on once more.
LEMMA SendersStep ==
    ASSUME HalvesInv, NEW z, SendersGood(z), NEW s \in Stream, NEW y,
           SendGood(y, Content[s], written[s]), SendLater(z[s], y),
           Agree(y, rcv[s]), y.base_offset = z[s].base_offset,
           y.fin_queued = z[s].fin_queued
    PROVE  SendersGood([z EXCEPT ![s] = y])
<1>1. /\ z \in [Stream -> SendStreamType] /\ y \in SendStreamType
      /\ z[s] \in SendStreamType /\ snd[s] \in SendStreamType
  BY DEF SendersGood, SendGood, HalvesInv
<1>2. SendLater(snd[s], y)
  BY <1>1, SendLaterTransitive DEF SendersGood
<1> DEFINE u == [z EXCEPT ![s] = y]
<1>3. u \in [Stream -> SendStreamType]
      /\ \A t \in Stream : u[t] = IF t = s THEN y ELSE z[t]
  BY <1>1
<1> HIDE DEF u
<1>4. SendersGood(u)
  BY <1>2, <1>3 DEF SendersGood
<1> QED BY <1>4 DEF u

\* _requeue_lost on one STREAM frame keeps the senders good.
LEMMA RequeueFrameGood ==
    ASSUME HalvesInv, SlotInv, NEW z, SendersGood(z), NEW p \in DataSlots,
           Held(packets[p])
    PROVE  SendersGood(RequeueFrame(z, p))
<1> DEFINE s == packets[p].stream
           f == packets[p].frame
           y == Requeue(z[s], f)
<1>1. s \in Stream /\ Genuine(f, snd[s], Content[s])
  BY DEF SlotInv, DataGood
<1> HIDE DEF s, f
<1>2. /\ SendGood(z[s], Content[s], written[s]) /\ SendLater(snd[s], z[s])
      /\ Agree(z[s], rcv[s]) /\ z[s] \in SendStreamType /\ snd[s] \in SendStreamType
      /\ written[s] \in Nat
  BY <1>1 DEF SendersGood, HalvesInv
<1>3. Genuine(f, z[s], Content[s])
  BY <1>1, <1>2, GenuineLater
<1>4. /\ SendGood(y, Content[s], written[s]) /\ SendLater(z[s], y)
      /\ SameAcks(z[s], y) /\ y.max_stream_data = z[s].max_stream_data
      /\ y.base_offset = z[s].base_offset /\ y.fin_queued = z[s].fin_queued
  <2>1. PICK x, c, v, g : x = z[s] /\ c = Content[s] /\ v = written[s] /\ g = Requeue(x, f)
    OBVIOUS
  <2>2. SendGood(x, c, v) /\ Genuine(f, x, c) /\ v \in Nat
    BY <1>2, <1>3, <2>1, Zenon
  <2>3. /\ SendGood(g, c, v) /\ SendLater(x, g)
        /\ SameAcks(x, g) /\ g.max_stream_data = x.max_stream_data
        /\ g.base_offset = x.base_offset /\ g.fin_queued = x.fin_queued
    BY <2>1, <2>2, RequeueGood
  <2> QED BY <2>1, <2>3, Zenon
<1>5. RequeueFrame(z, p) = [z EXCEPT ![s] = y]
  BY DEF RequeueFrame, s, f
<1> HIDE DEF y
<1>6. Agree(y, rcv[s])
  BY <1>2, <1>4 DEF Agree, SameAcks
<1>7. SendersGood([z EXCEPT ![s] = y])
  BY <1>1, <1>4, <1>6, SendersStep
<1> QED BY <1>5, <1>7

\* What such a step leaves true, whatever it does to the packets and the limits
\* queued.
LEMMA SendersDone ==
    ASSUME IInv, SendersGood(snd'), losses' \in Nat,
           UNCHANGED <<next_sequence, written, data_sent, rcv, known, local_max_data,
                       data_received, local_max_streams, delivered, ended, error>>,
           max_data' \in Nat, data_sent <= max_data', max_data' <= local_max_data,
           max_streams' \in Nat, next_sequence <= max_streams',
           max_streams' <= local_max_streams
    PROVE  /\ error' = "none" /\ HalvesInv' /\ CreditInv' /\ Onward /\ Silent
           /\ \A k : DataGood(k, next_sequence, snd, rcv) =>
                        DataGood(k, next_sequence', snd', rcv')
           /\ \A l : LimitGood(l, rcv, local_max_data, local_max_streams) =>
                        LimitGood(l, rcv', local_max_data', local_max_streams')
<1> USE DEF IInv
<1>1. rcv \in [Stream -> RecvStreamType] /\ snd \in [Stream -> SendStreamType]
  BY DEF HalvesInv
<1>2. snd' \in [Stream -> SendStreamType]
  BY DEF SendersGood
<1>3. \A s \in Stream : RecvGood(rcv[s], snd'[s], Content[s])
  BY <1>1, <1>2, RecvGoodLater DEF HalvesInv, SendersGood
<1>4. HalvesInv'
  BY <1>2, <1>3 DEF HalvesInv, SendersGood
<1>5. Onward
  <2>1. \A s \in Stream : SendLater(snd[s], snd'[s]) /\ RecvLater(rcv[s], rcv'[s])
    BY <1>1, SameLater DEF SendersGood
  <2> QED BY <2>1, CreditTypes DEF Onward
<1>6. BaseOffset(snd') = BaseOffset(snd)
  BY DEF BaseOffset, SendersGood
<1>7. CreditInv'
  BY <1>6 DEF CreditInv, Consumed
<1>8. Silent
  BY DEF Silent, SendersGood
<1>9. {next_sequence, next_sequence', local_max_data, local_max_data',
       local_max_streams, local_max_streams'} \subseteq Nat
  BY CreditTypes
<1> QED BY <1>4, <1>5, <1>7, <1>8, <1>9, GoodLater

\* The steps that leave both credits alone.
LEMMA SendersDoneSameCredit ==
    ASSUME IInv, SendersGood(snd'), losses' \in Nat,
           UNCHANGED <<next_sequence, written, max_data, data_sent, max_streams, rcv,
                       known, local_max_data, data_received, local_max_streams,
                       delivered, ended, error>>
    PROVE  /\ error' = "none" /\ HalvesInv' /\ CreditInv' /\ Onward /\ Silent
           /\ \A k : DataGood(k, next_sequence, snd, rcv) =>
                        DataGood(k, next_sequence', snd', rcv')
           /\ \A l : LimitGood(l, rcv, local_max_data, local_max_streams) =>
                        LimitGood(l, rcv', local_max_data', local_max_streams')
<1>1. /\ max_data' \in Nat /\ data_sent <= max_data' /\ max_data' <= local_max_data
      /\ max_streams' \in Nat /\ next_sequence <= max_streams'
      /\ max_streams' <= local_max_streams
  BY CreditTypes DEF IInv, CreditInv
<1> QED BY <1>1, SendersDone

\* A packet with a queued limit leaves.
LEMMA SendLimitGood == IInv /\ SendLimit => IInv' /\ Onward /\ Silent
<1> SUFFICES ASSUME IInv, SendLimit PROVE IInv' /\ Onward /\ Silent
  OBVIOUS
<1> USE DEF IInv
<1> DEFINE f == Head(control_frames)
<1>1. /\ control_frames # <<>> /\ Depart(LimitSlots, f.stream, f)
      /\ control_frames' = Tail(control_frames)
      /\ UNCHANGED <<snd, next_sequence, written, max_data, data_sent, max_streams,
                     rcv, known, local_max_data, data_received, local_max_streams,
                     delivered, ended, error, losses>>
  BY DEF SendLimit, senderVars
<1>2. /\ control_frames \in Seq(LimitFrame)
      /\ \A i \in 1 .. Len(control_frames) :
            LimitGood(control_frames[i], rcv, local_max_data, local_max_streams)
  BY DEF ControlInv
<1>3. /\ f = control_frames[1] /\ 1 \in 1 .. Len(control_frames)
      /\ Tail(control_frames) \in Seq(LimitFrame)
      /\ Len(Tail(control_frames)) = Len(control_frames) - 1
      /\ \A i \in 1 .. Len(Tail(control_frames)) :
            Tail(control_frames)[i] = control_frames[i + 1]
  BY <1>1, <1>2, HeadTailProperties
<1> HIDE DEF f
<1>4. /\ error' = "none" /\ HalvesInv' /\ CreditInv' /\ Onward /\ Silent
      /\ \A k : DataGood(k, next_sequence, snd, rcv) =>
                   DataGood(k, next_sequence', snd', rcv')
      /\ \A l : LimitGood(l, rcv, local_max_data, local_max_streams) =>
                   LimitGood(l, rcv', local_max_data', local_max_streams')
  <2>1. SendersGood(snd') /\ losses' \in Nat
    BY <1>1, SendersNow, CreditTypes
  <2> QED BY <1>1, <2>1, SendersDoneSameCredit
<1>5. SlotInv'
  <2>1. LimitGood(f, rcv', local_max_data', local_max_streams')
    BY <1>2, <1>3, <1>4
  <2> QED BY <1>1, <1>4, <2>1, DepartGood
<1>6. ControlInv'
  <2>1. \A i \in 1 .. Len(control_frames') :
           LimitGood(control_frames'[i], rcv', local_max_data', local_max_streams')
    <3> TAKE i \in 1 .. Len(control_frames')
    <3>1. i + 1 \in 1 .. Len(control_frames)
          /\ control_frames'[i] = control_frames[i + 1]
      BY <1>1, <1>2, <1>3
    <3> QED BY <1>2, <1>4, <3>1
  <2> QED BY <1>1, <1>3, <2>1 DEF ControlInv
<1> QED BY <1>4, <1>5, <1>6

\* The network drops a packet.
LEMMA DropGood ==
    ASSUME IInv, NEW p \in Slot, Drop(p)
    PROVE  IInv' /\ Onward /\ Silent
<1> USE DEF IInv
<1>1. /\ Becomes(p, packets[p].outstanding, "gone")
      /\ Held(packets[p]) /\ losses' = losses + 1
      /\ UNCHANGED <<snd, next_sequence, written, max_data, data_sent, max_streams,
                     rcv, known, local_max_data, data_received, local_max_streams,
                     delivered, ended, error, control_frames>>
  BY DEF Drop, Held, senderVars, receiverVars
<1>2. /\ error' = "none" /\ HalvesInv' /\ CreditInv' /\ Onward /\ Silent
      /\ \A k : DataGood(k, next_sequence, snd, rcv) =>
                   DataGood(k, next_sequence', snd', rcv')
      /\ \A l : LimitGood(l, rcv, local_max_data, local_max_streams) =>
                   LimitGood(l, rcv', local_max_data', local_max_streams')
  <2>1. SendersGood(snd') /\ losses' \in Nat
    BY <1>1, SendersNow, CreditTypes
  <2> QED BY <1>1, <2>1, SendersDoneSameCredit
<1>3. SlotInv'
  BY <1>1, <1>2, BecomesGood
<1>4. ControlInv'
  BY <1>1, <1>2, ControlSame
<1> QED BY <1>2, <1>3, <1>4

\* _handle_limit: the sender takes no more than the receiver allows.
LEMMA DeliverLimitGood ==
    ASSUME IInv, NEW p \in LimitSlots, DeliverLimit(p)
    PROVE  IInv' /\ Onward /\ Silent
<1> USE DEF IInv
<1> DEFINE l == packets[p].frame
           s == packets[p].stream
           m == l.maximum
           y == OnMaxStreamData(snd[s], m)
<1>1. /\ Becomes(p, packets[p].outstanding, "arrived") /\ Held(packets[p])
      /\ snd' = IF l.kind = "MAX_STREAM_DATA" THEN [snd EXCEPT ![s] = y] ELSE snd
      /\ max_data' = IF l.kind = "MAX_DATA" THEN Max({max_data, m}) ELSE max_data
      /\ max_streams' = IF l.kind = "MAX_STREAMS" THEN Max({max_streams, m})
                        ELSE max_streams
      /\ UNCHANGED <<next_sequence, written, data_sent, rcv, known, local_max_data,
                     data_received, local_max_streams, delivered, ended, error,
                     control_frames, losses>>
  BY DEF DeliverLimit, Held, receiverVars
<1>2. p \in Slot /\ p \notin DataSlots
  BY Constants
<1>3. /\ LimitGood(l, rcv, local_max_data, local_max_streams) /\ s = l.stream
      /\ l \in LimitFrame /\ m \in Nat
  BY <1>1 DEF SlotInv, LimitGood, LimitFrame
<1> HIDE DEF s, l, m
<1>4. SendersGood(snd')
  <2>1. CASE l.kind = "MAX_STREAM_DATA"
    <3>1. s \in Stream /\ m <= rcv[s].max_stream_data
      BY <1>3, <2>1 DEF LimitGood, m
    <3>2. /\ SendGood(snd[s], Content[s], written[s]) /\ Agree(snd[s], rcv[s])
          /\ rcv[s] \in RecvStreamType /\ written[s] \in Nat
      BY <3>1 DEF HalvesInv
    <3>3. /\ SendGood(y, Content[s], written[s]) /\ SendLater(snd[s], y)
          /\ Agree(y, rcv[s]) /\ y.base_offset = snd[s].base_offset
          /\ y.fin_queued = snd[s].fin_queued
      <4> DEFINE x == snd[s]  r == rcv[s]  c == Content[s]  w == written[s]
                 z == OnMaxStreamData(x, m)
      <4>1. /\ SendGood(x, c, w) /\ Agree(x, r) /\ r \in RecvStreamType /\ w \in Nat
            /\ m \in Nat /\ m <= r.max_stream_data
        BY <1>3, <3>1, <3>2
      <4> HIDE DEF x, r, c, w, IInv
      <4>2. /\ SendGood(z, c, w) /\ SendLater(x, z) /\ Agree(z, r)
            /\ z.base_offset = x.base_offset /\ z.fin_queued = x.fin_queued
        BY ONLY <4>1, OnMaxStreamDataGood
      <4> QED BY <4>2 DEF x, r, c, w
    <3> HIDE DEF y
    <3>4. SendersGood([snd EXCEPT ![s] = y])
      BY <3>1, <3>3, SendersNow, SendersStep
    <3> QED BY <1>1, <2>1, <3>4
  <2>2. CASE l.kind # "MAX_STREAM_DATA"
    BY <1>1, <2>2, SendersNow
  <2> QED BY <2>1, <2>2
<1>5. \A a, b \in Nat : Max({a, b}) \in Nat /\ a <= Max({a, b})
                        /\ (Max({a, b}) = a \/ Max({a, b}) = b)
  BY MaxOfTwo
<1>6. max_data' \in Nat /\ data_sent <= max_data' /\ max_data' <= local_max_data
  <2>1. data_sent <= max_data /\ max_data <= local_max_data
    BY DEF CreditInv
  <2>2. l.kind = "MAX_DATA" => m <= local_max_data
    BY <1>3 DEF LimitGood, m
  <2>3. max_data \in Nat /\ data_sent \in Nat /\ local_max_data \in Nat
    BY CreditTypes
  <2>4. Max({max_data, m}) \in Nat /\ max_data <= Max({max_data, m})
        /\ (Max({max_data, m}) = max_data \/ Max({max_data, m}) = m)
    BY <1>3, <1>5, <2>3, Zenon
  <2> DEFINE h == Max({max_data, m})
  <2>5. max_data' = max_data \/ (l.kind = "MAX_DATA" /\ max_data' = h)
    BY <1>1
  <2> HIDE DEF h
  <2> QED BY <1>3, <2>1, <2>2, <2>3, <2>4, <2>5 DEF h
<1>7. /\ max_streams' \in Nat /\ next_sequence <= max_streams'
      /\ max_streams' <= local_max_streams
  <2>1. next_sequence <= max_streams /\ max_streams <= local_max_streams
    BY DEF CreditInv
  <2>2. l.kind = "MAX_STREAMS" => m <= local_max_streams
    BY <1>3 DEF LimitGood, m
  <2>3. max_streams \in Nat /\ next_sequence \in Nat /\ local_max_streams \in Nat
    BY CreditTypes
  <2>4. Max({max_streams, m}) \in Nat /\ max_streams <= Max({max_streams, m})
        /\ (Max({max_streams, m}) = max_streams \/ Max({max_streams, m}) = m)
    BY <1>3, <1>5, <2>3, Zenon
  <2> DEFINE h == Max({max_streams, m})
  <2>5. max_streams' = max_streams \/ (l.kind = "MAX_STREAMS" /\ max_streams' = h)
    BY <1>1
  <2> HIDE DEF h
  <2> QED BY <1>3, <2>1, <2>2, <2>3, <2>4, <2>5 DEF h
<1>8. /\ error' = "none" /\ HalvesInv' /\ CreditInv' /\ Onward /\ Silent
      /\ \A k : DataGood(k, next_sequence, snd, rcv) =>
                   DataGood(k, next_sequence', snd', rcv')
      /\ \A i : LimitGood(i, rcv, local_max_data, local_max_streams) =>
                   LimitGood(i, rcv', local_max_data', local_max_streams')
  <2>1. losses' \in Nat
    BY <1>1, CreditTypes
  <2> QED BY <1>1, <1>4, <1>6, <1>7, <2>1, SendersDone
<1>9. SlotInv'
  BY <1>1, <1>2, <1>8, BecomesGood
<1>10. ControlInv'
  BY <1>1, <1>8, ControlSame
<1> QED BY <1>8, <1>9, <1>10

\* An acknowledgement arrives: what it reports was taken by the receiver.
LEMMA AcknowledgeGood ==
    ASSUME IInv, NEW p \in Slot, Acknowledge(p)
    PROVE  IInv' /\ Onward /\ Silent
<1> USE DEF IInv
<1> DEFINE f == packets[p].frame
           s == packets[p].stream
           y == OnFrameAcked(snd[s], f)
<1>1. /\ Becomes(p, FALSE, "arrived") /\ Held(packets[p])
      /\ packets[p].at = "arrived"
      /\ snd' = IF p \in DataSlots THEN [snd EXCEPT ![s] = y] ELSE snd
      /\ UNCHANGED <<next_sequence, written, max_data, data_sent, max_streams, rcv,
                     known, local_max_data, data_received, local_max_streams,
                     delivered, ended, error, control_frames, losses>>
  BY DEF Acknowledge, Held, receiverVars
<1>2. SendersGood(snd')
  <2>1. CASE p \in DataSlots
    <3>1. /\ s \in Stream /\ Genuine(f, snd[s], Content[s])
          /\ Offsets(f) \subseteq rcv[s].received
          /\ f.fin => rcv[s].final_size # NoSize
      BY <1>1, <2>1 DEF SlotInv, DataGood
    <3> HIDE DEF f, s
    <3>2. /\ SendGood(snd[s], Content[s], written[s]) /\ Agree(snd[s], rcv[s])
          /\ rcv[s] \in RecvStreamType /\ written[s] \in Nat
      BY <3>1 DEF HalvesInv
    <3>3. /\ SendGood(y, Content[s], written[s]) /\ SendLater(snd[s], y)
          /\ Agree(y, rcv[s]) /\ y.base_offset = snd[s].base_offset
          /\ y.fin_queued = snd[s].fin_queued
      <4> DEFINE x == snd[s]  r == rcv[s]  c == Content[s]  w == written[s]
                 z == OnFrameAcked(x, f)
      <4>1. /\ SendGood(x, c, w) /\ Agree(x, r) /\ r \in RecvStreamType /\ w \in Nat
            /\ Genuine(f, x, c) /\ Arrived(f, r)
        BY <3>1, <3>2 DEF Arrived
      <4> HIDE DEF x, r, c, w
      <4>2. Acked(x, z, r, c, w)
        BY ONLY <4>1, OnFrameAckedGood, Zenon
      <4> QED BY <4>2, Zenon DEF x, r, c, w, Acked
    <3> HIDE DEF y
    <3>4. SendersGood([snd EXCEPT ![s] = y])
      BY <3>1, <3>3, SendersNow, SendersStep
    <3> QED BY <1>1, <2>1, <3>4
  <2>2. CASE p \notin DataSlots
    BY <1>1, <2>2, SendersNow
  <2> QED BY <2>1, <2>2
<1>3. /\ error' = "none" /\ HalvesInv' /\ CreditInv' /\ Onward /\ Silent
      /\ \A k : DataGood(k, next_sequence, snd, rcv) =>
                   DataGood(k, next_sequence', snd', rcv')
      /\ \A l : LimitGood(l, rcv, local_max_data, local_max_streams) =>
                   LimitGood(l, rcv', local_max_data', local_max_streams')
  <2>1. losses' \in Nat
    BY <1>1, CreditTypes
  <2> QED BY <1>1, <1>2, <2>1, SendersDoneSameCredit
<1>4. SlotInv'
  BY <1>1, <1>3, BecomesGood
<1>5. ControlInv'
  BY <1>1, <1>3, ControlSame
<1> QED BY <1>3, <1>4, <1>5

\* A limit queued again has its current value.
LEMMA CurrentLimitGood ==
    ASSUME HalvesInv, CreditInv, NEW l,
           LimitGood(l, rcv, local_max_data, local_max_streams)
    PROVE  /\ CurrentLimit(l) \in LimitFrame
           /\ LimitGood(CurrentLimit(l), rcv, local_max_data, local_max_streams)
<1> DEFINE m == CASE l.kind = "MAX_STREAM_DATA" -> rcv[l.stream].max_stream_data
                  [] l.kind = "MAX_DATA" -> local_max_data
                  [] l.kind = "MAX_STREAMS" -> local_max_streams
<1>1. /\ l \in LimitFrame /\ l.stream \in Nat
      /\ l.kind \in {"MAX_STREAM_DATA", "MAX_DATA", "MAX_STREAMS"}
      /\ l.kind = "MAX_STREAM_DATA" => l.stream \in Stream
  BY DEF LimitGood, LimitFrame
<1>2. CurrentLimit(l) = [kind |-> l.kind, stream |-> l.stream, maximum |-> m]
  BY DEF CurrentLimit, Limit
<1>3. /\ l.kind = "MAX_STREAM_DATA" => m = rcv[l.stream].max_stream_data
      /\ l.kind = "MAX_DATA" => m = local_max_data
      /\ l.kind = "MAX_STREAMS" => m = local_max_streams
  OBVIOUS
<1> HIDE DEF m
<1>4. \A s \in Stream : rcv[s].max_stream_data \in Nat
  BY DEF HalvesInv, RecvStreamType
<1>5. m \in Nat
  BY <1>1, <1>3, <1>4, CreditTypes
<1>6. CurrentLimit(l) \in LimitFrame
  BY <1>1, <1>2, <1>5 DEF LimitFrame
<1>7. LimitGood(CurrentLimit(l), rcv, local_max_data, local_max_streams)
  <2>1. /\ CurrentLimit(l).kind = l.kind /\ CurrentLimit(l).stream = l.stream
        /\ CurrentLimit(l).maximum = m
    BY <1>2
  <2>2. m <= m
    BY <1>5
  <2> QED BY <1>1, <1>3, <1>6, <2>1, <2>2 DEF LimitGood
<1> QED BY <1>6, <1>7

\* A packet is declared lost, and what it carried is queued again.
LEMMA DeclareLostGood ==
    ASSUME IInv, NEW p \in Slot, DeclareLost(p)
    PROVE  IInv' /\ Onward /\ Silent
<1> USE DEF IInv
<1> DEFINE lost == CurrentLimit(packets[p].frame)
<1>1. /\ Becomes(p, FALSE, packets[p].at) /\ Held(packets[p])
      /\ packets[p].at \in {"transit", "arrived", "gone"}
      /\ losses' = losses \/ losses' = losses + 1
      /\ UNCHANGED <<next_sequence, written, max_data, data_sent, max_streams, rcv,
                     known, local_max_data, data_received, local_max_streams,
                     delivered, ended, error>>
  BY DEF DeclareLost, CountAlarm, Held, SlotInv
<1>2. \/ /\ p \in DataSlots /\ snd' = RequeueFrame(snd, p)
         /\ control_frames' = control_frames
      \/ /\ p \notin DataSlots /\ snd' = snd
         /\ control_frames' = Append(control_frames, lost)
  BY DEF DeclareLost
<1>3. SendersGood(snd')
  BY <1>1, <1>2, SendersNow, RequeueFrameGood
<1>4. /\ error' = "none" /\ HalvesInv' /\ CreditInv' /\ Onward /\ Silent
      /\ \A k : DataGood(k, next_sequence, snd, rcv) =>
                   DataGood(k, next_sequence', snd', rcv')
      /\ \A l : LimitGood(l, rcv, local_max_data, local_max_streams) =>
                   LimitGood(l, rcv', local_max_data', local_max_streams')
  <2>1. losses' \in Nat
    <3>1. losses \in Nat
      BY CreditTypes
    <3>2. losses' = losses \/ losses' = losses + 1
      BY <1>1, Zenon
    <3> QED BY <3>1, <3>2
  <2> QED BY <1>1, <1>3, <2>1, SendersDoneSameCredit, Zenon
<1>5. SlotInv'
  BY <1>1, <1>4, BecomesGood
<1>6. ControlInv'
  <2>1. CASE control_frames' = control_frames
    BY <1>4, <2>1, ControlSame
  <2>2. CASE p \notin DataSlots /\ control_frames' = Append(control_frames, lost)
    <3>1. LimitGood(packets[p].frame, rcv, local_max_data, local_max_streams)
      BY <1>1, <2>2, Constants DEF SlotInv
    <3>2. /\ lost \in LimitFrame
          /\ LimitGood(lost, rcv, local_max_data, local_max_streams)
      BY <3>1, CurrentLimitGood
    <3> HIDE DEF lost
    <3>3. control_frames \in Seq(LimitFrame)
      BY DEF ControlInv
    <3>4. /\ control_frames' \in Seq(LimitFrame)
          /\ Len(control_frames') = Len(control_frames) + 1
          /\ \A i \in 1 .. Len(control_frames) : control_frames'[i] = control_frames[i]
          /\ control_frames'[Len(control_frames) + 1] = lost
      BY <2>2, <3>2, <3>3, AppendProperties
    <3>5. \A i \in 1 .. Len(control_frames') :
             LimitGood(control_frames'[i], rcv, local_max_data, local_max_streams)
      <4> TAKE i \in 1 .. Len(control_frames')
      <4>1. i \in 1 .. Len(control_frames) \/ i = Len(control_frames) + 1
        BY <3>3, <3>4
      <4> QED BY <3>2, <3>4, <4>1 DEF ControlInv
    <3> QED BY <1>4, <3>4, <3>5 DEF ControlInv
  <2> QED BY <1>2, <2>1, <2>2
<1> QED BY <1>1, <1>4, <1>5, <1>6

\* _prepare_probe queues what one or two data packets carried.
LEMMA ProbeGood == IInv /\ Probe => IInv' /\ Onward /\ Silent
<1> SUFFICES ASSUME IInv, Probe PROVE IInv' /\ Onward /\ Silent
  OBVIOUS
<1> USE DEF IInv
<1>1. PICK p \in Outstanding(DataSlots), q \in Outstanding(DataSlots) :
         snd' = IF p = q THEN RequeueFrame(snd, p)
                ELSE RequeueFrame(RequeueFrame(snd, p), q)
  BY DEF Probe
<1>2. /\ losses' = losses + 1
      /\ UNCHANGED <<next_sequence, written, max_data, data_sent, max_streams, rcv,
                     known, local_max_data, data_received, local_max_streams,
                     delivered, ended, error, control_frames, packets>>
  BY DEF Probe, receiverVars
<1>3. p \in DataSlots /\ q \in DataSlots /\ Held(packets[p]) /\ Held(packets[q])
  BY DEF Outstanding, Held
<1>4. SendersGood(snd')
  <2>1. SendersGood(RequeueFrame(snd, p))
    BY <1>3, SendersNow, RequeueFrameGood
  <2>2. SendersGood(RequeueFrame(RequeueFrame(snd, p), q))
    BY <1>3, <2>1, RequeueFrameGood
  <2> QED BY <1>1, <2>1, <2>2
<1>5. /\ error' = "none" /\ HalvesInv' /\ CreditInv' /\ Onward /\ Silent
      /\ \A k : DataGood(k, next_sequence, snd, rcv) =>
                   DataGood(k, next_sequence', snd', rcv')
      /\ \A l : LimitGood(l, rcv, local_max_data, local_max_streams) =>
                   LimitGood(l, rcv', local_max_data', local_max_streams')
  <2>1. losses' \in Nat
    BY <1>2, CreditTypes
  <2> QED BY <1>2, <1>4, <2>1, SendersDoneSameCredit
<1>6. SlotInv' /\ ControlInv'
  BY <1>2, <1>5, SlotsSame, ControlSame
<1> QED BY <1>5, <1>6

\* _prepare_probe queues the present values of one or two limits.
LEMMA ProbeLimitsGood == IInv /\ ProbeLimits => IInv' /\ Onward /\ Silent
<1> SUFFICES ASSUME IInv, ProbeLimits PROVE IInv' /\ Onward /\ Silent
  OBVIOUS
<1> USE DEF IInv
<1>1. PICK p \in Outstanding(LimitSlots), q \in Outstanding(LimitSlots) :
         control_frames' = <<CurrentLimit(packets[p].frame)>>
             \o (IF p = q THEN <<>> ELSE <<CurrentLimit(packets[q].frame)>>)
  BY DEF ProbeLimits
<1>2. /\ losses' = losses + 1
      /\ UNCHANGED <<snd, next_sequence, written, max_data, data_sent, max_streams,
                     rcv, known, local_max_data, data_received, local_max_streams,
                     delivered, ended, error, packets>>
  BY DEF ProbeLimits, senderVars
<1>3. p \in LimitSlots /\ q \in LimitSlots /\ Held(packets[p]) /\ Held(packets[q])
  BY DEF Outstanding, Held
<1>4. /\ error' = "none" /\ HalvesInv' /\ CreditInv' /\ Onward /\ Silent
      /\ \A k : DataGood(k, next_sequence, snd, rcv) =>
                   DataGood(k, next_sequence', snd', rcv')
      /\ \A l : LimitGood(l, rcv, local_max_data, local_max_streams) =>
                   LimitGood(l, rcv', local_max_data', local_max_streams')
  <2>1. SendersGood(snd') /\ losses' \in Nat
    BY <1>2, SendersNow, CreditTypes
  <2> QED BY <1>2, <2>1, SendersDoneSameCredit
<1>5. SlotInv'
  BY <1>2, <1>4, SlotsSame
<1>6. ControlInv'
  <2> DEFINE a == CurrentLimit(packets[p].frame)
             b == CurrentLimit(packets[q].frame)
  <2>1. /\ LimitGood(packets[p].frame, rcv, local_max_data, local_max_streams)
        /\ LimitGood(packets[q].frame, rcv, local_max_data, local_max_streams)
    BY <1>3 DEF SlotInv
  <2>2. /\ a \in LimitFrame /\ b \in LimitFrame
        /\ LimitGood(a, rcv, local_max_data, local_max_streams)
        /\ LimitGood(b, rcv, local_max_data, local_max_streams)
    BY <2>1, CurrentLimitGood
  <2> HIDE DEF a, b
  <2>3. PICK u : control_frames' = <<a>> \o u /\ (u = <<>> \/ u = <<b>>)
    BY <1>1 DEF a, b
  <2>4. /\ control_frames' \in Seq(LimitFrame)
        /\ \A i \in 1 .. Len(control_frames') : control_frames'[i] \in {a, b}
    <3>1. /\ <<a>> \in Seq(LimitFrame) /\ Len(<<a>>) = 1 /\ <<a>>[1] = a
          /\ u \in Seq(LimitFrame) /\ \A i \in 1 .. Len(u) : u[i] = b
      <4>1. <<a>> \in Seq(LimitFrame) /\ Len(<<a>>) = 1 /\ <<a>>[1] = a
        BY <2>2
      <4>2. CASE u = <<>>
        BY <4>1, <4>2
      <4>3. CASE u = <<b>>
        <5>1. <<b>> \in Seq(LimitFrame) /\ Len(<<b>>) = 1 /\ <<b>>[1] = b
          BY <2>2
        <5> QED BY <4>1, <4>3, <5>1
      <4> QED BY <2>3, <4>2, <4>3
    <3>2. /\ <<a>> \o u \in Seq(LimitFrame)
          /\ Len(<<a>> \o u) = 1 + Len(u)
          /\ \A i \in 1 .. 1 + Len(u) : (<<a>> \o u)[i] =
                IF i <= 1 THEN <<a>>[i] ELSE u[i - 1]
      BY <3>1, ConcatProperties
    <3>3. \A i \in 1 .. 1 + Len(u) : i = 1 \/ i - 1 \in 1 .. Len(u)
      BY <3>1
    <3> QED BY <2>3, <3>1, <3>2, <3>3
  <2>5. \A i \in 1 .. Len(control_frames') :
           LimitGood(control_frames'[i], rcv', local_max_data', local_max_streams')
    BY <1>4, <2>2, <2>4
  <2> QED BY <2>4, <2>5 DEF ControlInv
<1> QED BY <1>4, <1>5, <1>6

-----------------------------------------------------------------------------
(* The receiver takes a STREAM frame. *)

\* A RecvStream that moves on twice has moved on.
LEMMA RecvLaterTransitive ==
    ASSUME NEW q \in RecvStreamType, NEW r \in RecvStreamType,
           NEW u \in RecvStreamType, RecvLater(q, r), RecvLater(r, u)
    PROVE  RecvLater(q, u)
<1>1. \A v \in RecvStreamType :
         /\ v.max_stream_data \in Nat /\ v.read_offset \in Nat
         /\ v.highest_offset \in Nat
         /\ v.state \in {"RECV", "SIZE_KNOWN", "DATA_RECVD", "DATA_READ"}
  BY DEF RecvStreamType
<1>2. /\ q.max_stream_data <= u.max_stream_data /\ q.read_offset <= u.read_offset
      /\ q.highest_offset <= u.highest_offset
  BY <1>1 DEF RecvLater
<1>3. /\ q.state = "SIZE_KNOWN" => u.state # "RECV"
      /\ q.state = "DATA_RECVD" => u.state \in {"DATA_RECVD", "DATA_READ"}
      /\ q.state = "DATA_READ" => u.state = "DATA_READ"
  BY <1>1 DEF RecvLater
<1> QED BY <1>2, <1>3 DEF RecvLater

\* What arrives anew is counted, and is within what was sent.
LEMMA ReceivedBytes ==
    ASSUME IInv, NEW s \in Stream, NEW n \in Nat,
           rcv[s].highest_offset + n <= snd[s].base_offset,
           NEW h, h = [HighestOffset(rcv) EXCEPT ![s] = rcv[s].highest_offset + n]
    PROVE  /\ Cardinality(BytesBetween(Start, h)) = data_received + n
           /\ data_received + n <= data_sent
<1> USE DEF IInv
<1> DEFINE g == HighestOffset(rcv)  b == BaseOffset(snd)
<1>1. /\ rcv \in [Stream -> RecvStreamType] /\ snd \in [Stream -> SendStreamType]
      /\ \A t \in Stream : /\ rcv[t].highest_offset \in Nat
                           /\ snd[t].base_offset \in Nat
                           /\ rcv[t].highest_offset <= snd[t].base_offset
  BY DEF HalvesInv, RecvStreamType, SendStreamType, RecvGood
<1>2. /\ g \in [Stream -> Nat] /\ b \in [Stream -> Nat]
      /\ \A t \in Stream : g[t] = rcv[t].highest_offset /\ b[t] = snd[t].base_offset
  BY <1>1 DEF HighestOffset, BaseOffset
<1>3. data_received = Cardinality(BytesBetween(Start, g))
      /\ data_sent = Cardinality(BytesBetween(Start, b))
  BY DEF CreditInv
<1> HIDE DEF g, b
<1>4. h = [g EXCEPT ![s] = g[s] + n]
  BY <1>2 DEF g
<1>5. h \in [Stream -> Nat] /\ \A t \in Stream : h[t] <= b[t]
  <2>1. g[s] + n \in Nat /\ g[s] + n <= b[s]
    BY <1>2
  <2>2. \A t \in Stream : g[t] <= b[t]
    BY <1>1, <1>2
  <2> QED BY <1>2, <1>4, <2>1, <2>2
<1>6. Cardinality(BytesBetween(Start, h)) = Cardinality(BytesBetween(Start, g)) + n
  BY ONLY <1>2, <1>4, s \in Stream, n \in Nat, BytesGrow
<1>7. Cardinality(BytesBetween(Start, h)) <= Cardinality(BytesBetween(Start, b))
  BY <1>2, <1>5, BytesMonotone
<1> QED BY <1>3, <1>6, <1>7

\* A frame of the peer's is never refused.
LEMMA FrameAccepted ==
    ASSUME IInv, NEW s \in Stream, s < next_sequence, NEW f,
           Genuine(f, snd[s], Content[s])
    PROVE  StreamError(s, f) = "none"
<1> USE DEF IInv
<1> DEFINE r == rcv[s]  x == snd[s]
           more == Max({r.highest_offset, End(f)}) - r.highest_offset
<1>1. /\ r \in RecvStreamType /\ x \in SendStreamType
      /\ SendGood(x, Content[s], written[s]) /\ RecvGood(r, x, Content[s])
      /\ Agree(x, r)
  BY DEF HalvesInv
<1>2. /\ r.highest_offset \in Nat /\ r.max_stream_data \in Nat /\ End(f) \in Nat
      /\ x.base_offset \in Nat /\ x.max_stream_data \in Nat
      /\ r.final_size \in Nat \cup {NoSize}
  <2>1. f.offset \in Nat /\ Len(f.data) \in Nat
    BY DEF Genuine, StreamFrame
  <2>2. End(f) \in Nat
    BY <2>1 DEF End
  <2> QED BY <1>1, <2>2 DEF RecvStreamType, SendStreamType
<1>3. FrameError(r, f) = "none"
  <2>1. /\ End(f) <= x.base_offset /\ (f.fin => End(f) = x.base_offset)
        /\ r.final_size # NoSize => r.final_size = x.base_offset
        /\ r.highest_offset <= x.base_offset
        /\ x.base_offset <= x.max_stream_data
        /\ x.max_stream_data <= r.max_stream_data
    BY <1>1 DEF Genuine, RecvGood, SendGood, Agree
  <2> HIDE DEF r, x
  <2>2. /\ ~(r.final_size # NoSize /\ End(f) > r.final_size)
        /\ ~(r.final_size # NoSize /\ f.fin /\ End(f) # r.final_size)
        /\ ~(f.fin /\ End(f) < r.highest_offset)
        /\ ~(End(f) > r.max_stream_data)
    BY <1>2, <2>1
  <2> QED BY <2>2 DEF FrameError
<1>4. s < local_max_streams
  <2>1. s \in Nat
    BY Constants
  <2>2. next_sequence <= max_streams /\ max_streams <= local_max_streams
    BY DEF CreditInv
  <2>3. next_sequence \in Nat /\ max_streams \in Nat /\ local_max_streams \in Nat
    BY CreditTypes
  <2> QED BY ONLY <2>1, <2>2, <2>3, s < next_sequence
<1>5. data_received + more <= local_max_data
  <2>1. r.highest_offset <= x.base_offset /\ End(f) <= x.base_offset
    BY <1>1 DEF Genuine, RecvGood
  <2>2. Max({r.highest_offset, End(f)}) =
           IF r.highest_offset >= End(f) THEN r.highest_offset ELSE End(f)
    <3>1. r.highest_offset \in Int /\ End(f) \in Int
      BY <1>2
    <3> QED BY <3>1, MaxOfTwo, Zenon
  <2>3. more \in Nat /\ r.highest_offset + more <= x.base_offset
    BY <1>2, <2>1, <2>2
  <2> HIDE DEF more
  <2>4. data_received + more <= data_sent
    BY <2>3, ReceivedBytes
  <2>5. data_sent <= max_data /\ max_data <= local_max_data
    BY DEF CreditInv
  <2>6. {data_received, data_sent, max_data, local_max_data} \subseteq Nat
    BY CreditTypes
  <2> QED BY ONLY <2>3, <2>4, <2>5, <2>6
<1>6. ~(data_received + more > local_max_data)
  <2>1. more \in Int
    <3>1. r.highest_offset \in Int /\ End(f) \in Int
      BY <1>2
    <3>2. Max({r.highest_offset, End(f)}) \in Int
      BY <3>1, MaxOfTwo
    <3> QED BY <3>1, <3>2
  <2> HIDE DEF more
  <2> QED BY <1>5, <2>1, CreditTypes
<1>7. ~(s >= local_max_streams)
  <2>1. s \in Nat
    BY Constants
  <2> QED BY <1>4, <2>1, CreditTypes
<1> QED BY <1>3, <1>6, <1>7, Zenon DEF StreamError
=============================================================================
