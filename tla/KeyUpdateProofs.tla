--------------------------- MODULE KeyUpdateProofs ---------------------------
(***************************************************************************)
(* Proofs about KeyUpdate, for every number of packets and every update    *)
(* interval.  The invariant is stated over a pair (S, N), the spaces and   *)
(* the packets sent, because one handler makes several moves in a row      *)
(* (rotate, note the phase, handle frames; or rotate, then send): each     *)
(* move has a lemma of its own, and a handler is a chain of them.          *)
(***************************************************************************)
EXTENDS KeyUpdate, WellFoundedInduction, TLAPS

-----------------------------------------------------------------------------
(* The inductive invariant. *)

\* Both directions of an endpoint are in one generation, the phase bit is its
\* parity, and the numbers it keeps are in range.
OwnInv(S) == \A e \in Endpoint :
    /\ S[e].keys_recv = S[e].keys_send
    /\ S[e].keys_recv_next = S[e].keys_send + 1
    /\ S[e].keys_recv_previous \in {None, S[e].keys_send - 1}
    /\ S[e].key_phase = S[e].keys_send % 2
    /\ S[e].key_phase_send_first <= S[e].next_packet_number
    /\ S[e].largest_received \in S[e].received \cup {None}
    /\ S[e].largest_acked \in S[Peer(e)].received \cup {None}

\* A packet sent records where its sender was; from key_phase_send_first on
\* the sender's packets are of its current generation.
SentInv(S, N) == \A p \in N :
    /\ p.pn < S[p.from].next_packet_number
    /\ p.key_phase = p.gen % 2
    /\ p.gen <= S[p.from].keys_send
    /\ p.pn >= S[p.from].key_phase_send_first <=> p.gen = S[p.from].keys_send
    /\ p.ack \in S[p.from].received \cup {None}

\* A later generation has later packet numbers.
OrderInv(N) == \A p, q \in N :
    p.from = q.from /\ p.gen < q.gen => p.pn < q.pn

\* What has been received is of no later generation than the receiver, and a
\* packet of the receiver's own generation left a mark in key_phase_first.
ReceivedInv(S, N) == \A e \in Endpoint :
    /\ \A n \in S[e].received :
          /\ n < S[Peer(e)].next_packet_number
          /\ n >= S[Peer(e)].key_phase_send_first =>
                /\ S[Peer(e)].keys_send <= S[e].keys_send
                /\ S[Peer(e)].keys_send = S[e].keys_send
                      => S[e].key_phase_first # None
    /\ \A q \in N :
          q.from = Peer(e) /\ q.pn \in S[e].received => q.gen <= S[e].keys_send

\* key_phase_first separates the peer's generations: older packets lie below
\* it, newer ones do not.  While it is None the peer is not ahead.
PhaseInv(S, N) == \A e \in Endpoint :
    /\ S[e].key_phase_first = None
          => S[Peer(e)].keys_send <= S[e].keys_send
    /\ S[e].key_phase_first # None =>
          /\ S[e].key_phase_first <= S[Peer(e)].next_packet_number
          /\ S[e].keys_send > 0 => S[Peer(e)].keys_send >= S[e].keys_send
          /\ \A p \in N : p.from = Peer(e) =>
                /\ p.gen < S[e].keys_send => p.pn < S[e].key_phase_first
                /\ p.gen > S[e].keys_send => p.pn >= S[e].key_phase_first

SkewInv(S) == \A e \in Endpoint : S[e].keys_send <= S[Peer(e)].keys_send + 1

AckInv(N) == \A p, q \in N :
    p.from = Peer(q.from) /\ p.ack = q.pn => p.gen >= q.gen

KeyInv(S, N) ==
    /\ S \in [Endpoint -> Space]
    /\ N \in SUBSET Packet
    /\ OwnInv(S)
    /\ SentInv(S, N)
    /\ OrderInv(N)
    /\ ReceivedInv(S, N)
    /\ PhaseInv(S, N)
    /\ SkewInv(S)
    /\ AckInv(N)

\* The inductive invariant of KeyUpdate.
IInv ==
    /\ complete \in SUBSET Endpoint
    /\ confirmed \in SUBSET Endpoint
    /\ KeyInv(space, net)

-----------------------------------------------------------------------------
(* Facts about the operators. *)

\* There are two endpoints, each the other's peer.
LEMMA PeerFacts ==
    ASSUME NEW e \in Endpoint
    PROVE  /\ Peer(e) \in Endpoint
           /\ Peer(e) # e
           /\ Peer(Peer(e)) = e
           /\ \A x \in Endpoint : x = e \/ x = Peer(e)
BY DEF Endpoint, Peer

\* The phase bit of the next generation is the other one.
LEMMA Parity ==
    ASSUME NEW g \in Nat
    PROVE  /\ g % 2 \in {0, 1}
           /\ (g + 1) % 2 = 1 - (g % 2)
           /\ (g + 1) % 2 # g % 2
BY SMT

\* What a rotation does to each field.
LEMMA RotateFields ==
    ASSUME NEW sp \in Space
    PROVE  LET r == RotateKeys(sp) IN
           /\ r \in Space
           /\ r.keys_send = sp.keys_send + 1
           /\ r.keys_recv = sp.keys_recv_next
           /\ r.keys_recv_next = sp.keys_recv_next + 1
           /\ r.keys_recv_previous = sp.keys_recv
           /\ r.key_phase = 1 - sp.key_phase
           /\ r.key_phase_send_first = sp.next_packet_number
           /\ r.key_phase_first = None
           /\ r.next_packet_number = sp.next_packet_number
           /\ r.received = sp.received
           /\ r.largest_received = sp.largest_received
           /\ r.largest_acked = sp.largest_acked
<1>1. /\ sp.keys_recv_next + 1 \in Nat
      /\ sp.keys_send + 1 \in Nat
      /\ 1 - sp.key_phase \in {0, 1}
  BY DEF Space
<1>2. RotateKeys(sp) \in Space
  BY <1>1 DEF Space, RotateKeys, NextGeneration
<1> QED BY <1>2 DEF Space, RotateKeys, NextGeneration

-----------------------------------------------------------------------------
(* The moves keep the invariant. *)

\* A rotation keeps it when the endpoint is not ahead of its peer and, if they
\* are level, the peer has already seen a packet of this generation.
LEMMA RotateKeepsInv ==
    ASSUME NEW S, NEW N, KeyInv(S, N),
           NEW a \in Endpoint,
           \/ S[a].keys_send < S[Peer(a)].keys_send
           \/ /\ S[a].keys_send = S[Peer(a)].keys_send
              /\ S[Peer(a)].key_phase_first # None
    PROVE  KeyInv([S EXCEPT ![a] = RotateKeys(S[a])], N)
<1> DEFINE b == Peer(a)
           T == [S EXCEPT ![a] = RotateKeys(S[a])]
<1>1. /\ b \in Endpoint /\ b # a /\ Peer(b) = a /\ Peer(a) = b
      /\ \A x \in Endpoint : x = a \/ x = b
  BY PeerFacts
<1>2. S \in [Endpoint -> Space] /\ N \in SUBSET Packet
  BY DEF KeyInv
<1>3. /\ T \in [Endpoint -> Space]
      /\ T[b] = S[b]
      /\ T[a] = RotateKeys(S[a])
  BY <1>1, <1>2, RotateFields
<1>4. /\ T[a].keys_send = S[a].keys_send + 1
      /\ T[a].keys_recv = S[a].keys_recv_next
      /\ T[a].keys_recv_next = S[a].keys_recv_next + 1
      /\ T[a].keys_recv_previous = S[a].keys_recv
      /\ T[a].key_phase = 1 - S[a].key_phase
      /\ T[a].key_phase_send_first = S[a].next_packet_number
      /\ T[a].key_phase_first = None
      /\ T[a].next_packet_number = S[a].next_packet_number
      /\ T[a].received = S[a].received
      /\ T[a].largest_received = S[a].largest_received
      /\ T[a].largest_acked = S[a].largest_acked
  BY <1>2, <1>3, RotateFields
<1> HIDE DEF T, b
<1> USE <1>1, <1>2, <1>3, <1>4 DEF None
<1>5. OwnInv(T)
  <2>1. S[a].keys_send \in Nat /\ S[a].key_phase = S[a].keys_send % 2
    BY DEF KeyInv, OwnInv, Space
  <2>2. T[a].key_phase = T[a].keys_send % 2
    BY <2>1, Parity
  <2> QED BY <2>1, <2>2 DEF KeyInv, OwnInv, Space
<1>6. SentInv(T, N)
  BY DEF KeyInv, SentInv, OwnInv, Space, Packet
<1>7. ReceivedInv(T, N)
  BY DEF KeyInv, ReceivedInv, PhaseInv, SkewInv, Space, Packet
<1>8. PhaseInv(T, N)
  BY DEF KeyInv, PhaseInv, SkewInv, Space, Packet
<1>9. SkewInv(T)
  BY DEF KeyInv, SkewInv, Space
<1> QED BY <1>5, <1>6, <1>7, <1>8, <1>9 DEF KeyInv, T

\* Sending one packet keeps it: the packet takes the endpoint's generation and
\* the next number, and acknowledges only what was received.
LEMMA SendKeepsInv ==
    ASSUME NEW S, NEW N, KeyInv(S, N),
           NEW a \in Endpoint,
           NEW ack \in {None, S[a].largest_received},
           NEW done \in {0, 1}
    PROVE  KeyInv([S EXCEPT ![a] = [S[a] EXCEPT
                      !.next_packet_number = S[a].next_packet_number + 1]],
                  N \cup {BuildPacket(a, S[a], ack, done)})
<1> DEFINE b == Peer(a)
           T == [S EXCEPT ![a] = [S[a] EXCEPT
                    !.next_packet_number = S[a].next_packet_number + 1]]
           new == BuildPacket(a, S[a], ack, done)
           M == N \cup {new}
<1>1. /\ b \in Endpoint /\ b # a /\ Peer(b) = a /\ Peer(a) = b
      /\ \A x \in Endpoint : x = a \/ x = b
  BY PeerFacts
<1>2. S \in [Endpoint -> Space] /\ N \in SUBSET Packet
  BY DEF KeyInv
<1>3. /\ T \in [Endpoint -> Space]
      /\ T[b] = S[b]
      /\ T[a] = [S[a] EXCEPT
                    !.next_packet_number = S[a].next_packet_number + 1]
  BY <1>1, <1>2 DEF Space
<1>4. /\ T[a].next_packet_number = S[a].next_packet_number + 1
      /\ T[a].keys_send = S[a].keys_send
      /\ T[a].keys_recv = S[a].keys_recv
      /\ T[a].keys_recv_next = S[a].keys_recv_next
      /\ T[a].keys_recv_previous = S[a].keys_recv_previous
      /\ T[a].key_phase = S[a].key_phase
      /\ T[a].key_phase_send_first = S[a].key_phase_send_first
      /\ T[a].key_phase_first = S[a].key_phase_first
      /\ T[a].received = S[a].received
      /\ T[a].largest_received = S[a].largest_received
      /\ T[a].largest_acked = S[a].largest_acked
  BY <1>2, <1>3 DEF Space
<1>5. /\ new \in Packet
      /\ new.from = a
      /\ new.pn = S[a].next_packet_number
      /\ new.key_phase = S[a].key_phase
      /\ new.gen = S[a].keys_send
      /\ new.ack \in S[a].received \cup {None}
  BY <1>2 DEF BuildPacket, Packet, Space, KeyInv, OwnInv
<1>6. M \in SUBSET Packet /\ \A p \in M : p \in N \/ p = new
  BY <1>2, <1>5
<1> HIDE DEF T, b, new, M
<1> USE <1>1, <1>2, <1>3, <1>4, <1>5, <1>6 DEF None
<1>7. OwnInv(T)
  BY DEF KeyInv, OwnInv, Space
<1>8. SentInv(T, M)
  BY DEF KeyInv, SentInv, OwnInv, Space, Packet
<1>9. OrderInv(M)
  BY DEF KeyInv, SentInv, OrderInv, Space, Packet
<1>10. ReceivedInv(T, M)
  BY DEF KeyInv, ReceivedInv, Space, Packet
<1>11. PhaseInv(T, M)
  BY DEF KeyInv, PhaseInv, Space, Packet
<1>12. SkewInv(T)
  BY DEF KeyInv, SkewInv, Space
<1>13. AckInv(M)
  BY DEF KeyInv, AckInv, SentInv, ReceivedInv, Space, Packet
<1> QED BY <1>7, <1>8, <1>9, <1>10, <1>11, <1>12, <1>13 DEF KeyInv, T, M, new

\* Noting the first packet number of a phase keeps it, for a packet of the
\* endpoint's own generation.
LEMMA NoteKeepsInv ==
    ASSUME NEW S, NEW N, KeyInv(S, N),
           NEW a \in Endpoint,
           NEW p \in N, p.from = Peer(a), p.gen = S[a].keys_send
    PROVE  KeyInv([S EXCEPT ![a] = [S[a] EXCEPT !.key_phase_first = p.pn]], N)
<1> DEFINE b == Peer(a)
           T == [S EXCEPT ![a] = [S[a] EXCEPT !.key_phase_first = p.pn]]
<1>1. /\ b \in Endpoint /\ b # a /\ Peer(b) = a /\ Peer(a) = b
      /\ \A x \in Endpoint : x = a \/ x = b
  BY PeerFacts
<1>2. S \in [Endpoint -> Space] /\ N \in SUBSET Packet
  BY DEF KeyInv
<1>3. /\ T \in [Endpoint -> Space]
      /\ T[b] = S[b]
      /\ T[a] = [S[a] EXCEPT !.key_phase_first = p.pn]
  BY <1>1, <1>2 DEF Space, Packet
<1>4. /\ T[a].key_phase_first = p.pn
      /\ T[a].next_packet_number = S[a].next_packet_number
      /\ T[a].keys_send = S[a].keys_send
      /\ T[a].keys_recv = S[a].keys_recv
      /\ T[a].keys_recv_next = S[a].keys_recv_next
      /\ T[a].keys_recv_previous = S[a].keys_recv_previous
      /\ T[a].key_phase = S[a].key_phase
      /\ T[a].key_phase_send_first = S[a].key_phase_send_first
      /\ T[a].received = S[a].received
      /\ T[a].largest_received = S[a].largest_received
      /\ T[a].largest_acked = S[a].largest_acked
  BY <1>2, <1>3 DEF Space
<1> HIDE DEF T, b
<1> USE <1>1, <1>2, <1>3, <1>4 DEF None
<1>5. OwnInv(T)
  BY DEF KeyInv, OwnInv, Space
<1>6. SentInv(T, N)
  BY DEF KeyInv, SentInv, Space, Packet
<1>7. ReceivedInv(T, N)
  BY DEF KeyInv, ReceivedInv, Space, Packet
<1>8. PhaseInv(T, N)
  BY DEF KeyInv, PhaseInv, OrderInv, SentInv, Space, Packet
<1>9. SkewInv(T)
  BY DEF KeyInv, SkewInv, Space
<1> QED BY <1>5, <1>6, <1>7, <1>8, <1>9 DEF KeyInv, T

\* Handling the frames of an opened packet keeps it: the packet is of no later
\* generation, and one of the current generation has been noted.
LEMMA FramesKeepInv ==
    ASSUME NEW S, NEW N, KeyInv(S, N),
           NEW a \in Endpoint,
           NEW p \in N, p.from = Peer(a), p.gen <= S[a].keys_send,
           p.gen = S[a].keys_send => S[a].key_phase_first # None
    PROVE  KeyInv([S EXCEPT ![a] = HandleFrames(S[a], p)], N)
<1> DEFINE b == Peer(a)
           T == [S EXCEPT ![a] = HandleFrames(S[a], p)]
<1>1. /\ b \in Endpoint /\ b # a /\ Peer(b) = a /\ Peer(a) = b
      /\ \A x \in Endpoint : x = a \/ x = b
  BY PeerFacts
<1>2. S \in [Endpoint -> Space] /\ N \in SUBSET Packet
  BY DEF KeyInv
<1>3. /\ T \in [Endpoint -> Space]
      /\ T[b] = S[b]
      /\ T[a] = HandleFrames(S[a], p)
  <2>1. HandleFrames(S[a], p) \in Space
    <3>1. S[a] \in Space /\ p \in Packet
      BY <1>2
    <3> QED BY ONLY <3>1 DEF Space, Packet, HandleFrames
  <2> QED BY <1>1, <1>2, <2>1
<1>4. /\ T[a].received = S[a].received \cup {p.pn}
      /\ T[a].largest_received \in {p.pn, S[a].largest_received}
      /\ T[a].largest_acked \in {p.ack, S[a].largest_acked}
      /\ T[a].key_phase_first = S[a].key_phase_first
      /\ T[a].next_packet_number = S[a].next_packet_number
      /\ T[a].keys_send = S[a].keys_send
      /\ T[a].keys_recv = S[a].keys_recv
      /\ T[a].keys_recv_next = S[a].keys_recv_next
      /\ T[a].keys_recv_previous = S[a].keys_recv_previous
      /\ T[a].key_phase = S[a].key_phase
      /\ T[a].key_phase_send_first = S[a].key_phase_send_first
  BY <1>2, <1>3 DEF Space, HandleFrames
<1> HIDE DEF T, b
<1> USE <1>1, <1>2, <1>3, <1>4 DEF None
<1>5. OwnInv(T)
  BY DEF KeyInv, OwnInv, SentInv, Space
<1>6. SentInv(T, N)
  BY DEF KeyInv, SentInv, Space, Packet
<1>7. ReceivedInv(T, N)
  BY DEF KeyInv, ReceivedInv, SentInv, OrderInv, Space, Packet
<1>8. PhaseInv(T, N)
  BY DEF KeyInv, PhaseInv, Space, Packet
<1>9. SkewInv(T)
  BY DEF KeyInv, SkewInv, Space
<1> QED BY <1>5, <1>6, <1>7, <1>8, <1>9 DEF KeyInv, T

\* Forgetting the previous keys keeps it.
LEMMA ExpireKeepsInv ==
    ASSUME NEW S, NEW N, KeyInv(S, N), NEW a \in Endpoint
    PROVE  KeyInv([S EXCEPT ![a].keys_recv_previous = None], N)
<1> DEFINE T == [S EXCEPT ![a].keys_recv_previous = None]
<1>1. S \in [Endpoint -> Space] /\ N \in SUBSET Packet
  BY DEF KeyInv
<1>2. T \in [Endpoint -> Space]
  BY <1>1 DEF Space
<1>3. \A e \in Endpoint :
      /\ T[e].keys_recv_previous \in {None, S[e].keys_recv_previous}
      /\ T[e].received = S[e].received
      /\ T[e].largest_received = S[e].largest_received
      /\ T[e].largest_acked = S[e].largest_acked
      /\ T[e].key_phase_first = S[e].key_phase_first
      /\ T[e].next_packet_number = S[e].next_packet_number
      /\ T[e].keys_send = S[e].keys_send
      /\ T[e].keys_recv = S[e].keys_recv
      /\ T[e].keys_recv_next = S[e].keys_recv_next
      /\ T[e].key_phase = S[e].key_phase
      /\ T[e].key_phase_send_first = S[e].key_phase_send_first
  BY <1>1 DEF Space
<1> HIDE DEF T
<1> USE <1>1, <1>2, <1>3, PeerFacts DEF None
<1>4. OwnInv(T)
  BY DEF KeyInv, OwnInv, Space
<1>5. SentInv(T, N)
  BY DEF KeyInv, SentInv, Space, Packet
<1>6. ReceivedInv(T, N)
  BY DEF KeyInv, ReceivedInv, Space, Packet
<1>7. PhaseInv(T, N)
  BY DEF KeyInv, PhaseInv, Space, Packet
<1>8. SkewInv(T)
  BY DEF KeyInv, SkewInv, Space
<1> QED BY <1>4, <1>5, <1>6, <1>7, <1>8 DEF KeyInv, T

-----------------------------------------------------------------------------
(* The handlers keep the invariant. *)

\* An acknowledged packet of this phase means that the peer is level and has
\* noted the phase, or is already ahead: section 6.1's precondition is what
\* RotateKeepsInv asks for.
LEMMA MayInitiateSuffices ==
    ASSUME NEW S, NEW N, KeyInv(S, N),
           NEW a \in Endpoint,
           S[a].largest_acked >= S[a].key_phase_send_first
    PROVE  /\ KeyInv([S EXCEPT ![a] = RotateKeys(S[a])], N)
           /\ S[a].keys_send <= S[Peer(a)].keys_send
<1>1. /\ Peer(a) \in Endpoint /\ Peer(Peer(a)) = a
      /\ S \in [Endpoint -> Space]
  BY PeerFacts DEF KeyInv
<1>2. S[a].largest_acked \in S[Peer(a)].received
  BY <1>1 DEF KeyInv, OwnInv, Space, None
<1>3. /\ S[a].keys_send <= S[Peer(a)].keys_send
      /\ S[a].keys_send = S[Peer(a)].keys_send
            => S[Peer(a)].key_phase_first # None
  BY <1>1, <1>2 DEF KeyInv, ReceivedInv, Space
<1>4. \/ S[a].keys_send < S[Peer(a)].keys_send
      \/ S[a].keys_send = S[Peer(a)].keys_send
  BY <1>1, <1>3 DEF Space
<1> QED BY <1>3, <1>4, RotateKeepsInv

\* The update policy of datagrams_to_send keeps it.
LEMMA MaybeUpdateKeepsInv ==
    ASSUME IInv, NEW a \in Endpoint
    PROVE  LET sp == MaybeUpdateKeys(a, space[a]) IN
           /\ sp \in Space
           /\ KeyInv([space EXCEPT ![a] = sp], net)
           /\ \/ sp.keys_send = space[a].keys_send
              \/ /\ sp.keys_send = space[a].keys_send + 1
                 /\ space[a].keys_send <= space[Peer(a)].keys_send
<1> DEFINE sp == MaybeUpdateKeys(a, space[a])
<1>1. space \in [Endpoint -> Space] /\ space[a] \in Space /\ KeyInv(space, net)
  BY DEF IInv, KeyInv
<1>2. CASE sp = space[a]
  <2>1. [space EXCEPT ![a] = sp] = space
    BY <1>1, <1>2
  <2> QED BY <1>1, <1>2, <2>1
<1>3. CASE sp = RotateKeys(space[a]) /\ MayInitiate(a, space[a])
  BY <1>1, <1>3, MayInitiateSuffices, RotateFields DEF MayInitiate
<1> QED BY <1>2, <1>3 DEF MaybeUpdateKeys

\* An opened packet, up to the duplicate check: what _decrypt leaves satisfies
\* the invariant, the packet is of no later generation, and a packet of the
\* current one has been noted.
LEMMA DecryptedKeepsInv ==
    ASSUME IInv, NEW a \in Endpoint,
           NEW p \in net, p.from = Peer(a),
           ReceiveKeys(a, space[a], p) = p.gen
    PROVE  LET sp == Decrypted(a, space[a], p) IN
           /\ sp \in Space
           /\ KeyInv([space EXCEPT ![a] = sp], net)
           /\ p.gen <= sp.keys_send
           /\ p.gen = sp.keys_send => sp.key_phase_first # None
           /\ \/ sp.keys_send = space[a].keys_send
              \/ /\ sp.keys_send = space[a].keys_send + 1
                 /\ space[a].keys_send <= space[Peer(a)].keys_send
<1> DEFINE s0 == space[a]
           sp == Decrypted(a, s0, p)
<1>1. /\ space \in [Endpoint -> Space] /\ s0 \in Space /\ KeyInv(space, net)
      /\ p \in Packet /\ Peer(a) \in Endpoint
      /\ p.gen <= space[Peer(a)].keys_send
      /\ p.key_phase = p.gen % 2
      /\ s0.key_phase = s0.keys_send % 2
      /\ s0.keys_recv = s0.keys_send
      /\ s0.keys_recv_next = s0.keys_send + 1
      /\ s0.keys_recv_previous \in {None, s0.keys_send - 1}
  BY PeerFacts DEF IInv, KeyInv, SentInv, OwnInv
<1>2. CASE Updating(a, s0, p)
  <2> DEFINE r == RotateKeys(s0)
             R == [space EXCEPT ![a] = r]
  <2>1. p.key_phase # s0.key_phase /\ p.gen = s0.keys_send + 1
    BY <1>1, <1>2 DEF Updating, ReceiveKeys
  <2>2. space[a].keys_send < space[Peer(a)].keys_send
    BY <1>1, <2>1 DEF Space
  <2>3. KeyInv(R, net) /\ R[a] = r /\ r \in Space
    BY <1>1, <2>2, RotateKeepsInv, RotateFields
  <2>4. /\ r.keys_send = p.gen
        /\ r.key_phase = p.key_phase
        /\ r.key_phase_first = None
    BY <1>1, <2>1, RotateFields DEF Space, Packet
  <2>5. sp = [r EXCEPT !.key_phase_first = p.pn]
    BY <1>2, <2>4 DEF Decrypted, NoteKeyPhase, BelowPhase
  <2>6. KeyInv([R EXCEPT ![a] = [R[a] EXCEPT !.key_phase_first = p.pn]], net)
    BY <2>3, <2>4, NoteKeepsInv
  <2>7. [space EXCEPT ![a] = sp]
          = [R EXCEPT ![a] = [R[a] EXCEPT !.key_phase_first = p.pn]]
    BY <1>1, <2>3, <2>5
  <2>8. /\ sp \in Space /\ sp.keys_send = p.gen /\ sp.key_phase_first = p.pn
    BY <1>1, <2>3, <2>4, <2>5 DEF Space, Packet
  <2>9. sp.key_phase_first # None
    BY <1>1, <2>8 DEF Packet, None
  <2> QED BY <1>1, <2>1, <2>2, <2>6, <2>7, <2>8, <2>9 DEF Space, Packet
<1>3. CASE ~Updating(a, s0, p) /\ p.key_phase = s0.key_phase
  <2>1. p.gen = s0.keys_send
    BY <1>1, <1>3 DEF ReceiveKeys
  <2>2. CASE BelowPhase(s0, p)
    <3>1. sp = [s0 EXCEPT !.key_phase_first = p.pn]
      BY <1>3, <2>2 DEF Decrypted, NoteKeyPhase
    <3>2. KeyInv([space EXCEPT ![a] = sp], net)
      BY <1>1, <2>1, <3>1, NoteKeepsInv
    <3>3. sp \in Space /\ sp.keys_send = p.gen /\ sp.key_phase_first = p.pn
      BY <1>1, <2>1, <3>1 DEF Space, Packet
    <3>4. sp.key_phase_first # None
      BY <1>1, <3>3 DEF Packet, None
    <3> QED BY <1>1, <2>1, <3>2, <3>3, <3>4 DEF Packet
  <2>3. CASE ~BelowPhase(s0, p)
    <3>1. sp = s0
      BY <1>3, <2>3 DEF Decrypted, NoteKeyPhase
    <3>2. [space EXCEPT ![a] = sp] = space
      BY <1>1, <3>1
    <3>3. sp.key_phase_first # None
      BY <2>3, <3>1 DEF BelowPhase
    <3>4. KeyInv([space EXCEPT ![a] = sp], net)
      BY <1>1, <3>2
    <3>5. sp \in Space /\ p.gen <= sp.keys_send /\ sp.keys_send = s0.keys_send
      BY <1>1, <2>1, <3>1 DEF Packet
    <3> QED BY <3>3, <3>4, <3>5
  <2> QED BY <2>2, <2>3
<1>4. CASE ~Updating(a, s0, p) /\ p.key_phase # s0.key_phase
  <2>1. sp = s0
    BY <1>4 DEF Decrypted, NoteKeyPhase
  <2>2. [space EXCEPT ![a] = sp] = space
    BY <1>1, <2>1
  <2>3. p.gen = s0.keys_recv_previous \/ p.gen = s0.keys_send
    BY <1>1, <1>4 DEF ReceiveKeys
  <2>4. p.gen < s0.keys_send
    <3>1. p.gen # s0.keys_send
      BY <1>1, <1>4
    <3>2. p.gen # None
      BY <1>1 DEF Packet, None
    <3> QED BY <1>1, <2>3, <3>1, <3>2 DEF Space, Packet
  <2>5. KeyInv([space EXCEPT ![a] = sp], net)
    BY <1>1, <2>2
  <2>6. /\ sp \in Space /\ p.gen < sp.keys_send /\ p.gen \in Nat
        /\ sp.keys_send = s0.keys_send
    BY <1>1, <2>1, <2>4 DEF Packet
  <2> QED BY <2>5, <2>6 DEF Space
<1> QED BY <1>2, <1>3, <1>4

\* The start of a connection satisfies the invariant.
LEMMA InitIInv == Init => IInv
<1> SUFFICES ASSUME Init PROVE IInv
  OBVIOUS
<1> USE DEF Init, None, NextGeneration
<1>1. space \in [Endpoint -> Space] /\ net \in SUBSET Packet
  BY DEF Space
<1>2. OwnInv(space)
  BY PeerFacts, <1>1 DEF OwnInv
<1>3. SentInv(space, net) /\ OrderInv(net) /\ AckInv(net)
  BY DEF SentInv, OrderInv, AckInv
<1>4. ReceivedInv(space, net) /\ PhaseInv(space, net) /\ SkewInv(space)
  BY PeerFacts DEF ReceivedInv, PhaseInv, SkewInv
<1> QED BY <1>1, <1>2, <1>3, <1>4 DEF IInv, KeyInv

\* Endpoint a took the step, and moved on by at most one generation, from a
\* position not ahead of its peer.
Moved(a) ==
    /\ \A e \in Endpoint : e # a => space'[e] = space[e]
    /\ \/ space'[a].keys_send = space[a].keys_send
       \/ /\ space'[a].keys_send = space[a].keys_send + 1
          /\ space[a].keys_send <= space[Peer(a)].keys_send

\* Every step keeps the invariant and moves one endpoint as KeyGenerations says.
LEMMA NextIInv == IInv /\ [Next]_vars => IInv' /\ \E a \in Endpoint : Moved(a)
<1> SUFFICES ASSUME IInv, [Next]_vars
             PROVE  IInv' /\ \E a \in Endpoint : Moved(a)
  OBVIOUS
<1>1. /\ space \in [Endpoint -> Space]
      /\ KeyInv(space, net)
      /\ complete \in SUBSET Endpoint
      /\ confirmed \in SUBSET Endpoint
  BY DEF IInv, KeyInv
<1>2. ASSUME NEW a \in Endpoint, HandshakeComplete(a)
      PROVE  IInv' /\ Moved(a)
  BY <1>1, <1>2 DEF HandshakeComplete, IInv, Moved
<1>3. ASSUME NEW a \in Endpoint, InitiateKeyUpdate(a)
      PROVE  IInv' /\ Moved(a)
  <2>1. /\ KeyInv([space EXCEPT ![a] = RotateKeys(space[a])], net)
        /\ space[a].keys_send <= space[Peer(a)].keys_send
    BY <1>1, <1>3, MayInitiateSuffices DEF InitiateKeyUpdate, MayInitiate
  <2>2. IInv'
    BY <1>1, <1>3, <2>1 DEF InitiateKeyUpdate, IInv
  <2>3. Moved(a)
    BY <1>1, <1>3, <2>1, RotateFields DEF InitiateKeyUpdate, Moved
  <2> QED BY <2>2, <2>3
<1>4. ASSUME NEW a \in Endpoint, SendPacket(a)
      PROVE  IInv' /\ Moved(a)
  <2> DEFINE sp == MaybeUpdateKeys(a, space[a])
             R == [space EXCEPT ![a] = sp]
             st == [sp EXCEPT !.next_packet_number = sp.next_packet_number + 1]
  <2>1. /\ sp \in Space
        /\ KeyInv(R, net)
        /\ R[a] = sp
        /\ \/ sp.keys_send = space[a].keys_send
           \/ /\ sp.keys_send = space[a].keys_send + 1
              /\ space[a].keys_send <= space[Peer(a)].keys_send
    BY <1>1, MaybeUpdateKeepsInv
  <2>2. PICK ack \in {None, sp.largest_received}, done \in {0, 1} :
             /\ net' = net \cup {BuildPacket(a, sp, ack, done)}
             /\ space' = [space EXCEPT ![a] = st]
    BY <1>4 DEF SendPacket
  <2> HIDE DEF sp
  <2>3. KeyInv([R EXCEPT ![a] = st], net \cup {BuildPacket(a, sp, ack, done)})
    BY <2>1, SendKeepsInv
  <2>4. space' = [R EXCEPT ![a] = st]
    BY <1>1, <2>1, <2>2
  <2>5. IInv'
    BY <1>1, <1>4, <2>2, <2>3, <2>4 DEF SendPacket, IInv
  <2>6. st.keys_send = sp.keys_send
    BY <2>1 DEF Space
  <2>7. Moved(a)
    BY <1>1, <2>1, <2>2, <2>6 DEF Moved
  <2> QED BY <2>5, <2>7
<1>5. ASSUME NEW a \in Endpoint, SendNothing(a)
      PROVE  IInv' /\ Moved(a)
  BY <1>1, <1>5, MaybeUpdateKeepsInv DEF SendNothing, IInv, Moved
<1>6. ASSUME NEW a \in Endpoint, NEW p \in net, ReceivePacket(a, p)
      PROVE  IInv' /\ Moved(a)
  <2> DEFINE sp == Decrypted(a, space[a], p)
             R == [space EXCEPT ![a] = sp]
  <2>1. /\ sp \in Space
        /\ KeyInv(R, net)
        /\ R[a] = sp
        /\ p.gen <= sp.keys_send
        /\ p.gen = sp.keys_send => sp.key_phase_first # None
        /\ \/ sp.keys_send = space[a].keys_send
           \/ /\ sp.keys_send = space[a].keys_send + 1
              /\ space[a].keys_send <= space[Peer(a)].keys_send
    BY <1>1, <1>6, DecryptedKeepsInv DEF ReceivePacket
  <2>2. CASE p.pn \in sp.received
    BY <1>1, <1>6, <2>1, <2>2 DEF ReceivePacket, IInv, Moved
  <2>3. CASE p.pn \notin sp.received
    <3>1. space' = [R EXCEPT ![a] = HandleFrames(R[a], p)]
      BY <1>1, <1>6, <2>1, <2>3 DEF ReceivePacket
    <3>2. KeyInv([R EXCEPT ![a] = HandleFrames(R[a], p)], net)
      BY <1>6, <2>1, FramesKeepInv DEF ReceivePacket
    <3>3. IInv'
      BY <1>1, <1>6, <2>3, <3>1, <3>2 DEF ReceivePacket, IInv
    <3>4. HandleFrames(sp, p).keys_send = sp.keys_send
      BY <2>1 DEF HandleFrames, Space
    <3>5. Moved(a)
      BY <1>1, <2>1, <3>1, <3>4 DEF Moved
    <3> QED BY <3>3, <3>5
  <2> QED BY <2>2, <2>3
<1>7. ASSUME NEW a \in Endpoint, ExpirePrevious(a)
      PROVE  IInv' /\ Moved(a)
  <2>1. IInv'
    BY <1>1, <1>7, ExpireKeepsInv DEF ExpirePrevious, IInv
  <2>2. Moved(a)
    BY <1>1, <1>7 DEF ExpirePrevious, Moved, Space
  <2> QED BY <2>1, <2>2
<1>8. CASE UNCHANGED vars
  BY <1>1, <1>8 DEF vars, IInv, Moved, Endpoint
<1> QED BY <1>2, <1>3, <1>4, <1>5, <1>6, <1>7, <1>8 DEF Next

-----------------------------------------------------------------------------
(* Packet numbers. *)

\* A number is a multiple of the window and what is left.
LEMMA Division ==
    ASSUME NEW a \in Nat, NEW w \in Nat \ {0}
    PROVE  /\ a % w \in 0 .. w - 1 /\ a \div w \in Nat
           /\ a = w * (a \div w) + (a % w)
OBVIOUS

\* Two multiples of w less than two apart are the same or neighbours.
LEMMA Neighbours ==
    ASSUME NEW k \in Int, NEW w \in Nat \ {0}, w * k < 2 * w, -(2 * w) < w * k
    PROVE  k \in {-1, 0, 1}
<1>1. CASE k >= 2
  <2>1. w * k >= w * 2
    BY <1>1
  <2> QED BY <2>1
<1>2. CASE k <= -2
  <2>1. w * k <= w * (-2)
    BY <1>2
  <2> QED BY <2>1
<1> QED BY <1>1, <1>2

\* The encoder finds a length.
LEMMA EncodedWindowExists ==
    ASSUME NEW full_pn \in Nat
    PROVE  EncodedWindow(full_pn) \in PnWindows
<1> DEFINE fits == {w \in PnWindows : 2 * (full_pn + 1) < w}
           R == OpToRel(<, Nat)
<1>0. PnWindows \subseteq Nat
  BY PacketNumberConstants
<1>1. CASE fits = {}
  BY <1>1, PacketNumberConstants DEF EncodedWindow
<1>2. CASE fits # {}
  <2>1. IsWellFoundedOn(R, Nat)
    BY ONLY NatLessThanWellFounded, Zenon
  <2>2. \A x, y \in Nat : x < y => <<x, y>> \in R
    BY DEF OpToRel
  <2> HIDE DEF R
  <2>3. fits \subseteq Nat /\ fits # {}
    BY <1>0, <1>2
  <2>4. PICK x \in fits : \A y \in fits : ~(<<y, x>> \in R)
    BY <2>1, <2>3, WFMin
  <2>5. \A y \in fits : x <= y
    <3> HIDE DEF fits
    <3>1. \A y \in fits : ~(y < x)
      BY <2>2, <2>3, <2>4, Zenon
    <3> QED BY <2>3, <3>1
  <2>6. /\ x \in PnWindows /\ 2 * (full_pn + 1) < x
        /\ \A v \in PnWindows : 2 * (full_pn + 1) < v => x <= v
    BY <2>5
  <2> QED BY <2>6 DEF EncodedWindow
<1> QED BY <1>1, <1>2

\* Whatever was truncated to a window, the number within half of it around the
\* expected one comes back.
LEMMA DecodedWithinHalf ==
    ASSUME NEW full_pn \in PacketNumbers, NEW largest_pn \in Nat \cup {-1},
           NEW h \in Nat \ {0},
           largest_pn + 1 < full_pn + h, full_pn <= largest_pn + 1 + h
    PROVE  DecodePacketNumber(largest_pn, full_pn % (2 * h), 2 * h) = full_pn
<1> DEFINE w == 2 * h  e == largest_pn + 1
           t == full_pn % w  r == e % w  p == full_pn \div w  q == e \div w
           k == p - q
<1>1. /\ e \in Nat /\ full_pn \in Nat /\ w \in Nat \ {0} /\ PnLimit \in Nat
      /\ full_pn < PnLimit
  BY PacketNumberConstants DEF PacketNumbers
<1>2. w \div 2 = h
  OBVIOUS
<1>3. t \in 0 .. w - 1 /\ p \in Nat /\ full_pn = w * p + t
  <2> HIDE DEF w
  <2> QED BY <1>1, Division
<1>4. r \in 0 .. w - 1 /\ q \in Nat /\ e = w * q + r
  <2> HIDE DEF w, e
  <2> QED BY <1>1, Division
<1>5. /\ DecodePacketNumber(largest_pn, t, w) =
            LET c == e - r + t
            IN  IF c <= e - h /\ c < PnLimit - w THEN c + w
                ELSE IF c > e + h /\ c >= w THEN c - w ELSE c
  BY <1>2, Zenon DEF DecodePacketNumber
<1>6. e < full_pn + h /\ full_pn <= e + h /\ w = 2 * h
  OBVIOUS
<1> HIDE DEF w, e, t, r, p, q
<1>7. w * k = w * p - w * q /\ k \in Int
  BY <1>1, <1>3, <1>4
<1>8. k \in {-1, 0, 1}
  <2>1. w * k < 2 * w /\ -(2 * w) < w * k
    BY <1>1, <1>3, <1>4, <1>6, <1>7
  <2> HIDE DEF k
  <2> QED BY <1>1, <1>7, <2>1, Neighbours
<1>9. full_pn = (e - r + t) + w * k
  BY <1>1, <1>3, <1>4, <1>7
<1> HIDE DEF k
<1>10. CASE k = 0
  BY <1>1, <1>3, <1>4, <1>5, <1>6, <1>9, <1>10 DEF w, t
<1>11. CASE k = 1
  BY <1>1, <1>3, <1>4, <1>5, <1>6, <1>9, <1>11 DEF w, t
<1>12. CASE k = -1
  BY <1>1, <1>3, <1>4, <1>5, <1>6, <1>9, <1>12 DEF w, t
<1> QED BY <1>8, <1>10, <1>11, <1>12

\* Encoding and decoding are inverse near the expected number.
LEMMA EncodedWithinHalf ==
    ASSUME NEW full_pn \in PacketNumbers, NEW largest_pn \in Nat \cup {-1},
           largest_pn + 1 < full_pn + (EncodedWindow(full_pn) \div 2),
           full_pn <= largest_pn + 1 + (EncodedWindow(full_pn) \div 2)
    PROVE  DecodePacketNumber(largest_pn, EncodePacketNumber(full_pn),
                              EncodedWindow(full_pn)) = full_pn
<1> DEFINE w == EncodedWindow(full_pn)
           h == w \div 2
<1>1. full_pn \in Nat
  BY PacketNumberConstants DEF PacketNumbers
<1>2. w \in Nat \ {0} /\ w % 2 = 0
  BY <1>1, EncodedWindowExists, PacketNumberConstants
<1>3. largest_pn + 1 < full_pn + h /\ full_pn <= largest_pn + 1 + h
  OBVIOUS
<1>4. EncodePacketNumber(full_pn) = full_pn % w
  BY DEF EncodePacketNumber
<1> HIDE DEF w
<1>5. h \in Nat \ {0} /\ w = 2 * h
  BY <1>2
<1> HIDE DEF h
<1>6. DecodePacketNumber(largest_pn, full_pn % w, w) = full_pn
  BY <1>3, <1>5, DecodedWithinHalf
<1> QED BY <1>4, <1>6 DEF w

\* Every packet number sent is below MaxPackets.
NumbersBounded == \A e \in Endpoint : space[e].next_packet_number <= MaxPackets

\* A step by one endpoint sends at most one packet, and none at the bound.
LEMMA NextNumbersBounded ==
    IInv /\ NumbersBounded /\ [Next]_vars => NumbersBounded'
<1> SUFFICES ASSUME IInv, NumbersBounded, [Next]_vars PROVE NumbersBounded'
  OBVIOUS
<1> DEFINE Num(sp) == sp.next_packet_number
           Kept(a) == /\ space' = [space EXCEPT ![a] = space'[a]]
                      /\ \/ Num(space'[a]) = Num(space[a])
                         \/ Num(space[a]) < MaxPackets /\ Num(space'[a]) = Num(space[a]) + 1
<1>1. space \in [Endpoint -> Space] /\ net \in SUBSET Packet
  BY DEF IInv, KeyInv
<1>2. ASSUME NEW a \in Endpoint
      PROVE  LET sp == MaybeUpdateKeys(a, space[a])
             IN  sp \in Space /\ Num(sp) = Num(space[a])
  <2>1. space[a] \in Space
    BY <1>1
  <2> QED BY <2>1, RotateFields DEF MaybeUpdateKeys
<1>3. ASSUME NEW a \in Endpoint, HandshakeComplete(a) PROVE Kept(a)
  BY <1>1, <1>3 DEF HandshakeComplete
<1>4. ASSUME NEW a \in Endpoint, InitiateKeyUpdate(a) PROVE Kept(a)
  <2>1. space[a] \in Space
    BY <1>1
  <2> QED BY <1>1, <1>4, <2>1, RotateFields DEF InitiateKeyUpdate
<1>5. ASSUME NEW a \in Endpoint, SendPacket(a) PROVE Kept(a)
  <2> DEFINE sp == MaybeUpdateKeys(a, space[a])
  <2>1. /\ space' = [space EXCEPT ![a] = [sp EXCEPT !.next_packet_number = Num(sp) + 1]]
        /\ Num(space[a]) < MaxPackets
    BY <1>5 DEF SendPacket
  <2>2. sp \in Space /\ Num(sp) = Num(space[a])
    BY <1>2
  <2> HIDE DEF sp
  <2>3. Num([sp EXCEPT !.next_packet_number = Num(sp) + 1]) = Num(sp) + 1
    BY <2>2 DEF Space
  <2> QED BY <1>1, <2>1, <2>2, <2>3
<1>6. ASSUME NEW a \in Endpoint, SendNothing(a) PROVE Kept(a)
  BY <1>1, <1>2, <1>6 DEF SendNothing
<1>7. ASSUME NEW a \in Endpoint, NEW p \in net, ReceivePacket(a, p) PROVE Kept(a)
  <2> DEFINE sp == Decrypted(a, space[a], p)
  <2>1. space[a] \in Space /\ RotateKeys(space[a]) \in Space
        /\ Num(RotateKeys(space[a])) = Num(space[a])
    BY <1>1, RotateFields
  <2>2. ASSUME NEW r \in Space
        PROVE  /\ NoteKeyPhase(r, p) \in Space
               /\ Num(NoteKeyPhase(r, p)) = Num(r)
               /\ Num(HandleFrames(r, p)) = Num(r)
    BY <1>1, <1>7 DEF NoteKeyPhase, HandleFrames, Space, Packet
  <2>3. sp \in Space /\ Num(sp) = Num(space[a])
    BY <2>1, <2>2 DEF Decrypted
  <2>4. space' = [space EXCEPT ![a] = sp] \/ space' = [space EXCEPT ![a] = HandleFrames(sp, p)]
    BY <1>7 DEF ReceivePacket
  <2> HIDE DEF sp
  <2> QED BY <1>1, <2>2, <2>3, <2>4
<1>8. ASSUME NEW a \in Endpoint, ExpirePrevious(a) PROVE Kept(a)
  BY <1>1, <1>8 DEF ExpirePrevious, Space
<1>9. ASSUME NEW a \in Endpoint, Kept(a) PROVE NumbersBounded'
  <2>1. \A e \in Endpoint : space'[e] = space[e] \/ e = a
    BY <1>1, <1>9
  <2>2. Num(space'[a]) <= MaxPackets
    BY <1>1, <1>9, MaxPacketsNat DEF NumbersBounded, Space
  <2> QED BY <2>1, <2>2 DEF NumbersBounded
<1>10. CASE UNCHANGED vars
  BY <1>10 DEF vars, NumbersBounded
<1> QED
  BY <1>3, <1>4, <1>5, <1>6, <1>7, <1>8, <1>9, <1>10 DEF Next

-----------------------------------------------------------------------------
(* The results. *)

\* The invariant holds throughout every connection.
THEOREM KeyUpdateInvariant == Spec => []IInv
<1>1. IInv /\ [Next]_vars => IInv'
  BY NextIInv
<1> QED BY InitIInv, <1>1, PTL DEF Spec

\* Every variable keeps its type.
THEOREM KeyUpdateTyped == Spec => []TypeOK
<1>1. IInv => TypeOK
  BY DEF IInv, KeyInv, TypeOK
<1> QED BY KeyUpdateInvariant, <1>1, PTL

\* initiate_key_update's preconditions keep the endpoints within one
\* generation of each other, for any number of packets and updates.
THEOREM GenerationsClose == Spec => []GenerationsStayClose
<1>1. IInv => GenerationsStayClose
  BY DEF IInv, KeyInv, SkewInv, GenerationsStayClose
<1> QED BY KeyUpdateInvariant, <1>1, PTL

\* No packet acknowledges one of a later generation than its own.
THEOREM AcksInNewPhase == Spec => []AckInNewPhase
<1>1. IInv => AckInNewPhase
  BY DEF IInv, KeyInv, AckInv, AckInNewPhase
<1> QED BY KeyUpdateInvariant, <1>1, PTL

\* _receive_keys picks the keys a packet was sealed with whenever it holds
\* them and may use them, and only then.
THEOREM KeySelectionExact == Spec => []KeySelectionIsExact
<1>1. ASSUME IInv, NEW e \in Endpoint, NEW p \in net, p.from = Peer(e)
      PROVE  LET sp == space[e] IN
             ReceiveKeys(e, sp, p) = p.gen
               <=> \/ p.gen = sp.keys_recv
                   \/ p.gen = sp.keys_recv + 1 /\ e \in confirmed
                   \/ p.gen + 1 = sp.keys_recv /\ sp.keys_recv_previous # None
  <2> DEFINE sp == space[e]
             g == sp.keys_send
  <2>1. /\ sp \in Space /\ p \in Packet /\ Peer(e) \in Endpoint
        /\ p.gen \in Nat /\ p.pn \in Nat /\ g \in Nat
        /\ space[Peer(e)].keys_send \in Nat
        /\ p.gen <= space[Peer(e)].keys_send
        /\ space[Peer(e)].keys_send <= g + 1
    <3>1. /\ space \in [Endpoint -> Space] /\ net \in SUBSET Packet
          /\ SentInv(space, net) /\ SkewInv(space)
          /\ Peer(e) \in Endpoint /\ Peer(Peer(e)) = e
      BY <1>1, PeerFacts DEF IInv, KeyInv
    <3> QED BY <1>1, <3>1 DEF SentInv, SkewInv, Space, Packet
  <2>2. /\ p.key_phase = p.gen % 2
        /\ sp.key_phase = g % 2
        /\ sp.keys_recv = g
        /\ sp.keys_recv_next = g + 1
        /\ sp.keys_recv_previous \in {None, g - 1}
    BY <1>1 DEF IInv, KeyInv, SentInv, OwnInv
  <2>3. /\ p.gen < g => BelowPhase(sp, p)
        /\ p.gen > g => ~BelowPhase(sp, p)
    BY <1>1, <2>1 DEF IInv, KeyInv, PhaseInv, BelowPhase, Space, None
  <2>4. CASE p.gen = g
    <3>1. p.key_phase = sp.key_phase
      BY <2>2, <2>4
    <3> QED BY <2>2, <2>4, <3>1 DEF ReceiveKeys, Updating
  <2>5. CASE p.gen = g + 1
    <3>1. p.key_phase # sp.key_phase
      BY <2>1, <2>2, <2>5, Parity
    <3>2. ~BelowPhase(sp, p)
      BY <2>1, <2>3, <2>5
    <3>3. ReceiveKeys(e, sp, p) = IF e \in confirmed THEN g + 1 ELSE g
      BY <2>2, <3>1, <3>2 DEF ReceiveKeys, Updating
    <3> QED BY <2>1, <2>2, <2>5, <3>3
  <2>6. CASE p.gen < g
    <3>1. BelowPhase(sp, p)
      BY <2>1, <2>3, <2>6
    <3>2. p.key_phase = sp.key_phase => ReceiveKeys(e, sp, p) = g
      BY <2>2 DEF ReceiveKeys, Updating
    <3>3. p.key_phase # sp.key_phase =>
             ReceiveKeys(e, sp, p) = IF sp.keys_recv_previous = None
                                     THEN g ELSE sp.keys_recv_previous
      BY <2>2, <3>1 DEF ReceiveKeys, Updating
    <3>4. p.gen + 1 = g => p.key_phase # sp.key_phase
      BY <2>1, <2>2, Parity
    <3> QED BY <2>1, <2>2, <2>6, <3>2, <3>3, <3>4
  <2> QED BY <2>1, <2>4, <2>5, <2>6
<1>2. IInv => KeySelectionIsExact
  BY <1>1 DEF KeySelectionIsExact
<1> QED BY KeyUpdateInvariant, <1>2, PTL

\* A packet within half its window of the number expected next is read with
\* the number it was sent with, for any set of lengths and any limit.
THEOREM NearbyNumbersAreRead == Spec => []NearbyNumberIsRead
<1>1. Init => NumbersBounded
  BY MaxPacketsNat DEF Init, NumbersBounded
<1>2. ASSUME IInv, NumbersBounded, NEW p \in net,
             space[Peer(p.from)].largest_received + 1
               < p.pn + (EncodedWindow(p.pn) \div 2),
             p.pn <= space[Peer(p.from)].largest_received + 1
                       + (EncodedWindow(p.pn) \div 2)
      PROVE  ReadNumber(space[Peer(p.from)], p) = p.pn
  <2>1. /\ p \in Packet /\ p.from \in Endpoint
        /\ space[p.from] \in Space /\ space[Peer(p.from)] \in Space
        /\ p.pn < space[p.from].next_packet_number
    BY <1>2, PeerFacts DEF IInv, KeyInv, SentInv, Packet
  <2>2. p.pn \in PacketNumbers
    BY <1>2, <2>1, MaxPacketsNat, NumbersSuffice, PacketNumberConstants
    DEF NumbersBounded, PacketNumbers, Space, Packet
  <2>3. space[Peer(p.from)].largest_received \in Nat \cup {-1}
    BY <2>1 DEF Space, None
  <2> QED BY <1>2, <2>2, <2>3, EncodedWithinHalf DEF ReadNumber
<1>3. IInv /\ NumbersBounded => NearbyNumberIsRead
  BY <1>2 DEF NearbyNumberIsRead
<1>4. IInv /\ NumbersBounded /\ [Next]_vars => NumbersBounded'
  BY NextNumbersBounded
<1> QED BY <1>1, <1>3, <1>4, KeyUpdateInvariant, PTL DEF Spec

\* Key update implements KeyGenerations.
THEOREM KeyUpdateImplementsPromise == Spec => UpdatesAreLockstep
<1>1. Init => Promise!Init
  BY DEF Init, Promise!Init, Generation
<1>2. IInv /\ [Next]_vars => [Promise!Next]_Generation
  <2> SUFFICES ASSUME IInv, [Next]_vars PROVE [Promise!Next]_Generation
    OBVIOUS
  <2>1. PICK a \in Endpoint : Moved(a)
    BY NextIInv
  <2>2. Peer(a) \in Endpoint
    BY PeerFacts
  <2>3. CASE space'[a].keys_send = space[a].keys_send
    BY <2>1, <2>3 DEF Moved, Generation
  <2>4. CASE /\ space'[a].keys_send = space[a].keys_send + 1
             /\ space[a].keys_send <= space[Peer(a)].keys_send
    <3>1. Generation' = [Generation EXCEPT ![a] = @ + 1]
      BY <2>1, <2>4 DEF Moved, Generation
    <3>2. Generation[a] <= Generation[Peer(a)]
      BY <2>2, <2>4 DEF Generation
    <3> QED BY <3>1, <3>2 DEF Promise!Next, Promise!Advance
  <2> QED BY <2>1, <2>3, <2>4 DEF Moved
<1> QED
  BY <1>1, <1>2, KeyUpdateInvariant, PTL
  DEF Spec, UpdatesAreLockstep, Promise!Spec
=============================================================================
