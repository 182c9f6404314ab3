------------------------------ MODULE KeyUpdate ------------------------------
(***************************************************************************)
(* 1-RTT key update between the two endpoints of a connection (RFC 9001    *)
(* section 6), as connection.py implements it: which key generation a      *)
(* packet is sent with, which generation the receiver tries, and when      *)
(* either side moves to the next one.                                      *)
(*                                                                         *)
(* A key is its generation number; next_generation adds one.  The AEAD is  *)
(* a comparison of generations: a packet opens with the keys it was sealed *)
(* with and with no others.  The network is the set of all packets ever    *)
(* sent, and a packet stays in it, so loss, duplication and reordering are *)
(* all possible.  A packet that fails to open changes nothing (the drop of *)
(* _process_packet), so it is not an action.                               *)
(***************************************************************************)
EXTENDS PacketNumber

CONSTANTS
    MaxPackets,         \* bound: packets one endpoint may send
    KeyUpdateInterval   \* ConnectionConfig.key_update_interval, or None

\* Python's None for packet numbers, generations and the interval.
None == -1

ASSUME MaxPacketsNat == MaxPackets \in Nat
ASSUME NumbersSuffice == MaxPackets <= PnLimit
ASSUME IntervalNat == KeyUpdateInterval \in Nat \cup {None}

Endpoint == {"client", "server"}

Peer(e) == IF e = "client" THEN "server" ELSE "client"

VARIABLES
    space,      \* space[e]: the 1-RTT _Space of endpoint e
    complete,   \* endpoints whose handshake completed (state # HANDSHAKING)
    confirmed,  \* endpoints with recovery.handshake_confirmed
    net         \* every 1-RTT packet sent so far

vars == <<space, complete, confirmed, net>>

Space == [
    keys_send            : Nat,
    keys_recv            : Nat,
    keys_recv_next       : Nat,
    keys_recv_previous   : Nat \cup {None},
    key_phase            : {0, 1},
    key_phase_first      : Nat \cup {None},
    key_phase_send_first : Nat,
    next_packet_number   : Nat,
    received             : SUBSET Nat,
    largest_received     : Nat \cup {None},
    largest_acked        : Nat \cup {None}]

Packet == [
    from      : Endpoint,
    pn        : Nat,
    key_phase : {0, 1},             \* the bit in the short header
    gen       : Nat,                \* the keys that seal the payload
    ack       : Nat \cup {None},    \* largest of the ACK frame, if any
    done      : {0, 1}]             \* 1: carries HANDSHAKE_DONE

NextGeneration(g) == g + 1

Init ==
    /\ space = [e \in Endpoint |-> [
           keys_send            |-> 0,
           keys_recv            |-> 0,
           keys_recv_next       |-> NextGeneration(0),
           keys_recv_previous   |-> None,
           key_phase            |-> 0,
           key_phase_first      |-> 0,
           key_phase_send_first |-> 0,
           next_packet_number   |-> 0,
           received             |-> {},
           largest_received     |-> None,
           largest_acked        |-> None]]
    /\ complete = {}
    /\ confirmed = {}
    /\ net = {}

-----------------------------------------------------------------------------
(* The handshake, as far as key update sees it. *)

\* The client completes on the server's Finished, the server on the client's,
\* which the client sends as it completes; the server confirms at once.
HandshakeComplete(e) ==
    /\ e \notin complete
    /\ e = "server" => "client" \in complete
    /\ complete' = complete \cup {e}
    /\ confirmed' = IF e = "server" THEN confirmed \cup {e} ELSE confirmed
    /\ UNCHANGED <<space, net>>

-----------------------------------------------------------------------------
(* Rotation. *)

\* Mutant: the first packet number of the old phase is kept.
RotateKeysKeepFirst(sp) == [sp EXCEPT
    !.keys_recv_previous   = sp.keys_recv,
    !.keys_recv            = sp.keys_recv_next,
    !.keys_recv_next       = NextGeneration(sp.keys_recv_next),
    !.keys_send            = NextGeneration(sp.keys_send),
    !.key_phase            = 1 - sp.key_phase,
    !.key_phase_send_first = sp.next_packet_number]

\* Both directions advance together; nothing has been received in the new
\* phase yet.
RotateKeys(sp) == [sp EXCEPT
    !.keys_recv_previous   = sp.keys_recv,
    !.keys_recv            = sp.keys_recv_next,
    !.keys_recv_next       = NextGeneration(sp.keys_recv_next),
    !.keys_send            = NextGeneration(sp.keys_send),
    !.key_phase            = 1 - sp.key_phase,
    !.key_phase_send_first = sp.next_packet_number,
    !.key_phase_first      = None]

\* Mutant: an acknowledgement of the packet before the phase is enough.
MayInitiateOffByOne(e, sp) ==
    /\ e \in confirmed
    /\ sp.largest_acked >= sp.key_phase_send_first - 1

\* Section 6.1: handshake confirmed, and a packet of this phase acknowledged.
MayInitiate(e, sp) ==
    /\ e \in confirmed
    /\ sp.largest_acked >= sp.key_phase_send_first

\* initiate_key_update returning True; a refused call changes nothing.
InitiateKeyUpdate(e) ==
    /\ MayInitiate(e, space[e])
    /\ space' = [space EXCEPT ![e] = RotateKeys(space[e])]
    /\ UNCHANGED <<complete, confirmed, net>>

\* _maybe_update_keys, at the head of datagrams_to_send.
MaybeUpdateKeys(e, sp) ==
    IF /\ KeyUpdateInterval # None
       /\ sp.next_packet_number - sp.key_phase_send_first >= KeyUpdateInterval
       /\ MayInitiate(e, sp)
    THEN RotateKeys(sp)
    ELSE sp

-----------------------------------------------------------------------------
(* Sending. *)

\* A server has 1-RTT send keys from the ClientHello on, a client only once
\* its handshake is complete.
HasSendKeys(e) == e = "server" \/ e \in complete

\* The packet built from sp.  Whether an acknowledgement or HANDSHAKE_DONE is
\* queued is not tracked: a packet may carry either whenever it could.
BuildPacket(e, sp, ack, done) == [
    from      |-> e,
    pn        |-> sp.next_packet_number,
    key_phase |-> sp.key_phase,
    gen       |-> sp.keys_send,
    ack       |-> ack,
    done      |-> done]

\* datagrams_to_send with one packet to build.
SendPacket(e) ==
    /\ HasSendKeys(e)
    /\ space[e].next_packet_number < MaxPackets
    /\ LET sp == MaybeUpdateKeys(e, space[e]) IN
       \E ack \in {None, sp.largest_received},
          done \in IF e = "server" /\ e \in confirmed THEN {0, 1} ELSE {0} :
          /\ net' = net \cup {BuildPacket(e, sp, ack, done)}
          /\ space' = [space EXCEPT ![e] =
                 [sp EXCEPT !.next_packet_number = sp.next_packet_number + 1]]
    /\ UNCHANGED <<complete, confirmed>>

\* datagrams_to_send with nothing to send: the update policy still runs.
SendNothing(e) ==
    /\ HasSendKeys(e)
    /\ space' = [space EXCEPT ![e] = MaybeUpdateKeys(e, space[e])]
    /\ UNCHANGED <<complete, confirmed, net>>

-----------------------------------------------------------------------------
(* Receiving. *)

\* The packet number remove_header_protection makes of p.
ReadNumber(sp, p) ==
    DecodePacketNumber(sp.largest_received, EncodePacketNumber(p.pn), EncodedWindow(p.pn))

\* Below the first packet number seen in this phase, or nothing seen in it.
BelowPhase(sp, p) ==
    sp.key_phase_first = None \/ p.pn < sp.key_phase_first

\* The packet would open only with the next keys: the peer has updated.
Updating(e, sp, p) ==
    /\ p.key_phase # sp.key_phase
    /\ ~BelowPhase(sp, p)
    /\ e \in confirmed

\* The generation _receive_keys chooses.  Previous keys that are gone leave
\* the current ones, whose AEAD check then fails.
ReceiveKeys(e, sp, p) ==
    CASE p.key_phase = sp.key_phase -> sp.keys_recv
      [] Updating(e, sp, p) -> sp.keys_recv_next
      [] /\ p.key_phase # sp.key_phase
         /\ BelowPhase(sp, p)
         /\ sp.keys_recv_previous # None -> sp.keys_recv_previous
      [] OTHER -> sp.keys_recv

NoteKeyPhase(sp, p) ==
    IF p.key_phase = sp.key_phase /\ BelowPhase(sp, p)
    THEN [sp EXCEPT !.key_phase_first = p.pn]
    ELSE sp

\* Mutant: following the peer's update leaves our send keys behind.
DecryptedReceiveOnly(e, sp, p) ==
    NoteKeyPhase(IF Updating(e, sp, p)
                 THEN [RotateKeys(sp) EXCEPT !.keys_send = sp.keys_send]
                 ELSE sp, p)

\* _decrypt after the AEAD succeeded: rotate if the peer did, then note.
Decrypted(e, sp, p) ==
    NoteKeyPhase(IF Updating(e, sp, p) THEN RotateKeys(sp) ELSE sp, p)

\* The frames of a packet seen for the first time.
HandleFrames(sp, p) == [sp EXCEPT
    !.received         = sp.received \cup {p.pn},
    !.largest_received = IF p.pn > sp.largest_received THEN p.pn ELSE @,
    !.largest_acked    = IF p.ack > sp.largest_acked THEN p.ack ELSE @]

\* _process_packet for a packet that opens.  A duplicate is dropped only after
\* _decrypt has run.
ReceivePacket(e, p) ==
    /\ p.from = Peer(e)
    /\ e \in complete
    /\ ReadNumber(space[e], p) = p.pn
    /\ ReceiveKeys(e, space[e], p) = p.gen
    /\ LET sp == Decrypted(e, space[e], p) IN
       IF p.pn \in sp.received
       THEN /\ space' = [space EXCEPT ![e] = sp]
            /\ UNCHANGED confirmed
       ELSE /\ space' = [space EXCEPT ![e] = HandleFrames(sp, p)]
            /\ confirmed' = IF p.done = 1 THEN confirmed \cup {e} ELSE confirmed
    /\ UNCHANGED <<complete, net>>

\* The clock passes keys_recv_previous_expiry; from here on the code treats
\* the previous keys as it treats None.
ExpirePrevious(e) ==
    /\ space[e].keys_recv_previous # None
    /\ space' = [space EXCEPT ![e].keys_recv_previous = None]
    /\ UNCHANGED <<complete, confirmed, net>>

Next ==
    \E e \in Endpoint :
        \/ HandshakeComplete(e)
        \/ InitiateKeyUpdate(e)
        \/ SendPacket(e)
        \/ SendNothing(e)
        \/ \E p \in net : ReceivePacket(e, p)
        \/ ExpirePrevious(e)

Spec == Init /\ [][Next]_vars

-----------------------------------------------------------------------------
(* Properties. *)

\* Every variable has its type.
TypeOK ==
    /\ space \in [Endpoint -> Space]
    /\ complete \in SUBSET Endpoint
    /\ confirmed \in SUBSET Endpoint
    /\ net \in SUBSET Packet

\* What initiate_key_update's second precondition is for: neither endpoint is
\* ever more than one generation ahead of the other, however packets and
\* acknowledgements of both sides are lost, reordered or duplicated and even
\* when both sides start an update at once.
GenerationsStayClose ==
    \A e \in Endpoint : space[e].keys_send <= space[Peer(e)].keys_send + 1

\* _receive_keys never guesses wrong.  The key phase bit is the parity of the
\* generation, so it cannot tell the previous generation from the next one;
\* with the packet number it does: a packet of the current generation always
\* opens, one of the next generation opens once this endpoint has confirmed the
\* handshake, one of the previous generation opens while its keys are kept.
KeySelectionIsExact ==
    \A e \in Endpoint : \A p \in net : p.from = Peer(e) =>
        LET sp == space[e] IN
        ReceiveKeys(e, sp, p) = p.gen
          <=> \/ p.gen = sp.keys_recv
              \/ p.gen = sp.keys_recv + 1 /\ e \in confirmed
              \/ p.gen + 1 = sp.keys_recv /\ sp.keys_recv_previous # None

\* The comment in _decrypt: rotating before the frames are handled means "the
\* acknowledgment for this packet goes out in the new phase".  No packet
\* acknowledges a packet of a later generation than its own.
AckInNewPhase ==
    \A p, q \in net :
        p.from = Peer(q.from) /\ p.ack = q.pn => p.gen >= q.gen

\* decode_packet_number: a packet that is early or late by less than half the
\* window of the length encode_packet_number chose for it is read with the
\* number its sender sealed it with.  The receiver only knows the largest number
\* it has received, and the sender only how many packets it has sent.
NearbyNumberIsRead ==
    \A p \in net :
       LET sp == space[Peer(p.from)]
           half == EncodedWindow(p.pn) \div 2
       IN  /\ sp.largest_received + 1 < p.pn + half
           /\ p.pn <= sp.largest_received + 1 + half
           => ReadNumber(sp, p) = p.pn

-----------------------------------------------------------------------------
(* Refinement. *)

\* The generation each endpoint sends with.
Generation == [e \in Endpoint |-> space[e].keys_send]

Promise == INSTANCE KeyGenerations WITH gen <- Generation

\* The update protocol implements KeyGenerations: a rotation, whether started
\* here or followed, advances one generation and never from ahead of the peer.
UpdatesAreLockstep == Promise!Spec

-----------------------------------------------------------------------------
(* What the comments claim and the code does not keep. *)

\* "which stops an endpoint from updating faster than its peer can follow"
\* (initiate_key_update): an endpoint that is ahead can still open what its
\* peer, having not seen the update, sends next.
AheadEndpointHearsPeer ==
    \A e \in Endpoint :
        space[e].keys_recv > space[Peer(e)].keys_send
          => space[e].keys_recv_previous # None
=============================================================================
