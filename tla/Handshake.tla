----------------------------- MODULE Handshake -----------------------------
(***************************************************************************)
(* A client and a server of connection.py from connect to confirmation, on *)
(* top of the TLS machines: the CRYPTO streams of the three levels, the    *)
(* installation and the discarding of keys, 0-RTT keys, HANDSHAKE_DONE, and*)
(* the closing of a failed handshake.  Connections follow one another, and *)
(* a later one may resume an earlier one under changed configurations.     *)
(*                                                                         *)
(* The network is the set of packets sent on the connection.  Any of them  *)
(* may be received at any time, again, or never.  A packet carries one     *)
(* frame, and a CRYPTO frame one message, whose offset is its position.    *)
(* Sending again is receiving late, as long as the sender still would.     *)
(*                                                                         *)
(* Left out: Retry and version negotiation, connection IDs, acknowledgement*)
(* and timers, which Recovery and SendPath have, and closing by the        *)
(* application.                                                            *)
(***************************************************************************)
EXTENDS Tls, FiniteSetsExt

CONSTANTS
    ClientConfigs,      \* configurations of the client, without the ticket
    ServerConfigs,      \* configurations of the server
    TicketAges,         \* what the server may find a ticket's age to be
    MaxConnections      \* bound: how many connections follow one another

ASSUME HandshakeConstants ==
    /\ \A c \in ClientConfigs :
        DOMAIN c = {"alpn", "cipher_suites", "key_share", "early_data"}
    /\ \A s \in ServerConfigs : DOMAIN s = {"alpn", "ticket_key", "params"}
    /\ TicketAges \subseteq {"fresh", "stale", "expired"}
    /\ MaxConnections \in Nat \ {0}

VARIABLES
    tls,                \* Connection.tls of each endpoint
    conn,               \* the rest of each Connection
    network,            \* packets sent on this connection
    connections         \* how many connections there have been

vars == <<tls, conn, network, connections>>

Endpoint == {"client", "server"}
Peer(e) == IF e = "client" THEN "server" ELSE "client"

\* derive_packet_keys: keys are the secret they come from and the cipher suite.
PacketKeys(secret, suite) == [secret |-> secret, suite |-> suite]

\* _install_initial_keys: the secrets of the two directions come from the first
\* destination connection ID.
InitialKeys(e, n) == PacketKeys([label |-> e, dcid |-> n], None)

-----------------------------------------------------------------------------
(* A Connection.  Sent is crypto_offset_sent, and what follows it in crypto *)
(* is crypto_pending.  Error is the error the last packet raised.           *)

NewConnection(e, n) ==
    [state |-> "HANDSHAKING",
     keys_send |-> [l \in Level |-> IF l = "INITIAL" THEN InitialKeys(e, n) ELSE None],
     keys_recv |-> [l \in Level |-> IF l = "INITIAL" THEN InitialKeys(Peer(e), n)
                                    ELSE None],
     keys_send_early |-> None, keys_recv_early |-> None,
     discarded |-> {},
     crypto |-> [l \in Level |-> <<>>], sent |-> [l \in Level |-> 0],
     crypto_buffer |-> [l \in Level |-> <<>>], read |-> [l \in Level |-> 0],
     streams |-> FALSE, stream_data |-> {}, handshake_done_pending |-> FALSE,
     confirmed |-> FALSE, close_frame |-> FALSE, close_sent |-> FALSE,
     error |-> None]

\* close, for an error
Fail(c, error) ==
    IF c.state \in {"CLOSING", "DRAINING"} THEN [c EXCEPT !.error = error]
    ELSE [c EXCEPT !.error = error, !.close_frame = TRUE, !.state = "CLOSING"]

\* Mutant: the keys stay.
DiscardSpaceKeepsKeys(c, level) ==
    IF level \in c.discarded THEN c
    ELSE [c EXCEPT !.discarded = @ \union {level},
                   !.crypto[level] = SubSeq(@, 1, c.sent[level])]

\* _discard_space
DiscardSpace(c, level) ==
    IF level \in c.discarded THEN c
    ELSE [c EXCEPT !.discarded = @ \union {level},
                   !.keys_send[level] = None, !.keys_recv[level] = None,
                   !.crypto[level] = SubSeq(@, 1, c.sent[level])]

\* _confirm_handshake
ConfirmHandshake(e, c) ==
    LET d == DiscardSpace([c EXCEPT !.keys_recv_early = None, !.confirmed = TRUE],
                          "HANDSHAKE")
    IN  IF e = "client" THEN DiscardSpace(d, "INITIAL") ELSE d

\* Mutant: a client confirms on completing the handshake, as a server does.
OnHandshakeCompleteConfirms(e, t, c, event) ==
    ConfirmHandshake(e, [c EXCEPT !.streams = TRUE, !.keys_send_early = None,
                                  !.state = "CONNECTED",
                                  !.handshake_done_pending = e = "server"])

\* _on_handshake_complete
OnHandshakeComplete(e, t, c, event) ==
    LET d == [c EXCEPT !.streams = TRUE, !.keys_send_early = None,
                       !.state = "CONNECTED"]
    IN  IF /\ e = "client" /\ c.streams /\ t.early_data_accepted
           /\ event.params < t.config.session_ticket.params
        THEN Fail(c, "protocol_violation")
        ELSE IF e = "client" THEN d
        ELSE ConfirmHandshake(e, [d EXCEPT !.handshake_done_pending = TRUE])

\* _on_secret
OnSecret(e, t, c, event) ==
    [c EXCEPT !.keys_send[event.level] = PacketKeys(event[e], t.cipher_suite),
              !.keys_recv[event.level] = PacketKeys(event[Peer(e)], t.cipher_suite)]

\* One turn of the loop of _drain_tls_events; an error ends the loop.
OnTlsEvent(e, t, c, event) ==
    IF c.error # None THEN c
    ELSE CASE event.event = "send" ->
                  [c EXCEPT !.crypto[event.level] = @ \o event.messages]
           [] event.event = "secret" -> OnSecret(e, t, c, event)
           [] event.event = "complete" -> OnHandshakeComplete(e, t, c, event)

\* _sync_early_keys
SyncEarlyKeys(e, t, c) ==
    IF t.early_secret = None THEN [c EXCEPT !.keys_send_early = None]
    ELSE LET keys == PacketKeys(t.early_secret, t.cipher_suite)
         IN  IF e = "client"
             THEN [c EXCEPT !.keys_send_early = IF @ = None THEN keys ELSE @]
             ELSE [c EXCEPT !.streams = @ \/ c.keys_recv_early = None,
                            !.keys_recv_early = IF @ = None THEN keys ELSE @]

\* _drain_tls_events
DrainTlsEvents(e, t, c) ==
    LET d == FoldLeft(LAMBDA b, event : OnTlsEvent(e, t, b, event), c, t.events)
    IN  IF d.error # None THEN d ELSE SyncEarlyKeys(e, t, d)

-----------------------------------------------------------------------------
(* Receiving.  What happens to an endpoint is a pair of its new TLS machine   *)
(* and its new connection.                                                    *)

\* _Handshake.receive: the loop over the messages ends with an alert.
TlsReceive(e, t, level, messages, age) ==
    FoldLeft(LAMBDA u, m : IF u.alert # None THEN u
                           ELSE IF e = "client" THEN ClientHandle(u, level, m)
                           ELSE ServerHandle(u, level, m, age),
             [t EXCEPT !.alert = None], messages)

\* contiguous_from, on the offsets received
ReadableEnd(buffer, read) ==
    Min({n \in read .. read + Cardinality(DOMAIN buffer) : n \notin DOMAIN buffer})

\* _handle_crypto
HandleCrypto(e, t, c, level, frame, age) ==
    LET buffer == (frame.offset :> frame.message) @@ c.crypto_buffer[level]
        end == ReadableEnd(buffer, c.read[level])
        ordered == [i \in 1 .. end - c.read[level] |-> buffer[c.read[level] + i - 1]]
        d == [c EXCEPT !.crypto_buffer[level] = buffer, !.read[level] = end]
        u == TlsReceive(e, t, level, ordered, age)
    IN  IF end = c.read[level] THEN <<t, d>>
        ELSE IF u.alert # None THEN <<u, Fail(d, u.alert)>>
        ELSE <<[u EXCEPT !.events = <<>>], DrainTlsEvents(e, u, d)>>

\* _handle_frame and what it calls, as far as the handshake is concerned.
HandleFrame(e, t, c, p, age) ==
    CASE p.frame.type = "crypto" -> HandleCrypto(e, t, c, p.level, p.frame, age)
      [] p.frame.type = "ack" -> <<t, c>>
      [] p.frame.type = "handshake_done" -> <<t, ConfirmHandshake(e, c)>>
      [] p.frame.type = "stream" ->
             <<t, IF c.streams
                  THEN [c EXCEPT !.stream_data = @ \union {p.zero_rtt}]
                  ELSE Fail(c, "protocol_violation")>>
      [] p.frame.type = "close" -> <<t, [c EXCEPT !.state = "DRAINING"]>>

\* The early returns of _datagram_received and _process_packet: keys are there,
\* the packet decrypts, and 1-RTT waits for the handshake to complete.
Readable(c, p) ==
    /\ c.state # "DRAINING"
    /\ p.level \notin c.discarded
    /\ p.keys = IF p.zero_rtt THEN c.keys_recv_early ELSE c.keys_recv[p.level]
    /\ p.level = "ONE_RTT" /\ ~p.zero_rtt => c.state # "HANDSHAKING"

\* _process_packet: a server's first Handshake packet ends its Initial space.
Processed(p, age) ==
    LET e == Peer(p.from)
        c == [conn[e] EXCEPT !.error = None]
        d == IF e = "server" /\ p.level = "HANDSHAKE" THEN DiscardSpace(c, "INITIAL")
             ELSE c
    IN  HandleFrame(e, tls[e], d, p, age)

Receive(p, age) ==
    /\ Readable(conn[Peer(p.from)], p)
    /\ \E after \in {Processed(p, age)} :
        /\ tls' = [tls EXCEPT ![Peer(p.from)] = after[1]]
        /\ conn' = [conn EXCEPT ![Peer(p.from)] = after[2]]
    /\ UNCHANGED <<network, connections>>

-----------------------------------------------------------------------------
(* Sending *)

Packet(e, level, frame) ==
    [from |-> e, level |-> level, zero_rtt |-> FALSE,
     keys |-> conn[e].keys_send[level], frame |-> frame]

\* The early returns of datagrams_to_send.
Active(e) == conn[e].state # "DRAINING" /\ ~conn[e].close_frame
CanSend(e, level) == Active(e) /\ conn[e].keys_send[level] # None

\* A client discards Initial keys when it first sends a Handshake packet.
AfterSending(e, level, c) ==
    IF e = "client" /\ level = "HANDSHAKE" THEN DiscardSpace(c, "INITIAL") ELSE c

\* Everything in crypto_pending of a level leaves, a message to a packet.
SendCrypto(e, level) ==
    LET c == conn[e]
        pending == c.sent[level] + 1 .. Len(c.crypto[level])
        frames == {[type |-> "crypto", offset |-> i - 1,
                    message |-> c.crypto[level][i]] : i \in pending}
    IN  /\ CanSend(e, level) /\ pending # {}
        /\ network' = network \union {Packet(e, level, f) : f \in frames}
        /\ conn' = [conn EXCEPT ![e] = AfterSending(e, level,
                        [c EXCEPT !.sent[level] = Len(c.crypto[level])])]
        /\ UNCHANGED <<tls, connections>>

\* A packet of the client's with an ACK alone, or a probe's PING.
SendHandshakeAck ==
    /\ CanSend("client", "HANDSHAKE")
    /\ network' = network \union {Packet("client", "HANDSHAKE", [type |-> "ack"])}
    /\ conn' = [conn EXCEPT !.client = AfterSending("client", "HANDSHAKE", @)]
    /\ UNCHANGED <<tls, connections>>

\* _application_frames: HANDSHAKE_DONE
SendHandshakeDone ==
    /\ CanSend("server", "ONE_RTT") /\ conn.server.handshake_done_pending
    /\ network' = network
           \union {Packet("server", "ONE_RTT", [type |-> "handshake_done"])}
    /\ conn' = [conn EXCEPT !.server.handshake_done_pending = FALSE]
    /\ UNCHANGED <<tls, connections>>

\* The client's application writes once it has streams.  What it writes leaves
\* under 0-RTT keys only while there are no 1-RTT keys, and again under those.
SendStream ==
    LET c == conn.client
        p == IF c.keys_send["ONE_RTT"] = None
             THEN [from |-> "client", level |-> "ONE_RTT", zero_rtt |-> TRUE,
                   keys |-> c.keys_send_early, frame |-> [type |-> "stream"]]
             ELSE Packet("client", "ONE_RTT", [type |-> "stream"])
    IN  /\ Active("client") /\ c.streams
        /\ p.keys # None
        /\ network' = network \union {p}
        /\ UNCHANGED <<tls, conn, connections>>

\* _build_close_datagram: once, at the highest level there are keys for.
SendClose(e) ==
    LET ready == {l \in Level : conn[e].keys_send[l] # None}
        level == CHOOSE l \in ready :
                     \/ l = "ONE_RTT"
                     \/ l = "HANDSHAKE" /\ "ONE_RTT" \notin ready
                     \/ ready = {"INITIAL"}
    IN  /\ conn[e].state # "DRAINING" /\ conn[e].close_frame
        /\ ~conn[e].close_sent /\ ready # {}
        /\ network' = network \union {Packet(e, level, [type |-> "close"])}
        /\ conn' = [conn EXCEPT ![e].close_sent = TRUE]
        /\ UNCHANGED <<tls, connections>>

-----------------------------------------------------------------------------
\* connect, on a new client connection with or without a ticket
Connect(config, ticket, n) ==
    LET started == Start(NewClient([session_ticket |-> ticket] @@ config, n))
        c == DrainTlsEvents("client", started, NewConnection("client", n))
    IN  <<[started EXCEPT !.events = <<>>],
          [c EXCEPT !.streams = started.early_secret # None]>>

Opened(client, ticket, server, n) ==
    LET c == Connect(client, ticket, n)
    IN  [tls |-> [client |-> c[1], server |-> NewServer(server, n)],
         conn |-> [client |-> c[2], server |-> NewConnection("server", n)]]

Init ==
    /\ \E c \in ClientConfigs, s \in ServerConfigs :
        LET o == Opened(c, None, s, 1) IN tls = o.tls /\ conn = o.conn
    /\ network = {}
    /\ connections = 1

\* The connection is confirmed at both ends and the client's data has arrived, or
\* the server has refused it.
Settled ==
    \/ /\ \A e \in Endpoint : conn[e].confirmed
       /\ conn.server.stream_data # {}
    \/ conn.server.state = "CLOSING"

\* The client connects again, with a ticket or without, under any configuration.
Reconnect ==
    /\ Settled /\ connections < MaxConnections
    /\ \E c \in ClientConfigs, s \in ServerConfigs,
         ticket \in {None} \union ToSet(tls.client.session_tickets) :
           LET o == Opened(c, ticket, s, connections + 1)
           IN  tls' = o.tls /\ conn' = o.conn
    /\ network' = {}
    /\ connections' = connections + 1

Send ==
    \/ \E e \in Endpoint, level \in Level : SendCrypto(e, level)
    \/ SendHandshakeDone
    \/ SendStream
    \/ \E e \in Endpoint : SendClose(e)

Next ==
    \/ Send
    \/ SendHandshakeAck
    \/ \E p \in network, age \in TicketAges : Receive(p, age)
    \/ Reconnect

\* Loss detection and probe timeouts send a packet's frame again until it is
\* acknowledged, unless its space is gone; a CONNECTION_CLOSE is sent once.
Retransmitted(p) ==
    /\ ~p.zero_rtt
    /\ Active(p.from)
    /\ conn[p.from].keys_send[p.level] = p.keys

\* Something queued in the end leaves, and what is sent again and again in the end
\* arrives.  Each such step makes progress, so one condition for all is enough.
Progress ==
    \/ Send
    \/ \E p \in network, age \in TicketAges : Retransmitted(p) /\ Receive(p, age)

\* ENABLED <<Progress>>_vars: the receiver changes with a packet sent again.
CanProgress ==
    \/ ENABLED <<Send>>_vars
    \/ \E p \in network, age \in TicketAges :
        /\ Retransmitted(p) /\ Readable(conn[Peer(p.from)], p)
        /\ Processed(p, age) # <<tls[Peer(p.from)], conn[Peer(p.from)]>>

\* Weak fairness of Progress, written out.
Spec == Init /\ [][Next]_vars /\ ([]<>~CanProgress \/ []<><<Progress>>_vars)

-----------------------------------------------------------------------------
(* Properties *)

ClientStates == DOMAIN ClientExpects \union {"START", "CONNECTED"}
ServerStates == DOMAIN ServerExpects \union {"CONNECTED"}

\* The state machines stay in their enumerations, streams of CRYPTO data are sent
\* and read within their lengths, and no key outlives its space.
TypeOK ==
    /\ tls.client.state \in ClientStates /\ tls.server.state \in ServerStates
    /\ connections \in 1 .. MaxConnections
    /\ \A e \in Endpoint :
        /\ conn[e].state \in {"HANDSHAKING", "CONNECTED", "CLOSING", "DRAINING"}
        /\ conn[e].discarded \subseteq Level
        /\ tls[e].events = <<>> \/ tls[e].alert # None
        /\ \A l \in Level :
            /\ conn[e].sent[l] \in 0 .. Len(conn[e].crypto[l])
            /\ conn[e].read[l] \in 0 .. conn[Peer(e)].sent[l]
            /\ l \in conn[e].discarded =>
                 conn[e].keys_send[l] = None /\ conn[e].keys_recv[l] = None

\* Two of these endpoints never fail each other: an error is raised only by a
\* server whose client shares no application protocol with it.  A stale, expired
\* or foreign ticket, a retried hello, a change of cipher suite, protocol or limits
\* since the ticket, and any order of packets lead to a handshake, not to an alert.
ErrorsAreDeserved ==
    /\ conn.client.error = None /\ conn.client.state # "CLOSING"
    /\ conn.server.state = "CLOSING" =>
        ToSet(tls.server.config.alpn) \intersect ToSet(tls.client.config.alpn) = {}

\* Keys two endpoints hold for a level and a direction are the same, although each
\* derived them from its own transcript, with or without a PSK and a retry; and so
\* are the 0-RTT keys of a server that accepted and those its client sent under.
KeysAgree ==
    /\ \A e \in Endpoint, l \in Level :
        \/ conn[e].keys_send[l] = None
        \/ conn[Peer(e)].keys_recv[l] = None
        \/ conn[e].keys_send[l] = conn[Peer(e)].keys_recv[l]
    /\ conn.server.keys_recv_early # None =>
        \A p \in network : p.zero_rtt => p.keys = conn.server.keys_recv_early

\* Endpoints that have both completed agree on protocol, cipher suite, resumption and
\* 0-RTT, and a ticket holds the PSK that its client keeps with it.
OutcomesAgree ==
    LET c == tls.client
        s == tls.server
    IN  /\ c.state = "CONNECTED" =>
            /\ c.alpn = s.alpn /\ c.cipher_suite = s.cipher_suite
            /\ c.resumed = s.resumed
            /\ c.early_data_accepted = s.early_data_accepted
        /\ \A ticket \in ToSet(c.session_tickets) :
            /\ ticket.psk = ticket.identity.state.psk
            /\ ticket.alpn = ticket.identity.state.alpn
            /\ ticket.params = ticket.identity.state.params
            /\ ticket.cipher_suite = ticket.identity.state.cipher_suite

\* A client never takes for rejected, and sends again, 0-RTT data that its server has
\* read (_on_handshake_complete restarts the space of rejected data).
EarlyDataCounts ==
    TRUE \in conn.server.stream_data /\ conn.client.state = "CONNECTED" =>
        tls.client.early_data_accepted

\* Whatever is lost and however keys are discarded on the way, every connection is
\* in the end confirmed at both ends with the client's data delivered, or refused.
HandshakeSettles == []<>Settled

=============================================================================
