-------------------------------- MODULE Tls --------------------------------
(***************************************************************************)
(* The TLS 1.3 state machines of tls.py, TlsClient and TlsServer, as       *)
(* operators on records: full handshakes, HelloRetryRequest, resumption    *)
(* with a ticket, and the offer of 0-RTT.                                  *)
(*                                                                         *)
(* Cryptography is symbolic.  A secret is the record of what it was derived*)
(* from, so two secrets are equal exactly when their derivations agree.  A *)
(* MAC or signature is what it was computed over; a transcript holds the   *)
(* messages without theirs, which the messages before them determine.      *)
(*                                                                         *)
(* Left out: certificate policy, which is the cryptography library's, and  *)
(* what neither machine ever sends to the other (other groups than X25519, *)
(* other versions, malformed messages).                                    *)
(***************************************************************************)
EXTENDS Naturals, Sequences, SequencesExt

CONSTANTS
    CipherSuites,       \* SUPPORTED_CIPHER_SUITES
    None                \* a model value: Python's None

Level == {"INITIAL", "HANDSHAKE", "ONE_RTT"}

-----------------------------------------------------------------------------
(* KeySchedule *)

NewSchedule(psk) ==
    [psk |-> psk, shared |-> None, stage |-> "early", transcript |-> <<>>]

Raw(message) ==
    IF "mac" \in DOMAIN message THEN [message EXCEPT !.mac = None] ELSE message

UpdateTranscript(schedule, message) ==
    [schedule EXCEPT !.transcript = Append(@, Raw(message))]

\* replace_transcript_with_message_hash
MessageHash(schedule) ==
    [schedule EXCEPT !.transcript = <<[type |-> "message_hash", of |-> @]>>]

AddEcdhe(schedule, shared) ==
    [schedule EXCEPT !.shared = shared, !.stage = "handshake"]

AdvanceToMaster(schedule) == [schedule EXCEPT !.stage = "master"]

\* _derive: a secret bound to the stage, its inputs and the transcript so far.
Derive(schedule, label) ==
    [label |-> label, stage |-> schedule.stage, psk |-> schedule.psk,
     shared |-> schedule.shared, transcript |-> schedule.transcript]

\* finished_verify_data, and the binder, which has the same construction.
FinishedVerifyData(secret, schedule) ==
    [key |-> secret, over |-> schedule.transcript]

BinderKey(schedule) ==
    [label |-> "res binder", stage |-> schedule.stage, psk |-> schedule.psk]

-----------------------------------------------------------------------------
(* _Handshake: what the two roles share *)

Raise(tls, alert) == [tls EXCEPT !.alert = alert]

Emit(tls, event) == [tls EXCEPT !.events = Append(@, event)]

SendData(tls, level, messages) ==
    Emit(tls, [event |-> "send", level |-> level, messages |-> messages])

SecretAvailable(tls, level, client, server) ==
    Emit(tls, [event |-> "secret", level |-> level,
               client |-> client, server |-> server])

HandshakeComplete(tls, params) ==
    Emit(tls, [event |-> "complete", alpn |-> tls.alpn, params |-> params])

Feed(tls, message) ==
    [tls EXCEPT !.schedule = UpdateTranscript(@, message)]

\* _emit_handshake_secrets
EmitHandshakeSecrets(tls, shared) ==
    LET schedule == AddEcdhe(tls.schedule, shared)
        c == Derive(schedule, "c hs traffic")
        s == Derive(schedule, "s hs traffic")
    IN  SecretAvailable([tls EXCEPT !.schedule = schedule,
                                    !.client_hs_secret = c,
                                    !.server_hs_secret = s], "HANDSHAKE", c, s)

\* _emit_application_secrets
EmitApplicationSecrets(tls) ==
    LET schedule == AdvanceToMaster(tls.schedule)
    IN  SecretAvailable([tls EXCEPT !.schedule = schedule], "ONE_RTT",
                        Derive(schedule, "c ap traffic"),
                        Derive(schedule, "s ap traffic"))

Finished(secret, schedule) ==
    [type |-> "finished", mac |-> FinishedVerifyData(secret, schedule)]

\* resumption_psk.  A connection issues one ticket, so its nonce is left out.
ResumptionPsk(schedule) == Derive(schedule, "res master")

-----------------------------------------------------------------------------
(* TlsClient.  A key share is named by the connection and the hello it is of. *)

NewClient(config, random) ==
    [config |-> config, random |-> random, state |-> "START",
     schedule |-> NewSchedule(IF config.session_ticket = None THEN None
                              ELSE config.session_ticket.psk),
     fallback_schedule |-> IF config.session_ticket = None THEN None
                           ELSE NewSchedule(None),
     key |-> IF config.key_share THEN <<random, 1>> ELSE None,
     cipher_suite |-> None, hello_retried |-> FALSE, resumed |-> FALSE,
     early_data_offered |-> FALSE, early_data_accepted |-> FALSE,
     early_secret |-> None, client_hs_secret |-> None, server_hs_secret |-> None,
     alpn |-> None, peer_params |-> None, session_tickets |-> <<>>,
     events |-> <<>>, alert |-> None]

\* _build_client_hello: whether early data is offered, and under which suite.  The
\* tickets this server issues always permit it.
OfferEarlyData(c) ==
    LET ticket == c.config.session_ticket
        offered == /\ c.config.early_data
                   /\ ticket # None
                   /\ Contains(c.config.cipher_suites, ticket.cipher_suite)
                   /\ ~c.hello_retried
    IN  [c EXCEPT !.early_data_offered = offered,
                  !.cipher_suite = IF offered THEN ticket.cipher_suite ELSE @]

ClientHello(c) ==
    [type |-> "client_hello", random |-> c.random,
     cipher_suites |-> c.config.cipher_suites, alpn |-> c.config.alpn,
     key_share |-> c.key, early_data |-> c.early_data_offered,
     identity |-> IF c.config.session_ticket = None THEN None
                  ELSE c.config.session_ticket.identity,
     mac |-> None]

\* _fill_psk_binder: a MAC over the transcript up to and including this hello.
FillPskBinder(schedule, hello) ==
    IF hello.identity = None THEN hello
    ELSE [hello EXCEPT !.mac = FinishedVerifyData(BinderKey(schedule),
                                   UpdateTranscript(schedule, hello))]

\* Mutant: a retried hello is left out of the schedule kept for a declined offer.
SendClientHelloNoFallback(c) ==
    LET hello == FillPskBinder(c.schedule, ClientHello(c))
    IN  SendData([c EXCEPT !.schedule = UpdateTranscript(@, hello),
                           !.fallback_schedule =
                               IF @ = None \/ c.hello_retried THEN @
                               ELSE UpdateTranscript(@, hello),
                           !.state = "WAIT_SERVER_HELLO"], "INITIAL", <<hello>>)

\* The end of start and of _on_hello_retry_request: both schedules see the hello.
SendClientHello(c) ==
    LET hello == FillPskBinder(c.schedule, ClientHello(c))
    IN  SendData([c EXCEPT !.schedule = UpdateTranscript(@, hello),
                           !.fallback_schedule =
                               IF @ = None THEN None ELSE UpdateTranscript(@, hello),
                           !.state = "WAIT_SERVER_HELLO"], "INITIAL", <<hello>>)

\* start
Start(c) ==
    LET sent == SendClientHello(OfferEarlyData(c))
    IN  IF sent.early_data_offered
        THEN [sent EXCEPT !.early_secret = Derive(sent.schedule, "c e traffic")]
        ELSE sent

\* _on_hello_retry_request
OnHelloRetryRequest(c, retry) ==
    LET Retried(schedule) == UpdateTranscript(MessageHash(schedule), retry)
    IN  IF c.hello_retried THEN Raise(c, "unexpected_message")
        ELSE IF c.key # None THEN Raise(c, "illegal_parameter")
        ELSE SendClientHello(OfferEarlyData(
                 [c EXCEPT !.hello_retried = TRUE,
                           !.early_secret = None,
                           !.schedule = Retried(@),
                           !.fallback_schedule = IF @ = None THEN None
                                                 ELSE Retried(@),
                           !.key = <<c.random, 2>>]))

\* _on_server_hello.  A declined offer leaves the schedule without the PSK.
OnServerHello(c, hello) ==
    LET d == [c EXCEPT !.cipher_suite = hello.cipher_suite]
        taken == [d EXCEPT !.resumed = hello.selected,
                           !.schedule = IF hello.selected \/ d.fallback_schedule = None
                                        THEN @ ELSE d.fallback_schedule,
                           !.fallback_schedule = None,
                           !.state = "WAIT_ENCRYPTED_EXTENSIONS"]
    IN  IF hello.retry THEN OnHelloRetryRequest(c, hello)
        ELSE IF ~Contains(c.config.cipher_suites, hello.cipher_suite)
             THEN Raise(c, "illegal_parameter")
        ELSE IF d.key = None THEN Raise(d, "illegal_parameter")
        ELSE IF hello.selected /\ d.config.session_ticket = None
             THEN Raise(d, "illegal_parameter")
        ELSE EmitHandshakeSecrets(Feed(taken, hello), <<d.key, hello.key_share>>)

\* _on_encrypted_extensions
OnEncryptedExtensions(c, message) ==
    LET ticket == c.config.session_ticket
    IN  IF ~Contains(c.config.alpn, message.alpn)
        THEN Raise(c, "no_application_protocol")
        ELSE IF message.early_data /\ ~c.early_data_offered
             THEN Raise(c, "unsupported_extension")
        ELSE IF message.early_data /\ ( \/ ~c.resumed
                                        \/ message.alpn # ticket.alpn
                                        \/ c.cipher_suite # ticket.cipher_suite )
             THEN Raise(c, "illegal_parameter")
        ELSE Feed([c EXCEPT !.early_data_accepted = message.early_data,
                            !.alpn = message.alpn,
                            !.peer_params = message.params,
                            !.state = IF c.resumed THEN "WAIT_FINISHED"
                                      ELSE "WAIT_CERTIFICATE"], message)

\* _on_certificate; the chain is taken to verify.
OnCertificate(c, message) ==
    Feed([c EXCEPT !.state = "WAIT_CERTIFICATE_VERIFY"], message)

\* _on_certificate_verify
OnCertificateVerify(c, message) ==
    IF message.mac # c.schedule.transcript THEN Raise(c, "decrypt_error")
    ELSE Feed([c EXCEPT !.state = "WAIT_FINISHED"], message)

\* _on_finished
ClientOnFinished(c, message) ==
    LET d == EmitApplicationSecrets(Feed(c, message))
        finished == Finished(d.client_hs_secret, d.schedule)
    IN  IF message.mac # FinishedVerifyData(c.server_hs_secret, c.schedule)
        THEN Raise(c, "decrypt_error")
        ELSE HandshakeComplete(
                 SendData([Feed(d, finished) EXCEPT !.state = "CONNECTED"],
                          "HANDSHAKE", <<finished>>), d.peer_params)

\* _store_session_ticket
StoreSessionTicket(c, message) ==
    [c EXCEPT !.session_tickets =
        Append(@, [identity |-> message.ticket, psk |-> ResumptionPsk(c.schedule),
                   alpn |-> c.alpn, params |-> c.peer_params,
                   cipher_suite |-> c.cipher_suite])]

\* CLIENT_EXPECTS
ClientExpects ==
    [WAIT_SERVER_HELLO |-> <<"server_hello", "INITIAL">>,
     WAIT_ENCRYPTED_EXTENSIONS |-> <<"encrypted_extensions", "HANDSHAKE">>,
     WAIT_CERTIFICATE |-> <<"certificate", "HANDSHAKE">>,
     WAIT_CERTIFICATE_VERIFY |-> <<"certificate_verify", "HANDSHAKE">>,
     WAIT_FINISHED |-> <<"finished", "HANDSHAKE">>]

\* TlsClient._handle
ClientHandle(c, level, message) ==
    IF c.state = "CONNECTED"
    THEN IF message.type = "new_session_ticket" THEN StoreSessionTicket(c, message)
         ELSE Raise(c, "unexpected_message")
    ELSE IF ClientExpects[c.state] # <<message.type, level>>
         THEN Raise(c, "unexpected_message")
    ELSE CASE message.type = "server_hello" -> OnServerHello(c, message)
           [] message.type = "encrypted_extensions" ->
                  OnEncryptedExtensions(c, message)
           [] message.type = "certificate" -> OnCertificate(c, message)
           [] message.type = "certificate_verify" -> OnCertificateVerify(c, message)
           [] message.type = "finished" -> ClientOnFinished(c, message)

-----------------------------------------------------------------------------
(* TlsServer.  Params are the limits among its transport parameters. *)

NewServer(config, random) ==
    [config |-> config, random |-> random, state |-> "START",
     schedule |-> NewSchedule(None), cipher_suite |-> None,
     hello_retry_sent |-> FALSE, resumed |-> FALSE,
     early_data_accepted |-> FALSE, early_secret |-> None,
     client_hs_secret |-> None, server_hs_secret |-> None,
     alpn |-> None, events |-> <<>>, alert |-> None]

\* _negotiate_alpn: the server's preference decides.
CommonProtocols(config, hello) ==
    SelectSeq(config.alpn, LAMBDA protocol : Contains(hello.alpn, protocol))

\* _send_hello_retry_request
SendHelloRetryRequest(s, hello) ==
    LET retry == [type |-> "server_hello", retry |-> TRUE, key_share |-> None,
                  cipher_suite |-> s.cipher_suite, selected |-> FALSE]
        schedule == MessageHash(UpdateTranscript(s.schedule, hello))
    IN  IF s.hello_retry_sent THEN Raise(s, "handshake_failure")
        ELSE SendData([s EXCEPT !.hello_retry_sent = TRUE,
                                !.schedule = UpdateTranscript(schedule, retry),
                                !.state = "WAIT_SECOND_CLIENT_HELLO"],
                      "INITIAL", <<retry>>)

\* Mutant: the offer of a second hello is considered too, although its binder
\* covers the first hello and the retry.
OpensOfferRetried(s, hello, age) ==
    /\ hello.identity # None
    /\ s.config.ticket_key # None
    /\ hello.identity.key = s.config.ticket_key
    /\ age # "expired"

\* _select_psk and open_ticket: the offered ticket is one this server can honour.
OpensOffer(s, hello, age) ==
    /\ hello.identity # None
    /\ s.config.ticket_key # None
    /\ ~s.hello_retry_sent
    /\ hello.identity.key = s.config.ticket_key
    /\ age # "expired"

\* The check of the binder in _select_psk, over this hello alone.
BinderVerifies(hello) ==
    LET schedule == NewSchedule(hello.identity.state.psk)
    IN  hello.mac = FinishedVerifyData(BinderKey(schedule),
                                       UpdateTranscript(schedule, hello))

\* The condition of 0-RTT in _resolve_psk_offer: nothing the client remembers has
\* changed for the worse, and the claimed age of the ticket is close to its own.
AcceptsEarlyData(s, hello, alpn, age) ==
    /\ hello.early_data
    /\ hello.identity.state.alpn = alpn
    /\ hello.identity.state.cipher_suite = s.cipher_suite
    /\ ~(s.config.params < hello.identity.state.params)
    /\ age = "fresh"

\* Mutant: the early secret comes with the PSK, accepted or not.
ResolvePskOfferAlwaysEarly(s, hello, alpn, age) ==
    LET selected == OpensOffer(s, hello, age)
        schedule == UpdateTranscript(IF selected
                                     THEN NewSchedule(hello.identity.state.psk)
                                     ELSE s.schedule, hello)
    IN  [s EXCEPT !.resumed = selected,
                  !.early_data_accepted =
                      selected /\ AcceptsEarlyData(s, hello, alpn, age),
                  !.schedule = schedule,
                  !.early_secret = IF selected THEN Derive(schedule, "c e traffic")
                                   ELSE @]

\* _resolve_psk_offer
ResolvePskOffer(s, hello, alpn, age) ==
    LET selected == OpensOffer(s, hello, age)
        accepted == selected /\ AcceptsEarlyData(s, hello, alpn, age)
        schedule == UpdateTranscript(IF selected
                                     THEN NewSchedule(hello.identity.state.psk)
                                     ELSE s.schedule, hello)
    IN  [s EXCEPT !.resumed = selected,
                  !.early_data_accepted = accepted,
                  !.schedule = schedule,
                  !.early_secret = IF accepted THEN Derive(schedule, "c e traffic")
                                   ELSE @]

\* _certificate_messages, fed to the transcript in order.
CertificateMessages(schedule) ==
    LET certificate == [type |-> "certificate"]
    IN  <<certificate,
          [type |-> "certificate_verify",
           mac |-> UpdateTranscript(schedule, certificate).transcript]>>

\* The rest of _on_client_hello: ServerHello and the server's first flight.
AnswerClientHello(s, hello, alpn) ==
    LET server_hello == [type |-> "server_hello", retry |-> FALSE,
                         key_share |-> <<s.random>>,
                         cipher_suite |-> s.cipher_suite, selected |-> s.resumed]
        extensions == [type |-> "encrypted_extensions", alpn |-> alpn,
                       params |-> s.config.params,
                       early_data |-> s.early_data_accepted]
        keyed == EmitHandshakeSecrets(
                     SendData(Feed(s, server_hello), "INITIAL", <<server_hello>>),
                     <<hello.key_share, <<s.random>>>>)
        extended == Feed(keyed, extensions)
        certificates == IF s.resumed THEN <<>>
                        ELSE CertificateMessages(extended.schedule)
        certified == FoldLeft(Feed, extended, certificates)
        finished == Finished(certified.server_hs_secret, certified.schedule)
    IN  [EmitApplicationSecrets(
             SendData(Feed(certified, finished), "HANDSHAKE",
                      <<extensions>> \o certificates \o <<finished>>))
         EXCEPT !.alpn = alpn, !.state = "WAIT_FINISHED"]

\* _on_client_hello.  The client's preference decides about the cipher suite.
OnClientHello(s, hello, age) ==
    LET offered == SelectSeq(hello.cipher_suites, LAMBDA c : c \in CipherSuites)
        t == [s EXCEPT !.cipher_suite = Head(offered)]
        protocols == CommonProtocols(s.config, hello)
    IN  IF offered = <<>> THEN Raise(s, "handshake_failure")
        ELSE IF hello.key_share = None THEN SendHelloRetryRequest(t, hello)
        ELSE IF protocols = <<>> THEN Raise(t, "no_application_protocol")
        ELSE IF OpensOffer(t, hello, age) /\ ~BinderVerifies(hello)
             THEN Raise(t, "decrypt_error")
        ELSE AnswerClientHello(ResolvePskOffer(t, hello, Head(protocols), age),
                               hello, Head(protocols))

\* _issue_session_ticket and seal_ticket
IssueSessionTicket(s) ==
    LET state == [psk |-> ResumptionPsk(s.schedule), alpn |-> s.alpn,
                  params |-> s.config.params, cipher_suite |-> s.cipher_suite]
        ticket == [key |-> s.config.ticket_key, state |-> state]
    IN  IF s.config.ticket_key = None THEN s
        ELSE SendData(s, "ONE_RTT",
                      <<[type |-> "new_session_ticket", ticket |-> ticket]>>)

\* Mutant: the client's Finished is left out of the transcript.
ServerOnFinishedUnfed(s, message) ==
    IF message.mac # FinishedVerifyData(s.client_hs_secret, s.schedule)
    THEN Raise(s, "decrypt_error")
    ELSE IssueSessionTicket(HandshakeComplete([s EXCEPT !.state = "CONNECTED"], None))

\* _on_finished
ServerOnFinished(s, message) ==
    IF message.mac # FinishedVerifyData(s.client_hs_secret, s.schedule)
    THEN Raise(s, "decrypt_error")
    ELSE IssueSessionTicket(
             HandshakeComplete([Feed(s, message) EXCEPT !.state = "CONNECTED"], None))

\* SERVER_EXPECTS
ServerExpects ==
    [START |-> <<"client_hello", "INITIAL">>,
     WAIT_SECOND_CLIENT_HELLO |-> <<"client_hello", "INITIAL">>,
     WAIT_FINISHED |-> <<"finished", "HANDSHAKE">>]

\* TlsServer._handle
ServerHandle(s, level, message, age) ==
    IF s.state = "CONNECTED" THEN Raise(s, "unexpected_message")
    ELSE IF ServerExpects[s.state] # <<message.type, level>>
         THEN Raise(s, "unexpected_message")
    ELSE IF message.type = "client_hello" THEN OnClientHello(s, message, age)
    ELSE ServerOnFinished(s, message)

=============================================================================
