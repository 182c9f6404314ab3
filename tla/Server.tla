------------------------------- MODULE Server -------------------------------
(***************************************************************************)
(* The server's connection table and address validation                    *)
(* (endpoints/server.py, retry.py), with the clients that fetch from it    *)
(* one connection after another (endpoints/client.py) and the connection   *)
(* IDs both ends of a handshake check (connection.py).                     *)
(*                                                                         *)
(* The network keeps every datagram for ever and delivers it at any time,  *)
(* again or never, so it loses, repeats and reorders.  Random connection   *)
(* IDs are fresh ones.  Packets are readable by who has the keys: Initial  *)
(* keys follow a connection ID, later ones belong to one session.          *)
(***************************************************************************)
EXTENDS Integers, FiniteSets, Sequences

CONSTANTS
    None,               \* no value
    Ports,              \* addresses of clients
    Lifetime,           \* TOKEN_LIFETIME, NEW_TOKEN_LIFETIME by kind of token
    MaxAttempts,        \* bounds: connections a client makes,
    MaxSessions,        \*   sessions accepted,
    MaxRetries,         \*   Retry packets sent,
    MaxRestarts,        \*   restarts of the server,
    MaxTime,            \*   the clock,
    MaxCopies           \*   NEW_TOKEN frames received in a connection

ASSUME ServerConstants ==
    /\ Lifetime \in [{"RETRY", "NEW"} -> Nat]
    /\ {MaxAttempts, MaxSessions, MaxRetries, MaxRestarts, MaxTime, MaxCopies} \subseteq Nat

Cid == ({"client"} \X (1 .. MaxAttempts)) \cup ({"host"} \X (1 .. MaxSessions))
       \cup ({"retry"} \X (1 .. MaxRetries))

Token == [kind : {"RETRY", "NEW"}, key : Nat, address : Ports, issued : Nat,
          original : Cid \cup {None}]

RetryContext == [original : Cid, source : Cid]

ASSUME NoneIsNoValue == None \notin Cid \cup Token \cup RetryContext

\* One connection of the server.  initial is _initial_dcid, peer_cid the attempt
\* whose source connection ID it adopted.
Session == [key : Nat, cid : Cid, retry : RetryContext \cup {None},
            destination : Ports, initial : Cid \cup {None}, peer_cid : Nat,
            hello : BOOLEAN, completed : BOOLEAN, draining : BOOLEAN,
            token : Token \cup {None}]

VARIABLES
    retry,              \* ServerOptions.retry
    token_key,          \* which process of the server this is
    sessions,           \* _sessions: the session of a connection ID
    connections,        \* every session there was, in order
    connections_served,
    retries,            \* Retry packets sent
    client,             \* the connection of the client
    tokens,             \* its SessionStore.tokens
    now, network

serverVars == <<retry, token_key, sessions, connections, connections_served, retries>>
vars == <<serverVars, client, tokens, now, network>>

Live == {sessions[c] : c \in DOMAIN sessions}

\* The connection IDs that attempt n of the client, the nth Retry and session n
\* of the server draw.
ClientCid(n) == <<"client", n>>
RetryCid(n) == <<"retry", n>>
HostCid(n) == <<"host", n>>

Init ==
    /\ retry \in BOOLEAN /\ token_key = 0
    /\ sessions = <<>> /\ connections = <<>>
    /\ connections_served = 0 /\ retries = 0
    /\ client = [attempt |-> 0, state |-> "CLOSED"]
    /\ tokens = <<>> /\ now = 0 /\ network = {}

-----------------------------------------------------------------------------
(* Tokens. *)

\* mint_token, mint_new_token
Mint(kind, address, original) ==
    [kind |-> kind, key |-> token_key, address |-> address, issued |-> now,
     original |-> original]

\* Mutant: the address is not compared.
ValidatesAnywhere(token, address) ==
    /\ token.key = token_key
    /\ now - token.issued <= Lifetime[token.kind]

\* Mutant: one lifetime for both kinds.
ValidatesBriefly(token, address) ==
    /\ token.key = token_key
    /\ token.address = address
    /\ now - token.issued <= Lifetime["RETRY"]

\* validate_token, validate_new_token
Validates(token, address) ==
    /\ token.key = token_key
    /\ token.address = address
    /\ now - token.issued <= Lifetime[token.kind]

-----------------------------------------------------------------------------
(* Routing. *)

\* Mutant: the source is not kept.
AcceptNoDestination(d, context) ==
    [key |-> token_key, cid |-> d.dcid, retry |-> context, destination |-> None,
     initial |-> None, peer_cid |-> 0, hello |-> FALSE, completed |-> FALSE,
     draining |-> FALSE, token |-> None]

\* _accept
Accept(d, context) ==
    [key |-> token_key, cid |-> d.dcid, retry |-> context, destination |-> d.from,
     initial |-> None, peer_cid |-> 0, hello |-> FALSE, completed |-> FALSE,
     draining |-> FALSE, token |-> None]

\* _adopt_client_initial
Adopt(c, d) ==
    [c EXCEPT !.initial = IF @ = None THEN d.dcid ELSE @,
              !.peer_cid = IF @ = 0 THEN d.scid ELSE @]

\* datagram_received of session s.
Received(s, c, d) ==
    IF c.draining THEN c
    ELSE CASE d.type = "INITIAL" ->
                 LET a == Adopt(c, d)
                 IN  [a EXCEPT !.hello = @ \/ (d.key = a.initial /\ ~a.completed)]
           [] d.type = "HANDSHAKE" -> [c EXCEPT !.completed = @ \/ d.session = s]
           [] d.type = "CLOSE" -> [c EXCEPT !.draining = c.completed /\ d.session = s]

\* Mutant: the ID the server chose is not indexed.
DeliverOneCid(s, c, d) ==
    /\ connections' = IF s > Len(connections)
                      THEN Append(connections, Received(s, c, d))
                      ELSE [connections EXCEPT ![s] = Received(s, c, d)]
    /\ sessions' = [i \in DOMAIN sessions \cup {d.dcid} |->
                       IF i \in DOMAIN sessions THEN sessions[i] ELSE s]
    /\ UNCHANGED <<retries, network>>

\* The end of _route: session s, now c, has d, and both its IDs lead to it.
Deliver(s, c, d) ==
    /\ connections' = IF s > Len(connections)
                      THEN Append(connections, Received(s, c, d))
                      ELSE [connections EXCEPT ![s] = Received(s, c, d)]
    /\ sessions' = [i \in DOMAIN sessions \cup {d.dcid, HostCid(s)} |->
                       IF i \in DOMAIN sessions THEN sessions[i] ELSE s]
    /\ UNCHANGED <<retries, network>>

\* A session for d is accepted.
DeliverNew(d, context) ==
    /\ Len(connections) < MaxSessions
    /\ Deliver(Len(connections) + 1, Accept(d, context), d)

\* _send_retry
SendRetry(d) ==
    /\ retries < MaxRetries
    /\ retries' = retries + 1
    /\ network' = network \cup
          {[type |-> "RETRY", to |-> d.from, scid |-> RetryCid(retries + 1),
            token |-> Mint("RETRY", d.from, d.dcid), original |-> d.dcid]}
    /\ UNCHANGED <<sessions, connections>>

\* _validate_address, and what _route does about it.
ValidateAddress(d) ==
    IF d.type # "INITIAL" THEN UNCHANGED <<sessions, connections, retries, network>>
    ELSE IF d.token = None \/ ~Validates(d.token, d.from) THEN SendRetry(d)
    ELSE DeliverNew(d, IF d.token.kind = "NEW" THEN None
                       ELSE [original |-> d.token.original, source |-> d.dcid])

\* version_negotiation_response
NegotiateVersion(d) ==
    /\ network' = network \cup {[type |-> "VERSIONS", to |-> d.from, scid |-> d.dcid]}
    /\ UNCHANGED <<sessions, connections, retries>>

LongHeader == {"INITIAL", "HANDSHAKE"}

\* _route
Route(d) ==
    /\ d \in network /\ d.type \in LongHeader \cup {"CLOSE"}
    /\ IF d.dcid \in DOMAIN sessions
       THEN Deliver(sessions[d.dcid], connections[sessions[d.dcid]], d)
       ELSE IF d.type \notin LongHeader
       THEN UNCHANGED <<sessions, connections, retries, network>>
       ELSE IF d.version # "v1" THEN NegotiateVersion(d)
       ELSE IF retry THEN ValidateAddress(d)
       ELSE DeliverNew(d, None)
    /\ UNCHANGED <<retry, token_key, connections_served, client, tokens, now>>

-----------------------------------------------------------------------------
(* The rest of a turn of the loop. *)

\* _serve_requests: the token of a session whose handshake has completed.
Serve(c) ==
    IF c.completed /\ c.token = None
    THEN [c EXCEPT !.token = Mint("NEW", c.destination, None)] ELSE c

\* Mutant: the ID of the first Initial seen is echoed, Retry or not.
SentNoOriginal(s, c) ==
    IF c.draining \/ c.completed \/ ~c.hello THEN {}
    ELSE {[type |-> "FLIGHT", to |-> c.destination, session |-> s,
           scid |-> HostCid(s), key |-> c.initial, original |-> c.initial,
           retry_source |-> IF c.retry = None THEN None ELSE c.retry.source]}

\* send_pending of session s.
Sent(s, c) ==
    IF c.draining THEN {}
    ELSE IF c.completed THEN {[type |-> "DONE", to |-> c.destination, session |-> s,
                               token |-> c.token]}
    ELSE IF c.hello THEN {[type |-> "FLIGHT", to |-> c.destination, session |-> s,
                           scid |-> HostCid(s), key |-> c.initial,
                           original |-> IF c.retry = None THEN c.initial
                                        ELSE c.retry.original,
                           retry_source |-> IF c.retry = None THEN None
                                            ELSE c.retry.source]}
    ELSE {}

\* Mutant: connection IDs are counted.
ReapPerCid(over) ==
    LET finished == {i \in DOMAIN sessions : sessions[i] \in over}
    IN  /\ sessions' = [i \in DOMAIN sessions \ finished |-> sessions[i]]
        /\ connections_served' = connections_served + Cardinality(finished)

\* _reap of the sessions that are over.
Reap(over) ==
    LET finished == {i \in DOMAIN sessions : sessions[i] \in over}
    IN  /\ sessions' = [i \in DOMAIN sessions \ finished |-> sessions[i]]
        /\ connections_served' =
              connections_served + Cardinality({sessions[i] : i \in finished})

\* poll, after the datagrams: timers, requests, sending, and the sessions that
\* are over go, by the closing or idle timer or by their deadline.
Turn ==
    \E over \in SUBSET Live :
       /\ connections' = [s \in DOMAIN connections |->
                             IF s \in Live \ over THEN Serve(connections[s])
                             ELSE connections[s]]
       /\ network' = network \cup UNION {Sent(s, connections'[s]) : s \in Live \ over}
       /\ Reap(over)
       /\ UNCHANGED <<retry, token_key, retries, client, tokens, now>>

\* The server's process is replaced.
Restart ==
    /\ token_key < MaxRestarts
    /\ token_key' = token_key + 1
    /\ sessions' = <<>> /\ connections_served' = 0
    /\ UNCHANGED <<retry, connections, retries, client, tokens, now, network>>

-----------------------------------------------------------------------------
(* The client. *)

Started == client.state # "CLOSED"

\* fetch, from a new socket: Connection and connect.
Connect(port, version) ==
    /\ ~Started /\ client.attempt < MaxAttempts
    /\ LET cid == ClientCid(client.attempt + 1)
       IN  client' = [attempt |-> client.attempt + 1, state |-> "HANDSHAKING",
                      port |-> port, version |-> version,
                      token |-> IF tokens = <<>> THEN None ELSE tokens[Len(tokens)],
                      initial_dcid |-> cid, peer_cid |-> cid, key |-> cid,
                      confirmed |-> FALSE, retry_token |-> None,
                      retry_source |-> None, session |-> 0, new_tokens |-> <<>>]
    /\ tokens' = SubSeq(tokens, 1, Len(tokens) - 1)
    /\ UNCHANGED <<serverVars, now, network>>

\* An Initial, its token the Retry's or the stored one.
SendInitial ==
    /\ client.state = "HANDSHAKING"
    /\ network' = network \cup
          {[type |-> "INITIAL", from |-> client.port, version |-> client.version,
            dcid |-> client.peer_cid, scid |-> client.attempt, key |-> client.key,
            token |-> IF client.retry_token # None THEN client.retry_token
                      ELSE client.token]}
    /\ UNCHANGED <<serverVars, client, tokens, now>>

\* Its Finished.
SendHandshake ==
    /\ client.state = "CONNECTED"
    /\ network' = network \cup
          {[type |-> "HANDSHAKE", from |-> client.port, version |-> client.version,
            dcid |-> client.peer_cid, session |-> client.session]}
    /\ UNCHANGED <<serverVars, client, tokens, now>>

Arrives(d, type) == d \in network /\ d.type = type /\ Started /\ d.to = client.port

\* Mutant: the ID of the Retry is not remembered.
HandleRetryNoSource(d) ==
    /\ Arrives(d, "RETRY")
    /\ client.retry_token = None /\ ~client.confirmed
    /\ d.original = client.initial_dcid
    /\ client' = [client EXCEPT !.retry_token = d.token, !.peer_cid = d.scid,
                                !.key = d.scid]
    /\ UNCHANGED <<serverVars, tokens, now, network>>

\* _handle_retry
HandleRetry(d) ==
    /\ Arrives(d, "RETRY")
    /\ client.retry_token = None /\ ~client.confirmed
    /\ d.original = client.initial_dcid
    /\ client' = [client EXCEPT !.retry_token = d.token, !.retry_source = d.scid,
                                !.peer_cid = d.scid, !.key = d.scid]
    /\ UNCHANGED <<serverVars, tokens, now, network>>

\* _handle_version_negotiation; fetch_negotiating has no store.
HandleVersionNegotiation(d) ==
    /\ Arrives(d, "VERSIONS")
    /\ ~client.confirmed /\ client.version # "v1" /\ d.scid = client.peer_cid
    /\ client' = [attempt |-> client.attempt, state |-> "CLOSED"]
    /\ tokens' = <<>>
    /\ UNCHANGED <<serverVars, now, network>>

\* _locate_packet, before anything is decrypted.
Locate(d) ==
    IF client.confirmed THEN client
    ELSE [client EXCEPT !.peer_cid = d.scid, !.confirmed = TRUE]

\* Mutant: the ID the server chose is not compared.
ParametersMatchAnySource(c, d) ==
    /\ d.original = c.initial_dcid
    /\ d.retry_source = c.retry_source

\* _validate_peer_parameters
ParametersMatch(c, d) ==
    /\ d.scid = c.peer_cid
    /\ d.original = c.initial_dcid
    /\ d.retry_source = c.retry_source

\* The server's flight completes the handshake, or fails it.
HandleFlight(d) ==
    /\ Arrives(d, "FLIGHT")
    /\ client' = LET c == Locate(d)
                 IN  IF c.state # "HANDSHAKING" \/ d.key # c.key THEN c
                     ELSE IF ParametersMatch(c, d)
                     THEN [c EXCEPT !.state = "CONNECTED", !.session = d.session]
                     ELSE [c EXCEPT !.state = "FAILED"]
    /\ UNCHANGED <<serverVars, tokens, now, network>>

\* NEW_TOKEN in a packet not received yet: the frame is sent again when a packet
\* that held it is taken for lost.
HandleNewToken(d) ==
    /\ Arrives(d, "DONE")
    /\ client.state = "CONNECTED" /\ d.session = client.session
    /\ Len(client.new_tokens) < MaxCopies
    /\ client' = [client EXCEPT !.new_tokens = Append(@, d.token)]
    /\ UNCHANGED <<serverVars, tokens, now, network>>

\* fetch has everything: it keeps the tokens and closes.
Finish ==
    /\ client.state = "CONNECTED"
    /\ tokens' = tokens \o client.new_tokens
    /\ network' = network \cup
          {[type |-> "CLOSE", from |-> client.port, dcid |-> client.peer_cid,
            session |-> client.session]}
    /\ client' = [attempt |-> client.attempt, state |-> "CLOSED"]
    /\ UNCHANGED <<serverVars, now>>

\* fetch raises: an error or the time is up.  The store goes with the run.
GiveUp ==
    /\ Started
    /\ client' = [attempt |-> client.attempt, state |-> "CLOSED"]
    /\ tokens' = <<>>
    /\ UNCHANGED <<serverVars, now, network>>

Tick ==
    /\ now < MaxTime
    /\ now' = now + 1
    /\ UNCHANGED <<serverVars, client, tokens, network>>

Next ==
    \/ \E d \in network : Route(d)
    \/ \E d \in network : HandleRetry(d)
    \/ \E d \in network : HandleVersionNegotiation(d)
    \/ \E d \in network : HandleFlight(d)
    \/ \E d \in network : HandleNewToken(d)
    \/ Turn \/ Restart
    \/ \E port \in Ports, version \in {"v1", "other"} : Connect(port, version)
    \/ SendInitial \/ SendHandshake \/ Finish \/ GiveUp \/ Tick

Spec == Init /\ [][Next]_vars

-----------------------------------------------------------------------------
(* Properties. *)

\* Every variable has its type.
TypeOK ==
    /\ retry \in BOOLEAN /\ token_key \in Nat /\ retries \in Nat
    /\ DOMAIN sessions \subseteq Cid /\ Live \subseteq DOMAIN connections
    /\ \A s \in DOMAIN connections : connections[s] \in Session
    /\ connections_served \in Nat
    /\ \A i \in DOMAIN tokens : tokens[i] \in Token

\* _reap: every session of this process is in the table or has been counted, once.
ServedOnce ==
    connections_served + Cardinality(Live)
       = Cardinality({s \in DOMAIN connections : connections[s].key = token_key})

\* A session in the table is found under the ID it was accepted for and under the
\* one it chose.
BothCidsRoute ==
    \A s \in Live :
       \A c \in {connections[s].cid, HostCid(s)} : c \in DOMAIN sessions /\ sessions[c] = s

\* A client that has connected and its session hold each other's connection IDs,
\* and the session knows whether there was a Retry and what it replaced.
EndsAgree ==
    client.state = "CONNECTED" =>
       LET c == connections[client.session]
       IN  /\ client.peer_cid = HostCid(client.session)
           /\ c.peer_cid = client.attempt /\ c.destination = client.port
           /\ c.retry = IF client.retry_token = None THEN None
                        ELSE [original |-> client.initial_dcid,
                              source |-> client.retry_source]

\* With retry, a session sends only where a Retry or a token was sent before.
OnlyValidatedAddresses ==
    retry => \A d \in network : d.type \in {"FLIGHT", "DONE"} =>
       \E v \in network : v.type \in {"RETRY", "DONE"} /\ v.to = d.to
                          /\ (v.type = "DONE" => v.session < d.session)

\* A client that offers a stored token meets a Retry only when the server's process
\* or the client's address is another one by then, or the token is too old.
TokenSparesRetry ==
    client.state = "HANDSHAKING" /\ client.token # None /\ client.retry_token # None =>
       \/ client.token.key # token_key \/ client.token.address # client.port
       \/ now > client.token.issued + Lifetime["NEW"]

\* A server's flight that the client can read echoes the ID the client first chose
\* and that of the Retry it followed, whatever Retries, tokens and copies there were.
RetryParametersMatch ==
    client.state = "HANDSHAKING" =>
       \A d \in network :
          d.type = "FLIGHT" /\ d.to = client.port /\ d.key = client.key =>
             d.original = client.initial_dcid /\ d.retry_source = client.retry_source

\* The check of the connection IDs fails only for a client that two sessions have
\* answered.
FailureNeedsTwoSessions ==
    client.state = "FAILED" =>
       \E d, f \in network :
          /\ d.type = "FLIGHT" /\ f.type = "FLIGHT" /\ d.session # f.session
          /\ d.to = client.port /\ f.to = client.port
=============================================================================
