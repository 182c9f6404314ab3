---------------------------- MODULE ServerProofs ----------------------------
(***************************************************************************)
(* Proofs about Server, for any number of clients' addresses, attempts,    *)
(* sessions, Retries, restarts and clock ticks: the invariants of the      *)
(* connection table, of the tokens and of the connection IDs.              *)
(*                                                                         *)
(* The inductive invariant says what every datagram ever sent still says   *)
(* truly, what a session remembers of the Initial that began it, and where *)
(* what a client holds came from.  The network and the list of sessions    *)
(* only grow, so most of it is kept by growth alone (Grows).               *)
(***************************************************************************)
EXTENDS Server, FiniteSetTheorems, TLAPS

\* The tokens that sessions have handed out.
NewTokens == {d.token : d \in {m \in network : m.type = "DONE"}}

\* A started connection of the client.
ClientRecord ==
    [attempt : 1 .. MaxAttempts, state : {"HANDSHAKING", "CONNECTED", "FAILED"},
     port : Ports, version : {"v1", "other"}, token : Token \cup {None},
     initial_dcid : Cid, peer_cid : Cid, key : Cid, confirmed : BOOLEAN,
     retry_token : Token \cup {None}, retry_source : Cid \cup {None},
     session : Nat, new_tokens : Seq(Token)]

\* The types of the variables.
TypesInv ==
    /\ retry \in BOOLEAN /\ token_key \in Nat /\ now \in Nat
    /\ retries \in 0 .. MaxRetries
    /\ connections \in Seq(Session) /\ Len(connections) <= MaxSessions
    /\ DOMAIN sessions \subseteq Cid
    /\ sessions \in [DOMAIN sessions -> DOMAIN connections]
    /\ connections_served \in Nat
    /\ client.attempt \in 0 .. MaxAttempts
    /\ Started => client \in ClientRecord
    /\ tokens \in Seq(NewTokens)

\* The table: whose sessions it holds, and under which IDs.
TableInv ==
    /\ BothCidsRoute /\ ServedOnce
    /\ \A s \in DOMAIN connections : connections[s].key <= token_key
    /\ \A s \in Live : connections[s].key = token_key
    /\ \A n \in 1 .. MaxSessions : HostCid(n) \in DOMAIN sessions => n \in DOMAIN connections

\* A Retry: its connection ID is the n-th, its token vouches for where it went.
RetryMsg(d) ==
    /\ retry /\ d.to \in Ports
    /\ \E n \in 1 .. retries : d.scid = RetryCid(n)
    /\ d.token \in Token /\ d.token.kind = "RETRY" /\ d.token.address = d.to
    /\ d.original \in Cid /\ d.token.original = d.original
    /\ \A n \in 1 .. MaxAttempts : d.original = ClientCid(n) => n <= client.attempt

\* A server's flight says what its session says.
FlightMsg(d) ==
    /\ d.session \in DOMAIN connections
    /\ LET c == connections[d.session]
       IN  /\ d.to = c.destination /\ d.scid = HostCid(d.session)
           /\ c.initial # None /\ d.key = c.initial
           /\ d.original = IF c.retry = None THEN c.initial ELSE c.retry.original
           /\ d.retry_source = IF c.retry = None THEN None ELSE c.retry.source

\* A NEW_TOKEN carries a token for the address of its session.
DoneMsg(d) ==
    /\ d.session \in DOMAIN connections
    /\ d.to = connections[d.session].destination
    /\ d.token \in Token /\ d.token.kind = "NEW" /\ d.token.address = d.to
    /\ d.token.key <= token_key

\* The Retry d answers with connection ID cid the attempt a.
Answers(d, cid, a) == d.type = "RETRY" /\ d.scid = cid /\ d.original = ClientCid(a)

\* The ID of a session.
ChosenCid(cid) == \E n \in DOMAIN connections : cid = HostCid(n)

\* An Initial goes to the ID its attempt drew, to that of the Retry it follows,
\* with the token of that Retry, or to a session.
InitialMsg(d) ==
    /\ d.from \in Ports /\ d.scid \in 1 .. client.attempt
    /\ \/ d.dcid = ClientCid(d.scid) /\ d.token \in NewTokens \cup {None}
       \/ \E r \in network : Answers(r, d.dcid, d.scid) /\ d.token = r.token
       \/ /\ ChosenCid(d.dcid)
          /\ d.token \in NewTokens \cup {None}
                \cup {r.token : r \in {m \in network : m.type = "RETRY"}}

\* A later packet of a client goes to a session.
LaterMsg(d) == d.from \in Ports /\ ChosenCid(d.dcid)

\* What a datagram says is true.
MessageOK(d) ==
    /\ d.type = "RETRY" => RetryMsg(d)
    /\ d.type = "FLIGHT" => FlightMsg(d)
    /\ d.type = "DONE" => DoneMsg(d)
    /\ d.type = "INITIAL" => InitialMsg(d)
    /\ d.type \in {"HANDSHAKE", "CLOSE"} => LaterMsg(d)

\* No two Retries have the same connection ID.
RetriesDiffer ==
    \A d, e \in network :
       d.type = "RETRY" /\ e.type = "RETRY" /\ d.scid = e.scid => d = e

MessagesInv == RetriesDiffer /\ \A d \in network : MessageOK(d)

\* Something was sent to this address before session s.
Validated(address, s) ==
    \E v \in network : /\ v.type \in {"RETRY", "DONE"} /\ v.to = address
                       /\ v.type = "DONE" => v.session < s

\* The Initial that gave a session its IDs.
BegunBy(c, d) == d.type = "INITIAL" /\ d.dcid = c.initial /\ d.scid = c.peer_cid

\* The Initial whose token validated the address of a session.
AdmittedBy(c, d) ==
    /\ d.type = "INITIAL" /\ d.dcid = c.initial /\ d.token # None
    /\ c.retry = IF d.token.kind = "NEW" THEN None
                 ELSE [original |-> d.token.original, source |-> d.dcid]

\* Session s, now c, remembers the Initial that began it and, with retry, the
\* token of that Initial.
SessionOK(s, c) ==
    /\ c.initial = None => c.peer_cid = 0
    /\ c.initial # None => \E d \in network : BegunBy(c, d)
    /\ c.hello => c.initial # None
    /\ ~retry => c.retry = None
    /\ retry => /\ Validated(c.destination, s)
                /\ \E d \in network : AdmittedBy(c, d)
    /\ c.token # None => /\ c.token.kind = "NEW" /\ c.token.key <= token_key
                         /\ c.token.address = c.destination

SessionsInv == \A s \in DOMAIN connections : SessionOK(s, connections[s])

\* A token that no longer validates at this address, and never will.
Stale(token, address) ==
    \/ token.key # token_key \/ token.address # address
    \/ now > token.issued + Lifetime["NEW"]

\* What a started client holds comes from the network.
ClientInv ==
    Started =>
       /\ client.initial_dcid = ClientCid(client.attempt)
       /\ client.token \in NewTokens \cup {None}
       /\ client.new_tokens \in Seq(NewTokens)
       /\ IF client.retry_token = None
          THEN client.retry_source = None /\ client.key = client.initial_dcid
          ELSE /\ client.retry_source = client.key
               /\ \E r \in network : /\ Answers(r, client.key, client.attempt)
                                     /\ r.token = client.retry_token
       /\ IF client.confirmed
          THEN \E f \in network : /\ f.type = "FLIGHT" /\ f.to = client.port
                                  /\ f.scid = client.peer_cid
          ELSE client.peer_cid = client.key
       /\ \A d \in network : d.type = "INITIAL" /\ d.dcid = client.initial_dcid =>
             d.token = client.token /\ d.from = client.port
       /\ client.token # None => \A r \in network :
             r.type = "RETRY" /\ r.original = client.initial_dcid =>
                Stale(client.token, client.port)
       /\ client.state = "CONNECTED" => /\ client.confirmed
             /\ \E d \in network : /\ d.type = "FLIGHT" /\ d.to = client.port
                   /\ d.session = client.session /\ d.key = client.key
                   /\ ParametersMatch(client, d)
       /\ FailureNeedsTwoSessions

\* The inductive invariant of Server.
SInv == TypesInv /\ TableInv /\ MessagesInv /\ SessionsInv /\ ClientInv

-----------------------------------------------------------------------------
(* Connection IDs, and growth. *)

\* Connection IDs drawn by different parties, or at different times, differ.
LEMMA CidFacts ==
    /\ \A n \in 1 .. MaxAttempts : ClientCid(n) \in Cid
    /\ \A n \in 1 .. MaxRetries : RetryCid(n) \in Cid
    /\ \A n \in 1 .. MaxSessions : HostCid(n) \in Cid
    /\ \A m, n : /\ ClientCid(m) = ClientCid(n) => m = n
                 /\ RetryCid(m) = RetryCid(n) => m = n
                 /\ HostCid(m) = HostCid(n) => m = n
                 /\ ClientCid(m) # RetryCid(n)
                 /\ ClientCid(m) # HostCid(n)
                 /\ RetryCid(m) # HostCid(n)
<1>1. \A m, n : /\ ClientCid(m) = ClientCid(n) => m = n
                /\ RetryCid(m) = RetryCid(n) => m = n
                /\ HostCid(m) = HostCid(n) => m = n
                /\ ClientCid(m) # RetryCid(n)
                /\ ClientCid(m) # HostCid(n)
                /\ RetryCid(m) # HostCid(n)
  BY DEF ClientCid, RetryCid, HostCid
<1>2. /\ \A n \in 1 .. MaxAttempts : ClientCid(n) \in Cid
      /\ \A n \in 1 .. MaxRetries : RetryCid(n) \in Cid
      /\ \A n \in 1 .. MaxSessions : HostCid(n) \in Cid
  BY DEF ClientCid, RetryCid, HostCid, Cid
<1> QED BY <1>1, <1>2

\* None is none of the values it stands beside.
LEMMA NoneFacts ==
    /\ \A c \in Cid : c # None
    /\ \A t \in Token : t # None
    /\ \A r \in RetryContext : r # None
BY NoneIsNoValue

\* What a session never changes, and what it adopts once.
SameSession(c, e) ==
    /\ e.key = c.key /\ e.cid = c.cid /\ e.retry = c.retry
    /\ e.destination = c.destination
    /\ c.initial # None => e.initial = c.initial /\ e.peer_cid = c.peer_cid

\* No step takes back a datagram, a session or what a session has adopted.
Grows ==
    /\ network \subseteq network'
    /\ connections' \in Seq(Session) /\ Len(connections) <= Len(connections')
    /\ \A s \in DOMAIN connections : SameSession(connections[s], connections'[s])
    /\ token_key' \in Nat /\ token_key <= token_key'
    /\ retries' \in Nat /\ retries <= retries'
    /\ client'.attempt \in Nat /\ client.attempt <= client'.attempt
    /\ retry' = retry

\* The list of sessions.
LEMMA SessionTyped ==
    ASSUME TypesInv
    PROVE  /\ Len(connections) \in Nat /\ DOMAIN connections = 1 .. Len(connections)
           /\ \A s \in DOMAIN connections : connections[s] \in Session
<1>1. connections \in Seq(Session)
  BY DEF TypesInv
<1> QED BY <1>1

\* A session of the list stays in it.
LEMMA DomainGrows ==
    ASSUME TypesInv, Grows
    PROVE  DOMAIN connections \subseteq DOMAIN connections'
  BY DEF TypesInv, Grows

\* A token once handed out stays handed out.
LEMMA NewTokensGrow ==
    ASSUME network \subseteq network'
    PROVE  /\ NewTokens \subseteq NewTokens'
           /\ {r.token : r \in {m \in network : m.type = "RETRY"}}
                  \subseteq {r.token : r \in {m \in network' : m.type = "RETRY"}}
  BY DEF NewTokens

\* What a datagram said stays true.
LEMMA MessageKept ==
    ASSUME TypesInv, Grows, NEW d \in network, MessageOK(d)
    PROVE  MessageOK(d)'
<1> USE DomainGrows
<1>1. d.type = "RETRY" => RetryMsg(d)'
  <2> SUFFICES ASSUME RetryMsg(d) PROVE RetryMsg(d)'
    BY DEF MessageOK
  <2>1. \E n \in 1 .. retries' : d.scid = RetryCid(n)
    BY DEF RetryMsg, Grows, TypesInv
  <2>2. \A n \in 1 .. MaxAttempts : d.original = ClientCid(n) => n <= client'.attempt
    BY DEF RetryMsg, Grows, TypesInv
  <2> QED BY <2>1, <2>2 DEF RetryMsg, Grows
<1>2. d.type = "FLIGHT" => FlightMsg(d)'
  <2> SUFFICES ASSUME FlightMsg(d) PROVE FlightMsg(d)'
    BY DEF MessageOK
  <2>1. /\ d.session \in DOMAIN connections /\ d.session \in DOMAIN connections'
        /\ SameSession(connections[d.session], connections'[d.session])
    BY DEF FlightMsg, Grows
  <2> QED BY <2>1 DEF FlightMsg, SameSession
<1>3. d.type = "DONE" => DoneMsg(d)'
  <2> SUFFICES ASSUME DoneMsg(d) PROVE DoneMsg(d)'
    BY DEF MessageOK
  <2>1. /\ d.session \in DOMAIN connections /\ d.session \in DOMAIN connections'
        /\ connections'[d.session].destination = connections[d.session].destination
    BY DEF DoneMsg, Grows, SameSession
  <2>2. d.token.key <= token_key'
    BY DEF DoneMsg, Grows, Token, TypesInv
  <2> QED BY <2>1, <2>2 DEF DoneMsg
<1>4. ASSUME NEW c, ChosenCid(c) PROVE ChosenCid(c)'
  BY <1>4 DEF ChosenCid
<1>5. d.type = "INITIAL" => InitialMsg(d)'
  <2> SUFFICES ASSUME InitialMsg(d) PROVE InitialMsg(d)'
    BY DEF MessageOK
  <2>1. d.from \in Ports /\ d.scid \in 1 .. client'.attempt
    BY DEF InitialMsg, Grows, TypesInv
  <2>2. CASE d.dcid = ClientCid(d.scid) /\ d.token \in NewTokens \cup {None}
    BY <2>1, <2>2, NewTokensGrow DEF InitialMsg, Grows
  <2>3. CASE \E r \in network : Answers(r, d.dcid, d.scid) /\ d.token = r.token
    BY <2>1, <2>3 DEF InitialMsg, Grows, Answers
  <2>4. CASE /\ ChosenCid(d.dcid)
             /\ d.token \in NewTokens \cup {None}
                   \cup {r.token : r \in {m \in network : m.type = "RETRY"}}
    BY <1>4, <2>1, <2>4, NewTokensGrow, Zenon DEF InitialMsg, Grows
  <2> QED BY <2>2, <2>3, <2>4 DEF InitialMsg
<1>6. d.type \in {"HANDSHAKE", "CLOSE"} => LaterMsg(d)'
  BY <1>4 DEF MessageOK, LaterMsg
<1> QED BY <1>1, <1>2, <1>3, <1>5, <1>6, Zenon DEF MessageOK

\* What a session remembered stays true, if it is unchanged.
LEMMA SessionKept ==
    ASSUME TypesInv, Grows, NEW s, NEW c \in Session, SessionOK(s, c)
    PROVE  SessionOK(s, c)'
<1>1. retry' = retry /\ network \subseteq network' /\ retry \in BOOLEAN
  BY DEF Grows, TypesInv
<1>2. c.initial # None => \E d \in network' : BegunBy(c, d)
  BY <1>1 DEF SessionOK
<1>3. retry => /\ Validated(c.destination, s)'
               /\ \E d \in network' : AdmittedBy(c, d)
  BY <1>1 DEF SessionOK, Validated
<1>4. c.token # None => c.token.key <= token_key'
  BY DEF SessionOK, Session, Token, Grows, TypesInv
<1> QED BY <1>1, <1>2, <1>3, <1>4 DEF SessionOK

\* What a client held stays true: a token stays stale, and new datagrams say
\* nothing else of this attempt.
LEMMA ClientKept ==
    ASSUME TypesInv, MessagesInv, ClientInv, Grows, client' = client,
           now' \in Nat, now <= now',
           \A d \in network' \ network : Started =>
              /\ d.type = "INITIAL" /\ d.dcid = client.initial_dcid =>
                    d.token = client.token /\ d.from = client.port
              /\ d.type = "RETRY" /\ d.original = client.initial_dcid
                 /\ client.token # None => Stale(client.token, client.port)'
    PROVE  ClientInv'
<1> SUFFICES ASSUME Started PROVE ClientInv'
  BY DEF ClientInv, Started
<1>1. network \subseteq network'
  BY DEF Grows
<1>2. NewTokens \subseteq NewTokens'
  BY <1>1, NewTokensGrow
<1>3. client.token \in NewTokens' \cup {None}
  BY <1>2 DEF ClientInv
<1>4. client.new_tokens \in Seq(NewTokens')
  BY <1>2 DEF ClientInv
<1>5. client.token # None => /\ client.token \in Token /\ client.token.key <= token_key
  <2> SUFFICES ASSUME client.token # None
               PROVE  client.token \in Token /\ client.token.key <= token_key
    OBVIOUS
  <2>1. PICK d \in network : d.type = "DONE" /\ client.token = d.token
    BY DEF ClientInv, NewTokens
  <2> QED BY <2>1 DEF MessagesInv, MessageOK, DoneMsg
<1>6. ASSUME client.token # None, Stale(client.token, client.port)
      PROVE  Stale(client.token, client.port)'
  <2>1. /\ client.token.key \in Nat /\ client.token.issued \in Nat
        /\ client.token.key <= token_key
    BY <1>5, <1>6 DEF Token
  <2>2. token_key \in Nat /\ token_key' \in Nat /\ token_key <= token_key' /\ now \in Nat
    BY DEF TypesInv, Grows
  <2>3. Lifetime["NEW"] \in Nat
    BY ServerConstants
  <2> QED BY <1>6, <2>1, <2>2, <2>3 DEF Stale
<1>7. client.token # None => \A r \in network' :
         r.type = "RETRY" /\ r.original = client.initial_dcid =>
            Stale(client.token, client.port)'
  BY <1>6 DEF ClientInv
<1>8. \A d \in network' : d.type = "INITIAL" /\ d.dcid = client.initial_dcid =>
         d.token = client.token /\ d.from = client.port
  BY DEF ClientInv
<1>9. IF client.retry_token = None
      THEN client.retry_source = None /\ client.key = client.initial_dcid
      ELSE /\ client.retry_source = client.key
           /\ \E r \in network' : /\ Answers(r, client.key, client.attempt)
                                  /\ r.token = client.retry_token
  BY <1>1 DEF ClientInv
<1>10. IF client.confirmed
       THEN \E f \in network' : /\ f.type = "FLIGHT" /\ f.to = client.port
                                /\ f.scid = client.peer_cid
       ELSE client.peer_cid = client.key
  BY <1>1 DEF ClientInv
<1>11. client.state = "CONNECTED" => /\ client.confirmed
             /\ \E d \in network' : /\ d.type = "FLIGHT" /\ d.to = client.port
                   /\ d.session = client.session /\ d.key = client.key
                   /\ ParametersMatch(client, d)
  BY <1>1 DEF ClientInv
<1>12. FailureNeedsTwoSessions'
  BY <1>1 DEF ClientInv, FailureNeedsTwoSessions
<1>13. client.initial_dcid = ClientCid(client.attempt)
  BY DEF ClientInv
<1> QED BY <1>3, <1>4, <1>7, <1>8, <1>9, <1>10, <1>11, <1>12, <1>13, Zenon DEF ClientInv

-----------------------------------------------------------------------------
(* What the invariant says of a client and its session. *)

\* A handed-out token is one, for the address it went to.
LEMMA NewTokenFacts ==
    ASSUME MessagesInv, NEW t \in NewTokens
    PROVE  /\ t \in Token /\ t.kind = "NEW" /\ t.key <= token_key /\ t # None
           /\ \E d \in network : d.type = "DONE" /\ d.token = t /\ d.to = t.address
<1>1. PICK d \in network : d.type = "DONE" /\ t = d.token
  BY DEF NewTokens
<1>2. DoneMsg(d)
  BY <1>1 DEF MessagesInv, MessageOK
<1> QED BY <1>1, <1>2, NoneFacts DEF DoneMsg

\* An Initial to the ID an attempt drew is of that attempt, with no Retry token.
LEMMA InitialToClientCid ==
    ASSUME MessagesInv, NEW d \in network, d.type = "INITIAL", NEW n, d.dcid = ClientCid(n)
    PROVE  d.scid = n /\ d.token \in NewTokens \cup {None}
<1>1. InitialMsg(d)
  BY DEF MessagesInv, MessageOK
<1>2. ASSUME NEW r \in network, Answers(r, d.dcid, d.scid) PROVE FALSE
  <2>1. PICK m : d.dcid = RetryCid(m)
    BY <1>2 DEF MessagesInv, MessageOK, RetryMsg, Answers
  <2> QED BY <2>1, CidFacts, Zenon
<1>3. ~ChosenCid(d.dcid)
  BY CidFacts DEF ChosenCid
<1>4. d.dcid = ClientCid(d.scid) /\ d.token \in NewTokens \cup {None}
  BY <1>1, <1>2, <1>3 DEF InitialMsg
<1> QED BY <1>4, CidFacts, Zenon

\* An Initial to the ID of a Retry is of the attempt the Retry answered, with
\* its token.
LEMMA InitialToRetryCid ==
    ASSUME MessagesInv, NEW d \in network, d.type = "INITIAL",
           NEW r \in network, NEW n, Answers(r, d.dcid, n)
    PROVE  d.scid = n /\ d.token = r.token
<1>1. InitialMsg(d) /\ RetryMsg(r)
  BY DEF MessagesInv, MessageOK, Answers
<1>2. PICK m : d.dcid = RetryCid(m)
  BY <1>1 DEF RetryMsg, Answers
<1>3. ~ChosenCid(d.dcid) /\ d.dcid # ClientCid(d.scid)
  BY <1>2, CidFacts DEF ChosenCid
<1>4. PICK q \in network : Answers(q, d.dcid, d.scid) /\ d.token = q.token
  BY <1>1, <1>3 DEF InitialMsg
<1>5. q = r
  BY <1>4 DEF MessagesInv, RetriesDiffer, Answers
<1> QED BY <1>4, <1>5, CidFacts DEF Answers

\* A flight the client can read comes from a session that one of its Initials
\* began, and that knows of the Retry the client followed.
LEMMA ReadableFlight ==
    ASSUME SInv, Started, NEW d \in network, d.type = "FLIGHT", d.key = client.key
    PROVE  /\ d.original = client.initial_dcid
           /\ d.retry_source = client.retry_source
           /\ connections[d.session].peer_cid = client.attempt
           /\ connections[d.session].retry =
                 IF client.retry_token = None THEN None
                 ELSE [original |-> client.initial_dcid, source |-> client.retry_source]
<1> DEFINE c == connections[d.session]
<1>1. FlightMsg(d)
  BY DEF SInv, MessagesInv, MessageOK
<1>2. /\ d.session \in DOMAIN connections /\ c \in Session /\ SessionOK(d.session, c)
      /\ c.initial # None /\ c.initial = client.key
      /\ d.original = IF c.retry = None THEN c.initial ELSE c.retry.original
      /\ d.retry_source = IF c.retry = None THEN None ELSE c.retry.source
  BY <1>1 DEF FlightMsg, SInv, SessionsInv, TypesInv
<1>3. /\ client.initial_dcid = ClientCid(client.attempt) /\ client.initial_dcid \in Cid
      /\ client.key \in Cid
  BY DEF SInv, ClientInv, TypesInv, ClientRecord
<1> HIDE DEF c
<1>4. PICK b \in network : BegunBy(c, b)
  BY <1>2 DEF SessionOK
<1>5. CASE client.retry_token = None
  <2>1. client.key = ClientCid(client.attempt) /\ client.retry_source = None
    BY <1>3, <1>5 DEF SInv, ClientInv
  <2>2. c.peer_cid = client.attempt
    BY <1>2, <1>4, <2>1, InitialToClientCid DEF SInv, BegunBy
  <2>3. c.retry = None
    <3>1. CASE ~retry
      BY <1>2, <3>1 DEF SessionOK
    <3>2. CASE retry
      <4>1. PICK a \in network : AdmittedBy(c, a)
        BY <1>2, <3>2 DEF SessionOK
      <4>2. a.token \in NewTokens
        BY <1>2, <2>1, <4>1, InitialToClientCid DEF SInv, AdmittedBy
      <4>3. a.token.kind = "NEW"
        BY <4>2, NewTokenFacts, Zenon DEF SInv
      <4> QED BY <4>1, <4>3 DEF AdmittedBy
    <3> QED BY <3>1, <3>2
  <2> QED BY <1>2, <1>3, <1>5, <2>1, <2>2, <2>3, Zenon DEF c
<1>6. CASE client.retry_token # None
  <2>1. PICK r \in network : Answers(r, client.key, client.attempt)
    BY <1>6 DEF SInv, ClientInv
  <2>2. client.retry_source = client.key
    BY <1>6 DEF SInv, ClientInv
  <2>3. RetryMsg(r)
    BY <2>1 DEF SInv, MessagesInv, MessageOK, Answers
  <2>4. c.peer_cid = client.attempt
    BY <1>2, <1>4, <2>1, InitialToRetryCid DEF SInv, BegunBy
  <2>5. PICK a \in network : AdmittedBy(c, a)
    BY <1>2, <2>3, Zenon DEF SessionOK, RetryMsg
  <2>6. a.token = r.token
    BY <1>2, <2>1, <2>5, InitialToRetryCid DEF SInv, AdmittedBy
  <2>7. c.retry = [original |-> client.initial_dcid, source |-> client.key]
    <3>1. a.token.kind = "RETRY" /\ a.token.original = client.initial_dcid
      BY <1>3, <2>1, <2>3, <2>6 DEF RetryMsg, Answers
    <3>2. a.dcid = client.key
      BY <1>2, <2>5 DEF AdmittedBy
    <3> QED BY <2>5, <3>1, <3>2 DEF AdmittedBy
  <2>8. c.retry # None
    <3>1. c.retry \in RetryContext
      BY <1>3, <2>7 DEF RetryContext
    <3> QED BY <3>1, NoneFacts
  <2>9. c.retry.original = client.initial_dcid /\ c.retry.source = client.key
    BY <2>7
  <2> QED BY <1>2, <1>6, <2>2, <2>4, <2>7, <2>8, <2>9, Zenon DEF c
<1> QED BY <1>5, <1>6

-----------------------------------------------------------------------------
(* Steps of the client. *)

\* The table keeps while the server does nothing.
LEMMA TableKept ==
    ASSUME TableInv, UNCHANGED <<token_key, sessions, connections, connections_served>>
    PROVE  TableInv'
  BY DEF TableInv, BothCidsRoute, ServedOnce, Live

\* A step that leaves the server alone grows.
LEMMA GrowsAlone ==
    ASSUME TypesInv, UNCHANGED serverVars, network \subseteq network',
           client'.attempt \in Nat, client.attempt <= client'.attempt
    PROVE  Grows
  BY DEF TypesInv, serverVars, Grows, SameSession

\* What a step that leaves the server alone has to show.
LEMMA ServerAlone ==
    ASSUME SInv, UNCHANGED serverVars, network \subseteq network',
           client'.attempt \in Nat, client.attempt <= client'.attempt,
           \A d \in network' \ network : d.type # "RETRY" /\ MessageOK(d)'
    PROVE  TableInv' /\ MessagesInv' /\ SessionsInv' /\ Grows
<1>1. Grows
  BY GrowsAlone DEF SInv
<1>2. TableInv'
  BY TableKept DEF SInv, serverVars
<1>3. \A d \in network' : MessageOK(d)'
  BY <1>1, MessageKept DEF SInv, MessagesInv
<1>4. RetriesDiffer'
  BY DEF SInv, MessagesInv, RetriesDiffer
<1>5. ASSUME NEW s \in DOMAIN connections' PROVE SessionOK(s, connections[s])'
  <2>1. PICK e : e = connections[s] /\ e = connections'[s] /\ s \in DOMAIN connections
    BY DEF serverVars
  <2>2. e \in Session /\ SessionOK(s, e)
    BY <2>1, SessionTyped, Zenon DEF SInv, SessionsInv
  <2>3. SessionOK(s, e)'
    BY <1>1, <2>2, SessionKept DEF SInv
  <2> QED BY <2>1, <2>3
<1>6. SessionsInv'
  BY <1>5 DEF SessionsInv
<1> QED BY <1>1, <1>2, <1>3, <1>4, <1>6, Zenon DEF MessagesInv

\* The types after a step that leaves the server alone.
LEMMA TypesAlone ==
    ASSUME TypesInv, UNCHANGED serverVars, now' \in Nat,
           client'.attempt \in 0 .. MaxAttempts, Started' => client' \in ClientRecord,
           tokens' \in Seq(NewTokens')
    PROVE  TypesInv'
  BY DEF TypesInv, serverVars

\* A client whose connection is over.
Over == client' = [attempt |-> client.attempt, state |-> "CLOSED"]

\* It holds nothing of the network any more.
LEMMA OverKeeps ==
    ASSUME TypesInv, Over
    PROVE  /\ ClientInv' /\ ~Started' /\ client'.attempt = client.attempt
           /\ client'.attempt \in 0 .. MaxAttempts
  BY DEF Over, Started, ClientInv, TypesInv

\* The bounds on attempts are naturals.
LEMMA AttemptNat ==
    ASSUME TypesInv
    PROVE  MaxAttempts \in Nat /\ client.attempt \in Nat /\ client.attempt <= client.attempt
  BY ServerConstants DEF TypesInv

\* A started client has its type.
LEMMA StartedTyped ==
    ASSUME SInv, Started
    PROVE  client \in ClientRecord /\ ClientInv
  BY DEF SInv, TypesInv

\* A confirmed client addresses a session.
LEMMA ConfirmedCid ==
    ASSUME SInv, Started, client.confirmed
    PROVE  ChosenCid(client.peer_cid)
<1>1. PICK f \in network : f.type = "FLIGHT" /\ f.scid = client.peer_cid
  BY StartedTyped DEF ClientInv
<1>2. FlightMsg(f)
  BY <1>1 DEF SInv, MessagesInv, MessageOK
<1> QED BY <1>1, <1>2 DEF FlightMsg, ChosenCid

\* Connecting draws a connection ID no datagram names.
LEMMA ConnectStep ==
    ASSUME SInv, NEW port \in Ports, NEW version \in {"v1", "other"},
           Connect(port, version)
    PROVE  SInv'
<1> DEFINE a == client.attempt + 1
<1>1. PICK cid : cid = ClientCid(a)
  OBVIOUS
<1>2. /\ ~Started /\ client.attempt < MaxAttempts /\ UNCHANGED <<serverVars, now, network>>
      /\ client' = [attempt |-> a, state |-> "HANDSHAKING",
                    port |-> port, version |-> version,
                    token |-> IF tokens = <<>> THEN None ELSE tokens[Len(tokens)],
                    initial_dcid |-> cid, peer_cid |-> cid, key |-> cid,
                    confirmed |-> FALSE, retry_token |-> None,
                    retry_source |-> None, session |-> 0, new_tokens |-> <<>>]
      /\ tokens' = SubSeq(tokens, 1, Len(tokens) - 1)
  BY <1>1 DEF Connect
<1>3. /\ a \in 1 .. MaxAttempts /\ client'.attempt = a /\ cid \in Cid
      /\ client'.attempt \in Nat /\ client.attempt <= client'.attempt
      /\ client.attempt \in Nat
  BY <1>1, <1>2, AttemptNat, CidFacts DEF SInv
<1>4. NewTokens' = NewTokens /\ network' = network
  BY <1>2 DEF NewTokens
<1>5. tokens \in Seq(NewTokens)
  BY DEF SInv, TypesInv
<1>6. PICK t : /\ t = (IF tokens = <<>> THEN None ELSE tokens[Len(tokens)])
               /\ t \in NewTokens \cup {None}
  BY <1>5
<1>7. tokens' \in Seq(NewTokens)
  BY <1>2, <1>5
<1>8. t \in Token \cup {None}
  BY <1>6, NewTokenFacts, Zenon DEF SInv
<1>9. client' \in ClientRecord
  BY <1>2, <1>3, <1>6, <1>8 DEF ClientRecord
<1>10. TypesInv'
  <2>1. now' \in Nat /\ client'.attempt \in 0 .. MaxAttempts
    BY <1>2, <1>3 DEF SInv, TypesInv
  <2> QED BY <1>2, <1>4, <1>7, <1>9, <2>1, TypesAlone, Zenon DEF SInv
<1>11. TableInv' /\ MessagesInv' /\ SessionsInv'
  BY <1>2, <1>3, <1>4, ServerAlone, Zenon
<1>12. ASSUME NEW d \in network, d.type = "INITIAL", d.dcid = cid PROVE FALSE
  <2>1. d.scid = a
    BY <1>1, <1>12, InitialToClientCid, Zenon DEF SInv
  <2>2. d.scid <= client.attempt
    BY <1>12, <1>3 DEF SInv, MessagesInv, MessageOK, InitialMsg
  <2> QED BY <1>3, <2>1, <2>2
<1>13. ASSUME NEW r \in network, r.type = "RETRY", r.original = cid PROVE FALSE
  <2>1. a <= client.attempt
    BY <1>1, <1>3, <1>13, Zenon DEF SInv, MessagesInv, MessageOK, RetryMsg
  <2> QED BY <1>3, <2>1
<1>14. ClientInv'
  <2>1. /\ client'.initial_dcid = ClientCid(client'.attempt)
        /\ client'.token \in NewTokens' \cup {None}
        /\ client'.new_tokens \in Seq(NewTokens')
        /\ client'.retry_token = None /\ client'.retry_source = None
        /\ client'.key = client'.initial_dcid /\ ~client'.confirmed
        /\ client'.peer_cid = client'.key
        /\ client'.state = "HANDSHAKING" /\ client'.initial_dcid = cid
    BY <1>1, <1>2, <1>4, <1>6
  <2>2. FailureNeedsTwoSessions'
    BY <2>1 DEF FailureNeedsTwoSessions
  <2> QED BY <1>4, <1>12, <1>13, <2>1, <2>2, Zenon DEF ClientInv
<1> QED BY <1>10, <1>11, <1>14 DEF SInv

\* An Initial says which attempt it is of, and carries the Retry's token once
\* there is one.
LEMMA SendInitialStep ==
    ASSUME SInv, SendInitial
    PROVE  SInv'
<1>0. Started /\ client.state = "HANDSHAKING"
  BY DEF SendInitial, Started
<1>1. PICK m : /\ m = [type |-> "INITIAL", from |-> client.port, version |-> client.version,
                       dcid |-> client.peer_cid, scid |-> client.attempt,
                       key |-> client.key,
                       token |-> IF client.retry_token # None THEN client.retry_token
                                 ELSE client.token]
               /\ network' = network \cup {m}
  BY Zenon DEF SendInitial
<1>2. UNCHANGED <<serverVars, client, tokens, now>>
  BY DEF SendInitial
<1>3. /\ m.type = "INITIAL" /\ m.from = client.port /\ m.dcid = client.peer_cid
      /\ m.scid = client.attempt
      /\ m.token = IF client.retry_token # None THEN client.retry_token ELSE client.token
  BY <1>1
<1>4. network \subseteq network' /\ NewTokens \subseteq NewTokens'
  BY <1>1, NewTokensGrow
<1>5. client \in ClientRecord /\ ClientInv
  BY <1>0, StartedTyped
<1>6. MessageOK(m)'
  <2>1. m.from \in Ports /\ m.scid \in 1 .. client'.attempt
    BY <1>2, <1>3, <1>5 DEF ClientRecord
  <2>2. \/ m.dcid = ClientCid(m.scid) /\ m.token \in NewTokens' \cup {None}
        \/ \E r \in network' : Answers(r, m.dcid, m.scid) /\ m.token = r.token
        \/ /\ ChosenCid(m.dcid)'
           /\ m.token \in NewTokens' \cup {None}
                 \cup {r.token : r \in {x \in network' : x.type = "RETRY"}}
    <3>1. CASE client.retry_token = None
      <4>1. m.token \in NewTokens' \cup {None}
        BY <1>0, <1>3, <1>4, <1>5, <3>1, Zenon DEF ClientInv
      <4>2. CASE client.confirmed
        <5>1. ChosenCid(m.dcid)'
          BY <1>0, <1>2, <1>3, <4>2, ConfirmedCid, Zenon DEF ChosenCid, serverVars
        <5> QED BY <4>1, <5>1
      <4>3. CASE ~client.confirmed
        BY <1>0, <1>3, <1>5, <3>1, <4>1, <4>3, Zenon DEF ClientInv
      <4> QED BY <4>2, <4>3, Zenon
    <3>2. CASE client.retry_token # None
      <4>1. PICK r \in network : /\ Answers(r, client.key, client.attempt)
                                 /\ r.token = client.retry_token
        BY <1>0, <1>5, <3>2 DEF ClientInv
      <4>2. r \in network' /\ m.token = r.token /\ r.type = "RETRY"
        BY <1>3, <1>4, <3>2, <4>1 DEF Answers
      <4>3. CASE client.confirmed
        <5>1. ChosenCid(m.dcid)'
          BY <1>0, <1>2, <1>3, <4>3, ConfirmedCid, Zenon DEF ChosenCid, serverVars
        <5> QED BY <4>2, <5>1
      <4>4. CASE ~client.confirmed
        <5>1. m.dcid = client.key
          BY <1>0, <1>3, <1>5, <4>4, Zenon DEF ClientInv
        <5> QED BY <1>3, <4>1, <4>2, <5>1, Zenon
      <4> QED BY <4>3, <4>4
    <3> QED BY <3>1, <3>2, Zenon
  <2>3. InitialMsg(m)'
    BY <2>1, <2>2 DEF InitialMsg
  <2> QED BY <1>3, <2>3 DEF MessageOK
<1>7. TableInv' /\ MessagesInv' /\ SessionsInv' /\ Grows
  <2>1. client'.attempt \in Nat /\ client.attempt <= client'.attempt
    BY <1>2, AttemptNat DEF SInv
  <2>2. \A d \in network' \ network : d.type # "RETRY" /\ MessageOK(d)'
    BY <1>1, <1>3, <1>6
  <2> QED BY <1>2, <1>4, <2>1, <2>2, ServerAlone
<1>8. TypesInv'
  <2>1. tokens' \in Seq(NewTokens')
    BY <1>2, <1>4 DEF SInv, TypesInv
  <2>2. /\ now' \in Nat /\ client'.attempt \in 0 .. MaxAttempts
        /\ client' \in ClientRecord
    BY <1>2, <1>5, Zenon DEF SInv, TypesInv
  <2> QED BY <1>2, <2>1, <2>2, TypesAlone DEF SInv
<1>9. m.dcid = client.initial_dcid => m.token = client.token /\ m.from = client.port
  <2> SUFFICES ASSUME m.dcid = client.initial_dcid PROVE m.token = client.token
    BY <1>3, Zenon
  <2>0. client.peer_cid = ClientCid(client.attempt)
    BY <1>0, <1>3, <1>5, Zenon DEF ClientInv
  <2>1. ~client.confirmed
    BY <1>0, <2>0, ConfirmedCid, CidFacts, Zenon DEF ChosenCid
  <2>2. client.key = ClientCid(client.attempt)
    BY <1>0, <1>5, <2>0, <2>1 DEF ClientInv
  <2>3. client.retry_token = None
    <3> SUFFICES ASSUME client.retry_token # None PROVE FALSE
      OBVIOUS
    <3>1. PICK r \in network : Answers(r, client.key, client.attempt)
      BY <1>0, <1>5 DEF ClientInv
    <3>2. PICK n : client.key = RetryCid(n)
      BY <3>1 DEF SInv, MessagesInv, MessageOK, RetryMsg, Answers
    <3> QED BY <2>2, <3>2, CidFacts, Zenon
  <2> QED BY <1>3, <2>3, Zenon
<1>10. ClientInv'
  <2>1. now' \in Nat /\ now <= now' /\ client' = client
    BY <1>2 DEF SInv, TypesInv
  <2>2. \A d \in network' \ network : d = m
    BY <1>1
  <2> QED BY <1>3, <1>5, <1>7, <1>9, <2>1, <2>2, ClientKept, Zenon DEF SInv
<1> QED BY <1>7, <1>8, <1>10 DEF SInv

\* A datagram that is neither an Initial nor a Retry, to or from this client.
LEMMA SendLaterStep ==
    ASSUME SInv, Started, client.state = "CONNECTED", NEW m, LaterMsg(m),
           m.type \in {"HANDSHAKE", "CLOSE"}, network' = network \cup {m},
           UNCHANGED <<serverVars, now>>, client'.attempt = client.attempt
    PROVE  /\ TableInv' /\ MessagesInv' /\ SessionsInv'
           /\ client' = client => ClientInv'
           /\ NewTokens \subseteq NewTokens'
<1>1. network \subseteq network' /\ NewTokens \subseteq NewTokens'
  BY NewTokensGrow
<1>2. client'.attempt \in Nat /\ client.attempt <= client'.attempt
  BY AttemptNat DEF SInv
<1>3. MessageOK(m)'
  BY DEF MessageOK, LaterMsg, ChosenCid, serverVars
<1>4. TableInv' /\ MessagesInv' /\ SessionsInv' /\ Grows
  <2>1. \A d \in network' \ network : d.type # "RETRY" /\ MessageOK(d)'
    BY <1>3
  <2> QED BY <1>1, <1>2, <2>1, ServerAlone
<1>5. ASSUME client' = client PROVE ClientInv'
  <2>1. now' \in Nat /\ now <= now'
    BY DEF SInv, TypesInv
  <2> QED BY <1>4, <1>5, <2>1, ClientKept DEF SInv
<1> QED BY <1>1, <1>4, <1>5

\* The Finished of a client goes to its session.
LEMMA SendHandshakeStep ==
    ASSUME SInv, SendHandshake
    PROVE  SInv'
<1>0. Started /\ client.state = "CONNECTED" /\ client \in ClientRecord /\ client.confirmed
  BY StartedTyped DEF SendHandshake, Started, ClientInv
<1>1. PICK m : /\ m = [type |-> "HANDSHAKE", from |-> client.port,
                       version |-> client.version, dcid |-> client.peer_cid,
                       session |-> client.session]
               /\ network' = network \cup {m}
  BY Zenon DEF SendHandshake
<1>2. UNCHANGED <<serverVars, client, tokens, now>>
  BY DEF SendHandshake
<1>3. LaterMsg(m) /\ m.type = "HANDSHAKE"
  BY <1>0, <1>1, ConfirmedCid DEF LaterMsg, ClientRecord
<1>4. /\ TableInv' /\ MessagesInv' /\ SessionsInv' /\ ClientInv'
      /\ NewTokens \subseteq NewTokens'
  BY <1>0, <1>1, <1>2, <1>3, SendLaterStep
<1>5. TypesInv'
  <2>1. tokens' \in Seq(NewTokens')
    BY <1>2, <1>4 DEF SInv, TypesInv
  <2>2. /\ now' \in Nat /\ client'.attempt \in 0 .. MaxAttempts
        /\ client' \in ClientRecord
    BY <1>0, <1>2, Zenon DEF SInv, TypesInv
  <2> QED BY <1>2, <2>1, <2>2, TypesAlone DEF SInv
<1> QED BY <1>4, <1>5, Zenon DEF SInv

\* fetch ends, keeping the tokens it was given.
LEMMA FinishStep ==
    ASSUME SInv, Finish
    PROVE  SInv'
<1>0. Started /\ client.state = "CONNECTED" /\ client \in ClientRecord /\ ClientInv
  BY StartedTyped DEF Finish, Started
<1>1. PICK m : /\ m = [type |-> "CLOSE", from |-> client.port, dcid |-> client.peer_cid,
                       session |-> client.session]
               /\ network' = network \cup {m}
  BY Zenon DEF Finish
<1>2. UNCHANGED <<serverVars, now>> /\ Over /\ tokens' = tokens \o client.new_tokens
  BY DEF Finish, Over
<1>3. /\ ClientInv' /\ ~Started' /\ client'.attempt = client.attempt
      /\ client'.attempt \in 0 .. MaxAttempts
  BY <1>2, OverKeeps DEF SInv
<1>4. LaterMsg(m) /\ m.type = "CLOSE"
  BY <1>0, <1>1, ConfirmedCid DEF LaterMsg, ClientRecord, ClientInv
<1>5. /\ TableInv' /\ MessagesInv' /\ SessionsInv'
      /\ NewTokens \subseteq NewTokens'
  BY <1>0, <1>1, <1>2, <1>3, <1>4, SendLaterStep
<1>6. TypesInv'
  <2>1. tokens \in Seq(NewTokens') /\ client.new_tokens \in Seq(NewTokens')
    BY <1>0, <1>5 DEF SInv, TypesInv, ClientInv
  <2>2. tokens' \in Seq(NewTokens')
    BY <1>2, <2>1
  <2>3. now' \in Nat
    BY <1>2 DEF SInv, TypesInv
  <2> QED BY <1>2, <1>3, <2>2, <2>3, TypesAlone, Zenon DEF SInv
<1> QED BY <1>3, <1>5, <1>6, Zenon DEF SInv

\* What a step of the client alone, on what it received, has to show.
LEMMA HandleAlone ==
    ASSUME SInv, UNCHANGED <<serverVars, now, network>>,
           client'.attempt = client.attempt, Started' => client' \in ClientRecord,
           tokens' \in Seq(NewTokens), ClientInv'
    PROVE  SInv'
<1>1. NewTokens' = NewTokens /\ network' = network
  BY DEF NewTokens
<1>2. client'.attempt \in Nat /\ client.attempt <= client'.attempt
  BY AttemptNat DEF SInv
<1>3. TableInv' /\ MessagesInv' /\ SessionsInv'
  BY <1>1, <1>2, ServerAlone
<1>4. TypesInv'
  <2>1. now' \in Nat /\ client'.attempt \in 0 .. MaxAttempts
    BY DEF SInv, TypesInv
  <2> QED BY <1>1, <2>1, TypesAlone DEF SInv
<1> QED BY <1>3, <1>4 DEF SInv

\* A connection is given up, or begun again in another version: the store goes.
LEMMA GiveUpStep ==
    ASSUME SInv, Over, tokens' = <<>>, UNCHANGED <<serverVars, now, network>>
    PROVE  SInv'
<1>1. tokens' \in Seq(NewTokens)
  OBVIOUS
<1> QED BY <1>1, OverKeeps, HandleAlone DEF SInv

\* A token is added to the list.
LEMMA NewTokenStep ==
    ASSUME SInv, NEW d \in network, HandleNewToken(d)
    PROVE  SInv'
<1>0. /\ Started /\ client \in ClientRecord /\ ClientInv /\ d.type = "DONE"
      /\ client' = [client EXCEPT !.new_tokens = Append(client.new_tokens, d.token)]
      /\ UNCHANGED <<serverVars, tokens, now, network>>
  BY StartedTyped DEF HandleNewToken, Arrives
<1>1. d.token \in NewTokens /\ d.token \in Token
  BY <1>0, NewTokenFacts DEF NewTokens, SInv
<1>2. Append(client.new_tokens, d.token) \in Seq(NewTokens)
  BY <1>0, <1>1 DEF ClientInv
<1>3. Append(client.new_tokens, d.token) \in Seq(Token)
  BY <1>0, <1>1 DEF ClientRecord
<1>4. /\ client' \in ClientRecord
      /\ client'.new_tokens = Append(client.new_tokens, d.token)
      /\ \A x \in {"attempt", "state", "port", "token", "initial_dcid", "peer_cid", "key",
                   "confirmed", "retry_token", "retry_source", "session"} :
            client'[x] = client[x]
  BY <1>0, <1>3, Zenon DEF ClientRecord
<1>5. ClientInv'
  <2>1. NewTokens' = NewTokens /\ network' = network /\ now' = now /\ token_key' = token_key
    BY <1>0 DEF NewTokens, serverVars
  <2>2. /\ client'.attempt = client.attempt /\ client'.state = client.state
        /\ client'.port = client.port /\ client'.token = client.token
        /\ client'.initial_dcid = client.initial_dcid
        /\ client'.peer_cid = client.peer_cid /\ client'.key = client.key
        /\ client'.confirmed = client.confirmed
        /\ client'.retry_token = client.retry_token
        /\ client'.retry_source = client.retry_source
        /\ client'.session = client.session
    BY <1>4
  <2>3. client'.new_tokens \in Seq(NewTokens')
    BY <1>2, <1>4, <2>1
  <2>4. FailureNeedsTwoSessions'
    BY <1>0, <2>1, <2>2 DEF ClientInv, FailureNeedsTwoSessions
  <2>5. client'.state = "CONNECTED" => /\ client'.confirmed
             /\ \E e \in network' : /\ e.type = "FLIGHT" /\ e.to = client'.port
                   /\ e.session = client'.session /\ e.key = client'.key
                   /\ ParametersMatch(client', e)
    BY <1>0, <2>1, <2>2 DEF ClientInv, ParametersMatch
  <2>6. client'.token # None => \A r \in network' :
             r.type = "RETRY" /\ r.original = client'.initial_dcid =>
                Stale(client.token, client.port)'
    BY <1>0, <2>1, <2>2 DEF ClientInv, Stale
  <2>7. /\ client'.initial_dcid = ClientCid(client'.attempt)
        /\ client'.token \in NewTokens' \cup {None}
    BY <1>0, <2>1, <2>2, Zenon DEF ClientInv
  <2>8. \A e \in network' : e.type = "INITIAL" /\ e.dcid = client'.initial_dcid =>
             e.token = client'.token /\ e.from = client'.port
    BY <1>0, <2>1, <2>2 DEF ClientInv
  <2>9. IF client'.retry_token = None
        THEN client'.retry_source = None /\ client'.key = client'.initial_dcid
        ELSE /\ client'.retry_source = client'.key
             /\ \E r \in network' : /\ Answers(r, client'.key, client'.attempt)
                                    /\ r.token = client'.retry_token
    BY <1>0, <2>1, <2>2 DEF ClientInv
  <2>10. IF client'.confirmed
         THEN \E f \in network' : /\ f.type = "FLIGHT" /\ f.to = client'.port
                                  /\ f.scid = client'.peer_cid
         ELSE client'.peer_cid = client'.key
    BY <1>0, <2>1, <2>2 DEF ClientInv
  <2> QED BY <2>3, <2>4, <2>5, <2>6, <2>7, <2>8, <2>9, <2>10 DEF ClientInv
<1>6. tokens' \in Seq(NewTokens)
  BY <1>0 DEF SInv, TypesInv
<1> QED BY <1>0, <1>4, <1>5, <1>6, HandleAlone

\* A Retry is followed once, and before any packet of a session.
LEMMA RetryStep ==
    ASSUME SInv, NEW d \in network, HandleRetry(d)
    PROVE  SInv'
<1>0. /\ Started /\ client \in ClientRecord /\ ClientInv /\ d.type = "RETRY"
      /\ ~client.confirmed /\ d.original = client.initial_dcid
      /\ client' = [client EXCEPT !.retry_token = d.token, !.retry_source = d.scid,
                                  !.peer_cid = d.scid, !.key = d.scid]
      /\ UNCHANGED <<serverVars, tokens, now, network>>
  BY StartedTyped DEF HandleRetry, Arrives
<1>1. d.token \in Token /\ d.token # None /\ d.scid \in Cid
  <2>1. RetryMsg(d) /\ retries \in 0 .. MaxRetries
    BY <1>0 DEF SInv, MessagesInv, MessageOK, TypesInv
  <2> QED BY <2>1, CidFacts, NoneFacts, ServerConstants DEF RetryMsg
<1>2. /\ client' \in ClientRecord
      /\ client'.attempt = client.attempt /\ client'.state = client.state
      /\ client'.port = client.port /\ client'.token = client.token
      /\ client'.initial_dcid = client.initial_dcid
      /\ client'.peer_cid = d.scid /\ client'.key = d.scid
      /\ client'.confirmed = client.confirmed
      /\ client'.retry_token = d.token
      /\ client'.retry_source = d.scid
      /\ client'.new_tokens = client.new_tokens
  BY <1>0, <1>1, Zenon DEF ClientRecord
<1>3. ClientInv'
  <2>1. NewTokens' = NewTokens /\ network' = network /\ now' = now /\ token_key' = token_key
    BY <1>0 DEF NewTokens, serverVars
  <2>2. FailureNeedsTwoSessions'
    BY <1>0, <1>2, <2>1 DEF ClientInv, FailureNeedsTwoSessions
  <2>3. client'.state # "CONNECTED"
    BY <1>0, <1>2 DEF ClientInv
  <2>4. Answers(d, client'.key, client'.attempt)
    BY <1>0, <1>2, Zenon DEF Answers, ClientInv
  <2>5. client'.token # None => \A r \in network' :
             r.type = "RETRY" /\ r.original = client'.initial_dcid =>
                Stale(client.token, client.port)'
    BY <1>0, <1>2, <2>1, Zenon DEF ClientInv, Stale
  <2>6. /\ client'.initial_dcid = ClientCid(client'.attempt)
        /\ client'.token \in NewTokens' \cup {None}
        /\ client'.new_tokens \in Seq(NewTokens')
    BY <1>0, <1>2, <2>1 DEF ClientInv
  <2>7. \A e \in network' : e.type = "INITIAL" /\ e.dcid = client'.initial_dcid =>
             e.token = client'.token /\ e.from = client'.port
    BY <1>0, <1>2, <2>1 DEF ClientInv
  <2> QED BY <1>0, <1>1, <1>2, <2>1, <2>2, <2>3, <2>4, <2>5, <2>6, <2>7 DEF ClientInv
<1>4. tokens' \in Seq(NewTokens)
  BY <1>0, Zenon DEF SInv, TypesInv
<1> QED BY <1>0, <1>2, <1>3, <1>4, HandleAlone

\* A flight confirms the connection ID of its session; one the client can read
\* completes the handshake, or fails it when another session answered first.
LEMMA FlightStep ==
    ASSUME SInv, NEW d \in network, HandleFlight(d)
    PROVE  SInv'
<1>0. /\ Started /\ client \in ClientRecord /\ ClientInv /\ d.type = "FLIGHT"
      /\ d.to = client.port /\ UNCHANGED <<serverVars, tokens, now, network>>
  BY StartedTyped DEF HandleFlight, Arrives
<1>1. FlightMsg(d)
  BY <1>0 DEF SInv, MessagesInv, MessageOK
<1>2. d.session \in Nat /\ d.scid = HostCid(d.session) /\ d.scid \in Cid
  <2>1. d.session \in DOMAIN connections /\ d.scid = HostCid(d.session)
    BY <1>1 DEF FlightMsg
  <2>2. Len(connections) <= MaxSessions
    BY DEF SInv, TypesInv
  <2> QED BY <2>1, <2>2, SessionTyped, CidFacts, ServerConstants DEF SInv
<1>3. PICK c : c = Locate(d)
  OBVIOUS
<1>4. /\ c \in ClientRecord /\ c.confirmed
      /\ c.attempt = client.attempt /\ c.state = client.state
      /\ c.port = client.port /\ c.token = client.token
      /\ c.initial_dcid = client.initial_dcid /\ c.key = client.key
      /\ c.retry_token = client.retry_token /\ c.retry_source = client.retry_source
      /\ c.new_tokens = client.new_tokens /\ c.session = client.session
      /\ IF client.confirmed THEN c = client ELSE c.peer_cid = d.scid
  BY <1>0, <1>2, <1>3, Zenon DEF Locate, ClientRecord
<1>5. \E f \in network : f.type = "FLIGHT" /\ f.to = client.port /\ f.scid = c.peer_cid
  BY <1>0, <1>4 DEF ClientInv
<1>6. \/ client' = c /\ (c.state = "CONNECTED" => client.confirmed)
      \/ /\ c.state = "HANDSHAKING" /\ d.key = c.key /\ ParametersMatch(c, d)
         /\ client' = [c EXCEPT !.state = "CONNECTED", !.session = d.session]
      \/ /\ c.state = "HANDSHAKING" /\ d.key = c.key /\ ~ParametersMatch(c, d)
         /\ client' = [c EXCEPT !.state = "FAILED"]
  BY <1>0, <1>3, <1>4 DEF HandleFlight, ClientInv
<1>7. /\ client' \in ClientRecord /\ client'.confirmed
      /\ client'.attempt = client.attempt
      /\ client'.port = client.port /\ client'.token = client.token
      /\ client'.initial_dcid = client.initial_dcid /\ client'.key = client.key
      /\ client'.retry_token = client.retry_token
      /\ client'.retry_source = client.retry_source
      /\ client'.new_tokens = client.new_tokens /\ client'.peer_cid = c.peer_cid
  <2>1. CASE client' = c
    BY <1>4, <2>1
  <2>2. CASE client' = [c EXCEPT !.state = "CONNECTED", !.session = d.session]
    BY <1>2, <1>4, <2>2, Zenon DEF ClientRecord
  <2>3. CASE client' = [c EXCEPT !.state = "FAILED"]
    BY <1>4, <2>3 DEF ClientRecord
  <2> QED BY <1>6, <2>1, <2>2, <2>3, Zenon
<1>8. NewTokens' = NewTokens /\ network' = network /\ now' = now /\ token_key' = token_key
  BY <1>0 DEF NewTokens, serverVars
<1>9. client'.state = "CONNECTED" =>
         \E e \in network' : /\ e.type = "FLIGHT" /\ e.to = client'.port
                   /\ e.session = client'.session /\ e.key = client'.key
                   /\ ParametersMatch(client', e)
  <2> SUFFICES ASSUME client'.state = "CONNECTED"
               PROVE  \E e \in network : /\ e.type = "FLIGHT" /\ e.to = client'.port
                   /\ e.session = client'.session /\ e.key = client'.key
                   /\ ParametersMatch(client', e)
    BY <1>8, Zenon
  <2>1. CASE client' = c /\ (c.state = "CONNECTED" => client.confirmed)
    <3>1. client' = client /\ client.state = "CONNECTED"
      BY <1>4, <2>1
    <3> QED BY <1>0, <3>1 DEF ClientInv
  <2>2. CASE /\ d.key = c.key /\ ParametersMatch(c, d)
             /\ client' = [c EXCEPT !.state = "CONNECTED", !.session = d.session]
    <3>1. ParametersMatch(client', d)
      BY <1>4, <1>7, <2>2 DEF ParametersMatch
    <3>2. client'.session = d.session
      BY <1>4, <2>2 DEF ClientRecord
    <3> QED BY <1>0, <1>4, <1>7, <2>2, <3>1, <3>2
  <2>3. CASE client' = [c EXCEPT !.state = "FAILED"]
    BY <1>4, <2>3 DEF ClientRecord
  <2> QED BY <1>6, <2>1, <2>2, <2>3
<1>10. FailureNeedsTwoSessions'
  <2> SUFFICES ASSUME client'.state = "FAILED"
               PROVE  \E x, f \in network :
                        /\ x.type = "FLIGHT" /\ f.type = "FLIGHT" /\ x.session # f.session
                        /\ x.to = client.port /\ f.to = client.port
    BY <1>7, <1>8, Zenon DEF FailureNeedsTwoSessions
  <2>1. CASE client' = c
    BY <1>0, <1>4, <2>1 DEF ClientInv, FailureNeedsTwoSessions
  <2>2. CASE client' = [c EXCEPT !.state = "CONNECTED", !.session = d.session]
    BY <1>4, <2>2 DEF ClientRecord
  <2>3. CASE d.key = c.key /\ ~ParametersMatch(c, d)
    <3>1. d.original = client.initial_dcid /\ d.retry_source = client.retry_source
      BY <1>0, <1>4, <2>3, ReadableFlight, Zenon
    <3>2. d.scid # c.peer_cid
      BY <1>4, <2>3, <3>1 DEF ParametersMatch
    <3>3. PICK f \in network : f.type = "FLIGHT" /\ f.to = client.port /\ f.scid = c.peer_cid
      BY <1>5, Zenon
    <3>4. f.scid = HostCid(f.session)
      BY <3>3 DEF SInv, MessagesInv, MessageOK, FlightMsg
    <3>5. d.session # f.session
      BY <1>2, <3>2, <3>3, <3>4, Zenon
    <3> QED BY <1>0, <3>3, <3>5, Zenon
  <2> QED BY <1>6, <2>1, <2>2, <2>3, Zenon
<1>11. ClientInv'
  <2>1. client'.token # None => \A r \in network' :
             r.type = "RETRY" /\ r.original = client'.initial_dcid =>
                Stale(client.token, client.port)'
    BY <1>0, <1>7, <1>8 DEF ClientInv, Stale
  <2>2. /\ client'.initial_dcid = ClientCid(client'.attempt)
        /\ client'.token \in NewTokens' \cup {None}
        /\ client'.new_tokens \in Seq(NewTokens')
    BY <1>0, <1>7, <1>8, Zenon DEF ClientInv
  <2>3. \A e \in network' : e.type = "INITIAL" /\ e.dcid = client'.initial_dcid =>
             e.token = client'.token /\ e.from = client'.port
    BY <1>0, <1>7, <1>8, Zenon DEF ClientInv
  <2>4. IF client'.retry_token = None
        THEN client'.retry_source = None /\ client'.key = client'.initial_dcid
        ELSE /\ client'.retry_source = client'.key
             /\ \E r \in network' : /\ Answers(r, client'.key, client'.attempt)
                                    /\ r.token = client'.retry_token
    BY <1>0, <1>7, <1>8, Zenon DEF ClientInv
  <2>5. /\ client'.confirmed
        /\ \E f \in network' : /\ f.type = "FLIGHT" /\ f.to = client'.port
                               /\ f.scid = client'.peer_cid
    BY <1>5, <1>7, <1>8
  <2> QED BY <1>9, <1>10, <2>1, <2>2, <2>3, <2>4, <2>5, Zenon DEF ClientInv
<1>12. tokens' \in Seq(NewTokens)
  BY <1>0 DEF SInv, TypesInv
<1> QED BY <1>0, <1>7, <1>11, <1>12, HandleAlone

-----------------------------------------------------------------------------
(* Steps of the server. *)

\* What a growing step has to show of the datagrams.
LEMMA MessagesGrow ==
    ASSUME SInv, Grows, RetriesDiffer', \A d \in network' \ network : MessageOK(d)'
    PROVE  MessagesInv'
<1>1. \A d \in network' : MessageOK(d)'
  BY MessageKept DEF SInv, MessagesInv
<1> QED BY <1>1 DEF MessagesInv

\* The clock ticks.
LEMMA TickStep ==
    ASSUME SInv, Tick
    PROVE  SInv'
<1>0. UNCHANGED <<serverVars, client, tokens, network>> /\ now' = now + 1
  BY DEF Tick
<1>1. now \in Nat /\ now' \in Nat /\ now <= now' /\ client'.attempt \in 0 .. MaxAttempts
  BY <1>0 DEF SInv, TypesInv
<1>2. client'.attempt \in Nat /\ client.attempt <= client'.attempt
  BY <1>0, AttemptNat DEF SInv
<1>3. TableInv' /\ MessagesInv' /\ SessionsInv' /\ Grows
  BY <1>0, <1>2, ServerAlone, Zenon
<1>4. TypesInv'
  <2>1. NewTokens' = NewTokens /\ (Started' <=> Started)
    BY <1>0 DEF NewTokens, Started
  <2> QED BY <1>0, <1>1, <2>1, TypesAlone DEF SInv, TypesInv
<1>5. ClientInv'
  BY <1>0, <1>1, <1>3, ClientKept DEF SInv
<1> QED BY <1>3, <1>4, <1>5 DEF SInv

\* The process is replaced: the table is empty, and no session has its key.
LEMMA RestartStep ==
    ASSUME SInv, Restart
    PROVE  SInv'
<1>0. /\ token_key' = token_key + 1 /\ sessions' = <<>> /\ connections_served' = 0
      /\ UNCHANGED <<retry, connections, retries, client, tokens, now, network>>
  BY DEF Restart
<1>1. token_key \in Nat /\ DOMAIN sessions' = {}
  BY <1>0 DEF SInv, TypesInv
<1>2. Grows
  <2>1. client.attempt \in Nat /\ retries \in Nat
    BY AttemptNat, ServerConstants DEF SInv, TypesInv
  <2> QED BY <1>0, <1>1, <2>1 DEF Grows, SameSession, SInv, TypesInv
<1>3. MessagesInv'
  <2>1. RetriesDiffer'
    BY <1>0 DEF RetriesDiffer, SInv, MessagesInv
  <2> QED BY <1>0, <1>2, <2>1, MessagesGrow, Zenon
<1>4. SessionsInv'
  <2>1. ASSUME NEW s \in DOMAIN connections PROVE SessionOK(s, connections[s])'
    <3>1. PICK e : e = connections[s] /\ e = connections'[s]
      BY <1>0
    <3>2. e \in Session /\ SessionOK(s, e)
      BY <3>1, SessionTyped, Zenon DEF SInv, SessionsInv
    <3>3. SessionOK(s, e)'
      BY <1>2, <3>2, SessionKept DEF SInv
    <3> QED BY <3>1, <3>3
  <2> QED BY <1>0, <2>1 DEF SessionsInv
<1>5. ClientInv'
  BY <1>0, <1>2, ClientKept DEF SInv, TypesInv
<1>6. TypesInv'
  <2>1. NewTokens' = NewTokens /\ (Started' <=> Started)
    BY <1>0 DEF NewTokens, Started
  <2>2. sessions' \in [DOMAIN sessions' -> DOMAIN connections']
    BY <1>0, <1>1
  <2> QED BY <1>0, <1>1, <2>1, <2>2 DEF SInv, TypesInv
<1>7. TableInv'
  <2>1. Live' = {}
    BY <1>1 DEF Live
  <2>2. \A s \in DOMAIN connections : /\ connections[s].key \in Nat
                                      /\ connections[s].key <= token_key
    BY SessionTyped DEF SInv, TableInv, Session
  <2>3. {s \in DOMAIN connections' : connections'[s].key = token_key'} = {}
    BY <1>0, <1>1, <2>2
  <2>4. ServedOnce'
    <3>1. Cardinality({}) = 0
      BY FS_EmptySet
    <3>2. /\ Cardinality(Live') = 0
          /\ Cardinality({s \in DOMAIN connections' : connections'[s].key = token_key'}) = 0
      BY <2>1, <2>3, <3>1
    <3>3. connections_served' + Cardinality(Live') = 0
      BY <1>0, <3>2
    <3> QED BY <3>2, <3>3 DEF ServedOnce
  <2>5. \A s \in DOMAIN connections' : connections'[s].key <= token_key'
    BY <1>0, <1>1, <2>2
  <2> QED BY <1>1, <2>1, <2>4, <2>5, Zenon DEF TableInv, BothCidsRoute
<1> QED BY <1>3, <1>4, <1>5, <1>6, <1>7 DEF SInv

\* The connection ID a datagram goes to is one, and no session to come has it.
LEMMA DcidTyped ==
    ASSUME SInv, NEW d \in network, d.type \in {"INITIAL", "HANDSHAKE", "CLOSE"}
    PROVE  /\ d.dcid \in Cid /\ d.from \in Ports
           /\ \A n : d.dcid = HostCid(n) => n \in DOMAIN connections
           /\ d.type = "INITIAL" => d.scid \in Nat \ {0}
<1>1. \A n \in DOMAIN connections : n \in 1 .. MaxSessions
  BY SessionTyped, ServerConstants DEF SInv, TypesInv
<1>2. ASSUME ChosenCid(d.dcid)
      PROVE  d.dcid \in Cid /\ \A n : d.dcid = HostCid(n) => n \in DOMAIN connections
  BY <1>1, <1>2, CidFacts DEF ChosenCid
<1>3. CASE d.type = "INITIAL"
  <2>1. InitialMsg(d)
    BY <1>3, Zenon DEF SInv, MessagesInv, MessageOK
  <2>2. d.scid \in 1 .. MaxAttempts /\ d.from \in Ports /\ d.scid \in Nat \ {0}
    BY <2>1, AttemptNat DEF InitialMsg, SInv, TypesInv
  <2>3. CASE d.dcid = ClientCid(d.scid)
    BY <2>2, <2>3, CidFacts, Zenon
  <2>4. CASE \E r \in network : Answers(r, d.dcid, d.scid)
    <3>1. PICK n \in 1 .. retries : d.dcid = RetryCid(n)
      BY <2>4 DEF SInv, MessagesInv, MessageOK, RetryMsg, Answers
    <3>2. n \in 1 .. MaxRetries
      BY ServerConstants DEF SInv, TypesInv
    <3> QED BY <2>2, <3>1, <3>2, CidFacts, Zenon
  <2>5. CASE ChosenCid(d.dcid)
    BY <1>2, <2>2, <2>5
  <2> QED BY <2>1, <2>3, <2>4, <2>5, Zenon DEF InitialMsg
<1>4. CASE d.type \in {"HANDSHAKE", "CLOSE"}
  BY <1>2, <1>4, Zenon DEF SInv, MessagesInv, MessageOK, LaterMsg
<1> QED BY <1>3, <1>4

\* A session has adopted both IDs of an Initial or none.
AdoptedBoth(c) ==
    /\ IF c.initial = None THEN c.peer_cid = 0 ELSE c.peer_cid # 0
    /\ c.hello => c.initial # None

\* A datagram that a session can take.
Routable(d) ==
    /\ d.type \in {"INITIAL", "HANDSHAKE", "CLOSE"}
    /\ d.type = "INITIAL" => d.dcid \in Cid /\ d.scid \in Nat \ {0}

\* Session c is e after d.
TakenUp(c, d, e) ==
    /\ e \in Session /\ SameSession(c, e) /\ e.token = c.token
    /\ e.hello => e.initial # None
    /\ \/ e.initial = c.initial /\ e.peer_cid = c.peer_cid
       \/ /\ c.initial = None /\ d.type = "INITIAL"
          /\ e.initial = d.dcid /\ e.peer_cid = d.scid
    /\ d.type = "INITIAL" /\ c.initial = None /\ ~c.draining =>
          e.initial = d.dcid /\ e.peer_cid = d.scid

\* What a datagram does to a session.
LEMMA ReceivedFacts ==
    ASSUME NEW s, NEW c \in Session, NEW d, AdoptedBoth(c), Routable(d),
           NEW e, e = Received(s, c, d)
    PROVE  TakenUp(c, d, e)
<1>1. CASE c.draining
  BY <1>1, Zenon DEF Received, SameSession, AdoptedBoth, TakenUp
<1>2. CASE ~c.draining /\ d.type = "INITIAL"
  <2>1. PICK a : a = Adopt(c, d)
    OBVIOUS
  <2>2. /\ a \in Session /\ SameSession(c, a) /\ a.token = c.token
        /\ IF c.initial = None THEN a.initial = d.dcid /\ a.peer_cid = d.scid
           ELSE a.initial = c.initial /\ a.peer_cid = c.peer_cid
        /\ a.hello = c.hello /\ a.completed = c.completed
    BY <1>2, <2>1, Zenon DEF Adopt, Session, SameSession, AdoptedBoth, Routable
  <2>3. a.initial # None
    BY <1>2, <2>2, NoneFacts, Zenon DEF Routable
  <2>4. PICK h \in BOOLEAN : h = (a.hello \/ (d.key = a.initial /\ ~a.completed))
    BY Zenon
  <2>5. e = [a EXCEPT !.hello = h]
    BY <1>2, <2>1, <2>4 DEF Received
  <2>6. /\ e \in Session /\ e.key = a.key /\ e.cid = a.cid /\ e.retry = a.retry
        /\ e.destination = a.destination /\ e.token = a.token
        /\ e.initial = a.initial /\ e.peer_cid = a.peer_cid
    BY <2>2, <2>5 DEF Session
  <2> QED BY <1>2, <2>2, <2>3, <2>6, Zenon DEF SameSession, TakenUp
<1>3. CASE ~c.draining /\ d.type = "HANDSHAKE"
  <2>1. PICK h \in BOOLEAN : h = (c.completed \/ d.session = s)
    BY Zenon
  <2>2. e = [c EXCEPT !.completed = h]
    BY <1>3, <2>1 DEF Received
  <2>3. /\ e \in Session /\ e.key = c.key /\ e.cid = c.cid /\ e.retry = c.retry
        /\ e.destination = c.destination /\ e.token = c.token /\ e.hello = c.hello
        /\ e.initial = c.initial /\ e.peer_cid = c.peer_cid
    BY <2>2 DEF Session
  <2> QED BY <1>3, <2>3, Zenon DEF SameSession, AdoptedBoth, TakenUp
<1>4. CASE ~c.draining /\ d.type = "CLOSE"
  <2>1. PICK h \in BOOLEAN : h = (c.completed /\ d.session = s)
    BY Zenon
  <2>2. e = [c EXCEPT !.draining = h]
    BY <1>4, <2>1 DEF Received
  <2>3. /\ e \in Session /\ e.key = c.key /\ e.cid = c.cid /\ e.retry = c.retry
        /\ e.destination = c.destination /\ e.token = c.token /\ e.hello = c.hello
        /\ e.initial = c.initial /\ e.peer_cid = c.peer_cid
    BY <2>2 DEF Session
  <2> QED BY <1>4, <2>3, Zenon DEF SameSession, AdoptedBoth, TakenUp
<1> QED BY <1>1, <1>2, <1>3, <1>4, Zenon DEF Routable

\* What a step of the server that sends no Retry has to show.
LEMMA ServerStep ==
    ASSUME SInv, Grows, UNCHANGED <<retry, token_key, client, tokens, now>>,
           retries' \in 0 .. MaxRetries, connections' \in Seq(Session),
           Len(connections') <= MaxSessions, DOMAIN sessions' \subseteq Cid,
           sessions' \in [DOMAIN sessions' -> DOMAIN connections'],
           connections_served' \in Nat, TableInv', SessionsInv',
           \A d \in network' \ network :
              d.type \notin {"INITIAL", "RETRY"} /\ MessageOK(d)'
    PROVE  SInv'
<1>1. TypesInv'
  <2>1. Started' <=> Started
    BY DEF Started
  <2>2. NewTokens \subseteq NewTokens'
    BY NewTokensGrow DEF Grows
  <2>3. tokens' \in Seq(NewTokens')
    BY <2>2 DEF SInv, TypesInv
  <2> QED BY <2>1, <2>3 DEF SInv, TypesInv
<1>2. MessagesInv'
  <2>1. RetriesDiffer'
    BY DEF RetriesDiffer, SInv, MessagesInv, Grows
  <2> QED BY <2>1, MessagesGrow, Zenon
<1>3. ClientInv'
  <2>1. now' \in Nat /\ now <= now'
    BY DEF SInv, TypesInv
  <2> QED BY <2>1, ClientKept, Zenon DEF SInv
<1> QED BY <1>1, <1>2, <1>3 DEF SInv

\* A datagram reaches the session its connection ID leads to.
LEMMA DeliverStep ==
    ASSUME SInv, NEW d \in network, d.type \in {"INITIAL", "HANDSHAKE", "CLOSE"},
           d.dcid \in DOMAIN sessions,
           Deliver(sessions[d.dcid], connections[sessions[d.dcid]], d),
           UNCHANGED <<retry, token_key, connections_served, client, tokens, now>>
    PROVE  SInv'
<1>1. PICK s : s = sessions[d.dcid]
  OBVIOUS
<1>2. s \in DOMAIN connections /\ s \in Live
  BY <1>1 DEF SInv, TypesInv, Live
<1>3. PICK c : c = connections[s]
  OBVIOUS
<1>4. c \in Session /\ SessionOK(s, c)
  BY <1>2, <1>3, SessionTyped, Zenon DEF SInv, SessionsInv
<1>5. AdoptedBoth(c)
  <2>1. ASSUME c.initial # None PROVE c.peer_cid # 0
    <3>1. PICK i \in network : BegunBy(c, i)
      BY <1>4, <2>1, Zenon DEF SessionOK
    <3>2. i.scid \in Nat \ {0}
      BY <3>1, DcidTyped DEF BegunBy
    <3> QED BY <3>1, <3>2, Zenon DEF BegunBy
  <2> QED BY <1>4, <2>1, Zenon DEF AdoptedBoth, SessionOK
<1>6. PICK e : e = Received(s, c, d)
  BY Zenon
<1>7. /\ e \in Session /\ SameSession(c, e) /\ e.token = c.token
      /\ e.hello => e.initial # None
      /\ \/ e.initial = c.initial /\ e.peer_cid = c.peer_cid
         \/ /\ c.initial = None /\ d.type = "INITIAL"
            /\ e.initial = d.dcid /\ e.peer_cid = d.scid
  <2>1. Routable(d)
    BY DcidTyped, Zenon DEF Routable
  <2>2. TakenUp(c, d, e)
    BY <1>4, <1>5, <1>6, <2>1, ReceivedFacts, Zenon
  <2> QED BY <2>2, Zenon DEF TakenUp
<1>8. connections' = [connections EXCEPT ![s] = e]
  <2>1. ~(s > Len(connections))
    <3>1. Len(connections) \in Nat /\ s \in 1 .. Len(connections)
      BY <1>2, SessionTyped, Zenon DEF SInv
    <3> QED BY <3>1
  <2>2. Deliver(s, c, d)
    BY <1>1, <1>3
  <2> QED BY <1>6, <2>1, <2>2, Zenon DEF Deliver
<1>9. sessions' = sessions /\ UNCHANGED <<retries, network>>
  <2>1. HostCid(s) \in DOMAIN sessions
    BY <1>2 DEF SInv, TableInv, BothCidsRoute
  <2>2. DOMAIN sessions \cup {d.dcid, HostCid(s)} = DOMAIN sessions
    BY <2>1
  <2>3. sessions = [i \in DOMAIN sessions |-> sessions[i]]
    BY DEF SInv, TypesInv
  <2> QED BY <1>1, <2>2, <2>3, Zenon DEF Deliver
<1>10. connections \in Seq(Session) /\ DOMAIN connections = 1 .. Len(connections)
  BY SessionTyped DEF SInv, TypesInv
<1>11. /\ connections' \in Seq(Session) /\ Len(connections') = Len(connections)
       /\ DOMAIN connections' = DOMAIN connections
       /\ \A t \in DOMAIN connections :
             connections'[t] = IF t = s THEN e ELSE connections[t]
  BY <1>2, <1>7, <1>8, <1>10
<1>12. \A t \in DOMAIN connections : SameSession(connections[t], connections'[t])
  BY <1>3, <1>7, <1>11, Zenon DEF SameSession
<1>13. Grows
  <2>1. client.attempt \in Nat /\ retries \in Nat /\ token_key \in Nat
    BY AttemptNat, ServerConstants DEF SInv, TypesInv
  <2> QED BY <1>9, <1>11, <1>12, <2>1 DEF Grows, SInv, TypesInv
<1>14. TableInv'
  <2>1. Live' = Live
    BY <1>9 DEF Live
  <2>2. Live \subseteq DOMAIN connections
    BY Zenon DEF Live, SInv, TypesInv
  <2>3. BothCidsRoute'
    BY <1>9, <1>11, <1>12, <2>1, <2>2
    DEF BothCidsRoute, SInv, TableInv, SameSession
  <2>4. {t \in DOMAIN connections' : connections'[t].key = token_key'}
           = {t \in DOMAIN connections : connections[t].key = token_key}
    BY <1>11, <1>12, Zenon DEF SameSession
  <2>5. ServedOnce'
    BY <2>1, <2>4, Zenon DEF SInv, TableInv, ServedOnce
  <2> QED BY <1>9, <1>11, <1>12, <2>1, <2>2, <2>3, <2>5, Zenon
      DEF TableInv, SInv, SameSession
<1>15. SessionsInv'
  <2>1. ASSUME NEW t \in DOMAIN connections, t # s PROVE SessionOK(t, connections[t])'
    <3>1. PICK f : f = connections[t] /\ f = connections'[t]
      BY <1>11, <2>1
    <3>2. f \in Session /\ SessionOK(t, f)
      BY <3>1, SessionTyped, Zenon DEF SInv, SessionsInv
    <3>3. SessionOK(t, f)'
      BY <1>13, <3>2, SessionKept DEF SInv
    <3> QED BY <3>1, <3>3
  <2>2. SessionOK(s, c)'
    BY <1>4, <1>13, SessionKept DEF SInv
  <2>3. SessionOK(s, e)'
    <3>1. CASE e.initial = c.initial /\ e.peer_cid = c.peer_cid
      BY <1>7, <2>2, <3>1, Zenon DEF SessionOK, SameSession, BegunBy, AdmittedBy
    <3>2. CASE /\ c.initial = None /\ d.type = "INITIAL"
               /\ e.initial = d.dcid /\ e.peer_cid = d.scid
      <4>1. e.initial # None /\ BegunBy(e, d) /\ d \in network'
        BY <1>9, <3>2, DcidTyped, NoneFacts, Zenon DEF BegunBy
      <4>2. ~retry
        <5> SUFFICES ASSUME retry PROVE FALSE
          BY Zenon
        <5>1. PICK a \in network : AdmittedBy(c, a)
          BY <1>4, Zenon DEF SessionOK
        <5> QED BY <3>2, <5>1, DcidTyped, NoneFacts, Zenon DEF AdmittedBy
      <4>3. /\ ~retry' => e.retry = None
            /\ e.token # None => /\ e.token.kind = "NEW" /\ e.token.key <= token_key'
                                 /\ e.token.address = e.destination
        BY <1>7, <2>2, Zenon DEF SessionOK, SameSession
      <4> QED BY <1>7, <4>1, <4>2, <4>3 DEF SessionOK
    <3> QED BY <1>7, <3>1, <3>2, Zenon
  <2>4. ASSUME NEW t \in DOMAIN connections' PROVE SessionOK(t, connections[t])'
    <3>1. CASE t = s
      BY <1>2, <1>11, <2>3, <3>1, Zenon
    <3>2. CASE t # s
      BY <1>11, <2>1, <3>2, Zenon
    <3> QED BY <3>1, <3>2, Zenon
  <2> QED BY <2>4 DEF SessionsInv
<1> QED
  <2>1. /\ retries' \in 0 .. MaxRetries /\ Len(connections') <= MaxSessions
        /\ DOMAIN sessions' \subseteq Cid /\ connections_served' \in Nat
        /\ sessions' \in [DOMAIN sessions' -> DOMAIN connections']
    BY <1>9, <1>11, Zenon DEF SInv, TypesInv
  <2>2. network' \ network = {}
    BY <1>9, Zenon
  <2> QED BY <1>11, <1>13, <1>14, <1>15, <2>1, <2>2, ServerStep, Zenon

\* An address whose Initial has a token that validates was sent something
\* before, and a token of a Retry names the ID the client drew.
LEMMA TokenValidates ==
    ASSUME SInv, NEW d \in network, d.type = "INITIAL", d.token # None,
           Validates(d.token, d.from)
    PROVE  /\ Validated(d.from, Len(connections) + 1)
           /\ d.token.kind # "NEW" => retry /\ d.token.original \in Cid
<1>1. d.token.address = d.from
  BY DEF Validates
<1>2. InitialMsg(d)
  BY Zenon DEF SInv, MessagesInv, MessageOK
<1>3. d.token \in NewTokens
         \/ \E r \in network : r.type = "RETRY" /\ r.token = d.token
  BY <1>2 DEF InitialMsg, Answers
<1>4. CASE d.token \in NewTokens
  <2>1. PICK v \in network : v.type = "DONE" /\ v.token = d.token
    BY <1>4, Zenon DEF NewTokens
  <2>2. v.session \in DOMAIN connections /\ v.to = d.from /\ d.token.kind = "NEW"
    BY <1>1, <2>1, Zenon DEF SInv, MessagesInv, MessageOK, DoneMsg
  <2>3. v.session < Len(connections) + 1
    BY <2>2, SessionTyped DEF SInv
  <2> QED BY <2>1, <2>2, <2>3, Zenon DEF Validated
<1>5. CASE \E r \in network : r.type = "RETRY" /\ r.token = d.token
  <2>1. PICK r \in network : r.type = "RETRY" /\ r.token = d.token
    BY <1>5
  <2>2. RetryMsg(r)
    BY <2>1 DEF SInv, MessagesInv, MessageOK
  <2>3. r.to = d.from /\ d.token.original \in Cid /\ retry
    BY <1>1, <2>1, <2>2, Zenon DEF RetryMsg
  <2> QED BY <2>1, <2>3 DEF Validated
<1> QED BY <1>3, <1>4, <1>5

\* The session that is accepted for a datagram, with the context of its token.
LEMMA AcceptedFacts ==
    ASSUME SInv, NEW d \in network, d.type \in LongHeader,
           NEW context \in RetryContext \cup {None},
           NEW s, NEW e, e = Received(s, Accept(d, context), d)
    PROVE  /\ e \in Session /\ e.key = token_key /\ e.cid = d.dcid
           /\ e.retry = context /\ e.destination = d.from /\ e.token = None
           /\ e.hello => e.initial # None
           /\ IF d.type = "INITIAL" THEN e.initial = d.dcid /\ e.peer_cid = d.scid
              ELSE e.initial = None /\ e.peer_cid = 0
<1>1. /\ d.type \in {"INITIAL", "HANDSHAKE"} /\ d.dcid \in Cid /\ d.from \in Ports
      /\ d.type = "INITIAL" => d.scid \in Nat \ {0}
  BY DcidTyped DEF LongHeader
<1>2. PICK c : c = Accept(d, context)
  BY Zenon
<1>3. /\ c \in Session /\ c.key = token_key /\ c.cid = d.dcid /\ c.retry = context
      /\ c.destination = d.from /\ c.token = None /\ c.initial = None
      /\ c.peer_cid = 0 /\ c.hello = FALSE /\ c.draining = FALSE
  <2>1. token_key \in Nat
    BY Zenon DEF SInv, TypesInv
  <2> QED BY <1>1, <1>2, <2>1 DEF Accept, Session
<1>4. AdoptedBoth(c) /\ Routable(d)
  BY <1>1, <1>3, Zenon DEF AdoptedBoth, Routable
<1>5. TakenUp(c, d, e)
  BY <1>2, <1>3, <1>4, ReceivedFacts, Zenon
<1> QED BY <1>1, <1>3, <1>5, Zenon DEF SameSession, TakenUp

\* Why a session may be accepted: without retry always, with it by a token.
Admits(d, context) ==
    \/ ~retry /\ context = None
    \/ /\ retry /\ d.type = "INITIAL" /\ d.token # None /\ Validates(d.token, d.from)
       /\ context = IF d.token.kind = "NEW" THEN None
                    ELSE [original |-> d.token.original, source |-> d.dcid]

\* A session is accepted.
LEMMA DeliverNewStep ==
    ASSUME SInv, NEW d \in network, d.type \in LongHeader, d.dcid \notin DOMAIN sessions,
           NEW context, Admits(d, context), DeliverNew(d, context),
           UNCHANGED <<retry, token_key, connections_served, client, tokens, now>>
    PROVE  SInv'
<1>1. /\ d.dcid \in Cid /\ d.from \in Ports
      /\ \A n : d.dcid = HostCid(n) => n \in DOMAIN connections
  BY DcidTyped, Zenon DEF LongHeader
<1>2. context \in RetryContext \cup {None}
  BY <1>1, TokenValidates DEF Admits, RetryContext
<1>3. PICK s : s = Len(connections) + 1
  OBVIOUS
<1>4. /\ connections \in Seq(Session) /\ Len(connections) \in Nat
      /\ DOMAIN connections = 1 .. Len(connections)
  BY SessionTyped DEF SInv, TypesInv
<1>5. s \in 1 .. MaxSessions /\ s \notin DOMAIN connections /\ s > Len(connections)
  BY <1>3, <1>4, ServerConstants DEF DeliverNew
<1>6. HostCid(s) \in Cid /\ HostCid(s) \notin DOMAIN sessions /\ HostCid(s) # d.dcid
  BY <1>1, <1>5, CidFacts, Zenon DEF SInv, TableInv
<1>7. PICK e : e = Received(s, Accept(d, context), d)
  BY Zenon
<1>8. /\ e \in Session /\ e.key = token_key /\ e.cid = d.dcid
      /\ e.retry = context /\ e.destination = d.from /\ e.token = None
      /\ e.hello => e.initial # None
      /\ IF d.type = "INITIAL" THEN e.initial = d.dcid /\ e.peer_cid = d.scid
         ELSE e.initial = None /\ e.peer_cid = 0
  BY <1>2, <1>7, AcceptedFacts
<1>9. Deliver(s, Accept(d, context), d)
  BY <1>3, Zenon DEF DeliverNew
<1>10. /\ connections' = Append(connections, e)
       /\ sessions' = [i \in DOMAIN sessions \cup {d.dcid, HostCid(s)} |->
                          IF i \in DOMAIN sessions THEN sessions[i] ELSE s]
       /\ UNCHANGED <<retries, network>>
  BY <1>5, <1>7, <1>9, Zenon DEF Deliver
<1>11. /\ connections' \in Seq(Session) /\ Len(connections') = s
       /\ DOMAIN connections' = DOMAIN connections \cup {s}
       /\ \A t \in DOMAIN connections : connections'[t] = connections[t]
       /\ connections'[s] = e
  BY <1>3, <1>4, <1>8, <1>10
<1>12. Grows
  <2>1. client.attempt \in Nat /\ retries \in Nat /\ token_key \in Nat
    BY AttemptNat, ServerConstants DEF SInv, TypesInv
  <2> QED BY <1>3, <1>4, <1>10, <1>11, <2>1 DEF Grows, SameSession, SInv, TypesInv
<1>13. /\ DOMAIN sessions' = DOMAIN sessions \cup {d.dcid, HostCid(s)}
       /\ \A i \in DOMAIN sessions : sessions'[i] = sessions[i]
       /\ sessions'[d.dcid] = s /\ sessions'[HostCid(s)] = s
  BY <1>6, <1>10, Zenon
<1>14. Live \subseteq DOMAIN connections
  BY DEF Live, SInv, TypesInv
<1>15. Live' = Live \cup {s}
  BY <1>13 DEF Live
<1>16. TableInv'
  <2>1. BothCidsRoute'
    <3>1. ASSUME NEW t \in Live
          PROVE  \A i \in {connections'[t].cid, HostCid(t)} :
                    i \in DOMAIN sessions' /\ sessions'[i] = t
      BY <1>11, <1>13, <1>14 DEF SInv, TableInv, BothCidsRoute
    <3>2. \A i \in {connections'[s].cid, HostCid(s)} :
             i \in DOMAIN sessions' /\ sessions'[i] = s
      BY <1>8, <1>11, <1>13, Zenon
    <3> QED BY <1>15, <3>1, <3>2, Zenon DEF BothCidsRoute
  <2>2. ServedOnce'
    <3> DEFINE K == {t \in DOMAIN connections : connections[t].key = token_key}
    <3>1. {t \in DOMAIN connections' : connections'[t].key = token_key'} = K \cup {s}
      BY <1>5, <1>8, <1>11
    <3>2. IsFiniteSet(1 .. Len(connections))
      BY <1>4, FS_Interval
    <3>3. IsFiniteSet(Live) /\ IsFiniteSet(K)
      BY <1>4, <1>14, <3>2, FS_Subset, Zenon
    <3>4. s \notin Live /\ s \notin K
      BY <1>5, <1>14, Zenon
    <3>5. /\ Cardinality(Live \cup {s}) = Cardinality(Live) + 1
          /\ Cardinality(K \cup {s}) = Cardinality(K) + 1
      BY <3>3, <3>4, FS_AddElement, Zenon
    <3>6. Cardinality(Live) \in Nat /\ Cardinality(K) \in Nat
      BY <3>3, FS_CardinalityType
    <3>7. connections_served \in Nat /\ connections_served + Cardinality(Live) = Cardinality(K)
      BY DEF SInv, TypesInv, TableInv, ServedOnce
    <3>8. PICK l, k : /\ l = Cardinality(Live) /\ k = Cardinality(K)
                      /\ l + 1 = Cardinality(Live') /\ k + 1 = Cardinality(K \cup {s})
      BY <1>15, <3>5, Zenon
    <3> HIDE DEF K
    <3>9. connections_served' + Cardinality(Live') = Cardinality(K \cup {s})
      BY <3>6, <3>7, <3>8
    <3> QED BY <3>1, <3>9, Zenon DEF ServedOnce
  <2>3. \A t \in DOMAIN connections' : connections'[t].key <= token_key'
    BY <1>8, <1>11 DEF SInv, TableInv, TypesInv
  <2>4. \A t \in Live' : connections'[t].key = token_key'
    BY <1>8, <1>11, <1>14, <1>15, Zenon DEF SInv, TableInv
  <2>5. \A n \in 1 .. MaxSessions : HostCid(n) \in DOMAIN sessions' => n \in DOMAIN connections'
    BY <1>1, <1>11, <1>13, CidFacts, Zenon DEF SInv, TableInv
  <2> QED BY <2>1, <2>2, <2>3, <2>4, <2>5, Zenon DEF TableInv
<1>17. SessionsInv'
  <2>1. ASSUME NEW t \in DOMAIN connections PROVE SessionOK(t, connections[t])'
    <3>1. PICK f : f = connections[t] /\ f = connections'[t]
      BY <1>11, Zenon
    <3>2. f \in Session /\ SessionOK(t, f)
      BY <3>1, SessionTyped, Zenon DEF SInv, SessionsInv
    <3>3. SessionOK(t, f)'
      BY <1>12, <3>2, SessionKept DEF SInv
    <3> QED BY <3>1, <3>3
  <2>2. /\ e.initial = None => e.peer_cid = 0
        /\ e.initial # None => \E i \in network : BegunBy(e, i)
    BY <1>1, <1>8, NoneFacts DEF BegunBy
  <2>3. ~retry => e.retry = None
    BY <1>8, Zenon DEF Admits
  <2>4. retry => /\ Validated(e.destination, s)
                 /\ \E i \in network : AdmittedBy(e, i)
    <3> SUFFICES ASSUME retry
                 PROVE  Validated(d.from, s) /\ AdmittedBy(e, d)
      BY <1>8, Zenon
    <3>1. Validated(d.from, s)
      BY <1>3, TokenValidates, Zenon DEF Admits
    <3>2. AdmittedBy(e, d)
      BY <1>8, Zenon DEF Admits, AdmittedBy
    <3> QED BY <3>1, <3>2, Zenon
  <2>5. SessionOK(s, e)
    BY <1>8, <2>2, <2>3, <2>4, Zenon DEF SessionOK
  <2>6. SessionOK(s, e)'
    BY <1>8, <1>12, <2>5, SessionKept, Zenon DEF SInv
  <2>7. ASSUME NEW t \in DOMAIN connections' PROVE SessionOK(t, connections[t])'
    <3>1. CASE t = s
      BY <1>11, <2>6, <3>1, Zenon
    <3>2. CASE t \in DOMAIN connections
      BY <2>1, <3>2
    <3> QED BY <1>11, <3>1, <3>2, Zenon
  <2> QED BY <2>7 DEF SessionsInv
<1> QED
  <2>1. retries' \in 0 .. MaxRetries /\ connections_served' \in Nat
    BY <1>10, Zenon DEF SInv, TypesInv
  <2>2. Len(connections') <= MaxSessions
    BY <1>5, <1>11, ServerConstants
  <2>2a. network' \ network = {}
    BY <1>10, Zenon
  <2>3. DOMAIN sessions' \subseteq Cid
    BY <1>1, <1>6, <1>13, Zenon DEF SInv, TypesInv
  <2>4. sessions' \in [DOMAIN sessions' -> DOMAIN connections']
    <3>1. \A i \in DOMAIN sessions : sessions[i] \in DOMAIN connections
      BY DEF SInv, TypesInv
    <3> QED BY <1>10, <1>11, <1>13, <3>1, Zenon
  <2> QED BY <1>11, <1>12, <1>16, <1>17, <2>1, <2>2, <2>2a, <2>3, <2>4, ServerStep, Zenon

\* A Retry is sent to an Initial without a valid token.
LEMMA SendRetryStep ==
    ASSUME SInv, NEW d \in network, d.type = "INITIAL", retry,
           d.token = None \/ ~Validates(d.token, d.from), SendRetry(d),
           UNCHANGED <<retry, token_key, connections_served, client, tokens, now>>
    PROVE  SInv'
<1>1. d.dcid \in Cid /\ d.from \in Ports /\ token_key \in Nat /\ now \in Nat
  BY DcidTyped DEF SInv, TypesInv
<1>2. PICK m : m = [type |-> "RETRY", to |-> d.from, scid |-> RetryCid(retries + 1),
                    token |-> Mint("RETRY", d.from, d.dcid), original |-> d.dcid]
  BY Zenon
<1>3. /\ m.type = "RETRY" /\ m.to = d.from /\ m.scid = RetryCid(retries + 1)
      /\ m.original = d.dcid /\ m.token = Mint("RETRY", d.from, d.dcid)
  BY <1>2
<1>4. /\ m.token \in Token /\ m.token.kind = "RETRY" /\ m.token.address = d.from
      /\ m.token.original = d.dcid
  BY <1>1, <1>3 DEF Mint, Token
<1>5. /\ retries < MaxRetries /\ retries' = retries + 1 /\ network' = network \cup {m}
      /\ UNCHANGED <<sessions, connections>>
  BY <1>2 DEF SendRetry
<1>6. retries \in Nat /\ retries' \in 0 .. MaxRetries /\ retries + 1 \in 1 .. retries'
  BY <1>5, ServerConstants DEF SInv, TypesInv
<1>7. Grows
  <2>1. client.attempt \in Nat
    BY AttemptNat, Zenon DEF SInv
  <2> QED BY <1>1, <1>5, <1>6, <2>1 DEF Grows, SameSession, SInv, TypesInv
<1>8. TypesInv'
  <2>1. (Started' <=> Started) /\ NewTokens \subseteq NewTokens'
    BY <1>5, NewTokensGrow, Zenon DEF Started
  <2>2. tokens' \in Seq(NewTokens')
    BY <2>1 DEF SInv, TypesInv
  <2> QED BY <1>5, <1>6, <2>1, <2>2, Zenon DEF SInv, TypesInv
<1>9. TableInv'
  BY <1>5, TableKept, Zenon DEF SInv
<1>10. SessionsInv'
  <2>1. ASSUME NEW s \in DOMAIN connections PROVE SessionOK(s, connections[s])'
    <3>1. PICK e : e = connections[s] /\ e = connections'[s]
      BY <1>5, Zenon
    <3>2. e \in Session /\ SessionOK(s, e)
      BY <3>1, SessionTyped, Zenon DEF SInv, SessionsInv
    <3>3. SessionOK(s, e)'
      BY <1>7, <3>2, SessionKept DEF SInv
    <3> QED BY <3>1, <3>3, Zenon
  <2> QED BY <1>5, <2>1, Zenon DEF SessionsInv
<1>11. \A n : d.dcid = ClientCid(n) => n <= client.attempt
  BY InitialToClientCid DEF SInv, MessagesInv, MessageOK, InitialMsg, TypesInv
<1>12. MessagesInv'
  <2>1. RetryMsg(m)'
    BY <1>1, <1>3, <1>4, <1>6, <1>11, Zenon DEF RetryMsg
  <2>2. MessageOK(m)'
    BY <1>3, <2>1, Zenon DEF MessageOK
  <2>3. ASSUME NEW r \in network, r.type = "RETRY" PROVE r.scid # m.scid
    <3>1. PICK n \in 1 .. retries : r.scid = RetryCid(n)
      BY <2>3, Zenon DEF SInv, MessagesInv, MessageOK, RetryMsg
    <3>2. n # retries + 1
      BY <1>6
    <3> QED BY <1>3, <3>1, <3>2, CidFacts, Zenon
  <2>4. RetriesDiffer'
    BY <1>5, <2>3, Zenon DEF RetriesDiffer, SInv, MessagesInv
  <2> QED BY <1>5, <1>7, <2>2, <2>4, MessagesGrow, Zenon
<1>13. ClientInv'
  <2>1. ASSUME Started, d.dcid = client.initial_dcid, client.token # None
        PROVE  Stale(client.token, client.port)
    <3>1. d.token = client.token /\ d.from = client.port /\ client.token \in NewTokens
      BY <2>1, Zenon DEF SInv, ClientInv
    <3>2. client.token \in Token /\ client.token.kind = "NEW"
      BY <3>1, NewTokenFacts, Zenon DEF SInv
    <3>3. ~Validates(client.token, client.port)
      BY <2>1, <3>1, Zenon
    <3>4. /\ client.token.issued \in Nat /\ Lifetime["NEW"] \in Nat
          /\ \/ client.token.key # token_key \/ client.token.address # client.port
             \/ ~(now - client.token.issued <= Lifetime["NEW"])
      BY <3>2, <3>3, ServerConstants, Zenon DEF Validates, Token
    <3>5. PICK i, l \in Nat : i = client.token.issued /\ l = Lifetime["NEW"]
      BY <3>4, Zenon
    <3>6. ~(now - i <= l) => now > i + l
      BY <1>1
    <3> QED BY <3>4, <3>5, <3>6, Zenon DEF Stale
  <2>2. ASSUME Started, d.dcid = client.initial_dcid, client.token # None
        PROVE  Stale(client.token, client.port)'
    BY <2>1, <2>2, Zenon DEF Stale
  <2>3. ASSUME NEW r \in network' \ network, Started
        PROVE  /\ r.type = "INITIAL" /\ r.dcid = client.initial_dcid =>
                     r.token = client.token /\ r.from = client.port
               /\ r.type = "RETRY" /\ r.original = client.initial_dcid
                  /\ client.token # None => Stale(client.token, client.port)'
    BY <1>3, <1>5, <2>2, <2>3, Zenon
  <2>4. now' \in Nat /\ now <= now'
    BY <1>1
  <2> QED BY <1>7, <2>3, <2>4, ClientKept, Zenon DEF SInv
<1> QED BY <1>8, <1>9, <1>10, <1>12, <1>13, Zenon DEF SInv

\* Neither a Version Negotiation packet nor a dropped datagram disturbs anything.
LEMMA AsideStep ==
    ASSUME SInv, network \subseteq network',
           \A m \in network' \ network : m.type = "VERSIONS",
           UNCHANGED <<serverVars, client, tokens, now>>
    PROVE  SInv'
<1>1. client'.attempt \in Nat /\ client.attempt <= client'.attempt
  BY AttemptNat DEF SInv
<1>2. Grows
  BY <1>1, GrowsAlone DEF SInv
<1>3. \A m \in network' \ network :
         /\ m.type # "RETRY" /\ m.type # "INITIAL" /\ MessageOK(m)'
  BY DEF MessageOK
<1>4. TableInv' /\ SessionsInv'
  BY <1>1, <1>3, ServerAlone, Zenon
<1>5. /\ retries' \in 0 .. MaxRetries /\ connections' \in Seq(Session)
      /\ Len(connections') <= MaxSessions /\ DOMAIN sessions' \subseteq Cid
      /\ sessions' \in [DOMAIN sessions' -> DOMAIN connections']
      /\ connections_served' \in Nat
  BY DEF SInv, TypesInv, serverVars
<1>6. UNCHANGED <<retry, token_key, client, tokens, now>>
  BY DEF serverVars
<1> QED BY <1>2, <1>3, <1>4, <1>5, <1>6, ServerStep, Zenon

\* A datagram is routed.
LEMMA RouteStep ==
    ASSUME SInv, NEW d, Route(d)
    PROVE  SInv'
<1>1. /\ d \in network /\ d.type \in LongHeader \cup {"CLOSE"}
      /\ UNCHANGED <<retry, token_key, connections_served, client, tokens, now>>
  BY Zenon DEF Route
<1>2. CASE d.dcid \in DOMAIN sessions
  <2>1. Deliver(sessions[d.dcid], connections[sessions[d.dcid]], d)
    BY <1>2 DEF Route
  <2>2. d.type \in {"INITIAL", "HANDSHAKE", "CLOSE"}
    BY <1>1 DEF LongHeader
  <2> QED BY <1>1, <1>2, <2>1, <2>2, DeliverStep, Zenon
<1>3. ASSUME UNCHANGED <<sessions, connections, retries, network>> PROVE SInv'
  BY <1>1, <1>3, AsideStep, Zenon DEF serverVars
<1>4. ASSUME NegotiateVersion(d) PROVE SInv'
  BY <1>1, <1>4, AsideStep DEF NegotiateVersion, serverVars
<1>5. ASSUME d.dcid \notin DOMAIN sessions, d.type \in LongHeader, retry, ValidateAddress(d)
      PROVE  SInv'
  <2>1. CASE d.type # "INITIAL"
    BY <1>3, <1>5, <2>1, Zenon DEF ValidateAddress
  <2>2. CASE d.type = "INITIAL" /\ (d.token = None \/ ~Validates(d.token, d.from))
    <3>1. SendRetry(d)
      BY <1>5, <2>2, Zenon DEF ValidateAddress
    <3> QED BY <1>1, <1>5, <2>2, <3>1, SendRetryStep, Zenon
  <2>3. CASE d.type = "INITIAL" /\ d.token # None /\ Validates(d.token, d.from)
    <3>1. PICK context : context = IF d.token.kind = "NEW" THEN None
                         ELSE [original |-> d.token.original, source |-> d.dcid]
      BY Zenon
    <3>2. DeliverNew(d, context)
      BY <1>5, <2>3, <3>1 DEF ValidateAddress
    <3>3. Admits(d, context)
      BY <1>5, <2>3, <3>1 DEF Admits
    <3> QED BY <1>1, <1>5, <3>2, <3>3, DeliverNewStep, Zenon
  <2> QED BY <2>1, <2>2, <2>3, Zenon
<1>6. ASSUME d.dcid \notin DOMAIN sessions, d.type \in LongHeader, ~retry, DeliverNew(d, None)
      PROVE  SInv'
  BY <1>1, <1>6, DeliverNewStep, Zenon DEF Admits
<1>7. CASE d.dcid \notin DOMAIN sessions
  BY <1>3, <1>4, <1>5, <1>6, <1>7, Zenon DEF Route
<1> QED BY <1>2, <1>7, Zenon

\* What a turn does to a session that goes on.
LEMMA ServeFacts ==
    ASSUME SInv, NEW s \in DOMAIN connections, NEW c, c = connections[s],
           NEW e, e = Serve(c)
    PROVE  /\ e \in Session /\ SessionOK(s, e)
           /\ e.key = c.key /\ e.cid = c.cid /\ e.retry = c.retry
           /\ e.destination = c.destination /\ e.initial = c.initial
           /\ e.peer_cid = c.peer_cid
           /\ e.completed => e.token # None
<1>1. c \in Session /\ SessionOK(s, c)
  BY SessionTyped DEF SInv, SessionsInv
<1>2. CASE ~(c.completed /\ c.token = None)
  BY <1>1, <1>2, Zenon DEF Serve
<1>3. CASE c.completed /\ c.token = None
  <2>1. PICK t : t = Mint("NEW", c.destination, None)
    OBVIOUS
  <2>2. /\ t \in Token /\ t.kind = "NEW" /\ t.key = token_key /\ t.key <= token_key
        /\ t.address = c.destination /\ t # None
    <3>1. token_key \in Nat /\ now \in Nat /\ c.destination \in Ports
      BY <1>1 DEF SInv, TypesInv, Session
    <3>2. t \in Token /\ t.kind = "NEW" /\ t.key = token_key /\ t.address = c.destination
      BY <2>1, <3>1 DEF Mint, Token
    <3> QED BY <3>1, <3>2, NoneFacts
  <2>3. e = [c EXCEPT !.token = t]
    BY <1>3, <2>1 DEF Serve
  <2>4. /\ e \in Session /\ e.token = t /\ e.hello = c.hello
        /\ e.key = c.key /\ e.cid = c.cid /\ e.retry = c.retry
        /\ e.destination = c.destination /\ e.initial = c.initial
        /\ e.peer_cid = c.peer_cid
    BY <1>1, <2>2, <2>3, Zenon DEF Session
  <2>5. SessionOK(s, e)
    BY <1>1, <2>2, <2>4, Zenon DEF SessionOK, BegunBy, AdmittedBy
  <2> QED BY <2>2, <2>4, <2>5
<1> QED BY <1>2, <1>3

\* What a session sends is what it says.
LEMMA SentFacts ==
    ASSUME NEW s \in DOMAIN connections', NEW e, e = connections'[s],
           e \in Session, SessionOK(s, e)', e.completed => e.token # None, NEW m \in Sent(s, e)
    PROVE  m.type \in {"FLIGHT", "DONE"} /\ MessageOK(m)'
<1>1. CASE e.draining
  BY <1>1 DEF Sent
<1>2. CASE ~e.draining /\ e.completed
  <2>1. m = [type |-> "DONE", to |-> e.destination, session |-> s, token |-> e.token]
    BY <1>2 DEF Sent
  <2>2. m.type = "DONE" /\ m.to = e.destination /\ m.session = s /\ m.token = e.token
    BY <2>1
  <2>3. e.token \in Token
    BY <1>2, Zenon DEF Session
  <2>4. DoneMsg(m)'
    BY <1>2, <2>2, <2>3, Zenon DEF DoneMsg, SessionOK
  <2> QED BY <2>2, <2>4, Zenon DEF MessageOK
<1>3. CASE ~e.draining /\ ~e.completed /\ e.hello
  <2>1. m = [type |-> "FLIGHT", to |-> e.destination, session |-> s,
             scid |-> HostCid(s), key |-> e.initial,
             original |-> IF e.retry = None THEN e.initial ELSE e.retry.original,
             retry_source |-> IF e.retry = None THEN None ELSE e.retry.source]
    BY <1>3, Zenon DEF Sent
  <2>2. /\ m.type = "FLIGHT" /\ m.to = e.destination /\ m.session = s
        /\ m.scid = HostCid(s) /\ m.key = e.initial
        /\ m.original = IF e.retry = None THEN e.initial ELSE e.retry.original
        /\ m.retry_source = IF e.retry = None THEN None ELSE e.retry.source
    BY <2>1, Zenon
  <2>3. FlightMsg(m)'
    BY <1>3, <2>2, Zenon DEF FlightMsg, SessionOK
  <2> QED BY <2>2, <2>3, Zenon DEF MessageOK
<1>4. CASE ~e.draining /\ ~e.completed /\ ~e.hello
  BY <1>4, Zenon DEF Sent
<1> QED BY <1>1, <1>2, <1>3, <1>4

\* Reaping takes the sessions that are over out of the table, and counts them.
LEMMA ReapFacts ==
    ASSUME SInv, NEW over \in SUBSET Live, Reap(over)
    PROVE  /\ DOMAIN sessions' = {i \in DOMAIN sessions : sessions[i] \notin over}
           /\ \A i \in DOMAIN sessions' : sessions'[i] = sessions[i]
           /\ sessions' \in [DOMAIN sessions' -> DOMAIN connections]
           /\ Live' = Live \ over
           /\ connections_served' \in Nat
           /\ connections_served' + Cardinality(Live') = connections_served + Cardinality(Live)
<1> DEFINE finished == {i \in DOMAIN sessions : sessions[i] \in over}
           gone == {sessions[i] : i \in finished}
<1>1. /\ sessions' = [i \in DOMAIN sessions \ finished |-> sessions[i]]
      /\ connections_served' = connections_served + Cardinality(gone)
  BY DEF Reap
<1>2. \A i \in DOMAIN sessions : sessions[i] \in DOMAIN connections
  BY DEF SInv, TypesInv
<1>3. gone = over
  BY DEF Live
<1>4. /\ DOMAIN sessions' = {i \in DOMAIN sessions : sessions[i] \notin over}
      /\ \A i \in DOMAIN sessions' : sessions'[i] = sessions[i]
      /\ sessions' \in [DOMAIN sessions' -> DOMAIN connections]
  BY <1>1, <1>2
<1>5. Live' = Live \ over
  BY <1>4 DEF Live
<1>6. IsFiniteSet(Live) /\ IsFiniteSet(over)
  <2>1. Live \subseteq 1 .. Len(connections) /\ Len(connections) \in Nat
    BY <1>2, SessionTyped DEF SInv, Live
  <2>2. IsFiniteSet(1 .. Len(connections))
    BY <2>1, FS_Interval
  <2> QED BY <2>1, <2>2, FS_Subset, Zenon
<1>7. Cardinality(Live \ over) = Cardinality(Live) - Cardinality(Live \cap over)
  BY <1>6, FS_Difference, Zenon
<1>8. Live \cap over = over
  OBVIOUS
<1>9. Cardinality(Live) \in Nat /\ Cardinality(over) \in Nat
  BY <1>6, FS_CardinalityType, Zenon
<1>10. connections_served \in Nat
  BY DEF SInv, TypesInv
<1>11. PICK l, o, n \in Nat : /\ l = Cardinality(Live) /\ o = Cardinality(over)
                              /\ n = connections_served
  BY <1>9, <1>10, Zenon
<1>12. connections_served' = n + o /\ Cardinality(Live') = l - o
  BY <1>1, <1>3, <1>5, <1>7, <1>8, <1>11, Zenon
<1> QED
  <2>1. connections_served' \in Nat /\ connections_served' + Cardinality(Live') = n + l
    BY <1>11, <1>12
  <2> QED BY <1>4, <1>5, <1>11, <2>1, Zenon

\* A turn of the loop.
LEMMA TurnStep ==
    ASSUME SInv, Turn
    PROVE  SInv'
<1>1. PICK over \in SUBSET Live :
         /\ connections' = [s \in DOMAIN connections |->
                               IF s \in Live \ over THEN Serve(connections[s])
                               ELSE connections[s]]
         /\ network' = network \cup UNION {Sent(s, connections'[s]) : s \in Live \ over}
         /\ Reap(over)
         /\ UNCHANGED <<retry, token_key, retries, client, tokens, now>>
  BY DEF Turn
<1>2. /\ connections \in Seq(Session) /\ Len(connections) \in Nat
      /\ DOMAIN connections = 1 .. Len(connections)
      /\ Live \subseteq DOMAIN connections
  BY SessionTyped, Zenon DEF SInv, TypesInv, Live
<1>3. ASSUME NEW s \in DOMAIN connections
      PROVE  /\ connections'[s] \in Session /\ SessionOK(s, connections'[s])
             /\ SameSession(connections[s], connections'[s])
             /\ s \in Live \ over => (connections'[s].completed => connections'[s].token # None)
  <2>1. PICK c, e : c = connections[s] /\ e = Serve(c)
    BY Zenon
  <2>2. /\ e \in Session /\ SessionOK(s, e) /\ SameSession(c, e)
        /\ e.completed => e.token # None
    BY <2>1, ServeFacts DEF SameSession
  <2>3. c \in Session /\ SessionOK(s, c) /\ SameSession(c, c)
    BY <2>1, SessionTyped, Zenon DEF SInv, SessionsInv, SameSession
  <2>4. connections'[s] = IF s \in Live \ over THEN e ELSE c
    BY <1>1, <2>1, Zenon
  <2>5. CASE s \in Live \ over
    BY <2>1, <2>2, <2>4, <2>5, Zenon
  <2>6. CASE s \notin Live \ over
    BY <2>1, <2>3, <2>4, <2>6, Zenon
  <2> QED BY <2>5, <2>6
<1>4. /\ connections' \in Seq(Session) /\ Len(connections') = Len(connections)
      /\ DOMAIN connections' = DOMAIN connections
  <2>1. connections' \in [1 .. Len(connections) -> Session]
    BY <1>1, <1>2, <1>3, Zenon
  <2> QED BY <1>2, <2>1
<1>5. Grows
  <2>1. client.attempt \in Nat /\ retries \in Nat /\ token_key \in Nat
    BY AttemptNat, ServerConstants DEF SInv, TypesInv
  <2>2. network \subseteq network' /\ Len(connections) <= Len(connections')
    BY <1>1, <1>2, <1>4
  <2> QED BY <1>1, <1>3, <1>4, <2>1, <2>2 DEF Grows, SInv, TypesInv
<1>6. SessionsInv'
  <2>1. ASSUME NEW s \in DOMAIN connections PROVE SessionOK(s, connections[s])'
    <3>1. PICK e : e = connections'[s]
      OBVIOUS
    <3>2. e \in Session /\ SessionOK(s, e)
      BY <1>3, <3>1
    <3>3. SessionOK(s, e)'
      BY <1>5, <3>2, SessionKept, Zenon DEF SInv
    <3> QED BY <3>1, <3>3
  <2> QED BY <1>4, <2>1 DEF SessionsInv
<1>7. /\ DOMAIN sessions' = {i \in DOMAIN sessions : sessions[i] \notin over}
      /\ \A i \in DOMAIN sessions' : sessions'[i] = sessions[i]
      /\ sessions' \in [DOMAIN sessions' -> DOMAIN connections']
      /\ Live' = Live \ over
      /\ connections_served' \in Nat
      /\ connections_served' + Cardinality(Live') = connections_served + Cardinality(Live)
  BY <1>1, <1>4, ReapFacts, Zenon
<1>8. TableInv'
  <2>1. BothCidsRoute'
    BY <1>2, <1>3, <1>7 DEF BothCidsRoute, SInv, TableInv, SameSession
  <2>2. {s \in DOMAIN connections' : connections'[s].key = token_key'}
           = {s \in DOMAIN connections : connections[s].key = token_key}
    BY <1>1, <1>3, <1>4, Zenon DEF SameSession
  <2>3. ServedOnce'
    BY <1>7, <2>2, Zenon DEF SInv, TableInv, ServedOnce
  <2>4. /\ \A s \in DOMAIN connections' : connections'[s].key <= token_key'
        /\ \A s \in Live' : connections'[s].key = token_key'
    BY <1>1, <1>2, <1>3, <1>4, <1>7 DEF SInv, TableInv, SameSession
  <2>5. \A n \in 1 .. MaxSessions : HostCid(n) \in DOMAIN sessions' => n \in DOMAIN connections'
    BY <1>4, <1>7, Zenon DEF SInv, TableInv
  <2> QED BY <2>1, <2>3, <2>4, <2>5 DEF TableInv
<1>9. /\ retries' \in 0 .. MaxRetries /\ Len(connections') <= MaxSessions
      /\ DOMAIN sessions' \subseteq Cid
  BY <1>1, <1>4, <1>7 DEF SInv, TypesInv
<1>10. ASSUME NEW m \in network' \ network
       PROVE  m.type \notin {"INITIAL", "RETRY"} /\ MessageOK(m)'
  <2>1. PICK s \in Live \ over : m \in Sent(s, connections'[s])
    BY <1>1, <1>10
  <2>2. PICK e : e = connections'[s]
    OBVIOUS
  <2>3. e \in Session /\ (e.completed => e.token # None)
    BY <1>2, <1>3, <2>1, <2>2, Zenon
  <2>4. SessionOK(s, e)'
    BY <1>2, <1>4, <1>6, <2>1, <2>2, Zenon DEF SessionsInv
  <2>5. m.type \in {"FLIGHT", "DONE"} /\ MessageOK(m)'
    BY <1>2, <1>4, <2>1, <2>2, <2>3, <2>4, SentFacts
  <2> QED BY <2>5
<1> QED BY <1>1, <1>4, <1>5, <1>6, <1>7, <1>8, <1>9, <1>10, ServerStep

-----------------------------------------------------------------------------
(* The invariant and the theorems. *)

\* Nothing has been sent, accepted or connected.
LEMMA InitSInv == Init => SInv
<1> SUFFICES ASSUME Init PROVE SInv
  OBVIOUS
<1>1. /\ retry \in BOOLEAN /\ token_key = 0 /\ sessions = <<>> /\ connections = <<>>
      /\ connections_served = 0 /\ retries = 0 /\ tokens = <<>> /\ now = 0 /\ network = {}
      /\ client.attempt = 0 /\ client.state = "CLOSED"
  BY DEF Init
<1>2. DOMAIN sessions = {} /\ DOMAIN connections = {} /\ ~Started /\ Live = {}
  BY <1>1 DEF Started, Live
<1>3. TypesInv
  <2>1. sessions \in [DOMAIN sessions -> DOMAIN connections]
    BY <1>1, <1>2
  <2> QED BY <1>1, <1>2, <2>1, ServerConstants DEF TypesInv
<1>4. TableInv
  <2>1. {s \in DOMAIN connections : connections[s].key = token_key} = {}
    BY <1>2
  <2>2. Cardinality({}) = 0
    BY FS_EmptySet
  <2>3. /\ Cardinality(Live) = 0
        /\ Cardinality({s \in DOMAIN connections : connections[s].key = token_key}) = 0
    BY <1>2, <2>1, <2>2
  <2>4. connections_served + Cardinality(Live) = 0
    BY <1>1, <2>3
  <2>5. ServedOnce
    BY <2>3, <2>4, Zenon DEF ServedOnce
  <2> QED BY <1>2, <2>5, Zenon DEF TableInv, BothCidsRoute
<1>5. MessagesInv /\ SessionsInv /\ ClientInv
  BY <1>1, <1>2 DEF MessagesInv, RetriesDiffer, SessionsInv, ClientInv
<1> QED BY <1>3, <1>4, <1>5 DEF SInv

\* A step that changes nothing keeps the invariant.
LEMMA StutterSInv ==
    ASSUME SInv, UNCHANGED vars
    PROVE  SInv'
<1>1. UNCHANGED <<serverVars, client, tokens, now>> /\ network' = network
  BY DEF vars
<1> QED BY <1>1, AsideStep

\* Every step keeps the invariant.
LEMMA NextSInv ==
    ASSUME SInv, Next
    PROVE  SInv'
<1>1. ASSUME NEW d \in network, HandleVersionNegotiation(d) PROVE SInv'
  BY <1>1, GiveUpStep DEF HandleVersionNegotiation, Over
<1>2. ASSUME GiveUp PROVE SInv'
  BY <1>2, GiveUpStep DEF GiveUp, Over
<1> QED BY <1>1, <1>2, RouteStep, RetryStep, FlightStep, NewTokenStep, TurnStep,
           RestartStep, ConnectStep, SendInitialStep, SendHandshakeStep, FinishStep,
           TickStep DEF Next

\* SInv is an invariant of the server and its client.
THEOREM ServerInvariant == Spec => []SInv
<1>1. SInv /\ [Next]_vars => SInv'
  BY NextSInv, StutterSInv
<1> QED BY <1>1, InitSInv, PTL DEF Spec

\* What a session is told by a client that reads its flight, and what the flight
\* says, for the properties that follow.
LEMMA SInvTypes == SInv => TypeOK
<1> SUFFICES ASSUME SInv PROVE TypeOK
  OBVIOUS
<1>1. retries \in Nat
  BY ServerConstants DEF SInv, TypesInv
<1>2. \A s \in DOMAIN connections : connections[s] \in Session
  BY SessionTyped, Zenon DEF SInv
<1>3. Live \subseteq DOMAIN connections
  BY Zenon DEF SInv, TypesInv, Live
<1>4. \A i \in DOMAIN tokens : tokens[i] \in Token
  <2>1. \A i \in DOMAIN tokens : tokens[i] \in NewTokens
    BY DEF SInv, TypesInv
  <2> QED BY <2>1, NewTokenFacts, Zenon DEF SInv
<1> QED BY <1>1, <1>2, <1>3, <1>4, Zenon DEF TypeOK, SInv, TypesInv

\* A connected client and its session hold each other's IDs.
LEMMA SInvEnds == SInv => EndsAgree
<1> SUFFICES ASSUME SInv, client.state = "CONNECTED" PROVE EndsAgree
  BY DEF EndsAgree
<1>1. Started /\ ClientInv
  BY StartedTyped, Zenon DEF Started
<1>2. PICK d \in network : /\ d.type = "FLIGHT" /\ d.to = client.port
         /\ d.session = client.session /\ d.key = client.key /\ ParametersMatch(client, d)
  BY <1>1, Zenon DEF ClientInv
<1>3. FlightMsg(d)
  BY <1>2, Zenon DEF SInv, MessagesInv, MessageOK
<1>4. /\ connections[d.session].peer_cid = client.attempt
      /\ connections[d.session].retry =
            IF client.retry_token = None THEN None
            ELSE [original |-> client.initial_dcid, source |-> client.retry_source]
  BY <1>1, <1>2, ReadableFlight, Zenon
<1>5. /\ client.peer_cid = HostCid(client.session)
      /\ connections[client.session].destination = client.port
  BY <1>2, <1>3, Zenon DEF FlightMsg, ParametersMatch
<1> QED BY <1>2, <1>4, <1>5, Zenon DEF EndsAgree

\* With retry, a session sends to where something was sent before it.
LEMMA SInvValidated == SInv => OnlyValidatedAddresses
<1> SUFFICES ASSUME SInv, retry, NEW d \in network, d.type \in {"FLIGHT", "DONE"}
             PROVE  Validated(d.to, d.session)
  BY Zenon DEF OnlyValidatedAddresses, Validated
<1>1. d.session \in DOMAIN connections /\ d.to = connections[d.session].destination
  BY Zenon DEF SInv, MessagesInv, MessageOK, FlightMsg, DoneMsg
<1>2. SessionOK(d.session, connections[d.session])
  BY <1>1, Zenon DEF SInv, SessionsInv
<1> QED BY <1>1, <1>2, Zenon DEF SessionOK

\* A Retry that the client followed answered its first Initial, so its token was stale.
LEMMA SInvSpares == SInv => TokenSparesRetry
<1> SUFFICES ASSUME SInv, client.state = "HANDSHAKING", client.token # None,
                    client.retry_token # None
             PROVE  Stale(client.token, client.port)
  BY DEF TokenSparesRetry, Stale
<1>1. Started /\ ClientInv
  BY StartedTyped, Zenon DEF Started
<1>2. PICK r \in network : Answers(r, client.key, client.attempt)
  BY <1>1, Zenon DEF ClientInv
<1> QED BY <1>1, <1>2, Zenon DEF ClientInv, Answers

\* A flight that the client can read echoes what it chose.
LEMMA SInvParameters == SInv => RetryParametersMatch
BY ReadableFlight, Zenon DEF RetryParametersMatch, Started

\* A check fails between two sessions.
LEMMA SInvFailure == SInv => FailureNeedsTwoSessions
BY DEF SInv, ClientInv, Started, FailureNeedsTwoSessions

\* Every variable of the server and its client has its type (endpoints/server.py).
THEOREM TypeCorrect == Spec => []TypeOK
BY ServerInvariant, SInvTypes, PTL

\* _reap counts every session of the process exactly once, whatever IDs lead to it
\* and whichever order sessions end in.
THEOREM SessionsAreServedOnce == Spec => []ServedOnce
<1>1. SInv => ServedOnce
  BY Zenon DEF SInv, TableInv
<1> QED BY <1>1, ServerInvariant, PTL

\* _route and _reap keep both IDs of every session in the table.
THEOREM TableIsComplete == Spec => []BothCidsRoute
<1>1. SInv => BothCidsRoute
  BY DEF SInv, TableInv
<1> QED BY <1>1, ServerInvariant, PTL

\* A client that has connected and its session agree on the connection IDs and on
\* the Retry (_validate_peer_parameters, _adopt_client_initial).
THEOREM ConnectedEndsAgree == Spec => []EndsAgree
BY ServerInvariant, SInvEnds, PTL

\* With retry, a session sends only where a Retry or a token went before it
\* (_validate_address).
THEOREM AddressesAreValidated == Spec => []OnlyValidatedAddresses
BY ServerInvariant, SInvValidated, PTL

\* A stored token spares the Retry as long as it is valid (validate_new_token).
THEOREM TokensSpareRetries == Spec => []TokenSparesRetry
BY ServerInvariant, SInvSpares, PTL

\* The connection IDs of every flight a client can read are those it expects
\* (_handle_retry, _validate_peer_parameters).
THEOREM ParametersAreEchoed == Spec => []RetryParametersMatch
BY ServerInvariant, SInvParameters, PTL

\* The check of the IDs fails only between two sessions (_locate_packet,
\* _validate_peer_parameters).
THEOREM FailuresNeedTwoSessions == Spec => []FailureNeedsTwoSessions
BY ServerInvariant, SInvFailure, PTL
=============================================================================
