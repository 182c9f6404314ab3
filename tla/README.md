# Verification of dsquic

TLA+ models of dsquic, a QUIC implementation in Python whose protocol core is
sans-IO: `Connection` takes datagrams and clock readings and returns datagrams,
deadlines and events, and the endpoints loop around it.  Nothing in the core runs
concurrently.  What is hard about it comes from outside: the peer, the network
(loss, duplication, reordering), the clock, and long sequences of legal calls
that mix them.

## The parts of the system

| Part | Code | Models |
| --- | --- | --- |
| 1-RTT key update | `connection.py`, `protection.py` | `KeyUpdate`, `KeyGenerations`, `PacketNumber` |
| loss detection and PTO | `recovery.py` | `Recovery` |
| congestion control | `new_reno.py`, `congestion.py` | `NewReno` |
| send path: window, pacer, probes, anti-amplification | `connection.py` | `SendPath` |
| streams and flow control | `streams.py`, `connection.py` | `StreamHalves`, `Streams`, `ByteStream` |
| 0-RTT, the client's streams | `connection.py`, `streams.py` | `EarlyStreams` |
| handshake: levels, keys, confirmation | `connection.py` | `Handshake` |
| TLS 1.3 | `tls.py` | `Tls`, `Handshake` |
| connection lifecycle and timers | `connection.py`, `endpoints/__init__.py` | `Lifecycle` |
| Retry and tokens | `retry.py`, `connection.py` | `Server` |
| endpoints: routing, reaping, repeated fetches | `endpoints/` | `Server` |
| packet numbers | `packet.py`, `protection.py` | `PacketNumber`, `KeyUpdate` |
| ciphers, headers, frames, varints, parameters, qlog, hq | the rest | not modelled |
| HTTP/3, QPACK, MASQUE | docstrings only | nothing to model |

`Connection` owns one `LossDetection`, which owns one `NewReno`.  Receiving a
packet picks keys (`_receive_keys`), handles frames, and passes ACKs to
`LossDetection`.  `handle_timer` passes timeouts to it.  What is lost is queued
again, and `datagrams_to_send` decides what may leave.  The endpoints sleep until
`next_timer`, pass datagrams and timeouts in, and send what comes out; the server
finds the `Connection` of a datagram by its destination connection ID.

## Modules

**KeyUpdate.**  Two endpoints and the set of 1-RTT packets ever sent, any of which
may arrive at any time, any number of times, or never.  `space[e]` holds the key
fields of `_Space`; a key is its generation number, and decryption succeeds when
the generations agree.  One action each for `initiate_key_update`,
`datagrams_to_send` with and without a packet, `_process_packet`, completion of
the handshake, and expiry of the previous keys.
A packet's number is truncated by its sender and recovered by its receiver
(**PacketNumber**, with a length of n bytes given as its window 2^8n); recovered
wrongly it makes a wrong nonce, and the packet is dropped.
`KeyGenerations` is the abstract promise: generations advance one at a time, and
an endpoint advances only when its peer is level or ahead.

**NewReno** has the controller as operators on a record.  **Recovery** extends it
with the three packet number spaces, the timer and a bounded clock.  An RTT sample
picks any of `LossDelays` and `PtoBases`: which delay the arithmetic yields does not
matter to the properties, that it may change between steps does.  `Ack` includes
the ECN response, in the code's order, after the losses.

**SendPath** is one endpoint between the calls the endpoint loop makes.  Each
iteration of the loop in `datagrams_to_send` is a step, and nothing else happens
until the loop stops.  Sizes are in units, two to a datagram in the instances.  An
acknowledgement is one unit.  Queued data is a number of frames, one to a packet.
Outstanding packets are bytes per level, since `Recovery` has the packets.
Bytes sent and received are counted only until the address is validated, because
nothing reads them afterwards.  Abstractions to know of: a packet that fits after
a Handshake packet always has room for one frame, 0-RTT keys and the close datagram
are left out, and stream data that flow control holds back is not counted as queued
(in the code it counts as pending, though no frame can be built from it).
`flushed` remembers at which levels the handshake data has been sent in full once,
since the peer cannot answer a flight it was never sent; `PeerLevels` are the levels
at which the peer can have sent something by then.  `DatagramSizes` are the sizes
of datagrams received while they are counted.

**StreamHalves** has `SendStream` and `RecvStream` as records, with an operator per
method.  A `RangeSet` is the set of offsets it covers.  **Streams** puts a sender's
`StreamManager` and a receiver's on the two ends of a network that drops and
reorders packets, together with what `Connection` does with their frames:
`_handle_stream` with the credit it extends, `_handle_limit`, acknowledgement,
`_requeue_lost` and `_prepare_probe`.  A packet carries one frame.  A packet
received twice is dropped by number, so it arrives at most once, but what it
carried may be sent again after a loss, a false alarm or a probe.  Left out: the other
direction, which is the same code, unidirectional streams, which nothing opens, and
STREAMS_BLOCKED, which the receiver ignores.  `Probe` may pick any one or two
outstanding packets where the code takes the two oldest, which may also be packets
with no stream frame.
`ByteStream` is what a stream promises: bytes in order, each once, then the end, once.

**EarlyStreams** runs `Streams` for a client that sends 0-RTT data.  It starts under
remembered limits, its server accepts, rejects or asks for a second hello, and
`_on_handshake_complete` takes over the fresh limits and queues rejected data again.

**Tls** has `TlsClient` and `TlsServer` as records, with an operator per handler:
full handshakes, HelloRetryRequest, tickets, resumption and the offer of 0-RTT.
Cryptography is symbolic.  A secret is the record of what it was derived from (stage,
PSK, shared secret, transcript, label), so two are equal exactly when their
derivations agree; a MAC is its key and what it covers.  Transcripts hold messages
without their MACs, which the earlier messages determine.  **Handshake** puts the two
machines into connections, with the CRYPTO streams of the three levels, the keys each
level has, what discards them, 0-RTT keys, HANDSHAKE_DONE and the closing of a failed
handshake.  Any packet sent may arrive at any time, again, or never.  A second
connection may follow under other configurations and resume the first.  The age the
server finds a ticket to have is chosen when it reads the hello.  Left out: Retry,
version negotiation and connection IDs (in `Server`), closing by the application (in
`Lifecycle`), certificate policy.

**Lifecycle** is how a connection ends, at both ends: `close`, a transport error, the
peer's CONNECTION_CLOSE, the idle timeout, version negotiation, and the two ways an
endpoint lets go of a connection (`Drop`): `fetch` is told of the end or has pumped once
after its `close` (the timeout of `fetch` itself is left out), and `_reap` removes a
session that is over or past its deadline.  The application may call `close` in any
state, TERMINATED included, until then.  A deadline is the time left to it, so there
is no clock.  The handshake is its three flights, because a close before, between or
after them leaves at another level and means something else to its receiver.  Loss
detection and the pacer only set and clear their deadlines.  `SendData` stands for
whatever else a connection sends, `SendClose` for the one close datagram.

**Server** has the table of `ServerEndpoint` (one session under two connection IDs),
Retry and NEW_TOKEN tokens, restarts of the server's process, and a client that
fetches again and again, with its `SessionStore` of tokens.  The network keeps every
datagram and delivers it at any time.  Connection IDs that the code draws at random
are fresh.  A datagram is readable by who has its keys: Initial keys follow a
connection ID, later ones belong to one session.  `Route` is one datagram of `poll`,
`Turn` the rest of it; which sessions are over by then is left open.

## Runs

All instances are checked with deadlock on, except those of `Recovery`, whose clock
is bounded and so really stops, of `Streams`, which are over when the application has
nothing more to write, of `Lifecycle`, which is over when both ends are, and of
`Server`, where the bounds use up attempts, sessions and time.

| Run | Instance | Shows |
| --- | --- | --- |
| `key_update` | 3 packets each way, interval 1 | key selection is exact; an ACK never leaves in an older phase than what it acknowledges; a packet early or late by less than half its window is read with its number; `KeyGenerations` is implemented, hence generations stay within one |
| `recovery_app` | server, four 1-RTT packets, clock to 5 | one reduction per recovery period, with losses by count and by time, ECN marks and persistent congestion; types, with the floor of the window |
| `recovery_handshake` | client, three spaces, two loss delays, clock to 3 | across discards and restarts flight is conserved, loss times name overtaken packets, the probe level is one that expired, and overtaken packets resolve |
| `send_path` | a client and a server, 2 units to a datagram, window 4 | amplification within one datagram; the pacer never overdrawn and never holds an ACK; probes go out; unless a probe is owed the window is passed by less than a datagram |
| `streams` | 3 streams with a limit of two, stream and connection windows of 1, one loss | `ByteStream` is implemented, liveness included; the stream limit always moves on |
| `early_streams` | one stream of 4 bytes, stream window 3, connection window 2, remembered limits of 1, one loss | no credit or limit is exceeded; a sender that believes a stream received is right; a finished stream is confirmed in the end; `ByteStream` is implemented whether 0-RTT is accepted, rejected or withdrawn |
| `handshake` | two connections in a row, three client and three server configurations | keys agree at every level, with or without PSK and retry; no ticket, retry or change of configuration makes a handshake fail; outcomes and tickets agree; read 0-RTT data is never taken for rejected; every connection is confirmed in the end |
| `lifecycle` | idle timeouts of 2 and 4, PTO 1, session deadline 3, one ordinary datagram under way | an end is reported unless the application asked for it; `next_timer` is never later than what `handle_timer` has to do; the loop sleeps while the connection is live; after a close one datagram leaves at most; a close ends both sides |
| `server` | two ports, two attempts, sessions and Retries, one restart, two ticks | every session is counted once; both IDs of a session lead to it; connected ends agree on connection IDs and Retry; with `retry` only validated addresses are answered; a stored token spares the Retry while key, port and age allow; the Retry's transport parameters match |

Three packets are enough in `key_update` to reach generation 3, hence the phase bit
wraps.  With windows of 6 and 12 for the lengths, the first packet is still read when
it is one late and no longer when it is two late.  Four packets in `recovery_app` are enough for the packet threshold of three.
In `SendPath` the window is the minimum of two datagrams, so it fills, and the burst
is one datagram, so the pacer blocks.  `MaxFlight` bounds the steps that queue a
frame.  Without it the state space is infinite: each probe timeout without an
acknowledgement adds to what is in flight, and losing one unit queues a frame that
may take two when sent again.
In `Streams` each window is smaller than what is sent, so every credit has to be
extended and its update may be the packet that is lost.  Two packets of data and one
of limits under way at a time are enough for overtaking and for a copy of a frame to
meet the original.
In `Handshake` the configurations differ in protocols, preferred cipher suite, key
share, ticket key and limits, so that resumption is taken and declined, 0-RTT is
accepted, refused for each of its conditions and withdrawn by a retry, and one pair
has no protocol in common.
In `Lifecycle` the shorter idle timeout is below three PTOs and the longer one above,
so both arms of `_idle_deadline` are taken, and which one changes as the handshake
completes.  Idle times beyond `LongestPeriod` are all alike.  One end has delays of
loss detection and pacer, which is enough for a stale one to meet a close.
`MaxCloses` is one call of `close`, by either application; the close of a transport
error at the other end crosses with it.  Two calls of `close`, crossing or one after
the other, are left to the proofs, which bound nothing.
In `Server` two of each are what it takes for a late copy to open a second session, a
Retry to meet a token, and a restart to come between.  The lifetime of a Retry token
is shorter than that of a stored one, as in the code.

### Where the code and its documentation disagree

Each is a run that finds the property violated.

| Run | What happens |
| --- | --- |
| `key_update_stall` | previous keys expire three PTOs after a rotation although the peer has not followed, and its packets become unreadable |
| `send_amplification` | an allowance of one byte lets a whole datagram out, past three times the bytes received, from a full first datagram on |
| `early_streams_reduced` | a stream opened under a larger remembered limit keeps it after a rejection, although the server gave less |

Others have no run.

* A server confirms the handshake on completing it and may update its keys at once,
  while the client, which has not confirmed, refuses to follow; the comment in
  `_receive_keys` takes this for illegitimate.
* `_build_packet` counts a packet in flight only when it is ack-eliciting, so a padded
  Initial with only an ACK is not, which the comment on `SentPacket.in_flight` says it is.
* The pacer's credit is charged with the change of `bytes_in_flight` over an iteration,
  and a client's first Handshake packet discards the Initial space within it, so those
  bytes are refunded, although the comment has credit spent on what a datagram puts in
  flight.
* `_confirm_handshake` drops a server's 0-RTT receive keys, but `_drain_tls_events`
  goes on to `_sync_early_keys`, which finds none and installs them again.
* The congestion window is overrun like the anti-amplification allowance:
  `_build_datagram` asks only for a positive budget and then fills a whole datagram, so
  one byte of room lets it out, although the docstring of `_send_budget` exempts only
  probes and packets with nothing but ACK frames.  `WindowOverrunBounded` says by how much: less than a datagram.
* A full window, with nothing else queued, holds back an acknowledgement, and probes
  owed at a discarded level are never paid and lift the window for good.
  `WindowOverrunBounded` is therefore about steps with no probe owed at any level, and
  says nothing of a connection in that state.
* `close` does not look at the state: called on a connection that has ended it makes it
  CLOSING again and sends a CONNECTION_CLOSE.  No endpoint of the repository does so.
* A pacing or idle deadline that has passed stays in `next_timer` while a connection is
  closing, and nothing serves it, so the loop turns without sleeping until the closing
  deadline.  `LiveConnectionSleeps` is therefore about connections that are not closing.
  It leaves out the loss detection timer too: while the anti-amplification limit keeps a
  server from sending, its probe timeout still counts from the last packet sent, so once
  the backoff has reached `MAX_PTO` it stays due.
  The docstring of `serve` has idle connections cost nothing.
* The client's loop raises the error of a connection before the CONNECTION_CLOSE for
  it has been sent.
* A NEW_TOKEN names address and port, and each fetch has a new socket, so a stored
  token spares the Retry only when the port happens to be the same.  One sent again
  after a false alarm is stored twice.  A valid one does not lift the anti-amplification
  limit, which the docstring of `validate_new_token` says it does.
* A client that followed a Retry of a server since restarted ignores the second Retry
  and gets no further.
* A client takes the peer's connection ID from a long header before decrypting, so it
  can fail the check of the transport parameters when two sessions answered it
  (`FailureNeedsTwoSessions`).  The second session comes of a late copy of an Initial;
  it is counted in `connections_served` like any other.

## Fairness

`Recovery`: the clock advances and a due loss timer is served, which is what the
endpoint loops do (sleep until `next_timer`, then `handle_timer`).
`SendPath`: the loop runs to its end (weak fairness), and `datagrams_to_send` is
called again and again with a refilled bucket (strong fairness on a start with
full credit).  `poll` calls it on every turn, and `next_timer` includes the
pacing deadline.
`Streams`: losses, false alarms and probes are finitely many (`MaxLosses`).  Something
the endpoints or the network can still do is in the end done, and every such step
makes progress, so weak fairness on their disjunction is enough.  It includes that a
dropped packet is declared lost in the end: the probe timeout sends a PING when
nothing else can leave, its acknowledgement overtakes the dropped packet, and
`OvertakenResolves` of `Recovery` does the rest.  `EarlyStreams` adds that the handshake completes.
`Handshake`: what is queued leaves, and a frame whose space its sender still has is
sent again until it arrives, by loss detection or probe timeout.  A frame of a
discarded space, a 0-RTT packet and a CONNECTION_CLOSE need not arrive.  The condition
is weak fairness of `Progress`, written out with `CanProgress` for its enabledness.
So `HandshakeSettles` shows that nothing needed is discarded too early or waits for
itself; that the code does queue each frame again, `_resend_early_application_data`
included, is assumed, and its absence would not show.
`Lifecycle`: time passes, a close is sent and a due timer served (the loops do both on
every turn), and no datagram stays under way for ever.  Nothing has to arrive.
`Server` has safety properties only and assumes no fairness.

## Proofs

TLAPS checks these for every value of the constants.

* `KeyUpdateProofs`: type correctness, `GenerationsStayClose`, `AckInNewPhase`,
  `KeySelectionIsExact`, `NearbyNumberIsRead`, and the refinement of `KeyGenerations`.  None is inductive
  by itself.  `IInv` adds how the fields of a space hang together, that packet
  numbers and generations of sent packets grow together, what has been received
  bounds the peer's generation, and that an acknowledgement in the current phase
  implies the peer has followed.  For packet numbers, the sent and the expected one are
  split into multiples of the window and remainders; within half a window the multiples
  are equal or neighbours, and each case is one branch of `decode_packet_number`.
* `RecoveryProofs`, for any number of packets, sizes, delays and PTOs: `TypeOK`,
  `LossTimeNamesOvertaken`, `InFlightIsConserved`, `ReductionNeedsNewerPacket` and
  `ProbeAnswersExpiredTimer`.  `RInv` has the types of the spaces, that nothing beyond
  `largest_sent` is outstanding or acknowledged, and the loss times.  `FlightInv` adds
  that a space has finitely many packets, all sent in the past, that the controller is
  well formed, and the conservation itself: what an acknowledgement, a loss or a dropped
  space takes out of `sent` is what is taken from `bytes_in_flight`.  Its sums are folds
  over finite sets, and are taken apart by induction on the finite set itself: the set of
  the subsets a fact holds for contains the empty one and grows by an element.
  `PhasesInv` adds which keys are gone when; with it, levels armed together share one
  duration, so the level chosen after the backoff has doubled is one that expired.
  Assumed: sizes, delays, `MaxAckDelay` and `MaxPto` are natural numbers, and the
  initial window is at least the minimum.
* `SendPathProofs`: `TypeOK`, with the pacer's credit between zero and the burst,
  `AmplificationBounded`, `WindowOverrunBounded` and `PacerLetsAcksOut`.  The argument: the
  packets of a datagram share
  `MaxDatagramSize`; whatever makes a packet ack-eliciting also counts as pending
  data, so it is built only with a datagram of credit; and a positive budget
  under the limit is overrun by less than a datagram.  For the window, the budget
  is at most the window's room unless a probe is owed, and what a datagram puts in
  flight is at most its length; for the pacer, a level with an
  acknowledgement to send has a packet however the pacer stands, so the loop goes on.
  Assumed: the burst is at least a datagram.

* `StreamHalvesProofs` has a lemma per method of `SendStream` and `RecvStream`,
  `StreamsInvariant` the inductive invariant and every step but the arrival of a frame,
  and `StreamsProofs` that one and the theorems about `Streams`, for any contents,
  windows, frame sizes and number of losses: `TypeOK`, `NoStreamError`, `DeliveredIsPrefix`, `SenderKnows`,
  `BufferBounded`, `StatesAdvance`, and that every step is one of `ByteStream` or leaves
  it alone, which is `ReliableByteStream` without its fairness.  None is inductive.
  `IInv` says of each frame that is queued again or under way that it carries what was
  written, where it belongs, and was sent before (`Genuine`); of each packet that
  arrived, that the receiver has what it carried, so that an acknowledgement is never
  wrong; of each limit queued or under way, that its sender allows it; and of the
  connection, `data_sent <= max_data <= local_max_data <= Consumed + DataWindow`, where
  `data_sent` and `data_received` count the bytes below the offsets of the streams.
  A frame is then accepted because what arrived is part of what was sent, and what was
  sent is within what was allowed.  The counting is by sets of bytes: what one stream
  adds, the count grows by.

  The proofs start from the model's `Init`.  They do not cover `EarlyStreams`, where
  the limits a client begins with are not the receiver's.

* `LifecycleProofs`, for any timeouts, PTOs and delays: `TypeOK`, `EndIsReported`,
  `NeverOversleeps`, `LiveConnectionSleeps`, `OnlyCloseRevives` and `ClosedIsSilent`.
  `Good` is the invariant of one connection: a close frame, a closing deadline and
  TERMINATED each have a cause the application knows of, and CLOSING has a close frame.
  The deadlines are proved early enough by cases on which of them `handle_timer` would
  serve after a wait: the idle one only gets nearer with time.  Assumed: no configured
  period exceeds `LongestPeriod`.

* `ServerProofs`, for any number of addresses, attempts, sessions, Retries, restarts
  and ticks of the clock: `TypeOK`, `ServedOnce`, `BothCidsRoute`, `EndsAgree`,
  `OnlyValidatedAddresses`, `TokenSparesRetry`, `RetryParametersMatch` and
  `FailureNeedsTwoSessions`.  Only `TypeOK` is near to inductive: what a client and a
  session agree on was said in datagrams that may be delivered much later, again, or to a
  restarted server.  `SInv` has the types; the table (`TableInv`: each live session is
  under its own connection ID and the one its first Initial named); what each datagram
  ever sent still says truly (`MessagesInv`: an Initial's token came out of a Retry or a
  session, a server's flight repeats what its session knows); what a session remembers
  of the Initial that began it and of the token that admitted it (`SessionsInv`); and
  where each thing the client holds came from (`ClientInv`).  The network and the list
  of sessions only grow and a session's identity never changes, so most conjuncts are
  kept by growth; the work is in the delivery of an Initial, where a session is created.
  Assumed: `None` is no connection ID, token or Retry context.

Some properties are left to their proofs and have no run: `TypeOK` of `KeyUpdate`,
`Streams` and `Lifecycle`, `GenerationsStayClose`, `DeliveredIsPrefix`, `BufferBounded`,
`StatesAdvance` and `OnlyCloseRevives`.
The invariants of `StreamsInvariant` and `ServerProofs` were themselves checked by TLC
before they were proved.

Only model-checked: the liveness properties (`CloseEndsBoth` among them), since fairness
is out of the prover's reach, and everything about `EarlyStreams` and `Handshake`.

## Not modelled

* Encoding and parsing of headers, frames, varints and transport parameters, and the
  request line of hq-interop: functions of bytes with no state.
* Ciphers, key derivation and certificate checks.  Keys are symbolic in the models.
* The arithmetic of RTT samples.  `Recovery` takes any delay from a small set.
* ECN counts and their validation beyond the congestion response.
* Path validation: a PATH_CHALLENGE is answered, but no endpoint starts one.
* Sockets, files, logging, qlog and the resumption counters of the endpoints.
* HTTP/3, QPACK and MASQUE, which are docstrings so far.

## What could follow

1. The invariants of `Handshake` as theorems, and ECN validation.
2. The invariant of `Streams` for `EarlyStreams`, with remembered limits.
3. `RangeSet` as an algorithm on intervals, against the sets it stands for.
