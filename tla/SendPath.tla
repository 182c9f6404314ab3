------------------------------ MODULE SendPath ------------------------------
(***************************************************************************)
(* What one endpoint may put on the wire, and when: datagrams_to_send with *)
(* the congestion window, the pacer, the probe exemption and the server's  *)
(* anti-amplification limit (connection.py).                               *)
(*                                                                         *)
(* Sizes are in units of which a full datagram has MaxDatagramSize and an  *)
(* acknowledgement one.  Queued data is a number of frames per level, one  *)
(* to a packet.  Outstanding packets are the bytes in flight per level:    *)
(* which packets they are is the business of Recovery, and so is the value *)
(* of the window, any of Windows after an acknowledgement or a loss.       *)
(* datagrams_to_send is a loop; each iteration is a step here, and nothing *)
(* else happens until it stops.                                            *)
(***************************************************************************)
EXTENDS Integers, FiniteSetsExt

CONSTANTS
    Roles,              \* values of is_client
    MaxDatagramSize,    \* max_datagram_size; also MIN_INITIAL_DATAGRAM
    Burst,              \* the pacer's cap, PACING_BURST_DATAGRAMS datagrams
    Windows,            \* values of congestion_window
    ServerFlight,       \* Handshake packets in the server's first flight
    DatagramSizes,      \* sizes of received datagrams, while they are counted
    MaxReceived,        \* bound: bytes received while that is counted
    MaxQueued,          \* bound: frames queued per level
    MaxProbes,          \* bound: probes owed per level
    MaxFlight           \* bound: bytes in flight when more is queued

ASSUME SendPathConstants ==
    /\ Roles \subseteq BOOLEAN
    /\ MaxDatagramSize \in Nat \ {0}
    /\ Burst \in Nat /\ Burst >= MaxDatagramSize
    /\ Windows \subseteq Nat /\ Windows # {}
    /\ ServerFlight \in Nat \ {0}
    /\ DatagramSizes \subseteq Nat

Level == {"INITIAL", "HANDSHAKE", "ONE_RTT"}

AmplificationFactor == 3
ProbePackets == 2

VARIABLES
    is_client,
    keys,               \* levels with send keys
    discarded,          \* levels whose space is gone
    ack_pending,        \* levels with ack_eliciting_pending
    queued,             \* frames waiting at a level, _has_pending_data
    flushed,            \* levels whose CRYPTO data has all been sent once
    probes_pending,
    flight,             \* bytes in flight per level
    congestion_window,
    pacing_credit,
    confirmed,          \* handshake_confirmed
    address_validated,
    bytes_received,     \* counted while the address is not validated
    bytes_sent,         \* likewise
    sending,            \* inside the loop of datagrams_to_send
    datagram            \* what the last iteration built

connVars == <<is_client, keys, discarded, ack_pending, queued, flushed,
              probes_pending, flight, congestion_window, confirmed,
              address_validated, bytes_received>>
vars == <<connVars, pacing_credit, bytes_sent, sending, datagram>>

NoDatagram == [size |-> 0, in_flight |-> 0]

\* A client after connect, about to send its ClientHello; a server before the
\* first datagram.
Init ==
    /\ is_client \in Roles
    /\ keys = IF is_client THEN {"INITIAL"} ELSE {}
    /\ discarded = {}
    /\ ack_pending = {}
    /\ queued = [l \in Level |-> IF is_client /\ l = "INITIAL" THEN 1 ELSE 0]
    /\ flushed = {}
    /\ probes_pending = [l \in Level |-> 0]
    /\ flight = [l \in Level |-> 0]
    /\ congestion_window \in Windows
    /\ pacing_credit = Burst
    /\ confirmed = FALSE
    /\ address_validated = is_client
    /\ bytes_received = 0
    /\ bytes_sent = 0
    /\ sending = is_client
    /\ datagram = NoDatagram

-----------------------------------------------------------------------------
(* Budgets. *)

OverLevels(f) == f["INITIAL"] + f["HANDSHAKE"] + f["ONE_RTT"]

\* Mutant: probes owed are not counted as data to send.
InFlightDataPendingNoProbes == \E l \in Level : queued[l] > 0

InFlightDataPending == \E l \in Level : probes_pending[l] > 0 \/ queued[l] > 0

PacingBlocked == pacing_credit < MaxDatagramSize /\ InFlightDataPending

AmplificationBudget == AmplificationFactor * bytes_received - bytes_sent

\* Mutant: probes are exempt from the anti-amplification limit too.
SendBudgetProbesUnlimited(ack_only) ==
    LET window == IF ack_only THEN MaxDatagramSize
                  ELSE congestion_window - OverLevels(flight)
        budget == IF address_validated THEN window
                  ELSE Min({window, AmplificationBudget})
        probes == OverLevels(probes_pending)
    IN  IF probes > 0 THEN Max({budget, probes * MaxDatagramSize}) ELSE budget

\* Mutant: acknowledgements are held to the window.
SendBudgetAcksInWindow(ack_only) ==
    LET window == congestion_window - OverLevels(flight)
        probes == OverLevels(probes_pending)
        budget == IF probes > 0 THEN Max({window, probes * MaxDatagramSize})
                  ELSE window
    IN  IF address_validated THEN budget
        ELSE Min({budget, AmplificationBudget})

\* Mutant: probes are held to the window.
SendBudgetProbesInWindow(ack_only) ==
    LET window == IF ack_only THEN MaxDatagramSize
                  ELSE congestion_window - OverLevels(flight)
    IN  IF address_validated THEN window
        ELSE Min({window, AmplificationBudget})

SendBudget(ack_only) ==
    LET window == IF ack_only THEN MaxDatagramSize
                  ELSE congestion_window - OverLevels(flight)
        probes == OverLevels(probes_pending)
        budget == IF probes > 0 THEN Max({window, probes * MaxDatagramSize})
                  ELSE window
    IN  IF address_validated THEN budget
        ELSE Min({budget, AmplificationBudget})

-----------------------------------------------------------------------------
(* Building one datagram. *)

\* Mutant: a datagram for acknowledgements only takes data along.
ElicitingAnyway(l, ack_only) == queued[l] > 0 \/ probes_pending[l] > 0

\* The packet at this level would elicit an acknowledgement.
Eliciting(l, ack_only) ==
    ~ack_only /\ (queued[l] > 0 \/ probes_pending[l] > 0)

\* _build_packet finds something to send.
HasPacket(l, ack_only) ==
    l \in keys /\ (l \in ack_pending \/ Eliciting(l, ack_only))

\* The packet sizes of one datagram, zero for a level left out, for the given
\* unpadded sizes: an Initial is padded and travels alone, and the other
\* levels share the room there is.
PacketSizes(natural, ack_only, budget) ==
    LET initial == HasPacket("INITIAL", ack_only)
        handshake == HasPacket("HANDSHAKE", ack_only) /\ ~initial
        room == MaxDatagramSize - IF handshake THEN natural["HANDSHAKE"] ELSE 0
        one_rtt == HasPacket("ONE_RTT", ack_only) /\ ~initial /\ room > 0
    IN  [l \in Level |->
          CASE l = "INITIAL" /\ initial ->
                   Max({natural[l], Min({MaxDatagramSize, budget})})
            [] l = "HANDSHAKE" /\ handshake -> natural[l]
            [] l = "ONE_RTT" /\ one_rtt -> Min({natural[l], room})
            [] OTHER -> 0]

\* Unpadded sizes: an acknowledgement alone is one unit.
NaturalSizes(ack_only) == {n \in [Level -> 1 .. MaxDatagramSize] :
    \A l \in Level : ~Eliciting(l, ack_only) => n[l] = 1}

\* _discard_space for a set of levels.  Probes owed there stay owed.
Discard(levels, fl) == [l \in Level |-> IF l \in levels THEN 0 ELSE fl[l]]

\* A client's first Handshake packet retires the Initial space.
RetiredBy(sizes) ==
    IF is_client /\ sizes["HANDSHAKE"] > 0 THEN {"INITIAL"} ELSE {}

AfterOne(n) == IF n > 0 THEN n - 1 ELSE 0

\* One iteration that builds a datagram with packets of these sizes.
BuildDatagram(natural, ack_only) ==
    LET budget == SendBudget(ack_only)
        sizes == PacketSizes(natural, ack_only, budget)
        built == {l \in Level : sizes[l] > 0}
        eliciting == {l \in built : Eliciting(l, ack_only)}
        retired == RetiredBy(sizes)
        added == [l \in Level |-> IF l \in eliciting THEN sizes[l] ELSE 0]
        grown == [l \in Level |-> flight[l] + added[l]]
        taken == [l \in Level |->
                     IF l \in eliciting THEN AfterOne(queued[l]) ELSE queued[l]]
    IN  /\ budget > 0
        /\ built # {}
        /\ keys' = keys \ retired
        /\ discarded' = discarded \cup retired
        /\ ack_pending' = ack_pending \ built
        /\ queued' = Discard(retired, taken)
        /\ flushed' = flushed \cup
               {l \in eliciting \ {"ONE_RTT"} : queued[l] > 0 /\ taken[l] = 0}
        /\ probes_pending' = [l \in Level |->
               IF l \in eliciting THEN AfterOne(probes_pending[l])
               ELSE probes_pending[l]]
        /\ flight' = Discard(retired, grown)
        /\ pacing_credit' = Min({Burst,
               pacing_credit - (OverLevels(flight') - OverLevels(flight))})
        /\ bytes_sent' = IF address_validated THEN bytes_sent
                         ELSE bytes_sent + OverLevels(sizes)
        /\ datagram' = [size      |-> OverLevels(sizes),
                        in_flight |-> OverLevels(added)]
        /\ UNCHANGED <<is_client, congestion_window, confirmed, address_validated,
                       bytes_received, sending>>

\* datagrams_to_send starts: time has refilled the pacer by some amount.
StartSending(credit) ==
    /\ ~sending
    /\ credit \in pacing_credit .. Burst
    /\ sending' = TRUE
    /\ pacing_credit' = credit
    /\ datagram' = NoDatagram
    /\ UNCHANGED <<connVars, bytes_sent>>

SendOne ==
    /\ sending
    /\ \E natural \in NaturalSizes(PacingBlocked) :
          BuildDatagram(natural, PacingBlocked)

\* _build_datagram returns None: no budget, or nothing to send.
NothingToBuild ==
    \/ SendBudget(PacingBlocked) <= 0
    \/ \A l \in Level : ~HasPacket(l, PacingBlocked)

StopSending ==
    /\ sending
    /\ NothingToBuild
    /\ sending' = FALSE
    /\ datagram' = NoDatagram
    /\ UNCHANGED <<connVars, pacing_credit, bytes_sent>>

-----------------------------------------------------------------------------
(* What happens between two calls of datagrams_to_send. *)

Between ==
    /\ ~sending
    /\ datagram' = NoDatagram
    /\ UNCHANGED <<is_client, pacing_credit, bytes_sent, sending>>

\* The bound on what is outstanding, for every step that queues a frame.
MayQueueMore == OverLevels(flight) <= MaxFlight

\* _datagram_received counts the datagram, whatever becomes of its packets.
CountReceived(size) ==
    /\ address_validated \/ bytes_received + size <= MaxReceived
    /\ bytes_received' = IF address_validated THEN bytes_received
                         ELSE bytes_received + size

\* A datagram whose packets are all dropped.
ReceiveNothing(size) ==
    /\ Between
    /\ ~address_validated
    /\ CountReceived(size)
    /\ UNCHANGED <<keys, discarded, ack_pending, queued, flushed, probes_pending,
                   flight, congestion_window, confirmed, address_validated>>

\* A server's Initial packets up to the end of the ClientHello, which may take
\* several.  The last one yields the server's flight and the keys to send it.
ReceiveClientHello(size, whole) ==
    /\ Between
    /\ ~is_client
    /\ "HANDSHAKE" \notin keys \cup discarded
    /\ CountReceived(size)
    /\ keys' = IF whole THEN Level ELSE {"INITIAL"}
    /\ queued' = IF whole THEN [queued EXCEPT !["INITIAL"] = 1,
                                             !["HANDSHAKE"] = ServerFlight]
                 ELSE queued
    /\ ack_pending' = {"INITIAL"}
    /\ UNCHANGED <<discarded, flushed, probes_pending, flight, congestion_window,
                   confirmed, address_validated>>

\* The levels at which the peer can have sent a packet: it answers an Initial
\* flight that was sent, and has 1-RTT keys a server can read once confirmed.
PeerLevels ==
    IF is_client THEN IF "INITIAL" \in flushed THEN Level ELSE {}
    ELSE {"INITIAL"}
         \cup (IF "INITIAL" \in flushed THEN {"HANDSHAKE"} ELSE {})
         \cup (IF confirmed THEN {"ONE_RTT"} ELSE {})

\* What the CRYPTO or HANDSHAKE_DONE in a received packet does to the
\* handshake, if anything.  A Finished or HANDSHAKE_DONE answers a Handshake
\* flight that was sent to its end.
Progress(l) ==
    {"none"}
    \cup (IF is_client /\ l = "INITIAL" /\ "HANDSHAKE" \notin keys \cup discarded
          THEN {"server_hello"} ELSE {})
    \cup (IF is_client /\ l = "HANDSHAKE" /\ "ONE_RTT" \notin keys
          THEN {"server_finished"} ELSE {})
    \cup (IF ~is_client /\ l = "HANDSHAKE" /\ ~confirmed
             /\ "HANDSHAKE" \in flushed
          THEN {"client_finished"} ELSE {})
    \cup (IF is_client /\ l = "ONE_RTT" /\ ~confirmed
             /\ "HANDSHAKE" \in flushed
          THEN {"handshake_done"} ELSE {})

\* Levels dropped by a packet: the server's Initial on a Handshake packet, the
\* others on confirmation.
Retires(l, progress) ==
    (IF ~is_client /\ l = "HANDSHAKE" THEN {"INITIAL"} ELSE {})
    \cup (IF progress = "client_finished" THEN {"HANDSHAKE"} ELSE {})
    \cup (IF progress = "handshake_done" THEN {"INITIAL", "HANDSHAKE"} ELSE {})

NewKeys(progress) ==
    CASE progress = "server_hello" -> {"HANDSHAKE"}
      [] progress = "server_finished" -> {"ONE_RTT"}
      [] OTHER -> {}

\* The level at which the handshake step queues a frame: a client's Finished,
\* or a server's HANDSHAKE_DONE.
Answers(progress) ==
    CASE progress = "server_finished" -> {"HANDSHAKE"}
      [] progress = "client_finished" -> {"ONE_RTT"}
      [] OTHER -> {}

\* _process_packet with _handle_payload: the packet may elicit an
\* acknowledgement, may acknowledge so that `left` bytes stay in flight and
\* `lost` frames are requeued, and may move the handshake.
ReceivePacket(l, size, eliciting, left, lost, progress) ==
    LET retired == Retires(l, progress)
        added == [k \in Level |-> (IF k = l THEN lost ELSE 0)
                                  + (IF k \in Answers(progress) THEN 1 ELSE 0)]
    IN  /\ Between
        /\ l \in keys \cap PeerLevels
        /\ left <= flight[l]
        /\ lost > 0 => left < flight[l] /\ MayQueueMore
        /\ \A k \in Level : queued[k] + added[k] <= MaxQueued
        /\ CountReceived(size)
        /\ keys' = (keys \cup NewKeys(progress)) \ retired
        /\ discarded' = discarded \cup retired
        /\ ack_pending' = IF eliciting THEN ack_pending \cup {l} ELSE ack_pending
        /\ queued' = Discard(retired, [k \in Level |-> queued[k] + added[k]])
        /\ flushed' = flushed \ Answers(progress)
        /\ flight' = Discard(retired, [flight EXCEPT ![l] = left])
        /\ congestion_window' \in
               IF left = flight[l] THEN {congestion_window} ELSE Windows
        /\ confirmed' = (confirmed
               \/ progress \in {"client_finished", "handshake_done"})
        /\ address_validated' = (address_validated \/ l = "HANDSHAKE")
        /\ UNCHANGED probes_pending

\* The application queues a frame.
QueueFrame ==
    /\ Between
    /\ "ONE_RTT" \in keys /\ (is_client \/ confirmed)
    /\ queued["ONE_RTT"] < MaxQueued
    /\ MayQueueMore
    /\ queued' = [queued EXCEPT !["ONE_RTT"] = @ + 1]
    /\ UNCHANGED <<keys, discarded, ack_pending, flushed, probes_pending, flight,
                   congestion_window, confirmed, address_validated,
                   bytes_received>>

\* The level on_loss_detection_timeout names for a probe: one with bytes in
\* flight, or a client's anti-deadlock level when there is none.
ProbeLevels ==
    LET timed == {l \in Level : flight[l] > 0 /\ (l = "ONE_RTT" => confirmed)}
        handshaking == IF "INITIAL" \notin discarded THEN "INITIAL"
                       ELSE "HANDSHAKE"
    IN  IF timed = {} /\ is_client /\ ~confirmed
        THEN {handshaking} ELSE timed

\* Frames requeued from up to two outstanding packets, when nothing waits.
Requeued(l) == IF queued[l] = 0 /\ flight[l] > 0 THEN 0 .. ProbePackets ELSE {0}

\* handle_timer with a PTO due: two probes are owed, and _prepare_probe gives
\* them something to carry.
OnProbeTimeout(l) ==
    /\ Between
    /\ l \in ProbeLevels
    /\ MayQueueMore
    /\ probes_pending[l] + ProbePackets <= MaxProbes
    /\ probes_pending' = [probes_pending EXCEPT ![l] = @ + ProbePackets]
    /\ \E own \in Requeued(l) :
       \E early \in IF l = "HANDSHAKE" /\ ~confirmed THEN Requeued("ONE_RTT")
                    ELSE {0} :
          queued' = [k \in Level |-> queued[k]
                        + (IF k = l THEN own ELSE 0)
                        + (IF k = "ONE_RTT" /\ k # l THEN early ELSE 0)]
    /\ UNCHANGED <<keys, discarded, ack_pending, flushed, flight,
                   congestion_window, confirmed, address_validated,
                   bytes_received>>

\* handle_timer with a time-threshold loss due.
OnLossTimeout(l, left, lost) ==
    /\ Between
    /\ left < flight[l]
    /\ lost > 0 => MayQueueMore
    /\ queued[l] + lost <= MaxQueued
    /\ flight' = [flight EXCEPT ![l] = left]
    /\ queued' = [queued EXCEPT ![l] = @ + lost]
    /\ congestion_window' \in Windows
    /\ UNCHANGED <<keys, discarded, ack_pending, flushed, probes_pending,
                   confirmed, address_validated, bytes_received>>

-----------------------------------------------------------------------------
\* Sizes only matter while they are counted.
ReceivedSizes == IF address_validated THEN {MaxDatagramSize} ELSE DatagramSizes

Receive(l) ==
    \E size \in ReceivedSizes, eliciting \in BOOLEAN, left \in 0 .. flight[l],
       lost \in 0 .. 1, progress \in Progress(l) :
        ReceivePacket(l, size, eliciting, left, lost, progress)

LossTimeout(l) ==
    \E left \in 0 .. flight[l], lost \in 0 .. 1 : OnLossTimeout(l, left, lost)

Next ==
    \/ \E credit \in 0 .. Burst : StartSending(credit)
    \/ SendOne
    \/ StopSending
    \/ \E size \in ReceivedSizes : ReceiveNothing(size)
    \/ \E size \in ReceivedSizes, whole \in BOOLEAN :
          ReceiveClientHello(size, whole)
    \/ \E l \in Level : Receive(l)
    \/ QueueFrame
    \/ \E l \in Level : OnProbeTimeout(l)
    \/ \E l \in Level : LossTimeout(l)

\* The loop of datagrams_to_send runs to its end; the endpoint calls it again
\* after every event and when the pacing deadline has refilled the bucket.
Fairness ==
    /\ WF_vars(SendOne \/ StopSending)
    /\ SF_vars(StartSending(Burst))

Spec == Init /\ [][Next]_vars /\ Fairness

-----------------------------------------------------------------------------
\* Every variable has its type.
TypeOK ==
    /\ keys \subseteq Level /\ discarded \subseteq Level
    /\ ack_pending \subseteq Level /\ flushed \subseteq Level
    /\ queued \in [Level -> Nat] /\ probes_pending \in [Level -> Nat]
    /\ flight \in [Level -> Nat]
    /\ congestion_window \in Windows
    /\ pacing_credit \in 0 .. Burst
    /\ {is_client, confirmed, address_validated, sending} \subseteq BOOLEAN
    /\ bytes_received \in Nat /\ bytes_sent \in Nat
    /\ datagram \in [size : Nat, in_flight : Nat]

\* Before the client's address is validated the server sends less than one
\* datagram beyond three times what it received: _send_budget stops the loop
\* once the allowance is used up, and one datagram is the most that a positive
\* allowance can be overrun by.
AmplificationBounded ==
    ~address_validated =>
        bytes_sent < AmplificationFactor * bytes_received + MaxDatagramSize

\* When the pacer is what stops the loop, no acknowledgement is left behind at
\* a level that has keys, except by the anti-amplification limit.
PacerLetsAcksOut ==
    [][(sending /\ ~sending' /\ PacingBlocked) =>
          \/ ack_pending \cap keys = {}
          \/ ~address_validated /\ AmplificationBudget <= 0]_vars

\* Probes owed at a level whose keys are still there are sent, however full the
\* window is, unless the space is dropped or the server may not send.
ProbesGoOut ==
    \A l \in Level :
        (probes_pending[l] > 0 /\ l \in keys /\ address_validated)
            ~> (probes_pending[l] = 0 \/ l \in discarded)

\* Without a probe owed at any level, bytes are put in flight only while there is
\* room in the congestion window, and pass it by less than one datagram:
\* _build_datagram asks for some budget and then fills a datagram, and the exemption
\* of acknowledgements carries no data with it.
WindowOverrunBounded ==
    [][datagram'.in_flight > 0 /\ OverLevels(probes_pending) = 0 =>
          /\ OverLevels(flight) < congestion_window
          /\ OverLevels(flight') < congestion_window + MaxDatagramSize]_vars

-----------------------------------------------------------------------------
(* What comments, documents and tests say and the code does not do. *)

\* The server never sends more than three times what it received.
AmplificationLimit ==
    ~address_validated => bytes_sent <= AmplificationFactor * bytes_received
=============================================================================
