------------------------------ MODULE Recovery ------------------------------
(***************************************************************************)
(* Loss detection and the probe timeout over the three packet number       *)
(* spaces (recovery.py), driving the NewReno controller.                   *)
(*                                                                         *)
(* Time is a number of ticks.  The RTT estimator is kept as the two        *)
(* durations the code derives from it, loss_delay (the time threshold) and *)
(* pto (smoothed plus variance): a sample replaces them by any values of   *)
(* LossDelays and PtoBases.  An acknowledgement may cover any packets ever *)
(* sent, since the peer may have received any of them, in any order.       *)
(***************************************************************************)
EXTENDS NewReno

CONSTANTS
    IsClient,
    MaxPn,          \* bound: MaxPn[l] packets are sent at level l
    MaxTime,        \* bound: the last tick
    SendUntil,      \* bound: packets are sent up to this tick
    MaxPtoCount,    \* bound: PTOs in a row
    Sizes,          \* packet sizes
    LossDelays,     \* values of the time threshold
    PtoBases,       \* values of smoothed_rtt + max(4 * rttvar, granularity)
    MaxAckDelay,    \* the peer's max_ack_delay
    MaxPto          \* MAX_PTO

ASSUME DurationsNat ==
    /\ LossDelays \subseteq Nat \ {0}
    /\ PtoBases \subseteq Nat \ {0}
    /\ Sizes \subseteq Nat
    /\ MaxAckDelay \in Nat
    /\ MaxPto \in Nat

Level == {"INITIAL", "HANDSHAKE", "ONE_RTT"}

PacketThreshold == 3

PersistentCongestionThreshold == 3

VARIABLES
    now,
    sent,           \* sent[l]: packets neither acknowledged, lost nor dropped
    largest_sent,
    largest_acked,
    loss_time,
    discarded,      \* levels whose keys are gone
    controller,
    rtt,            \* [loss_delay, pto, has_sample]
    pto_count,
    handshake_confirmed,
    last_event

spaceVars == <<sent, largest_sent, largest_acked, loss_time, discarded>>
vars == <<now, spaceVars, controller, rtt, pto_count, handshake_confirmed,
          last_event>>

Init ==
    /\ now = 0
    /\ sent = [l \in Level |-> {}]
    /\ largest_sent = [l \in Level |-> -1]
    /\ largest_acked = [l \in Level |-> -1]
    /\ loss_time = [l \in Level |-> NoTime]
    /\ discarded = {}
    /\ controller = NewController
    /\ rtt \in [loss_delay : LossDelays, pto : PtoBases, has_sample : {FALSE}]
    /\ pto_count = 0
    /\ handshake_confirmed = FALSE
    /\ last_event = NoTime

\* _last_event = now.  Only a client's timer reads it, so a server's is not kept.
NoteEvent == last_event' = IF IsClient THEN now ELSE last_event

-----------------------------------------------------------------------------
(* Timers. *)

PtoDuration(l, count) ==
    LET base == rtt.pto + IF l = "ONE_RTT" THEN MaxAckDelay ELSE 0 IN
    Min({base * 2 ^ count, MaxPto})

\* The levels with a pending time-threshold loss.
LossLevels == {l \in Level \ discarded : loss_time[l] # NoTime}

\* The levels whose outstanding packets arm a PTO.
PtoLevels == {l \in Level \ discarded :
    /\ l = "ONE_RTT" => handshake_confirmed
    /\ InFlight(sent[l]) # {}}

PtoDeadline(l, count) ==
    Max({p.time_sent : p \in InFlight(sent[l])}) + PtoDuration(l, count)

EarliestLossTime == Min({loss_time[l] : l \in LossLevels})

EarliestPto(count) == Min({PtoDeadline(l, count) : l \in PtoLevels})

\* Mutant: a client always falls back on the Initial level.
AntiDeadlockLevelInitial == "INITIAL"

\* Where a client with nothing in flight probes.
AntiDeadlockLevel == IF "INITIAL" \in discarded THEN "HANDSHAKE" ELSE "INITIAL"

LossDetectionTimeout ==
    CASE LossLevels # {} -> EarliestLossTime
      [] LossLevels = {} /\ PtoLevels # {} -> EarliestPto(pto_count)
      [] /\ LossLevels = {} /\ PtoLevels = {}
         /\ IsClient /\ ~handshake_confirmed /\ last_event # NoTime
            -> last_event + PtoDuration(AntiDeadlockLevel, pto_count)
      [] OTHER -> NoTime

-----------------------------------------------------------------------------
(* Loss. *)

\* Mutant: no time threshold.
LostPacketsByCount(packets, largest, loss_delay) == {p \in packets :
    p.pn <= largest - PacketThreshold}

\* The packets of a space that count as lost behind largest acked.
LostPackets(packets, largest, loss_delay) == {p \in packets :
    /\ p.pn <= largest
    /\ \/ p.pn <= largest - PacketThreshold
       \/ p.time_sent <= now - loss_delay}

\* When the remaining overtaken packets would be lost.
NextLossTime(packets, largest, loss_delay) ==
    LET waiting == {p \in packets : p.pn <= largest} IN
    IF waiting = {} THEN NoTime
    ELSE Min({p.time_sent + loss_delay : p \in waiting})

SpansPersistentCongestion(lost, r) ==
    LET first == CHOOSE p \in lost : \A q \in lost : p.pn <= q.pn
        last  == CHOOSE p \in lost : \A q \in lost : p.pn >= q.pn
    IN  /\ first # last
        /\ last.time_sent - first.time_sent
             > (r.pto + MaxAckDelay) * PersistentCongestionThreshold

\* The controller after the loss of these packets.
ControllerAfterLoss(c, lost, r) ==
    LET hit == InFlight(lost)
        reduced == OnPacketsLost(c, hit, now)
    IN  IF hit = {} THEN c
        ELSE IF r.has_sample /\ SpansPersistentCongestion(hit, r)
             THEN OnPersistentCongestion(reduced)
             ELSE reduced

\* _detect_and_remove_lost at level l, from these packets, largest acked,
\* controller and RTT state, and then the response to an ECN-CE mark on a
\* packet sent at ce_time, if there was one.
DetectAndRemoveLost(l, packets, largest, c, r, ce_time) ==
    LET lost == LostPackets(packets, largest, r.loss_delay)
        kept == packets \ lost
        c1   == ControllerAfterLoss(c, lost, r)
    IN  /\ sent' = [sent EXCEPT ![l] = kept]
        /\ loss_time' = [loss_time EXCEPT ![l] =
               NextLossTime(kept, largest, r.loss_delay)]
        /\ controller' = IF ce_time = NoTime THEN c1
                         ELSE OnCongestion(c1, ce_time, now)

-----------------------------------------------------------------------------
(* The operations. *)

OnPacketSent(l) ==
    /\ l \notin discarded
    /\ now <= SendUntil
    /\ largest_sent[l] + 1 < MaxPn[l]
    /\ \E ack_eliciting \in BOOLEAN, size \in Sizes :
       LET p == [pn            |-> largest_sent[l] + 1,
                 time_sent     |-> now,
                 ack_eliciting |-> ack_eliciting,
                 size          |-> size]
       IN  /\ sent' = [sent EXCEPT ![l] = @ \cup {p}]
           /\ controller' = OnPacketSentC(controller, p)
    /\ largest_sent' = [largest_sent EXCEPT ![l] = @ + 1]
    /\ NoteEvent
    /\ UNCHANGED <<now, largest_acked, loss_time, discarded, rtt, pto_count,
                   handshake_confirmed>>

\* The RTT state after an acknowledgement of these packets up to largest.
RttAfterAck(acked, largest) ==
    IF /\ \E p \in acked : p.pn = largest
       /\ InFlight(acked) # {}
    THEN [loss_delay : LossDelays, pto : PtoBases, has_sample : {TRUE}]
    ELSE {rtt}

\* An ACK that newly acknowledges packets.  With ce, its ECN counts report a
\* congestion mark, which _validate_ecn passes on after the losses.
OnAckReceived(l, acked, largest, ce) ==
    LET top == Max({largest_acked[l], largest})
        latest == Max({p.time_sent : p \in acked})
    IN  /\ acked # {}
        /\ \A p \in acked : p.pn <= largest
        /\ NoteEvent
        /\ largest_acked' = [largest_acked EXCEPT ![l] = top]
        /\ rtt' \in RttAfterAck(acked, largest)
        /\ pto_count' = 0
        /\ DetectAndRemoveLost(l, sent[l] \ acked, top,
               OnPacketsAcked(controller, InFlight(acked)), rtt',
               IF ce THEN latest ELSE NoTime)
        /\ UNCHANGED <<now, largest_sent, discarded, handshake_confirmed>>

\* An ACK of nothing new, or of a packet never sent (AckOfUnsentPacket): only
\* the event time is noted.
OnStaleAck ==
    /\ last_event # NoTime
    /\ NoteEvent
    /\ UNCHANGED <<now, spaceVars, controller, rtt, pto_count,
                   handshake_confirmed>>

TimerDue == LossDetectionTimeout # NoTime /\ LossDetectionTimeout <= now

\* The timer fires on a time-threshold loss.
OnLossTimeout ==
    /\ TimerDue
    /\ LossLevels # {}
    /\ \E l \in LossLevels :
          /\ loss_time[l] = EarliestLossTime
          /\ DetectAndRemoveLost(l, sent[l], largest_acked[l], controller, rtt,
                                 NoTime)
    /\ NoteEvent
    /\ UNCHANGED <<now, largest_sent, largest_acked, discarded, rtt, pto_count,
                   handshake_confirmed>>

\* The level a PTO asks the connection to probe (the outcome's probe_level):
\* the one whose deadline, with the backoff already counted, is earliest.  On a
\* tie the code takes the first level, the model either.
ProbeLevels ==
    IF PtoLevels = {} THEN {AntiDeadlockLevel}
    ELSE {l \in PtoLevels :
             PtoDeadline(l, pto_count + 1) = EarliestPto(pto_count + 1)}

\* The timer fires as a PTO: back off, and return a probe level.
OnProbeTimeout ==
    /\ TimerDue
    /\ LossLevels = {}
    /\ pto_count < MaxPtoCount
    /\ pto_count' = pto_count + 1
    /\ NoteEvent
    /\ UNCHANGED <<now, spaceVars, controller, rtt, handshake_confirmed>>

\* Mutant: the dropped packets stay in flight.
DropPacketsStillInFlight(l) ==
    /\ sent' = [sent EXCEPT ![l] = {}]
    /\ loss_time' = [loss_time EXCEPT ![l] = NoTime]
    /\ pto_count' = 0
    /\ UNCHANGED controller

\* Mutant: the loss time outlives the dropped packets.
DropPacketsKeepLossTime(l) ==
    /\ controller' = OnPacketsDiscarded(controller, InFlight(sent[l]))
    /\ sent' = [sent EXCEPT ![l] = {}]
    /\ pto_count' = 0
    /\ UNCHANGED loss_time

\* Forget the packets of a level with no congestion signal.
DropPackets(l) ==
    /\ controller' = OnPacketsDiscarded(controller, InFlight(sent[l]))
    /\ sent' = [sent EXCEPT ![l] = {}]
    /\ loss_time' = [loss_time EXCEPT ![l] = NoTime]
    /\ pto_count' = 0

\* A Retry restarts a client's Initial space, a 0-RTT rejection its
\* application space.
RestartSpace(l) ==
    /\ IsClient /\ ~handshake_confirmed
    /\ l \in {"INITIAL", "ONE_RTT"} \ discarded
    /\ largest_acked[l] = -1
    /\ DropPackets(l)
    /\ UNCHANGED <<now, largest_sent, largest_acked, discarded, rtt,
                   handshake_confirmed, last_event>>

\* Initial keys go when a client first sends, and a server first processes, a
\* Handshake packet.
DiscardInitial ==
    /\ "INITIAL" \notin discarded
    /\ IsClient => largest_sent["HANDSHAKE"] >= 0
    /\ DropPackets("INITIAL")
    /\ discarded' = discarded \cup {"INITIAL"}
    /\ UNCHANGED <<now, largest_sent, largest_acked, rtt, handshake_confirmed,
                   last_event>>

\* _confirm_handshake: by then the Initial space is gone.
ConfirmHandshake ==
    /\ ~handshake_confirmed
    /\ "INITIAL" \in discarded
    /\ handshake_confirmed' = TRUE
    /\ DropPackets("HANDSHAKE")
    /\ discarded' = discarded \cup {"HANDSHAKE"}
    /\ UNCHANGED <<now, largest_sent, largest_acked, rtt, last_event>>

Tick ==
    /\ now < MaxTime
    /\ now' = now + 1
    /\ UNCHANGED <<spaceVars, controller, rtt, pto_count, handshake_confirmed,
                   last_event>>

Ack ==
    \E l \in Level : \E acked \in SUBSET sent[l] :
    \E largest \in 0 .. largest_sent[l], ce \in BOOLEAN :
        OnAckReceived(l, acked, largest, ce)

Next ==
    \/ \E l \in Level : OnPacketSent(l) \/ RestartSpace(l)
    \/ Ack
    \/ OnStaleAck
    \/ OnLossTimeout
    \/ OnProbeTimeout
    \/ DiscardInitial
    \/ ConfirmHandshake
    \/ Tick

\* The endpoint loops sleep until next_timer and then call handle_timer.
Fairness == WF_vars(Tick) /\ WF_vars(OnLossTimeout)

Spec == Init /\ [][Next]_vars /\ Fairness

-----------------------------------------------------------------------------
(* Properties. *)

SentPacket == [pn : Nat, time_sent : Nat, ack_eliciting : BOOLEAN, size : Nat]

\* Every variable has its type.
TypeOK ==
    /\ now \in Nat
    /\ \A l \in Level : \A p \in sent[l] : p \in SentPacket
    /\ largest_sent \in [Level -> Nat \cup {-1}]
    /\ largest_acked \in [Level -> Nat \cup {-1}]
    /\ loss_time \in [Level -> Nat \cup {NoTime}]
    /\ discarded \subseteq Level
    /\ controller.bytes_in_flight \in Nat
    /\ controller.congestion_window >= MinimumWindow
    /\ pto_count \in Nat

\* bytes_in_flight is the total size of the outstanding ack-eliciting packets:
\* every way a packet can leave (acknowledged, lost by count or by time,
\* dropped with its keys or by a restart) takes it out exactly once.
InFlightIsConserved ==
    controller.bytes_in_flight =
        SumOfSizes(InFlight(sent["INITIAL"]))
        + SumOfSizes(InFlight(sent["HANDSHAKE"]))
        + SumOfSizes(InFlight(sent["ONE_RTT"]))

\* A space waits on a loss time exactly while a packet behind the largest
\* acknowledged one is outstanding: the timer neither outlives its packet nor
\* forgets one.
LossTimeNamesOvertaken ==
    \A l \in Level :
        loss_time[l] # NoTime <=> \E p \in sent[l] : p.pn <= largest_acked[l]

\* The window comes down at most once per recovery period: a step that
\* reduces it again resolves a packet sent after the first reduction began, or
\* two packets far enough apart to be persistent congestion.  A step resolves
\* a packet by its loss or its acknowledgement (with a CE mark it is the latter
\* that reduces the window), and the formula does not tell these apart.
ReductionNeedsNewerPacket ==
    [][ /\ controller'.congestion_window < controller.congestion_window
        /\ controller.recovery_start_time # NoTime
        => \E l \in Level : \E p, q \in sent[l] \ sent'[l] :
              \/ p.time_sent > controller.recovery_start_time
              \/ p.time_sent - q.time_sent
                   > (rtt'.pto + MaxAckDelay) * PersistentCongestionThreshold
      ]_vars

\* "A probe must go out at the level whose timer expired" (connection.py): the
\* level is picked after the backoff has been doubled, and is still one whose
\* own deadline has passed and whose keys exist; a timeout with nothing in
\* flight is a client's, before confirmation.
ProbeAnswersExpiredTimer ==
    TimerDue /\ LossLevels = {} =>
        /\ ProbeLevels \cap discarded = {}
        /\ PtoLevels # {} =>
              \A l \in ProbeLevels : PtoDeadline(l, pto_count) <= now
        /\ PtoLevels = {} => IsClient /\ ~handshake_confirmed

\* A packet overtaken by an acknowledgement is eventually acknowledged or
\* declared lost, whatever later samples do to the loss delay.
OvertakenResolves ==
    \A l \in Level : \A n \in 0 .. MaxPn[l] - 1 :
        (\E p \in sent[l] : p.pn = n /\ n <= largest_acked[l])
            ~> ~(\E p \in sent[l] : p.pn = n)
=============================================================================
