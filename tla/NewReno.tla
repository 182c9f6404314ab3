------------------------------- MODULE NewReno -------------------------------
(***************************************************************************)
(* The NewReno congestion controller (new_reno.py): one operator per event *)
(* of the controller interface, from a controller state to the next.       *)
(*                                                                         *)
(* Sizes and windows are in the same unit; LOSS_REDUCTION_FACTOR is one    *)
(* half, and int() truncates, so both are integer divisions.               *)
(***************************************************************************)
EXTENDS Integers, FiniteSetsExt

CONSTANTS
    MaxDatagramSize,    \* max_datagram_size
    InitialWindow,      \* the congestion window of __init__
    Infinity            \* slow_start_threshold's float("inf"), and "no timer"

ASSUME SizesNat ==
    /\ MaxDatagramSize \in Nat \ {0}
    /\ InitialWindow \in Nat
    /\ Infinity \in Nat
    /\ InitialWindow >= 2 * MaxDatagramSize
    /\ Infinity > InitialWindow

\* Python's None for a time.
NoTime == -1

MinimumWindow == 2 * MaxDatagramSize

SumOfSizes(packets) == MapThenSumSet(LAMBDA p : p.size, packets)

\* The only caller sets in_flight to ack_eliciting.
InFlight(packets) == {p \in packets : p.ack_eliciting}

NewController == [
    congestion_window    |-> InitialWindow,
    bytes_in_flight      |-> 0,
    slow_start_threshold |-> Infinity,
    recovery_start_time  |-> NoTime]

InRecovery(c, sent_time) ==
    c.recovery_start_time # NoTime /\ sent_time <= c.recovery_start_time

OnPacketSentC(c, p) ==
    IF p.ack_eliciting THEN [c EXCEPT !.bytes_in_flight = @ + p.size] ELSE c

\* One packet of the loop in on_packets_acked.
AckOnePacket(c, p) ==
    LET growth == IF InRecovery(c, p.time_sent) THEN 0
                  ELSE IF c.congestion_window < c.slow_start_threshold
                  THEN p.size
                  ELSE (MaxDatagramSize * p.size) \div c.congestion_window
    IN  [c EXCEPT !.bytes_in_flight   = @ - p.size,
                  !.congestion_window = @ + growth]

\* Packets are acknowledged in packet number order: slow start can end
\* half-way through.
OnPacketsAcked(c, packets) ==
    MapThenFoldSet(LAMBDA p, d : AckOnePacket(d, p), c, LAMBDA p : p,
                   LAMBDA P : CHOOSE p \in P : \A q \in P : q.pn <= p.pn, packets)

\* Mutant: no floor under the window.
ReduceWindowNoFloor(c, now) ==
    [c EXCEPT !.recovery_start_time  = now,
              !.congestion_window    = @ \div 2,
              !.slow_start_threshold = c.congestion_window \div 2]

\* The halving that a loss and an ECN-CE mark share.
ReduceWindow(c, now) ==
    LET w == Max({c.congestion_window \div 2, MinimumWindow}) IN
    [c EXCEPT !.recovery_start_time  = now,
              !.congestion_window    = w,
              !.slow_start_threshold = w]

OnPacketsDiscarded(c, packets) ==
    [c EXCEPT !.bytes_in_flight = @ - SumOfSizes(packets)]

\* Mutant: the recovery period is ignored.
OnCongestionAlways(c, sent_time, now) == ReduceWindow(c, now)

\* Once per recovery period: only a packet sent after it began counts.
OnCongestion(c, sent_time, now) ==
    IF InRecovery(c, sent_time) THEN c ELSE ReduceWindow(c, now)

OnPacketsLost(c, packets, now) ==
    OnCongestion(OnPacketsDiscarded(c, packets),
                 Max({p.time_sent : p \in packets}), now)

OnPersistentCongestion(c) ==
    [c EXCEPT !.congestion_window   = MinimumWindow,
              !.recovery_start_time = NoTime]
=============================================================================
