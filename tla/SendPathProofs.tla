--------------------------- MODULE SendPathProofs ---------------------------
(***************************************************************************)
(* Proofs about SendPath, for every datagram size, burst, set of windows   *)
(* and bound: the pacer is never overdrawn (part of TypeOK) and lets       *)
(* acknowledgements out, and the anti-amplification limit and, unless a    *)
(* probe is owed, the window are overrun by less than one datagram.        *)
(***************************************************************************)
EXTENDS SendPath, TLAPS

\* Min and Max of two integers, as _send_budget and _build_datagram use them.
LEMMA MinMaxOfTwo ==
    ASSUME NEW a \in Int, NEW b \in Int
    PROVE  /\ Min({a, b}) = IF a <= b THEN a ELSE b
           /\ Max({a, b}) = IF a >= b THEN a ELSE b
<1>1. Min({a, b}) = IF a <= b THEN a ELSE b
  <2> DEFINE P(x) == x \in {a, b} /\ \A y \in {a, b} : x <= y
             m == IF a <= b THEN a ELSE b
  <2>1. P(m)
    OBVIOUS
  <2>2. \A x : P(x) => x = m
    OBVIOUS
  <2>3. Min({a, b}) = CHOOSE x : P(x)
    BY DEF Min
  <2> QED
    BY <2>1, <2>2, <2>3
<1>2. Max({a, b}) = IF a >= b THEN a ELSE b
  <2> DEFINE P(x) == x \in {a, b} /\ \A y \in {a, b} : x >= y
             m == IF a >= b THEN a ELSE b
  <2>1. P(m)
    OBVIOUS
  <2>2. \A x : P(x) => x = m
    OBVIOUS
  <2>3. Max({a, b}) = CHOOSE x : P(x)
    BY DEF Max
  <2> QED
    BY <2>1, <2>2, <2>3
<1> QED
  BY <1>1, <1>2

\* The sum over the levels of a function to naturals.
LEMMA OverLevelsNat ==
    ASSUME NEW f \in [Level -> Nat]
    PROVE  OverLevels(f) \in Nat
BY DEF OverLevels, Level

\* The variables _send_budget reads, well typed.
BudgetTyped ==
    /\ queued \in [Level -> Nat] /\ probes_pending \in [Level -> Nat]
    /\ flight \in [Level -> Nat]
    /\ congestion_window \in Windows
    /\ address_validated \in BOOLEAN
    /\ bytes_received \in Nat /\ bytes_sent \in Nat

\* The budget is an integer, and while the address is not validated no more
\* than the anti-amplification allowance.
LEMMA BudgetLimited ==
    ASSUME BudgetTyped, NEW ack_only \in BOOLEAN
    PROVE  /\ SendBudget(ack_only) \in Int
           /\ ~address_validated => SendBudget(ack_only) <= AmplificationBudget
<1> DEFINE window == IF ack_only THEN MaxDatagramSize
                     ELSE congestion_window - OverLevels(flight)
           probes == OverLevels(probes_pending)
           most == IF probes > 0 THEN Max({window, probes * MaxDatagramSize})
                   ELSE window
<1>1. window \in Int /\ probes \in Nat /\ probes * MaxDatagramSize \in Int
  BY OverLevelsNat, SendPathConstants DEF BudgetTyped
<1>2. AmplificationBudget \in Int
  BY DEF AmplificationBudget, AmplificationFactor, BudgetTyped
<1>3. SendBudget(ack_only) = IF address_validated THEN most
                             ELSE Min({most, AmplificationBudget})
  BY DEF SendBudget
<1> HIDE DEF window, probes
<1>4. most \in Int
  BY <1>1, MinMaxOfTwo
<1> HIDE DEF most
<1> QED
  BY <1>2, <1>3, <1>4, MinMaxOfTwo

\* The packets of a datagram share MaxDatagramSize.
LEMMA SizesFit ==
    ASSUME NEW natural \in [Level -> 1 .. MaxDatagramSize],
           NEW ack_only \in BOOLEAN, NEW budget \in Int
    PROVE  /\ PacketSizes(natural, ack_only, budget) \in [Level -> Nat]
           /\ OverLevels(PacketSizes(natural, ack_only, budget))
                  <= MaxDatagramSize
<1> DEFINE initial == HasPacket("INITIAL", ack_only)
           handshake == HasPacket("HANDSHAKE", ack_only) /\ ~initial
           room == MaxDatagramSize - IF handshake THEN natural["HANDSHAKE"]
                                     ELSE 0
           one_rtt == HasPacket("ONE_RTT", ack_only) /\ ~initial /\ room > 0
           padded == Max({natural["INITIAL"], Min({MaxDatagramSize, budget})})
           shared == Min({natural["ONE_RTT"], room})
           sizes == PacketSizes(natural, ack_only, budget)
<1>1. /\ natural["INITIAL"] \in 1 .. MaxDatagramSize
      /\ natural["HANDSHAKE"] \in 1 .. MaxDatagramSize
      /\ natural["ONE_RTT"] \in 1 .. MaxDatagramSize
      /\ MaxDatagramSize \in Nat
  BY SendPathConstants DEF Level
<1>2. padded \in 1 .. MaxDatagramSize
  <2> DEFINE floor == Min({MaxDatagramSize, budget})
             own == natural["INITIAL"]
  <2>1. floor \in Int /\ floor <= MaxDatagramSize
    BY <1>1, MinMaxOfTwo
  <2>2. own \in Int /\ own >= 1 /\ own <= MaxDatagramSize
    BY <1>1
  <2> HIDE DEF floor, own
  <2>3. Max({own, floor}) = IF own >= floor THEN own ELSE floor
    BY <2>1, <2>2, MinMaxOfTwo
  <2>4. Max({own, floor}) \in 1 .. MaxDatagramSize
    BY <1>1, <2>1, <2>2, <2>3
  <2> QED
    BY <2>4 DEF floor, own
<1>3. room \in 0 .. MaxDatagramSize
  BY <1>1
<1>4. room > 0 => shared \in 1 .. room
  BY <1>1, <1>3, MinMaxOfTwo
<1>5. /\ sizes \in [Level -> {sizes[l] : l \in Level}]
      /\ sizes["INITIAL"] = IF initial THEN padded ELSE 0
      /\ sizes["HANDSHAKE"] = IF handshake THEN natural["HANDSHAKE"] ELSE 0
      /\ sizes["ONE_RTT"] = IF one_rtt THEN shared ELSE 0
  BY DEF PacketSizes, Level
<1> HIDE DEF padded, shared, sizes
<1>6. sizes["INITIAL"] \in Nat /\ sizes["HANDSHAKE"] \in Nat /\ sizes["ONE_RTT"] \in Nat
  BY <1>1, <1>2, <1>3, <1>4, <1>5
<1>7. sizes \in [Level -> Nat]
  BY <1>5, <1>6 DEF Level
<1>8. OverLevels(sizes) <= MaxDatagramSize
  BY <1>1, <1>2, <1>3, <1>4, <1>5 DEF OverLevels
<1> QED
  BY <1>7, <1>8 DEF sizes

-----------------------------------------------------------------------------
IInv == TypeOK /\ AmplificationBounded

\* An iteration of the loop keeps the invariant.  A datagram that puts bytes in
\* flight is built only with a full datagram of credit, because anything that
\* makes a packet ack-eliciting also makes the pacer count as blocked.
LEMMA BuildKeepsInv ==
    ASSUME IInv,
           NEW natural \in NaturalSizes(PacingBlocked),
           BuildDatagram(natural, PacingBlocked)
    PROVE  IInv'
<1> DEFINE blocked == PacingBlocked
           budget == SendBudget(blocked)
           sizes == PacketSizes(natural, blocked, budget)
           built == {l \in Level : sizes[l] > 0}
           eliciting == {l \in built : Eliciting(l, blocked)}
           retired == RetiredBy(sizes)
           added == [l \in Level |-> IF l \in eliciting THEN sizes[l] ELSE 0]
           grown == [l \in Level |-> flight[l] + added[l]]
           taken == [l \in Level |->
                       IF l \in eliciting THEN AfterOne(queued[l]) ELSE queued[l]]
<1>1. /\ TypeOK /\ AmplificationBounded /\ BudgetTyped
      /\ blocked \in BOOLEAN
      /\ natural \in [Level -> 1 .. MaxDatagramSize]
  BY DEF IInv, TypeOK, BudgetTyped, PacingBlocked, NaturalSizes
<1>2. /\ budget > 0
      /\ keys' = keys \ retired
      /\ discarded' = discarded \cup retired
      /\ ack_pending' = ack_pending \ built
      /\ queued' = Discard(retired, taken)
      /\ flushed' = flushed \cup
             {l \in eliciting \ {"ONE_RTT"} : queued[l] > 0 /\ taken[l] = 0}
      /\ probes_pending' = [l \in Level |->
             IF l \in eliciting THEN AfterOne(probes_pending[l])
             ELSE probes_pending[l]]
      /\ flight' = Discard(retired, grown)
      /\ pacing_credit' = Min({Burst,
             pacing_credit - (OverLevels(flight') - OverLevels(flight))})
      /\ bytes_sent' = IF address_validated THEN bytes_sent
                       ELSE bytes_sent + OverLevels(sizes)
      /\ datagram' = [size      |-> OverLevels(sizes),
                      in_flight |-> OverLevels(added)]
      /\ UNCHANGED <<is_client, congestion_window, confirmed, address_validated,
                     bytes_received, sending>>
  BY DEF BuildDatagram
<1>3. /\ budget \in Int
      /\ ~address_validated => budget <= AmplificationBudget
  BY <1>1, BudgetLimited
<1> HIDE DEF blocked, budget
<1>4. sizes \in [Level -> Nat] /\ OverLevels(sizes) <= MaxDatagramSize
  BY <1>1, <1>3, SizesFit
<1> HIDE DEF sizes
<1>5. retired \subseteq Level
  BY DEF RetiredBy, Level
<1> HIDE DEF retired
<1>6. /\ added \in [Level -> Nat]
      /\ \A l \in Level : added[l] <= sizes[l]
      /\ \A l \in Level : added[l] > 0 => Eliciting(l, blocked)
  BY <1>4
<1>7. \A n \in Nat : AfterOne(n) \in Nat
  BY DEF AfterOne
<1>8. queued' \in [Level -> Nat] /\ probes_pending' \in [Level -> Nat]
  <2>1. taken \in [Level -> Nat]
    BY <1>1, <1>7 DEF BudgetTyped
  <2> HIDE DEF taken
  <2>2. queued' \in [Level -> Nat]
    BY <1>2, <2>1 DEF Discard
  <2>3. probes_pending' \in [Level -> Nat]
    BY <1>1, <1>2, <1>7 DEF BudgetTyped
  <2> QED
    BY <2>2, <2>3
<1> HIDE DEF added
<1>9. /\ flight' \in [Level -> Nat]
      /\ \A l \in Level : flight'[l] <= flight[l] + added[l]
  BY <1>1, <1>2, <1>6 DEF BudgetTyped, Discard
<1>10. OverLevels(added) \in Nat /\ OverLevels(added) <= MaxDatagramSize
  BY <1>4, <1>6, SendPathConstants DEF OverLevels, Level
<1>11. OverLevels(flight') - OverLevels(flight) <= OverLevels(added)
  BY <1>1, <1>6, <1>9 DEF OverLevels, Level, BudgetTyped
<1>12. OverLevels(added) > 0 => pacing_credit >= MaxDatagramSize
  <2> SUFFICES ASSUME OverLevels(added) > 0
               PROVE  pacing_credit >= MaxDatagramSize
    OBVIOUS
  <2>1. PICK l \in Level : added[l] > 0
    BY <1>6 DEF OverLevels, Level
  <2>2. ~blocked /\ (queued[l] > 0 \/ probes_pending[l] > 0)
    BY <1>6, <2>1 DEF Eliciting
  <2> QED
    BY <1>1, <2>2, SendPathConstants
       DEF blocked, PacingBlocked, InFlightDataPending, TypeOK
<1>13. pacing_credit' \in 0 .. Burst
  <2> DEFINE left == pacing_credit - (OverLevels(flight') - OverLevels(flight))
  <2>1. OverLevels(flight') \in Nat /\ OverLevels(flight) \in Nat
    BY <1>1, <1>9, OverLevelsNat DEF BudgetTyped
  <2>2. left \in Int /\ left >= 0
    BY <1>1, <1>10, <1>11, <1>12, <2>1, SendPathConstants DEF TypeOK
  <2>3. pacing_credit' = Min({Burst, left})
    BY <1>2
  <2> HIDE DEF left
  <2> QED
    BY <2>2, <2>3, MinMaxOfTwo, SendPathConstants
<1>14. OverLevels(sizes) \in Nat
  BY <1>4, OverLevelsNat
<1>15. bytes_sent' \in Nat /\ bytes_received' \in Nat
  BY <1>1, <1>2, <1>14 DEF TypeOK
<1>16. AmplificationBounded'
  BY <1>1, <1>2, <1>3, <1>4, <1>14, SendPathConstants
     DEF AmplificationBounded, AmplificationBudget, AmplificationFactor, TypeOK
<1>17. datagram' \in [size : Nat, in_flight : Nat]
  BY <1>2, <1>10, <1>14
<1>18. /\ keys' \subseteq Level /\ discarded' \subseteq Level
       /\ ack_pending' \subseteq Level /\ flushed' \subseteq Level
       /\ congestion_window' \in Windows
       /\ {is_client', confirmed', address_validated', sending'} \subseteq BOOLEAN
  BY <1>1, <1>2, <1>5 DEF TypeOK
<1> QED
  BY <1>8, <1>9, <1>13, <1>15, <1>16, <1>17, <1>18 DEF IInv, TypeOK

\* A new connection has sent nothing, so the invariant holds of it.
LEMMA InitIInv == Init => IInv
<1> SUFFICES ASSUME Init PROVE IInv
  OBVIOUS
<1>1. NoDatagram \in [size : Nat, in_flight : Nat]
  BY DEF NoDatagram
<1>2. /\ keys \subseteq Level /\ discarded \subseteq Level
      /\ ack_pending \subseteq Level /\ flushed \subseteq Level
      /\ {is_client, confirmed, address_validated, sending} \subseteq BOOLEAN
  BY SendPathConstants DEF Init, Level
<1>3. /\ queued \in [Level -> Nat] /\ probes_pending \in [Level -> Nat]
      /\ flight \in [Level -> Nat]
  BY DEF Init
<1>4. /\ congestion_window \in Windows /\ pacing_credit \in 0 .. Burst
      /\ bytes_received \in Nat /\ bytes_sent \in Nat
      /\ datagram \in [size : Nat, in_flight : Nat]
  BY <1>1, SendPathConstants DEF Init
<1>5. TypeOK
  BY <1>2, <1>3, <1>4 DEF TypeOK
<1>6. AmplificationBounded
  BY SendPathConstants DEF Init, AmplificationBounded, AmplificationFactor
<1> QED
  BY <1>5, <1>6 DEF IInv

\* What datagram_received and handle_timer may do to the state: nothing is
\* sent, and received bytes only grow while they are counted.
LEMMA BetweenKeepsInv ==
    ASSUME IInv, Between,
           keys' \subseteq Level, discarded' \subseteq Level,
           ack_pending' \subseteq Level, flushed' \subseteq Level,
           queued' \in [Level -> Nat], probes_pending' \in [Level -> Nat],
           flight' \in [Level -> Nat], congestion_window' \in Windows,
           confirmed' \in BOOLEAN, address_validated' \in BOOLEAN,
           bytes_received' \in Nat,
           address_validated => address_validated',
           ~address_validated => bytes_received' >= bytes_received
    PROVE  IInv'
<1>1. NoDatagram \in [size : Nat, in_flight : Nat]
  BY DEF NoDatagram
<1>2. /\ pacing_credit' \in 0 .. Burst
      /\ bytes_sent' \in Nat
      /\ {is_client', sending'} \subseteq BOOLEAN
      /\ datagram' \in [size : Nat, in_flight : Nat]
  BY <1>1 DEF IInv, TypeOK, Between
<1>3. TypeOK'
  BY <1>2 DEF TypeOK
<1>4. AmplificationBounded'
  <2> SUFFICES ASSUME ~address_validated'
               PROVE  bytes_sent' < 3 * bytes_received' + MaxDatagramSize
    BY DEF AmplificationBounded, AmplificationFactor
  <2>0. ~address_validated
    OBVIOUS
  <2>1. bytes_sent < 3 * bytes_received + MaxDatagramSize
    BY <2>0 DEF IInv, AmplificationBounded, AmplificationFactor
  <2>2. bytes_sent' = bytes_sent /\ bytes_sent \in Nat /\ bytes_received \in Nat
    BY DEF IInv, TypeOK, Between
  <2>3. bytes_received' >= bytes_received /\ bytes_received' \in Nat
    BY <2>0
  <2>4. MaxDatagramSize \in Nat
    BY SendPathConstants
  <2>5. \A s, r, t, m \in Nat : s < 3 * r + m /\ t >= r => s < 3 * t + m
    OBVIOUS
  <2> QED
    BY <2>1, <2>2, <2>3, <2>4, <2>5
<1> QED
  BY <1>3, <1>4 DEF IInv

\* Discarding spaces keeps a per-level count a count.
LEMMA DiscardTyped ==
    ASSUME NEW f \in [Level -> Nat], NEW levels
    PROVE  Discard(levels, f) \in [Level -> Nat]
BY DEF Discard

\* A packet is received: the allowance of an unvalidated server only grows.
LEMMA ReceiveKeepsInv ==
    ASSUME IInv, NEW l \in Level, Receive(l)
    PROVE  IInv'
<1>1. PICK size \in ReceivedSizes, eliciting \in BOOLEAN,
           left \in 0 .. flight[l], lost \in 0 .. 1, progress \in Progress(l) :
              ReceivePacket(l, size, eliciting, left, lost, progress)
  BY DEF Receive
<1> DEFINE retired == Retires(l, progress)
           added == [k \in Level |-> (IF k = l THEN lost ELSE 0)
                                  + (IF k \in Answers(progress) THEN 1 ELSE 0)]
           more == [k \in Level |-> queued[k] + added[k]]
           fewer == [flight EXCEPT ![l] = left]
<1>2. TypeOK /\ size \in Nat
  BY SendPathConstants DEF IInv, ReceivedSizes
<1>3. /\ Between
      /\ CountReceived(size)
      /\ keys' = (keys \cup NewKeys(progress)) \ retired
      /\ discarded' = discarded \cup retired
      /\ ack_pending' = IF eliciting THEN ack_pending \cup {l} ELSE ack_pending
      /\ queued' = Discard(retired, more)
      /\ flushed' = flushed \ Answers(progress)
      /\ flight' = Discard(retired, fewer)
      /\ congestion_window' \in
             IF left = flight[l] THEN {congestion_window} ELSE Windows
      /\ confirmed' = (confirmed
             \/ progress \in {"client_finished", "handshake_done"})
      /\ address_validated' = (address_validated \/ l = "HANDSHAKE")
      /\ UNCHANGED probes_pending
  BY <1>1 DEF ReceivePacket
<1>4. retired \subseteq Level /\ NewKeys(progress) \subseteq Level
  BY DEF Retires, NewKeys, Level
<1>5. more \in [Level -> Nat] /\ fewer \in [Level -> Nat]
  BY <1>2 DEF TypeOK
<1> HIDE DEF retired, more, fewer
<1>6. queued' \in [Level -> Nat] /\ flight' \in [Level -> Nat]
  BY <1>3, <1>5, DiscardTyped
<1>7. /\ keys' \subseteq Level /\ discarded' \subseteq Level
      /\ ack_pending' \subseteq Level /\ flushed' \subseteq Level
      /\ probes_pending' \in [Level -> Nat]
      /\ congestion_window' \in Windows
      /\ confirmed' \in BOOLEAN /\ address_validated' \in BOOLEAN
      /\ address_validated => address_validated'
  BY <1>2, <1>3, <1>4 DEF TypeOK
<1>8. /\ bytes_received' \in Nat
      /\ ~address_validated => bytes_received' >= bytes_received
  BY <1>2, <1>3 DEF CountReceived, TypeOK
<1> QED
  BY <1>3, <1>6, <1>7, <1>8, BetweenKeepsInv

\* Every call and every turn of the loop in datagrams_to_send keeps the
\* invariant.
LEMMA NextIInv == IInv /\ [Next]_vars => IInv'
<1> SUFFICES ASSUME IInv, [Next]_vars PROVE IInv'
  OBVIOUS
<1>t. TypeOK
  BY DEF IInv
<1>1. ASSUME NEW credit \in 0 .. Burst, StartSending(credit) PROVE IInv'
  <2>1. NoDatagram \in [size : Nat, in_flight : Nat]
    BY DEF NoDatagram
  <2>2. /\ pacing_credit' \in 0 .. Burst /\ sending' = TRUE
        /\ datagram' = NoDatagram
        /\ UNCHANGED <<connVars, bytes_sent>>
    BY <1>1 DEF StartSending
  <2> QED
    BY <1>t, <2>1, <2>2 DEF IInv, TypeOK, AmplificationBounded, connVars
<1>2. CASE SendOne
  BY <1>2, BuildKeepsInv DEF SendOne
<1>3. CASE StopSending
  <2>1. NoDatagram \in [size : Nat, in_flight : Nat]
    BY DEF NoDatagram
  <2>2. /\ sending' = FALSE /\ datagram' = NoDatagram
        /\ UNCHANGED <<connVars, pacing_credit, bytes_sent>>
    BY <1>3 DEF StopSending
  <2> QED
    BY <1>t, <2>1, <2>2 DEF IInv, TypeOK, AmplificationBounded, connVars
<1>4. ASSUME NEW size \in ReceivedSizes, ReceiveNothing(size) PROVE IInv'
  <2>1. size \in Nat
    BY SendPathConstants DEF ReceivedSizes
  <2> QED
    BY <1>4, <1>t, <2>1, BetweenKeepsInv DEF ReceiveNothing, CountReceived, TypeOK
<1>5. ASSUME NEW size \in ReceivedSizes, NEW whole \in BOOLEAN,
             ReceiveClientHello(size, whole)
      PROVE  IInv'
  <2>1. size \in Nat
    BY SendPathConstants DEF ReceivedSizes
  <2>2. /\ bytes_received' \in Nat
        /\ ~address_validated => bytes_received' >= bytes_received
    BY <1>5, <1>t, <2>1 DEF ReceiveClientHello, CountReceived, TypeOK
  <2>3. /\ queued' \in [Level -> Nat]
        /\ keys' \subseteq Level /\ ack_pending' \subseteq Level
    BY <1>5, <1>t, SendPathConstants DEF ReceiveClientHello, TypeOK, Level
  <2> QED
    BY <1>5, <1>t, <2>2, <2>3, BetweenKeepsInv DEF ReceiveClientHello, TypeOK
<1>6. ASSUME NEW l \in Level, Receive(l) PROVE IInv'
  BY <1>6, ReceiveKeepsInv
<1>7. CASE QueueFrame
  BY <1>7, <1>t, BetweenKeepsInv DEF QueueFrame, TypeOK
<1>8. ASSUME NEW l \in Level, OnProbeTimeout(l) PROVE IInv'
  <2>1. \A k \in Level : Requeued(k) \subseteq Nat
    BY DEF Requeued, ProbePackets
  <2>2. queued' \in [Level -> Nat]
    BY <1>8, <1>t, <2>1 DEF OnProbeTimeout, TypeOK, Level
  <2>3. probes_pending' \in [Level -> Nat]
    BY <1>8, <1>t DEF OnProbeTimeout, TypeOK, ProbePackets
  <2> QED
    BY <1>8, <1>t, <2>2, <2>3, BetweenKeepsInv DEF OnProbeTimeout, TypeOK
<1>9. ASSUME NEW l \in Level, LossTimeout(l) PROVE IInv'
  <2>1. PICK left \in 0 .. flight[l], lost \in 0 .. 1 :
            OnLossTimeout(l, left, lost)
    BY <1>9 DEF LossTimeout
  <2>2. queued' \in [Level -> Nat] /\ flight' \in [Level -> Nat]
    BY <1>t, <2>1 DEF OnLossTimeout, TypeOK
  <2> QED
    BY <1>t, <2>1, <2>2, BetweenKeepsInv DEF OnLossTimeout, TypeOK
<1>10. CASE UNCHANGED vars
  BY <1>10, <1>t DEF IInv, TypeOK, AmplificationBounded, vars, connVars
<1> QED
  BY <1>1, <1>2, <1>3, <1>4, <1>5, <1>6, <1>7, <1>8, <1>9, <1>10 DEF Next

\* The inductive invariant holds of every behaviour of datagrams_to_send, the
\* receive path and the timers.
THEOREM SendPathInvariant == Spec => []IInv
BY InitIInv, NextIInv, PTL DEF Spec

\* Every variable keeps its type; in particular the pacer's credit never goes
\* negative and never exceeds the burst, whatever datagrams_to_send builds.
THEOREM SendPathTyped == Spec => []TypeOK
<1>1. IInv => TypeOK
  BY DEF IInv
<1> QED
  BY <1>1, SendPathInvariant, PTL

\* _send_budget keeps an unvalidated server within one datagram of three times
\* what it received.
THEOREM AmplificationIsBounded == Spec => []AmplificationBounded
<1>1. IInv => AmplificationBounded
  BY DEF IInv
<1> QED
  BY <1>1, SendPathInvariant, PTL

-----------------------------------------------------------------------------
(* What a step of the loop may not do. *)

\* What a positive budget, and a budget used up, say about the window and the
\* allowance it is made of.
LEMMA BudgetSign ==
    ASSUME BudgetTyped, NEW ack_only \in BOOLEAN
    PROVE  /\ SendBudget(ack_only) > 0 /\ ~ack_only =>
                 \/ OverLevels(flight) < congestion_window
                 \/ OverLevels(probes_pending) > 0
           /\ SendBudget(ack_only) <= 0 /\ ack_only =>
                 ~address_validated /\ AmplificationBudget <= 0
<1> DEFINE window == IF ack_only THEN MaxDatagramSize
                     ELSE congestion_window - OverLevels(flight)
           probes == OverLevels(probes_pending)
           most == IF probes > 0 THEN Max({window, probes * MaxDatagramSize})
                   ELSE window
<1>1. /\ window \in Int /\ probes \in Nat /\ probes * MaxDatagramSize \in Int
      /\ ack_only => window > 0
      /\ ~ack_only => (window > 0 => OverLevels(flight) < congestion_window)
  BY OverLevelsNat, SendPathConstants DEF BudgetTyped
<1>2. AmplificationBudget \in Int
  BY DEF AmplificationBudget, AmplificationFactor, BudgetTyped
<1>3. SendBudget(ack_only) = IF address_validated THEN most
                             ELSE Min({most, AmplificationBudget})
  BY DEF SendBudget
<1> HIDE DEF window, probes
<1>4. most \in Int /\ most >= window /\ (probes = 0 => most = window)
  <2>1. PICK w, x \in Int : w = window /\ x = probes * MaxDatagramSize
    BY <1>1
  <2>2. most = IF probes > 0 THEN Max({w, x}) ELSE w
    BY <2>1
  <2>3. Max({w, x}) = IF w >= x THEN w ELSE x
    BY MinMaxOfTwo
  <2> QED
    BY <1>1, <2>1, <2>2, <2>3
<1> HIDE DEF most
<1>5. Min({most, AmplificationBudget})
         = IF most <= AmplificationBudget THEN most ELSE AmplificationBudget
  BY <1>2, <1>4, MinMaxOfTwo
<1>6. SendBudget(ack_only) > 0 => most > 0
  BY <1>2, <1>3, <1>4, <1>5
<1>7. most > 0 /\ SendBudget(ack_only) <= 0 =>
         ~address_validated /\ AmplificationBudget <= 0
  BY <1>2, <1>3, <1>4, <1>5
<1>8. ack_only => most > 0
  BY <1>1, <1>4
<1>9. most > 0 => window > 0 \/ probes > 0
  BY <1>1, <1>4
<1> QED
  BY <1>1, <1>6, <1>7, <1>8, <1>9 DEF probes

\* Every step but an iteration that builds something leaves no datagram, and
\* every step but the end of the loop leaves `sending` alone or sets it.
LEMMA OtherSteps ==
    ASSUME Next, ~SendOne
    PROVE  datagram' = NoDatagram /\ (StopSending \/ ~sending)
<1>1. ASSUME NEW credit \in 0 .. Burst, StartSending(credit)
      PROVE  datagram' = NoDatagram /\ ~sending
  BY <1>1 DEF StartSending
<1>2. CASE StopSending
  BY <1>2 DEF StopSending
<1>3. ASSUME Between
      PROVE  datagram' = NoDatagram /\ ~sending
  BY <1>3 DEF Between
<1>4. ASSUME NEW size \in ReceivedSizes, ReceiveNothing(size) PROVE Between
  BY <1>4 DEF ReceiveNothing
<1>5. ASSUME NEW size \in ReceivedSizes, NEW whole \in BOOLEAN,
             ReceiveClientHello(size, whole)
      PROVE  Between
  BY <1>5 DEF ReceiveClientHello
<1>6. ASSUME NEW l \in Level, Receive(l) PROVE Between
  BY <1>6 DEF Receive, ReceivePacket
<1>7. ASSUME QueueFrame PROVE Between
  BY <1>7 DEF QueueFrame
<1>8. ASSUME NEW l \in Level, OnProbeTimeout(l) PROVE Between
  BY <1>8 DEF OnProbeTimeout
<1>9. ASSUME NEW l \in Level, LossTimeout(l) PROVE Between
  BY <1>9 DEF LossTimeout, OnLossTimeout
<1> QED
  BY <1>1, <1>2, <1>3, <1>4, <1>5, <1>6, <1>7, <1>8, <1>9, Zenon DEF Next

\* An iteration puts a datagram in flight at most.
LEMMA BuildAddsDatagram ==
    ASSUME IInv, SendOne
    PROVE  /\ OverLevels(flight') <= OverLevels(flight) + MaxDatagramSize
           /\ datagram'.in_flight > 0 => ~PacingBlocked
<1>1. PICK natural \in NaturalSizes(PacingBlocked) :
         BuildDatagram(natural, PacingBlocked)
  BY DEF SendOne
<1> DEFINE blocked == PacingBlocked
           budget == SendBudget(blocked)
           sizes == PacketSizes(natural, blocked, budget)
           eliciting == {l \in {k \in Level : sizes[k] > 0} : Eliciting(l, blocked)}
           retired == RetiredBy(sizes)
           added == [l \in Level |-> IF l \in eliciting THEN sizes[l] ELSE 0]
           grown == [l \in Level |-> flight[l] + added[l]]
<1>2. /\ flight' = Discard(retired, grown)
      /\ datagram' = [size |-> OverLevels(sizes), in_flight |-> OverLevels(added)]
  BY <1>1 DEF BuildDatagram
<1>3. /\ BudgetTyped /\ blocked \in BOOLEAN /\ flight \in [Level -> Nat]
      /\ natural \in [Level -> 1 .. MaxDatagramSize]
  BY DEF IInv, TypeOK, BudgetTyped, PacingBlocked, NaturalSizes
<1>4. budget \in Int
  BY <1>3, BudgetLimited
<1>5. blocked => eliciting = {}
  BY DEF Eliciting
<1> HIDE DEF budget
<1>6. sizes \in [Level -> Nat] /\ OverLevels(sizes) <= MaxDatagramSize
  BY <1>3, <1>4, SizesFit
<1> HIDE DEF blocked, sizes, retired, eliciting
<1>7. /\ added \in [Level -> Nat]
      /\ \A l \in Level : added[l] <= sizes[l]
      /\ blocked => OverLevels(added) = 0
  BY <1>5, <1>6 DEF OverLevels, Level
<1> HIDE DEF added
<1>8. \A l \in Level : flight'[l] \in Nat /\ flight'[l] <= flight[l] + added[l]
  BY <1>2, <1>3, <1>7 DEF Discard
<1>9. OverLevels(added) <= MaxDatagramSize
  BY <1>6, <1>7, SendPathConstants DEF OverLevels, Level
<1>10. OverLevels(flight') <= OverLevels(flight) + OverLevels(added)
  BY <1>3, <1>7, <1>8 DEF OverLevels, Level
<1>11. OverLevels(flight') <= OverLevels(flight) + MaxDatagramSize
  <2>1. /\ OverLevels(flight) \in Nat /\ OverLevels(added) \in Nat
        /\ OverLevels(flight') \in Nat
    BY <1>3, <1>7, <1>8 DEF OverLevels, Level
  <2> QED
    BY <1>9, <1>10, <2>1, SendPathConstants
<1> QED
  BY <1>2, <1>7, <1>11 DEF blocked

\* An iteration that puts bytes in flight, with no probe owed, finds room in the
\* window and passes it by less than a datagram.
LEMMA BuildHoldsWindow ==
    ASSUME IInv, SendOne, datagram'.in_flight > 0, OverLevels(probes_pending) = 0
    PROVE  /\ OverLevels(flight) < congestion_window
           /\ OverLevels(flight') < congestion_window + MaxDatagramSize
<1>1. PICK natural \in NaturalSizes(PacingBlocked) :
         BuildDatagram(natural, PacingBlocked)
  BY DEF SendOne
<1>2. BudgetTyped /\ PacingBlocked \in BOOLEAN
  BY DEF IInv, TypeOK, BudgetTyped, PacingBlocked
<1>3. SendBudget(PacingBlocked) > 0
  BY <1>1 DEF BuildDatagram
<1>4. ~PacingBlocked /\ OverLevels(flight') <= OverLevels(flight) + MaxDatagramSize
  BY BuildAddsDatagram
<1>5. OverLevels(flight) < congestion_window
  <2>1. \/ OverLevels(flight) < congestion_window
        \/ OverLevels(probes_pending) > 0
    BY <1>2, <1>3, <1>4, BudgetSign
  <2> QED
    BY <2>1
<1>6. OverLevels(flight) \in Nat /\ OverLevels(flight') \in Nat
  <2>1. flight \in [Level -> Nat] /\ flight' \in [Level -> Nat]
    BY <1>1, BuildKeepsInv DEF IInv, TypeOK
  <2> QED
    BY <2>1, OverLevelsNat
<1>7. congestion_window \in Nat /\ MaxDatagramSize \in Nat
  BY <1>2, SendPathConstants DEF BudgetTyped
<1> QED
  BY <1>4, <1>5, <1>6, <1>7

\* A loop that the pacer stops has no acknowledgement left that it may send.
LEMMA StopLeavesNoAck ==
    ASSUME IInv, StopSending, PacingBlocked
    PROVE  \/ ack_pending \cap keys = {}
           \/ ~address_validated /\ AmplificationBudget <= 0
<1>1. BudgetTyped /\ PacingBlocked \in BOOLEAN /\ ack_pending \subseteq Level
  BY DEF IInv, TypeOK, BudgetTyped, PacingBlocked
<1>2. CASE SendBudget(PacingBlocked) <= 0
  BY <1>1, <1>2, BudgetSign
<1>3. CASE \A l \in Level : ~HasPacket(l, PacingBlocked)
  BY <1>1, <1>3 DEF HasPacket
<1> QED
  BY <1>2, <1>3 DEF StopSending, NothingToBuild

\* Unless a probe is owed, datagrams_to_send puts bytes in flight only into room in
\* the congestion window, and passes it by less than one datagram.
THEOREM WindowOverrunIsBounded == Spec => WindowOverrunBounded
<1> DEFINE Held == datagram'.in_flight > 0 /\ OverLevels(probes_pending) = 0 =>
                      /\ OverLevels(flight) < congestion_window
                      /\ OverLevels(flight') < congestion_window + MaxDatagramSize
<1>1. IInv /\ [Next]_vars => [Held]_vars
  <2> SUFFICES ASSUME IInv, Next PROVE Held
    OBVIOUS
  <2>1. CASE SendOne
    BY <2>1, BuildHoldsWindow
  <2>2. CASE ~SendOne
    BY <2>2, OtherSteps DEF NoDatagram
  <2> QED
    BY <2>1, <2>2
<1> QED
  BY <1>1, SendPathInvariant, PTL DEF Spec, WindowOverrunBounded

\* datagrams_to_send stopped by the pacer leaves no acknowledgement behind that
\* the anti-amplification limit allows.
THEOREM PacerSparesAcks == Spec => PacerLetsAcksOut
<1> DEFINE Spared == (sending /\ ~sending' /\ PacingBlocked) =>
                        \/ ack_pending \cap keys = {}
                        \/ ~address_validated /\ AmplificationBudget <= 0
<1>1. IInv /\ [Next]_vars => [Spared]_vars
  <2> SUFFICES ASSUME IInv, Next PROVE Spared
    OBVIOUS
  <2>1. CASE SendOne
    BY <2>1 DEF SendOne, BuildDatagram
  <2>2. CASE ~SendOne
    BY <2>2, OtherSteps, StopLeavesNoAck
  <2> QED
    BY <2>1, <2>2
<1> QED
  BY <1>1, SendPathInvariant, PTL DEF Spec, PacerLetsAcksOut
=============================================================================
