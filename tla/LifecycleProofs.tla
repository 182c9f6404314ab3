-------------------------- MODULE LifecycleProofs ---------------------------
(***************************************************************************)
(* Proofs about Lifecycle, for any timeouts, delays and number of          *)
(* datagrams.  Good is what every connection satisfies: a close and a      *)
(* closing deadline have a cause the application knows of.                 *)
(***************************************************************************)
EXTENDS Lifecycle, WellFoundedInduction, TLAPS

\* The application knows that the connection ends.
Known(c) == Asked(c) \/ c.reported

Good(c) ==
    /\ c \in Connection
    /\ c.close_frame => Known(c)
    /\ c.closing # None => Known(c)
    /\ c.state = "TERMINATED" => Known(c)
    /\ c.state = "CLOSING" => c.close_frame

\* The inductive invariant.
IInv == TypeOK /\ \A e \in End : Good(conn[e])

-----------------------------------------------------------------------------
(* Numbers. *)

\* The larger and the smaller of two integers.
LEMMA MaxMinOfTwo ==
    ASSUME NEW a \in Int, NEW b \in Int
    PROVE  /\ Max({a, b}) = IF a >= b THEN a ELSE b
           /\ Min({a, b}) = IF a <= b THEN a ELSE b
<1>1. CASE a >= b
  BY <1>1 DEF Max, Min
<1>2. CASE ~(a >= b)
  BY <1>2 DEF Max, Min
<1> QED BY <1>1, <1>2

\* The smallest member of a set of naturals is a natural.
LEMMA MinIsNatural ==
    ASSUME NEW S \in SUBSET Nat, S # {}
    PROVE  Min(S) \in Nat
<1> DEFINE R == OpToRel(<, Nat)
<1>1. IsWellFoundedOn(R, Nat)
  BY ONLY NatLessThanWellFounded, Zenon
<1>2. \A x, y \in Nat : x < y => <<x, y>> \in R
  BY DEF OpToRel
<1> HIDE DEF R
<1>3. PICK x \in S : \A y \in S : ~(<<y, x>> \in R)
  BY <1>1, WFMin
<1>4. \A y \in S : x <= y
  <2>1. \A y \in S : ~(y < x)
    BY <1>2, <1>3, Zenon
  <2> QED BY <2>1
<1> QED BY <1>3, <1>4 DEF Min

\* A deadline stays one when time passes, and is set or not as it was.
LEMMA LaterType ==
    ASSUME NEW d \in Time, NEW t \in Nat
    PROVE  /\ Later(d, t) \in Time
           /\ (Later(d, t) = None) <=> (d = None)
           /\ (Later(d, t) = 0) <=> (d # None /\ d <= t)
<1>1. CASE d = None
  BY <1>1 DEF Later, None, Time
<1>2. CASE d # None
  <2>1. d \in Nat
    BY <1>2 DEF Time
  <2>2. d - t \in Int /\ 0 \in Int
    BY <2>1
  <2>3. Later(d, t) = IF d - t >= 0 THEN d - t ELSE 0
    BY <1>2, <2>2, MaxMinOfTwo DEF Later
  <2> QED BY <1>2, <2>1, <2>3 DEF Time, None
<1> QED BY <1>1, <1>2

\* The idle period is a natural number, where there is one.
LEMMA IdlePeriodType ==
    ASSUME NEW e \in End, NEW c \in Connection, IdleTimeouts(e, c) # {}
    PROVE  IdlePeriod(e, c) \in Nat
<1>1. IdleTimeouts(e, c) \in SUBSET Nat
  BY LifecycleConstants DEF IdleTimeouts
<1>2. Min(IdleTimeouts(e, c)) \in Nat
  BY <1>1, MinIsNatural
<1>3. c.pto \in Nat
  BY LifecycleConstants DEF Connection
<1>4. 3 * c.pto \in Nat
  BY <1>3
<1> DEFINE a == Min(IdleTimeouts(e, c))  b == 3 * c.pto
<1>5. Max({a, b}) = IF a >= b THEN a ELSE b
  <2> a \in Int /\ b \in Int
    BY <1>2, <1>4
  <2> HIDE DEF a, b
  <2> QED BY MaxMinOfTwo
<1> QED BY <1>2, <1>4, <1>5 DEF IdlePeriod

-----------------------------------------------------------------------------
(* What the operations keep. *)

\* A connection that is dropped.
LEMMA ForgottenGood ==
    ASSUME NEW e \in End, Good(conn[e])
    PROVE  Good(Forgotten(e)) /\ Forgotten(e).state = "TERMINATED"
<1>1. conn[e].pto \in Ptos
  BY DEF Good, Connection
<1>2. NewConnection(e, conn[e].pto) \in Connection
  BY <1>1 DEF NewConnection, Connection, State, Time, None
<1> DEFINE n == NewConnection(e, conn[e].pto)
           f == [n EXCEPT !.state = "TERMINATED", !.idle = None, !.dropped = TRUE]
<1>3. n \in Connection
  BY <1>2
<1> HIDE DEF n
<1>4. /\ f \in Connection
      /\ f.state = "TERMINATED" /\ f.dropped
  BY <1>3 DEF Connection, State, Time
<1>5. Forgotten(e) = f
  BY DEF Forgotten, n
<1> HIDE DEF f
<1>6. Good(f)
  BY <1>4 DEF Good, Known, Asked
<1> QED BY <1>4, <1>5, <1>6

\* handle_timer.
LEMMA HandleTimerGood ==
    ASSUME NEW e \in End, NEW c, Good(c), NEW h \in HandleTimer(e, c)
    PROVE  Good(h)
<1>1. CASE Due(c.closing)
  <2>1. h = Over(c)
    BY <1>1 DEF HandleTimer
  <2>2. c.closing # None
    BY <1>1 DEF Due, None
  <2> QED BY <2>1, <2>2 DEF Good, Known, Asked, Over, Connection, State
<1>2. CASE ~Due(c.closing) /\ h = c
  BY <1>2
<1>3. CASE h = [Over(c) EXCEPT !.reported = TRUE]
  BY <1>3 DEF Good, Known, Over, Connection, State
<1>4. CASE \E t \in Delays[e] \cup {None, 0} : h = [c EXCEPT !.loss = t]
  <2>1. PICK t \in Delays[e] \cup {None, 0} : h = [c EXCEPT !.loss = t]
    BY <1>4
  <2>2. t \in Time
    BY LifecycleConstants DEF Time
  <2> QED BY <2>1, <2>2 DEF Good, Known, Asked, Connection
<1> QED BY <1>1, <1>2, <1>3, <1>4 DEF HandleTimer

\* handle_timer leaves a connection that has ended as one.
LEMMA HandleTimerEnded ==
    ASSUME NEW e \in End, NEW c \in Connection, c.state = "TERMINATED",
           NEW h \in HandleTimer(e, c)
    PROVE  h.state = "TERMINATED"
<1>1. \/ h = Over(c) \/ h = c \/ h = [Over(c) EXCEPT !.reported = TRUE]
      \/ \E t \in Delays[e] \cup {None, 0} : h = [c EXCEPT !.loss = t]
  BY DEF HandleTimer
<1> QED BY <1>1 DEF Over, Connection

\* The passing of time changes no state and sets or clears no deadline.
LEMMA WaitGood ==
    ASSUME NEW c, Good(c), NEW t \in Nat
    PROVE  Good(Wait(c, t)) /\ Wait(c, t).state = c.state
<1> DEFINE i == IF c.idle = None THEN None ELSE Min({c.idle + t, LongestPeriod})
<1>1. c \in Connection
  BY DEF Good
<1>2. c.closing \in Time /\ c.pacing \in Time /\ c.loss \in Time /\ c.idle \in Time
  BY <1>1 DEF Connection
<1>3. /\ Later(c.closing, t) \in Time /\ Later(c.pacing, t) \in Time
      /\ Later(c.loss, t) \in Time
      /\ Later(c.closing, t) # None => c.closing # None
  BY <1>2, LaterType
<1>4. i \in Time
  <2>1. CASE c.idle = None
    BY <2>1 DEF Time
  <2>2. CASE c.idle # None
    <3>1. c.idle + t \in Nat /\ LongestPeriod \in Nat
      BY <1>2, <2>2, LifecycleConstants DEF Time
    <3>2. Min({c.idle + t, LongestPeriod}) \in Nat
      <4>1. {c.idle + t, LongestPeriod} \in SUBSET Nat
        BY <3>1
      <4> QED BY <4>1, MinIsNatural
    <3> QED BY <2>2, <3>2 DEF Time
  <2> QED BY <2>1, <2>2
<1> DEFINE m == Later(c.closing, t)  n == Later(c.pacing, t)  l == Later(c.loss, t)
<1>5. Wait(c, t) = [c EXCEPT !.closing = m, !.pacing = n, !.loss = l, !.idle = i]
  BY DEF Wait
<1>6. m \in Time /\ n \in Time /\ l \in Time /\ (m # None => c.closing # None)
  BY <1>3
<1> HIDE DEF i, m, n, l
<1> DEFINE w == Wait(c, t)
<1>7. w \in Connection
  BY ONLY <1>1, <1>4, <1>5, <1>6 DEF Connection
<1>8. /\ w.state = c.state /\ w.close_frame = c.close_frame /\ w.closing = m
      /\ w.closes = c.closes /\ w.dropped = c.dropped /\ w.reported = c.reported
  BY ONLY <1>1, <1>5 DEF Connection
<1> HIDE DEF w
<1>9. Good(w)
  BY <1>6, <1>7, <1>8 DEF Good, Known, Asked
<1> QED BY <1>8, <1>9 DEF w

\* close, by the application.
LEMMA CloseGood ==
    ASSUME NEW c, Good(c)
    PROVE  LET k == [Close(c) EXCEPT !.closes = @ + 1]
           IN  /\ Good(k) /\ k.closes > c.closes
               /\ c.state = "TERMINATED" => k.state = "CLOSING" /\ k.close_frame
<1> DEFINE b == Close(c)  n == c.closes + 1  k == [b EXCEPT !.closes = n]
<1>1. c \in Connection /\ c.closes \in Nat
  BY DEF Good, Connection
<1>2. n \in Nat /\ n > 0 /\ n > c.closes
  BY <1>1
<1>3. /\ b \in Connection /\ b.closes = c.closes
      /\ b.state = "CLOSING" => b.close_frame
      /\ c.state = "TERMINATED" => b.state = "CLOSING" /\ b.close_frame
  BY <1>1 DEF Good, Close, Connection, State
<1>4. [b EXCEPT !.closes = @ + 1] = k
  BY <1>3 DEF Connection
<1> HIDE DEF b, n
<1>5. /\ k \in Connection /\ k.closes = n /\ k.state = b.state
      /\ k.close_frame = b.close_frame
  BY <1>2, <1>3 DEF Connection
<1> HIDE DEF k
<1>6. Good(k)
  BY <1>2, <1>3, <1>5 DEF Good, Known, Asked
<1> QED BY <1>2, <1>3, <1>4, <1>5, <1>6 DEF b

\* _build_close_datagram.
LEMMA AfterCloseGood ==
    ASSUME NEW c, Good(c), SendsClose(c)
    PROVE  Good(AfterClose(c))
<1>1. 3 * c.pto \in Time
  <2>1. c.pto \in Nat
    BY LifecycleConstants DEF Good, Connection
  <2> QED BY <2>1 DEF Time
<1> QED BY <1>1 DEF Good, Known, Asked, AfterClose, SendsClose, Connection

\* datagrams_to_send without a close.
LEMMA AfterDataGood ==
    ASSUME NEW e \in End, NEW c, Good(c), NEW h \in AfterData(e, c)
    PROVE  Good(h)
<1>1. PICK p \in Delays[e] \cup {None}, l \in Delays[e] \cup {None, c.loss} :
          h = Paced(c, p, l)
  BY DEF AfterData
<1>2. c.loss \in Time
  BY DEF Good, Connection
<1>3. p \in Time /\ l \in Time
  BY <1>2, LifecycleConstants DEF Time
<1> QED BY <1>1, <1>3 DEF Paced, Good, Known, Asked, Connection

\* datagram_received; a connection that has ended stays as it is.
LEMMA DatagramReceivedGood ==
    ASSUME NEW e \in End, NEW c, Good(c), NEW d \in Datagram,
           NEW h \in DatagramReceived(e, c, d)
    PROVE  Good(h) /\ (c.state = "TERMINATED" => h = c)
<1>1. CASE c.state \in {"TERMINATED", "DRAINING"}
  BY <1>1 DEF DatagramReceived
<1>2. CASE c.state \notin {"TERMINATED", "DRAINING"}
  <2> DEFINE q == Located(c, d)
  <2>1. Good(q) /\ q.state = c.state
    BY DEF Located, Good, Known, Asked, Connection
  <2> HIDE DEF q
  <2>2. \/ \E g \in Handled(e, q, d) : h = [g EXCEPT !.idle = 0]
        \/ h \in Refused(e, q, d)
    BY <1>2 DEF DatagramReceived, q
  <2>3. ASSUME NEW g \in Handled(e, q, d) PROVE Good(g)
    <3>1. CASE g = q
      BY <2>1, <3>1
    <3>2. CASE g = OnConnectionClose(q)
      <4>1. q.pto \in Nat
        BY <2>1, LifecycleConstants DEF Good, Connection
      <4>2. 3 * q.pto \in Time
        BY <4>1 DEF Time
      <4> QED BY <2>1, <3>2, <4>2 DEF Good, Known, Asked, OnConnectionClose, Connection, State
    <3> DEFINE k == HandleCrypto(e, q, d)
    <3>3. ASSUME NEW p \in Ptos, NEW l \in Delays[e] \cup {None, q.loss},
                 g = Measured(k, p, l)
          PROVE  Good(g)
      <4>1. q.loss \in Time
        BY <2>1 DEF Good, Connection
      <4>2. l \in Time
        BY <4>1, LifecycleConstants DEF Time
      <4>3. Good(k)
        <5>1. \/ k = q
              \/ k = [q EXCEPT !.level = "ONE_RTT"]
              \/ k = OnHandshakeComplete(q)
          BY DEF HandleCrypto
        <5> HIDE DEF k
        <5>2. CASE k = [q EXCEPT !.level = "ONE_RTT"]
          BY ONLY <2>1, <5>2 DEF Good, Known, Asked, Connection
        <5>3. CASE k = OnHandshakeComplete(q)
          BY ONLY <2>1, <5>3 DEF OnHandshakeComplete, Good, Known, Asked, Connection, State
        <5> QED BY <2>1, <5>1, <5>2, <5>3
      <4> HIDE DEF k
      <4> QED BY <3>3, <4>2, <4>3 DEF Measured, Good, Known, Asked, Connection
    <3>4. \/ g = q \/ g = OnConnectionClose(q)
          \/ \E p \in Ptos, l \in Delays[e] \cup {None, q.loss} : g = Measured(k, p, l)
      BY DEF Handled
    <3> HIDE DEF k
    <3> QED BY <3>1, <3>2, <3>3, <3>4
  <2>4. ASSUME NEW g, Good(g) PROVE Good([g EXCEPT !.idle = 0])
    BY <2>4 DEF Good, Known, Asked, Connection, Time
  <2>5. ASSUME h \in Refused(e, q, d) PROVE Good(h)
    <3>1. PICK l \in {q.level} \cup {"ONE_RTT"} :
             h = [Close(q) EXCEPT !.level = l, !.failed = TRUE, !.reported = TRUE]
      BY <2>5 DEF Refused
    <3> QED BY <2>1, <3>1 DEF Good, Known, Asked, Close, Connection, State
  <2> QED BY <1>2, <2>2, <2>3, <2>4, <2>5
<1> QED BY <1>1, <1>2

\* What is sent is a datagram.
LEMMA ContentIsDatagram ==
    ASSUME NEW e \in End, NEW c, NEW what \in Content(e, c)
    PROVE  [from |-> e, what |-> what,
            level |-> IF what = "data" THEN "ONE_RTT" ELSE "EARLY"] \in Datagram
<1>1. CASE e = "client"
  <2>1. what \in {"finished", "data", "hello"}
    BY <1>1 DEF Content
  <2> QED BY <1>1, <2>1 DEF Datagram, End
<1>2. CASE e = "server"
  <2>1. what \in {"data", "flight"}
    BY <1>2 DEF Content
  <2> QED BY <1>2, <2>1 DEF Datagram, End
<1> QED BY <1>1, <1>2 DEF End

-----------------------------------------------------------------------------
(* The invariant. *)

\* One end changes and the network stays a set of datagrams.
LEMMA OneEndChanges ==
    ASSUME IInv, NEW e \in End, NEW c, Good(c), Becomes(e, c), network' \subseteq Datagram
    PROVE  IInv'
<1>1. conn \in [End -> Connection] /\ c \in Connection
  BY DEF IInv, TypeOK, Good
<1>2. conn' \in [End -> Connection]
  BY <1>1 DEF Becomes
<1>3. \A f \in End : conn'[f] = IF f = e THEN c ELSE conn[f]
  BY <1>1 DEF Becomes
<1>4. \A f \in End : Good(conn'[f])
  BY <1>3 DEF IInv
<1> QED BY <1>2, <1>4 DEF IInv, TypeOK

\* Every action keeps the invariant.
LEMMA Invariance ==
    IInv /\ [Next]_vars => IInv'
<1> SUFFICES ASSUME IInv, [Next]_vars PROVE IInv'
  OBVIOUS
<1>0. /\ conn \in [End -> Connection] /\ network \subseteq Datagram
      /\ \A e \in End : Good(conn[e])
  BY DEF IInv, TypeOK
<1>1. ASSUME NEW e \in End, ApplicationClose(e) PROVE IInv'
  <2> DEFINE c == [Close(conn[e]) EXCEPT !.closes = @ + 1]
  <2>1. Good(conn[e])
    BY <1>0
  <2>2. Good(c)
    BY <2>1, CloseGood
  <2> QED BY <1>0, <1>1, <2>2, OneEndChanges DEF ApplicationClose
<1>2. ASSUME NEW e \in End, SendClose(e) PROVE IInv'
  <2>1. Good(AfterClose(conn[e]))
    BY <1>0, <1>2, AfterCloseGood DEF SendClose
  <2>2. conn[e].level \in {"EARLY", "ONE_RTT"}
    BY <1>0, <1>2 DEF SendClose, SendsClose, Connection
  <2>3. network' \subseteq Datagram
    BY <1>0, <1>2, <2>2 DEF SendClose, Datagram
  <2> QED BY <1>2, <2>1, <2>3, OneEndChanges DEF SendClose
<1>3. ASSUME NEW e \in End, SendData(e) PROVE IInv'
  <2>1. PICK c \in AfterData(e, conn[e]) : Becomes(e, c)
    BY <1>3 DEF SendData
  <2>2. Good(c)
    BY <1>0, AfterDataGood
  <2>3. network' \subseteq Datagram
    <3>1. CASE UNCHANGED network
      BY <1>0, <3>1
    <3>2. CASE \E what \in Content(e, conn[e]) :
                 network' = network \cup
                   {[from |-> e, what |-> what,
                     level |-> IF what = "data" THEN "ONE_RTT" ELSE "EARLY"]}
      BY <1>0, <3>2, ContentIsDatagram
    <3> QED BY <1>3, <3>1, <3>2 DEF SendData
  <2> QED BY <2>1, <2>2, <2>3, OneEndChanges
<1>4. ASSUME NEW e \in End, Timer(e) PROVE IInv'
  <2>1. PICK c \in HandleTimer(e, conn[e]) : Becomes(e, c)
    BY <1>4 DEF Timer
  <2>2. Good(c)
    BY <1>0, HandleTimerGood
  <2> QED BY <1>0, <1>4, <2>1, <2>2, OneEndChanges DEF Timer
<1>5. ASSUME NEW e \in End, Drop(e) PROVE IInv'
  <2>1. Good(Forgotten(e))
    BY <1>0, ForgottenGood
  <2> QED BY <1>0, <1>5, <2>1, OneEndChanges DEF Drop
<1>6. ASSUME NEW e \in End, NEW d \in Datagram, Receive(e, d) PROVE IInv'
  <2>1. PICK c \in DatagramReceived(e, conn[e], d) : Becomes(e, c)
    BY <1>6 DEF Receive
  <2>2. Good(c)
    BY <1>0, DatagramReceivedGood
  <2>3. network' \subseteq Datagram
    BY <1>0, <1>6 DEF Receive
  <2> QED BY <2>1, <2>2, <2>3, OneEndChanges
<1>7. ASSUME NEW d \in Datagram, Lose(d) PROVE IInv'
  BY <1>0, <1>7 DEF Lose, IInv, TypeOK
<1>8. ASSUME VersionNegotiation PROVE IInv'
  <2> DEFINE c == [Over(conn["client"]) EXCEPT !.reported = TRUE]
  <2>1. "client" \in End
    BY DEF End
  <2>2. conn["client"] \in Connection
    BY <1>0, <2>1
  <2>3. Good(c)
    BY <2>2 DEF Good, Known, Asked, Over, Connection, Time, State
  <2> QED BY <1>0, <1>8, <2>1, <2>3, OneEndChanges DEF VersionNegotiation
<1>9. ASSUME Tick PROVE IInv'
  <2>1. \A e \in End : Good(Wait(conn[e], 1))
    BY <1>0, WaitGood
  <2>2. conn' = [e \in End |-> Wait(conn[e], 1)] /\ network' = network
    BY <1>9 DEF Tick
  <2>3. \A e \in End : conn'[e] = Wait(conn[e], 1)
    BY <2>2
  <2>4. \A e \in End : Good(conn'[e])
    BY <2>1, <2>3
  <2>5. conn' \in [End -> Connection]
    BY <2>1, <2>2 DEF Good
  <2> QED BY <1>0, <2>2, <2>4, <2>5 DEF IInv, TypeOK
<1>10. ASSUME UNCHANGED vars PROVE IInv'
  BY <1>0, <1>10 DEF vars, IInv, TypeOK
<1> QED BY <1>1, <1>2, <1>3, <1>4, <1>5, <1>6, <1>7, <1>8, <1>9, <1>10 DEF Next

\* The invariant holds at first.
LEMMA Initially ==
    Init => IInv
<1> SUFFICES ASSUME Init PROVE IInv
  OBVIOUS
<1>1. PICK pto \in [End -> Ptos] : conn = [e \in End |-> NewConnection(e, pto[e])]
  BY DEF Init
<1>2. ASSUME NEW e \in End PROVE Good(conn[e])
  <2>1. conn[e] = NewConnection(e, pto[e]) /\ pto[e] \in Ptos
    BY <1>1
  <2> QED BY <2>1 DEF NewConnection, Good, Known, Asked, Connection, State, Time, None
<1>3. conn \in [End -> Connection]
  <2>1. \A e \in End : conn[e] \in Connection
    BY <1>2 DEF Good
  <2> QED BY <1>1, <2>1
<1> QED BY <1>2, <1>3 DEF Init, IInv, TypeOK

\* A connection is Good for ever.
THEOREM AlwaysGood ==
    Spec => []IInv
<1> QED BY Initially, Invariance, PTL DEF Spec

-----------------------------------------------------------------------------
(* What follows. *)

\* Every variable has its type, in every state the two ends reach.
THEOREM TypeCorrect ==
    Spec => []TypeOK
<1>1. IInv => TypeOK
  BY DEF IInv
<1> QED BY <1>1, AlwaysGood, PTL

\* An application is told of every end it did not ask for: the idle timeout, the
\* peer's close, a transport error and version negotiation all raise the event.
THEOREM EndsAreReported ==
    Spec => []EndIsReported
<1>1. IInv => EndIsReported
  BY DEF IInv, Good, Known, Asked, EndIsReported
<1> QED BY <1>1, AlwaysGood, PTL

\* Time that passes brings the idle deadline as much nearer.
LEMMA IdleDeadlineNears ==
    ASSUME NEW e \in End, NEW c \in Connection, NEW t \in Nat,
           Due(IdleDeadline(e, Wait(c, t)))
    PROVE  IdleDeadline(e, c) \in Nat /\ IdleDeadline(e, c) <= t
<1> DEFINE w == Wait(c, t)  P == IdlePeriod(e, c)
<1>1. /\ w.completed = c.completed /\ w.pto = c.pto
      /\ w.idle = IF c.idle = None THEN None ELSE Min({c.idle + t, LongestPeriod})
  BY DEF Wait, Connection
<1>2. IdleTimeouts(e, w) = IdleTimeouts(e, c) /\ IdlePeriod(e, w) = P
  BY <1>1 DEF IdleTimeouts, IdlePeriod
<1> HIDE DEF w
<1>3. w.idle # None /\ IdleTimeouts(e, c) # {}
  BY <1>2 DEF IdleDeadline, Due, None, w
<1>4. P \in Nat
  BY <1>3, IdlePeriodType
<1>5. c.idle \in Nat /\ c.idle # None
  BY <1>1, <1>3 DEF Connection, Time
<1>6. LongestPeriod \in Nat
  BY LifecycleConstants
<1>7. w.idle \in Nat /\ w.idle <= c.idle + t
  <2>1. w.idle = Min({c.idle + t, LongestPeriod})
    BY <1>1, <1>5
  <2>2. c.idle + t \in Int /\ LongestPeriod \in Int
    BY <1>5, <1>6
  <2>3. w.idle = IF c.idle + t <= LongestPeriod THEN c.idle + t ELSE LongestPeriod
    BY <2>1, <2>2, MaxMinOfTwo
  <2> QED BY <1>5, <1>6, <2>3
<1> HIDE DEF P
<1>8. P - w.idle <= 0
  <2>1. Max({P - w.idle, 0}) = 0
    BY <1>2, <1>3 DEF IdleDeadline, Due, w
  <2>2. P - w.idle \in Int /\ 0 \in Int
    BY <1>4, <1>7
  <2>3. Max({P - w.idle, 0}) = IF P - w.idle >= 0 THEN P - w.idle ELSE 0
    BY <2>2, MaxMinOfTwo
  <2> QED BY <2>1, <2>2, <2>3
<1>9. IdleDeadline(e, c) = IF P - c.idle >= 0 THEN P - c.idle ELSE 0
  <2>1. P - c.idle \in Int /\ 0 \in Int
    BY <1>4, <1>5
  <2>2. Max({P - c.idle, 0}) = IF P - c.idle >= 0 THEN P - c.idle ELSE 0
    BY <2>1, MaxMinOfTwo
  <2> QED BY <1>3, <1>5, <2>2 DEF IdleDeadline, P
<1> QED BY <1>4, <1>5, <1>7, <1>8, <1>9

\* Whatever handle_timer will have to do, next_timer announces it in time.
THEOREM NextTimerIsEarlyEnough ==
    Spec => []NeverOversleeps
<1>1. ASSUME IInv PROVE NeverOversleeps
  <2> SUFFICES ASSUME NEW e \in End, NEW t \in 0 .. LongestPeriod,
                      conn[e].state # "TERMINATED",
                      HandleTimer(e, Wait(conn[e], t)) # {Wait(conn[e], t)}
               PROVE  NextTimerBy(e, conn[e], t)
    BY DEF NeverOversleeps
  <2> DEFINE c == conn[e]  w == Wait(c, t)
  <2>1. Good(c) /\ c \in Connection /\ t \in Nat
    BY <1>1, LifecycleConstants DEF IInv, Good
  <2>2. c.closing \in Time /\ c.loss \in Time
    BY <2>1 DEF Connection
  <2>3. w.closing = Later(c.closing, t) /\ w.loss = Later(c.loss, t)
    BY <2>1 DEF Wait, Connection
  <2>4. w.state = c.state
    BY <2>1, WaitGood
  <2>5. CASE Due(w.closing)
    <3>1. c.closing # None /\ c.closing <= t
      BY <2>1, <2>2, <2>3, <2>5, LaterType DEF Due
    <3> QED BY <3>1 DEF NextTimerBy, Deadlines
  <2>6. CASE Due(IdleDeadline(e, w)) /\ c.state \notin {"CLOSING", "DRAINING"}
    <3>1. IdleDeadline(e, c) \in Nat /\ IdleDeadline(e, c) <= t
      BY <2>1, <2>6, IdleDeadlineNears
    <3>2. IdleDeadline(e, c) # None
      BY <3>1 DEF None
    <3> QED BY <2>6, <3>1, <3>2 DEF NextTimerBy, Deadlines
  <2>7. CASE Due(w.loss) /\ c.state \notin {"CLOSING", "DRAINING"}
    <3>1. c.loss # None /\ c.loss <= t
      BY <2>1, <2>2, <2>3, <2>7, LaterType DEF Due
    <3> QED BY <2>7, <3>1 DEF NextTimerBy, Deadlines
  <2>8. \/ Due(w.closing)
        \/ /\ w.state \notin {"CLOSING", "DRAINING"}
           /\ Due(IdleDeadline(e, w)) \/ Due(w.loss)
    BY DEF HandleTimer
  <2> QED BY <2>4, <2>5, <2>6, <2>7, <2>8
<1> QED BY <1>1, AlwaysGood, PTL

\* After a turn of its loop an endpoint with a connection that is neither closing
\* nor draining has nothing due but loss detection, and so it sleeps.
THEOREM LoopSleepsWhileLive ==
    Spec => []LiveConnectionSleeps
<1>1. ASSUME IInv PROVE LiveConnectionSleeps
  <2> SUFFICES ASSUME NEW e \in End, NEW h \in HandleTimer(e, conn[e]),
                      NEW c \in AfterSend(e, h), ~c.close_frame, c.state # "DRAINING"
               PROVE  0 \notin Deadlines(e, [c EXCEPT !.loss = None])
    BY DEF LiveConnectionSleeps
  <2> DEFINE k == conn[e]  n == [c EXCEPT !.loss = None]
  <2>1. Good(k) /\ Good(h)
    BY <1>1, HandleTimerGood DEF IInv
  <2>2. CASE SendsClose(h)
    <3>1. c = AfterClose(h) /\ h.close_frame
      BY <2>2 DEF AfterSend, SendsClose
    <3>2. c.close_frame
      BY <2>1, <3>1 DEF AfterClose, Good, Connection
    <3> QED BY <3>2
  <2>3. CASE ~SendsClose(h) /\ SendsData(h)
    <3>1. PICK p \in Delays[e] \cup {None}, l \in Delays[e] \cup {None, h.loss} :
             c = Paced(h, p, l)
      BY <2>3 DEF AfterSend, AfterData
    <3>2. p # 0
      BY LifecycleConstants DEF None
    <3>3. h.state \notin {"TERMINATED", "DRAINING", "CLOSING"}
      BY <2>1, <2>3 DEF SendsData, Good
    <3>4. /\ ~Due(k.closing) /\ ~Due(IdleDeadline(e, k))
          /\ h = k \/ \E t \in Delays[e] \cup {None, 0} : h = [k EXCEPT !.loss = t]
      BY <2>1, <3>3 DEF HandleTimer, Over, Good, Connection
    <3>5. /\ h.closing = k.closing /\ h.idle = k.idle
          /\ h.completed = k.completed /\ h.pto = k.pto
      BY <2>1, <3>4 DEF Good, Connection
    <3>6. /\ n.state = h.state /\ n.pacing = p /\ n.closing = h.closing
          /\ n.idle = h.idle /\ n.completed = h.completed /\ n.pto = h.pto
          /\ n.loss = None
      BY <2>1, <3>1 DEF Paced, Good, Connection
    <3> HIDE DEF n
    <3>7. IdleDeadline(e, n) = IdleDeadline(e, k)
      BY <3>5, <3>6 DEF IdleDeadline, IdlePeriod, IdleTimeouts
    <3>8. 0 \notin Deadlines(e, n)
      BY <3>2, <3>4, <3>5, <3>6, <3>7 DEF Deadlines, Due, None
    <3> QED BY <3>8 DEF n
  <2>4. CASE ~SendsClose(h) /\ ~SendsData(h)
    <3>1. c = h
      BY <2>4 DEF AfterSend
    <3>2. c.state = "TERMINATED"
      BY <2>4, <3>1 DEF SendsData
    <3>3. n.state = "TERMINATED"
      BY <2>1, <3>1, <3>2 DEF Good, Connection
    <3> QED BY <3>3 DEF Deadlines
  <2> QED BY <2>2, <2>3, <2>4
<1> QED BY <1>1, AlwaysGood, PTL

\* No datagram, timer, late handshake or step of the peer brings back a connection
\* that has ended: only close does, by the application that still has it, and then
\* the connection is closing.
THEOREM OnlyApplicationRevives ==
    Spec => OnlyCloseRevives
<1> DEFINE Kept(e) ==
              conn[e].state = "TERMINATED" /\ conn'[e].state # "TERMINATED" =>
                 /\ conn'[e].state = "CLOSING" /\ conn'[e].close_frame
                 /\ conn'[e].closes > conn[e].closes /\ ~conn[e].dropped
           A == \A e \in End : Kept(e)
<1>1. IInv /\ [Next]_vars => A
  <2> SUFFICES ASSUME IInv, [Next]_vars, NEW e \in End, conn[e].state = "TERMINATED"
               PROVE  Kept(e)
    OBVIOUS
  <2>0. conn \in [End -> Connection] /\ Good(conn[e]) /\ conn[e] \in Connection
    BY DEF IInv, TypeOK, Good
  <2>1. ASSUME NEW f \in End, NEW c, Becomes(f, c), f = e => c.state = "TERMINATED"
        PROVE  Kept(e)
    BY <2>0, <2>1 DEF Becomes
  <2>2. ASSUME NEW f \in End, ApplicationClose(f) PROVE Kept(e)
    <3> DEFINE k == [Close(conn[e]) EXCEPT !.closes = @ + 1]
    <3>1. CASE f # e
      BY <2>1, <2>2, <3>1 DEF ApplicationClose
    <3>2. CASE f = e
      <4>1. conn'[e] = k /\ ~conn[e].dropped
        BY <2>0, <2>2, <3>2 DEF ApplicationClose, Becomes
      <4>2. k.closes > conn[e].closes /\ k.state = "CLOSING" /\ k.close_frame
        BY <2>0, CloseGood
      <4> HIDE DEF k
      <4> QED BY <4>1, <4>2
    <3> QED BY <3>1, <3>2
  <2>3. ASSUME NEW f \in End, SendClose(f) PROVE Kept(e)
    <3>1. f # e
      BY <2>3 DEF SendClose, SendsClose
    <3> QED BY <2>1, <2>3, <3>1 DEF SendClose
  <2>4. ASSUME NEW f \in End, SendData(f) PROVE Kept(e)
    <3>1. f # e
      BY <2>4 DEF SendData, SendsData
    <3> QED BY <2>1, <2>4, <3>1 DEF SendData
  <2>5. ASSUME NEW f \in End, Timer(f) PROVE Kept(e)
    <3>1. PICK c \in HandleTimer(f, conn[f]) : Becomes(f, c)
      BY <2>5 DEF Timer
    <3>2. f = e => c.state = "TERMINATED"
      BY <2>0, HandleTimerEnded
    <3> QED BY <2>1, <3>1, <3>2
  <2>6. ASSUME NEW f \in End, Drop(f) PROVE Kept(e)
    <3>1. f = e => Forgotten(f).state = "TERMINATED"
      BY <2>0, ForgottenGood
    <3> QED BY <2>1, <2>6, <3>1 DEF Drop
  <2>7. ASSUME NEW f \in End, NEW d \in Datagram, Receive(f, d)
        PROVE  Kept(e)
    <3>1. PICK c \in DatagramReceived(f, conn[f], d) : Becomes(f, c)
      BY <2>7 DEF Receive
    <3>2. f = e => c = conn[e]
      BY <2>0, DatagramReceivedGood
    <3> QED BY <2>1, <3>1, <3>2
  <2>8. ASSUME VersionNegotiation PROVE Kept(e)
    <3>1. "client" \in End /\ "client" # e
      BY <2>8 DEF VersionNegotiation, End
    <3> QED BY <2>1, <2>8, <3>1 DEF VersionNegotiation
  <2>9. ASSUME Tick PROVE Kept(e)
    <3>1. conn'[e] = Wait(conn[e], 1)
      BY <2>9 DEF Tick
    <3> QED BY <2>0, <3>1, WaitGood
  <2>10. CASE UNCHANGED conn
    BY <2>10
  <2> QED BY <2>2, <2>3, <2>4, <2>5, <2>6, <2>7, <2>8, <2>9, <2>10
          DEF Next, Lose, vars
<1> QED BY <1>1, AlwaysGood, PTL DEF Spec, OnlyCloseRevives

\* Once a connection is closed, by its application, an error or its peer, it sends
\* its one close datagram at most.
THEOREM SilentAfterClose ==
    Spec => ClosedIsSilent
<1> DEFINE Quiet(e) == conn[e].close_frame \/ conn[e].state \in {"DRAINING", "TERMINATED"}
           A == \A e \in End : Quiet(e) => \A d \in network' \ network :
                   d.from = e => d.what = "close" /\ ~conn[e].close_sent
<1>1. [Next]_vars => A
  <2> SUFFICES ASSUME [Next]_vars, NEW e \in End, Quiet(e),
                      NEW d \in network' \ network, d.from = e
               PROVE  d.what = "close" /\ ~conn[e].close_sent
    OBVIOUS
  <2>1. ASSUME NEW f \in End, SendClose(f) PROVE d.what = "close" /\ ~conn[e].close_sent
    <3>1. d = [from |-> f, what |-> "close", level |-> conn[f].level]
      BY <2>1 DEF SendClose
    <3> QED BY <2>1, <3>1 DEF SendClose, SendsClose
  <2>2. ASSUME NEW f \in End, SendData(f) PROVE FALSE
    <3>1. \E what : d = [from |-> f, what |-> what,
                         level |-> IF what = "data" THEN "ONE_RTT" ELSE "EARLY"]
      BY <2>2 DEF SendData
    <3>2. f = e
      BY <3>1
    <3> QED BY <2>2, <3>2 DEF SendData, SendsData
  <2>3. CASE network' \subseteq network
    BY <2>3
  <2> QED BY <2>1, <2>2, <2>3
          DEF Next, vars, ApplicationClose, Timer, Drop, Receive, Lose, VersionNegotiation, Tick
<1> QED BY <1>1, PTL DEF Spec, ClosedIsSilent
=============================================================================
