----------------------------- MODULE Lifecycle ------------------------------
(***************************************************************************)
(* How a connection ends (connection.py, termination and timers): close by *)
(* the application, a transport error, CONNECTION_CLOSE from the peer, the *)
(* idle timeout and version negotiation, at both ends of one connection    *)
(* over a network that loses, repeats and reorders.                        *)
(*                                                                         *)
(* A deadline is the time left to it, 0 when it is due and None when it is *)
(* not set, and _idle_started is the time since.  The handshake is what it *)
(* takes to tell its two completions apart: hello, the server's flight, and*)
(* the client's Finished.  Loss detection and the pacer only set and clear *)
(* their deadlines here (Recovery and SendPath model them).                *)
(***************************************************************************)
EXTENDS Integers, FiniteSets, FiniteSetsExt

CONSTANTS
    MaxIdleTimeout,     \* per end, max_idle_timeout_ms; 0 for none
    Ptos,               \* values of recovery.pto()
    Delays,             \* per end, delays of loss detection and of the pacer
    SessionTimeout,     \* idle_timeout of the server's endpoint
    LongestPeriod,      \* bound: idle times beyond every period are all alike
    MaxUnderWay,        \* bound: ordinary datagrams are sent while fewer are under way
    MaxCloses           \* bound: calls of close by the two applications together

End == {"client", "server"}

ASSUME LifecycleConstants ==
    /\ MaxIdleTimeout \in [End -> Nat]
    /\ Ptos \subseteq Nat \ {0} /\ Ptos # {}
    /\ Delays \in [End -> SUBSET (Nat \ {0})]
    /\ SessionTimeout \in Nat /\ LongestPeriod \in Nat
    /\ MaxUnderWay \in Nat /\ MaxCloses \in Nat
    /\ SessionTimeout <= LongestPeriod
    /\ \A e \in End : MaxIdleTimeout[e] <= LongestPeriod
    /\ \A p \in Ptos : 3 * p <= LongestPeriod

None == -1
Time == Nat \cup {None}

State == {"HANDSHAKING", "CONNECTED", "CLOSING", "DRAINING", "TERMINATED"}

\* level is the highest one with send keys: none, one before 1-RTT, or 1-RTT.
Connection ==
    [state : State, level : {"none", "EARLY", "ONE_RTT"},
     completed : BOOLEAN, failed : BOOLEAN, heard : BOOLEAN,
     close_frame : BOOLEAN, close_sent : BOOLEAN,
     closing : Time, idle : Time, pacing : Time, loss : Time, pto : Ptos,
     closes : Nat,          \* calls of close by the application
     reported : BOOLEAN,    \* an event has told the application of the end
     dropped : BOOLEAN]     \* the endpoint has dropped the connection

\* A datagram is what its first packet says; 1-RTT packets have a level of their own.
Datagram ==
    [from : {"client"}, what : {"hello", "finished"}, level : {"EARLY"}]
    \cup [from : {"server"}, what : {"flight"}, level : {"EARLY"}]
    \cup [from : End, what : {"data"}, level : {"ONE_RTT"}]
    \cup [from : End, what : {"close"}, level : {"EARLY", "ONE_RTT"}]

VARIABLES
    conn,               \* the connection of each end
    network             \* datagrams under way

vars == <<conn, network>>

\* Every variable has its type; a datagram is one its end may send.
TypeOK ==
    /\ conn \in [End -> Connection]
    /\ network \subseteq Datagram

\* __init__, and connect for the client.
NewConnection(e, pto) ==
    [state |-> "HANDSHAKING", level |-> IF e = "client" THEN "EARLY" ELSE "none",
     completed |-> FALSE, failed |-> FALSE, heard |-> FALSE,
     close_frame |-> FALSE, close_sent |-> FALSE, closing |-> None,
     idle |-> IF e = "client" THEN 0 ELSE None, pacing |-> None, loss |-> None,
     pto |-> pto, closes |-> 0, reported |-> FALSE, dropped |-> FALSE]

Init ==
    /\ \E pto \in [End -> Ptos] : conn = [e \in End |-> NewConnection(e, pto[e])]
    /\ network = {}

-----------------------------------------------------------------------------
(* Timers. *)

\* The timeouts _idle_deadline chooses from: the peer's once it is known.
IdleTimeouts(e, c) ==
    {MaxIdleTimeout[f] : f \in IF c.completed THEN End ELSE {e}} \ {0}

IdlePeriod(e, c) == Max({Min(IdleTimeouts(e, c)), 3 * c.pto})

\* _idle_deadline
IdleDeadline(e, c) ==
    IF c.idle = None \/ IdleTimeouts(e, c) = {} THEN None
    ELSE Max({IdlePeriod(e, c) - c.idle, 0})

\* Mutant: the idle deadline is forgotten.
DeadlinesNoIdle(e, c) ==
    IF c.state = "TERMINATED" THEN {}
    ELSE ({c.closing, c.pacing}
          \cup (IF c.state \notin {"CLOSING", "DRAINING"} THEN {c.loss} ELSE {}))
         \ {None}

\* next_timer is the least of these.
Deadlines(e, c) ==
    IF c.state = "TERMINATED" THEN {}
    ELSE ({c.closing, c.pacing}
          \cup (IF c.state # "DRAINING" THEN {IdleDeadline(e, c)} ELSE {})
          \cup (IF c.state \notin {"CLOSING", "DRAINING"} THEN {c.loss} ELSE {}))
         \ {None}

\* next_timer() is no later than t from now.
NextTimerBy(e, c, t) == \E d \in Deadlines(e, c) : d <= t

Due(d) == d = 0

\* The state TERMINATED.  The deadlines stay: next_timer does not read them, but
\* close makes them count again.
Over(c) == [c EXCEPT !.state = "TERMINATED"]

\* Mutant: the idle timeout raises no event.
HandleTimerUnreported(e, c) ==
    IF Due(c.closing) THEN {Over(c)}
    ELSE IF c.state \in {"CLOSING", "DRAINING"} THEN {c}
    ELSE IF Due(IdleDeadline(e, c)) THEN {Over(c)}
    ELSE {c}

\* handle_timer: what a connection may be after it.
HandleTimer(e, c) ==
    IF Due(c.closing) THEN {Over(c)}
    ELSE IF c.state \in {"CLOSING", "DRAINING"} THEN {c}
    ELSE IF Due(IdleDeadline(e, c))
    THEN {[Over(c) EXCEPT !.reported = TRUE]}
    ELSE IF Due(c.loss) THEN {[c EXCEPT !.loss = t] : t \in Delays[e] \cup {None, 0}}
    ELSE {c}

\* The time left to d when t more has passed.
Later(d, t) == IF d = None THEN None ELSE Max({d - t, 0})

\* The connection when t more has passed.
Wait(c, t) ==
    [c EXCEPT !.closing = Later(@, t), !.pacing = Later(@, t), !.loss = Later(@, t),
              !.idle = IF @ = None THEN None ELSE Min({@ + t, LongestPeriod})]

-----------------------------------------------------------------------------
(* Closing, and what is sent. *)

\* close
Close(c) ==
    IF c.state \in {"CLOSING", "DRAINING"} THEN c
    ELSE [c EXCEPT !.close_frame = TRUE, !.state = "CLOSING"]

\* Mutant: no deadline is set.
OnConnectionCloseNoDeadline(c) ==
    [c EXCEPT !.state = "DRAINING", !.reported = TRUE]

\* _on_connection_close
OnConnectionClose(c) ==
    [c EXCEPT !.state = "DRAINING", !.closing = 3 * c.pto, !.reported = TRUE]

\* Whether datagrams_to_send sends the close datagram, and no other.
SendsClose(c) ==
    /\ c.state \notin {"DRAINING", "TERMINATED"}
    /\ c.close_frame /\ ~c.close_sent /\ c.level # "none"

\* Mutant: the state is asked where the close frame should be.
SendsDataByState(c) == c.state \notin {"CLOSING", "DRAINING", "TERMINATED"}

SendsData(c) ==
    /\ c.state \notin {"DRAINING", "TERMINATED"}
    /\ ~c.close_frame

\* _build_close_datagram
AfterClose(c) == [c EXCEPT !.close_sent = TRUE, !.closing = 3 * c.pto]

\* The pacer's deadline is p, and the loss detection timer at l.
Paced(c, p, l) == [c EXCEPT !.pacing = p, !.loss = l]

\* Mutant: the pacer's old deadline is kept.
AfterDataStalePacing(e, c) ==
    {Paced(c, p, l) :
        p \in Delays[e] \cup {None, c.pacing}, l \in Delays[e] \cup {None, c.loss}}

\* datagrams_to_send when there is no close: the pacer's deadline and the loss
\* detection timer are set anew.
AfterData(e, c) ==
    {Paced(c, p, l) :
        p \in Delays[e] \cup {None}, l \in Delays[e] \cup {None, c.loss}}

\* datagrams_to_send: what a connection may be after it.
AfterSend(e, c) ==
    IF SendsClose(c) THEN {AfterClose(c)}
    ELSE IF SendsData(c) THEN AfterData(e, c)
    ELSE {c}

\* What the datagrams of e hold, when there is no close.
Content(e, c) ==
    CASE e = "client" -> IF c.completed THEN {"finished", "data"} ELSE {"hello"}
      [] e = "server" -> IF c.completed THEN {"data"}
                         ELSE IF c.level = "ONE_RTT" THEN {"flight"} ELSE {}

\* _on_handshake_complete, once for a connection.
OnHandshakeComplete(c) ==
    [c EXCEPT !.state = "CONNECTED", !.completed = TRUE, !.level = "ONE_RTT"]

-----------------------------------------------------------------------------
(* What is received. *)

\* d can be read: 1-RTT packets are dropped while the handshake lasts.
Readable(c, d) ==
    /\ c.level # "none"
    /\ d.level = "ONE_RTT" => c.level = "ONE_RTT" /\ c.state # "HANDSHAKING"

\* d is what the handshake of e waits for.
Advances(e, c, d) ==
    /\ ~c.failed /\ ~c.completed
    /\ CASE e = "client" -> d.what = "flight"
         [] e = "server" -> \/ d.what = "hello" /\ c.level # "ONE_RTT"
                            \/ d.what = "finished" /\ c.level = "ONE_RTT"

\* _locate_packet: a long header tells a client that its server is there, and an
\* Initial gives a server its first keys.
Located(c, d) ==
    [c EXCEPT !.heard = @ \/ d.level = "EARLY",
              !.level = IF @ = "none" /\ d.what \in {"hello", "close"} /\ d.level = "EARLY"
                        THEN "EARLY" ELSE @]

\* What becomes of the handshake.
HandleCrypto(e, c, d) ==
    IF ~Advances(e, c, d) THEN c
    ELSE IF d.what = "hello" THEN [c EXCEPT !.level = "ONE_RTT"]
    ELSE OnHandshakeComplete(c)

\* An acknowledgment leaves the PTO at p and the loss detection timer at l.
Measured(c, p, l) == [c EXCEPT !.pto = p, !.loss = l]

\* The frames of d are handled, and what they acknowledge moves the RTT and the
\* loss detection timer.
Handled(e, c, d) ==
    IF ~Readable(c, d) THEN {c}
    ELSE IF d.what = "close" THEN {OnConnectionClose(c)}
    ELSE {Measured(HandleCrypto(e, c, d), p, l) :
             p \in Ptos, l \in Delays[e] \cup {None, c.loss}}

\* What d brings is refused: ConnectionError_ closes the connection.  A client
\* that refuses the transport parameters has its 1-RTT keys by then.
Refused(e, c, d) ==
    IF ~Readable(c, d) \/ ~Advances(e, c, d) THEN {}
    ELSE {[Close(c) EXCEPT !.level = l, !.failed = TRUE, !.reported = TRUE] :
             l \in {c.level} \cup IF d.what = "flight" THEN {"ONE_RTT"} ELSE {}}

\* datagram_received: what a connection may be after it.  The idle period starts
\* again even when nothing could be read, but not after an error.
DatagramReceived(e, c, d) ==
    IF c.state \in {"TERMINATED", "DRAINING"} THEN {c}
    ELSE {[h EXCEPT !.idle = 0] : h \in Handled(e, Located(c, d), d)}
         \cup Refused(e, Located(c, d), d)

-----------------------------------------------------------------------------
(* Steps. *)

Becomes(e, c) == conn' = [conn EXCEPT ![e] = c]

\* The application calls close on a connection it has, in whatever state that is:
\* one that has ended is closed anew, for close only returns early in CLOSING and
\* DRAINING.
ApplicationClose(e) ==
    /\ conn[e].level # "none" /\ ~conn[e].dropped
    /\ conn["client"].closes + conn["server"].closes < MaxCloses
    /\ Becomes(e, [Close(conn[e]) EXCEPT !.closes = @ + 1])
    /\ UNCHANGED network

\* send_pending, with a close to send.
SendClose(e) ==
    /\ SendsClose(conn[e])
    /\ Becomes(e, AfterClose(conn[e]))
    /\ network' = network \cup
          {[from |-> e, what |-> "close", level |-> conn[e].level]}

\* send_pending, with anything else to send or nothing.
SendData(e) ==
    /\ SendsData(conn[e])
    /\ \E c \in AfterData(e, conn[e]) : Becomes(e, c)
    /\ \/ UNCHANGED network
       \/ \E what \in Content(e, conn[e]) :
             /\ Cardinality(network) < MaxUnderWay
             /\ network' = network \cup
                   {[from |-> e, what |-> what,
                     level |-> IF what = "data" THEN "ONE_RTT" ELSE "EARLY"]}

\* A datagram arrives, and may arrive again.
Receive(e, d) ==
    /\ d \in network /\ d.from # e
    /\ \E c \in DatagramReceived(e, conn[e], d) : Becomes(e, c)
    /\ network' \in {network, network \ {d}}

\* _handle_version_negotiation, for a client that has read nothing of its server.
VersionNegotiation ==
    LET c == conn["client"]
    IN  /\ c.state \notin {"TERMINATED", "DRAINING"} /\ ~c.heard
        /\ Becomes("client", [Over(c) EXCEPT !.reported = TRUE])
        /\ UNCHANGED network

\* The loop of an endpoint calls handle_timer, whatever the state.
Timer(e) ==
    /\ ~conn[e].dropped
    /\ \E c \in HandleTimer(e, conn[e]) : Becomes(e, c)
    /\ UNCHANGED network

\* The application has ended the connection itself, or will not see it again.
Asked(c) == c.closes > 0 \/ c.dropped

\* fetch is done: it was told of the end, or has pumped once after its close.
FetchReturns(c) == c.reported \/ (c.closes > 0 /\ ~SendsClose(c))

\* _reap: the connection is over, or the session's deadline is.
Reaped(c) ==
    \/ c.state = "TERMINATED"
    \/ c.idle = None \/ c.idle >= SessionTimeout

\* What is left of a connection that nobody calls any more.
Forgotten(e) ==
    [NewConnection(e, conn[e].pto) EXCEPT
        !.state = "TERMINATED", !.idle = None, !.dropped = TRUE]

\* The endpoint drops the connection, for which that is the end.
Drop(e) ==
    LET c == conn[e]
    IN  /\ c.level # "none" /\ ~c.dropped
        /\ IF e = "client" THEN FetchReturns(c) ELSE Reaped(c)
        /\ Becomes(e, Forgotten(e))
        /\ UNCHANGED network

Lose(d) ==
    /\ d \in network
    /\ network' = network \ {d}
    /\ UNCHANGED conn

Tick ==
    /\ conn' = [e \in End |-> Wait(conn[e], 1)]
    /\ UNCHANGED network

Next ==
    \/ \E e \in End : \/ ApplicationClose(e) \/ SendClose(e) \/ SendData(e) \/ Timer(e)
                      \/ Drop(e)
                      \/ \E d \in Datagram : Receive(e, d)
    \/ \E d \in Datagram : Lose(d)
    \/ VersionNegotiation
    \/ Tick

\* Time passes, the loops of the endpoints run, and no datagram is under way for
\* ever.
Fairness ==
    /\ WF_vars(Tick)
    /\ \A e \in End : WF_vars(SendClose(e)) /\ WF_vars(Timer(e))
    /\ \A d \in Datagram : WF_vars(Lose(d))

Spec == Init /\ [][Next]_vars /\ Fairness

-----------------------------------------------------------------------------
(* Properties. *)

\* Over and done with, or never begun.
Ended(c) == c.state = "TERMINATED" \/ (c.level = "none" /\ c.idle = None)

\* A connection that ends tells its application, unless that asked for it.
EndIsReported ==
    \A e \in End : conn[e].state = "TERMINATED" => Asked(conn[e]) \/ conn[e].reported

\* Whatever handle_timer would do some time from now, next_timer has the endpoint
\* awake by then.
NeverOversleeps ==
    \A e \in End, t \in 0 .. LongestPeriod :
       LET c == Wait(conn[e], t)
       IN  conn[e].state # "TERMINATED" /\ HandleTimer(e, c) # {c}
              => NextTimerBy(e, conn[e], t)

\* After a turn of the endpoint's loop nothing is due but loss detection, so that
\* neither pacer nor idle timer keeps the loop from sleeping, while the connection
\* is not being closed.
LiveConnectionSleeps ==
    \A e \in End : \A c \in UNION {AfterSend(e, h) : h \in HandleTimer(e, conn[e])} :
       ~c.close_frame /\ c.state # "DRAINING" =>
          0 \notin Deadlines(e, [c EXCEPT !.loss = None])

\* From close or the peer's close on, one close datagram leaves at most, even when
\* the handshake completes meanwhile.
ClosedIsSilent ==
    [][\A e \in End :
         conn[e].close_frame \/ conn[e].state \in {"DRAINING", "TERMINATED"} =>
            \A d \in network' \ network :
               d.from = e => d.what = "close" /\ ~conn[e].close_sent]_vars

\* A connection that has ended comes back by its application's own close only, and
\* then to be closed: no datagram, timer or late handshake revives it.
OnlyCloseRevives ==
    [][\A e \in End :
         conn[e].state = "TERMINATED" /\ conn'[e].state # "TERMINATED" =>
            /\ conn'[e].state = "CLOSING" /\ conn'[e].close_frame
            /\ conn'[e].closes > conn[e].closes /\ ~conn[e].dropped]_vars

\* When one end closes, both are over in the end, whatever is lost.
CloseEndsBoth ==
    (\E e \in End : conn[e].close_frame) ~> [](\A e \in End : Ended(conn[e]))
=============================================================================
