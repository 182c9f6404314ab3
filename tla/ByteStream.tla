----------------------------- MODULE ByteStream -----------------------------
(***************************************************************************)
(* What a stream promises its two applications: the bytes written come out *)
(* in order, each once, and after the last one the end, once.              *)
(***************************************************************************)
EXTENDS Integers, Sequences

CONSTANT Content        \* what the writer has to write, per stream

VARIABLES
    written,            \* bytes of Content written so far
    closed,             \* the writer has said that was all
    delivered,          \* what the reader was given
    ended               \* how often the reader was told of the end

vars == <<written, closed, delivered, ended>>

Stream == DOMAIN Content

Init ==
    /\ written = [s \in Stream |-> 0]
    /\ closed = [s \in Stream |-> FALSE]
    /\ delivered = [s \in Stream |-> <<>>]
    /\ ended = [s \in Stream |-> 0]

Write(s) ==
    /\ ~closed[s]
    /\ \E n \in written[s] .. Len(Content[s]) :
          written' = [written EXCEPT ![s] = n]
    /\ closed' \in {closed, [closed EXCEPT ![s] = TRUE]}
    /\ UNCHANGED <<delivered, ended>>

Deliver(s) ==
    /\ ended[s] = 0
    /\ \E n \in Len(delivered[s]) .. written[s], last \in {0, 1} :
          /\ last = 1 => closed[s] /\ n = written[s]
          /\ delivered' = [delivered EXCEPT ![s] = SubSeq(Content[s], 1, n)]
          /\ ended' = [ended EXCEPT ![s] = last]
    /\ UNCHANGED <<written, closed>>

Next == \E s \in Stream : Write(s) \/ Deliver(s)

Spec ==
    /\ Init /\ [][Next]_vars
    /\ \A s \in Stream : WF_vars(Deliver(s))
=============================================================================
