------------------------------ MODULE MCStream ------------------------------
(***************************************************************************)
(* Small instances of Stream for the model checker, and what a stream's    *)
(* bytes come over: the tickets and the exchanges of MCWire.               *)
(***************************************************************************)
EXTENDS Stream, MCWire

Start == [kind |-> "none"]
From(n) == [kind |-> "from", first |-> n]
Between(n, m) == [kind |-> "between", first |-> n, last |-> m]
\* A whole body, a seek inside a chunk, a probe of the end, one past the end, and
\* a range that ends inside a chunk.
Seeks == {Start, From(1), [kind |-> "suffix", last |-> 2], From(7), Between(0, 2)}

\* What crosses a wire is read as it was written or not at all: a ticket whole or
\* cut short, a request and its answer wherever they break off, and the body of a
\* peer that makes one up.  This is about operators: once is enough.
WireReadsTrue ==
    Init => TicketsSurviveTheWire /\ ShortTicketsReadTrue /\ SampleExchangesAreTrue
=============================================================================
