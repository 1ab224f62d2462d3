------------------------------- MODULE MCWire -------------------------------
(***************************************************************************)
(* What crosses the wires of a share: Ticket and Exchange on samples.      *)
(***************************************************************************)
EXTENDS Integers, Sequences

CONSTANTS MaxRelayLadder, MaxReadLen, MaxBody
Wire == INSTANCE Ticket
Streams == INSTANCE MCExchange

\* The samples are within the caps: a ladder of two relays, a body of nine units.
ASSUME SamplesFit ==
    /\ MaxRelayLadder \in Nat /\ MaxRelayLadder >= 2
    /\ MaxReadLen \in Nat
    /\ MaxBody \in Nat /\ MaxBody >= 9

SampleTickets ==
    [secret : {7}, kind : {0, 3}, addr : {<< >>, <<9>>},
     lookups : [mdns : BOOLEAN, dht : {TRUE}, relay : {"disabled", "pinned"}, ladder : {<< >>}]
               \cup [mdns : {FALSE}, dht : BOOLEAN, relay : {"custom"}, ladder : {<< <<5>> >>, << <<1>>, <<2, 1>> >>}],
     flags : 0..3, meshId : {<< >>, <<1>>, <<2, 1>>}, author : {0, 8}]

\* What mint writes: the signed flag goes with the author.
Minted == {t \in SampleTickets : (t.author # 0) = Wire!Bit(t.flags, 2)}

\* A minted ticket reads back as what it carries: its flags, mesh and author
\* each in its place, whichever of the others are missing.
TicketsSurviveTheWire == \A t \in Minted : Wire!SurvivesTheWire(t)

\* A reader given less of a ticket than was written refuses it or reads nothing
\* that was not written.
ShortTicketsReadTrue ==
    \A t \in Minted : \A n \in 0..Len(Wire!Encode(t)) : Wire!PrefixReadsTrue(t, n)

\* A request and its answer, wherever they break off, are read as they were
\* written or not at all, and of a body a peer makes up only the sound is taken.
SampleExchangesAreTrue == Streams!ExchangesAreTrue /\ Streams!MadeUpIsRefused
=============================================================================
