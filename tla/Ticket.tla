------------------------------- MODULE Ticket -------------------------------
(***************************************************************************)
(* The mount ticket on the wire: agent-share-proto/src/ticket.rs, with the *)
(* lookups of lookup.rs inside it.  A payload is a sequence of units: one  *)
(* for every field of fixed width (the 32 bytes of the secret or of a key, *)
(* a flag byte, a u16) and one for every character of a text, which its    *)
(* length announces.  The token envelope around it only adds a version, a  *)
(* type and a checksum.                                                    *)
(***************************************************************************)
EXTENDS Integers, Sequences, SequencesExt

CONSTANT MaxRelayLadder  \* MAX_RELAY_LADDER

PasswordFlag == 1
SignedFlag == 2

Refused == [ok |-> FALSE]
Read(value, pos) == [ok |-> TRUE, value |-> value, pos |-> pos]

\* A text behind its length.
Text(chars) == <<Len(chars)>> \o chars

ReadText(payload, pos) ==
    IF pos > Len(payload) \/ pos + payload[pos] > Len(payload) THEN Refused
    ELSE Read(SubSeq(payload, pos + 1, pos + payload[pos]), pos + payload[pos] + 1)

(***************************************************************************)
(* LookupOpts: one unit of flags, and the ladder of a custom relay.        *)
(***************************************************************************)
RelayEnabled == 4
RelayCustom == 8

EncodeLookups(lookups) ==
    LET flags == (IF lookups.mdns THEN 1 ELSE 0) + (IF lookups.dht THEN 2 ELSE 0)
                 + CASE lookups.relay = "disabled" -> 0
                     [] lookups.relay = "pinned" -> RelayEnabled
                     [] lookups.relay = "custom" -> RelayEnabled + RelayCustom
    IN  <<flags>> \o
        (IF lookups.relay = "custom"
         THEN <<Len(lookups.ladder)>> \o FlattenSeq([i \in DOMAIN lookups.ladder |-> Text(lookups.ladder[i])])
         ELSE << >>)

\* count texts, from pos on.
ReadLadder(payload, pos, count) ==
    LET ends[n \in 0..count] ==
            IF n = 0 THEN Read(<< >>, pos)
            ELSE IF ~ends[n - 1].ok THEN Refused
            ELSE LET text == ReadText(payload, ends[n - 1].pos)
                 IN  IF text.ok THEN Read(Append(ends[n - 1].value, text.value), text.pos) ELSE Refused
    IN  ends[count]

Bit(flags, bit) == (flags \div bit) % 2 = 1

DecodeLookups(payload, pos) ==
    IF pos > Len(payload) THEN Refused
    ELSE LET flags == payload[pos]
             opts(relay, ladder) == [mdns |-> Bit(flags, 1), dht |-> Bit(flags, 2),
                                     relay |-> relay, ladder |-> ladder]
         IN  IF ~Bit(flags, RelayEnabled)
             THEN (IF Bit(flags, RelayCustom) THEN Refused ELSE Read(opts("disabled", << >>), pos + 1))
             ELSE IF ~Bit(flags, RelayCustom) THEN Read(opts("pinned", << >>), pos + 1)
             ELSE IF pos + 1 > Len(payload) \/ payload[pos + 1] \notin 1..MaxRelayLadder THEN Refused
             ELSE LET ladder == ReadLadder(payload, pos + 2, payload[pos + 1])
                  IN  IF ladder.ok THEN Read(opts("custom", ladder.value), ladder.pos) ELSE Refused

(***************************************************************************)
(* MountTicket.                                                            *)
(***************************************************************************)
None == 0

\* An ordinary ticket ends at the address.  Any flag brings the flags, the mesh
\* id (a text of no characters for none) and the author, if there is one.
Encode(t) ==
    <<t.secret, t.kind>> \o EncodeLookups(t.lookups) \o Text(t.addr)
    \o (IF t.flags = 0 THEN << >>
        ELSE <<t.flags>> \o Text(t.meshId)
             \o (IF t.author = None THEN << >> ELSE <<t.author>>))

\* A text that is not there is no mesh id; one cut short is refused.
ReadMeshId(payload, pos) ==
    IF pos > Len(payload) THEN Read(<< >>, pos) ELSE ReadText(payload, pos)

\* The author sits behind the mesh id, also behind an empty one.
ReadAuthor(payload, pos, flags) ==
    LET after == pos + 1 + (IF pos <= Len(payload) THEN payload[pos] ELSE 0)
    IN  IF ~Bit(flags, SignedFlag) \/ after > Len(payload) THEN None ELSE payload[after]

Decode(payload) ==
    IF Len(payload) < 2 THEN Refused
    ELSE LET lookups == DecodeLookups(payload, 3)
             addr == IF lookups.ok THEN ReadText(payload, lookups.pos) ELSE Refused
             flags == IF addr.pos > Len(payload) THEN 0 ELSE payload[addr.pos]
             rest == addr.pos + (IF flags = 0 THEN 0 ELSE 1)
             meshId == IF flags = 0 THEN Read(<< >>, rest) ELSE ReadMeshId(payload, rest)
         IN  IF ~addr.ok \/ ~meshId.ok THEN Refused
             ELSE [ok |-> TRUE,
                   ticket |-> [secret |-> payload[1], kind |-> payload[2], lookups |-> lookups.value,
                               addr |-> addr.value, flags |-> flags, meshId |-> meshId.value,
                               author |-> ReadAuthor(payload, rest, flags)]]

(***************************************************************************)
(* What a ticket carries, and what it loses.                               *)
(***************************************************************************)
\* What is left of a ticket that no flag marks: an ordinary ticket is the bytes
\* it always was.
Carried(t) ==
    IF t.flags = 0 THEN [t EXCEPT !.meshId = << >>, !.author = None] ELSE t

\* A ticket that was minted reads back as what it carries.
SurvivesTheWire(t) ==
    Decode(Encode(t)) = [ok |-> TRUE, ticket |-> Carried(t)]

\* Whatever prefix of a ticket a reader is given, an older layout's among them,
\* it refuses it or reads of every field what was written or nothing: the
\* credential and the address are never taken from somewhere else.
PrefixReadsTrue(t, n) ==
    LET decoded == Decode(SubSeq(Encode(t), 1, n))
        carried == Carried(t)
    IN  decoded.ok =>
            /\ \A f \in {"secret", "kind", "lookups", "addr"} : decoded.ticket[f] = carried[f]
            /\ decoded.ticket.flags \in {0, carried.flags}
            /\ decoded.ticket.meshId \in {<< >>, carried.meshId}
            /\ decoded.ticket.author \in {None, carried.author}
=============================================================================
