------------------------------ MODULE Serving ------------------------------
(***************************************************************************)
(* The `serving` field of a peer card: which slots a peer holds whole, in  *)
(* at most MaxChars characters (agent-share-proto/src/serving.rs).         *)
(*                                                                         *)
(* Slots are numbered from 0 here, as on the wire.  A field is a record of *)
(* its kind and what it lists; its text is abstracted to its length.       *)
(***************************************************************************)
EXTENDS Naturals, FiniteSets
LOCAL INSTANCE FiniteSetsExt

CONSTANT MaxChars  \* MAX_SERVING_CHARS

ASSUME MaxCharsAssumption == MaxChars \in Nat \ {0}

NoField == [kind |-> "none"]
AllField == [kind |-> "all"]

\* The maximal runs of consecutive slots.
Runs(held) ==
    {r \in held \X held :
        /\ r[1] <= r[2] /\ r[1]..r[2] \subseteq held
        /\ r[2] + 1 \notin held /\ (r[1] = 0 \/ r[1] - 1 \notin held)}

Digits[n \in Nat] == IF n < 10 THEN 1 ELSE 1 + Digits[n \div 10]

\* "a", or "a-b"; a comma between runs.
RunsLength(runs) ==
    MapThenSumSet(LAMBDA r : IF r[1] = r[2] THEN Digits[r[1]]
                             ELSE Digits[r[1]] + 1 + Digits[r[2]], runs)
        + Cardinality(runs) - 1

\* The tag, then base64 without padding: four characters for three bytes, and
\* one more than its bytes for a shorter last group.
BitmapLength(total) ==
    LET bytes == (total + 7) \div 8
    IN  1 + 4 * (bytes \div 3) + (IF bytes % 3 = 0 THEN 0 ELSE (bytes % 3) + 1)

\* MAX_BITMAP_SLOTS
MaxBitmapSlots == ((MaxChars - 1) \div 4) * 3 * 8

EncodeBitmap(held, total) ==
    IF total = 0 \/ total > MaxBitmapSlots \/ BitmapLength(total) > MaxChars
    THEN NoField
    ELSE [kind |-> "bitmap", bits |-> {s \in held : s < total}]

\* Mutant: a list of runs too long for the field is cut at the last that fits.
EncodeServingTruncated(held, total) ==
    IF held = {} THEN NoField
    ELSE IF total > 0 /\ Cardinality(held) = total THEN AllField
    ELSE [kind |-> "runs",
          runs |-> CHOOSE runs \in SUBSET Runs(held) :
                     /\ RunsLength(runs) <= MaxChars
                     /\ \A r \in runs, q \in Runs(held) : q[1] < r[1] => q \in runs
                     /\ \A r \in Runs(held) \ runs :
                           (\A q \in Runs(held) : q[1] < r[1] => q \in runs)
                               => RunsLength(runs \cup {r}) > MaxChars]

\* encode_serving: nothing to say, everything, the runs if they fit, a bitmap
\* if the tree is small enough for one.
EncodeServing(held, total) ==
    IF held = {} THEN NoField
    ELSE IF total > 0 /\ Cardinality(held) = total THEN AllField
    ELSE IF RunsLength(Runs(held)) <= MaxChars
         THEN [kind |-> "runs", runs |-> Runs(held)]
         ELSE EncodeBitmap(held, total)

\* decode_serving: what a reader that counts `total` slots takes a field to list.
DecodeServing(field, total) ==
    CASE field.kind = "none"   -> {}
      [] field.kind = "all"    -> {s \in 0..total : s < total}
      [] field.kind = "runs"   -> UNION {r[1]..r[2] : r \in field.runs}
      [] field.kind = "bitmap" -> {s \in field.bits : s < total}

\* A field that is published lists exactly what its peer holds: a slot left out
\* or let in sends readers to the wrong peer ("a truncated range list is not a
\* smaller truth, it is a different one", serving.rs).
FieldIsExact(held, total) ==
    LET field == EncodeServing(held, total)
    IN  field # NoField => DecodeServing(field, total) = held

\* A peer that holds something has a field to publish.
HolderIsAdvertised(held, total) == held # {} => EncodeServing(held, total) # NoField
=============================================================================
