----------------------------- MODULE MCSources -----------------------------
(***************************************************************************)
(* Small instances of Sources for the model checker.                       *)
(***************************************************************************)
EXTENDS Sources, TLC

CONSTANTS r1, r2, p1, p2

TwoReaders == {r1, r2}
OnePeer == {p1}
TwoPeers == {p1, p2}
OneSlot == {0}
TwoSlots == {0, 1}
TwoParts == {1, 2}

\* p1 is on this mount's tree and holds it; p2 lists slot 0 of another tree.
OneDiverged == p1 :> "ours" @@ p2 :> "other"
AllAndOne == p1 :> {0, 1} @@ p2 :> {0}

\* Two instances in one: two reads of one file at once, under a store that keeps,
\* or reads of two files one at a time, under a store that may not.
VARIABLE lone

Kept(r) ==
    reads[r].pc \in {"chunks", "adopt", "arm"} =>
        \A k \in Parts \ reads[r].left : Address(r, k) \in store

Bound ==
    IF lone THEN reads[r2] = Idle
    ELSE /\ \A r \in Readers : reads[r].slot = 0 /\ Kept(r)
         /\ serving = NoField

EitherInit == Init /\ lone \in BOOLEAN

BoundedSpec ==
    /\ EitherInit
    /\ [][Next /\ UNCHANGED lone /\ Bound']_<<vars, lone>>
    /\ \A r \in Readers : WF_vars(Step(r) /\ UNCHANGED lone /\ Bound')

-----------------------------------------------------------------------------

\* The two properties below are about the pure functions of serving.rs; Init has
\* them evaluated once.

\* Slot counts around the two limits of a serving field of MaxChars characters,
\* and what a peer may hold near both ends of so many slots.
Totals == {2, 3, 24, 48}
MaxHeld == 4  \* bound: slots held
Ends(total) == {s \in 0..total - 1 : s < 12 \/ s > total - 5}
Holdings(total) == UNION {kSubset(n, Ends(total)) : n \in 0..MaxHeld}

\* A field that is published lists exactly what the peer holds, whatever is left
\* of the card's room.
FieldsAreExact == Init =>
    \A total \in Totals : \A held \in Holdings(total) : FieldIsExact(held, total)

\* In a tree no larger than MAX_BITMAP_SLOTS a peer that holds something always
\* has a field to publish, however scattered its slots: the bound and the
\* length of a bitmap agree to the character.
HoldersAreAdvertised == Init =>
    \A total \in {n \in Totals : n <= MaxBitmapSlots} : \A held \in Holdings(total) :
        HolderIsAdvertised(held, total)

\* What one read after another leaves in the store is seeded; two that arm the
\* seeder at once may lose a row.
LoneReadsAreSeeded == lone => ReadSlotsAreSeeded

\* A serving field says neither less nor more than its peer holds.
ServingFieldsAreTrue == FieldsAreExact /\ HoldersAreAdvertised
=============================================================================
