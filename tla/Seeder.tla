------------------------------- MODULE Seeder -------------------------------
(***************************************************************************)
(* What a peer serves of a share it does not own: the state and operations *)
(* of agent-share-mount/src/seed.rs, as operators on a seeder's record.    *)
(*                                                                         *)
(* A chunk row stands for the content it addresses: contents of a slot are *)
(* numbered in the order the origin gave it them, 0 for no row.  A chunk   *)
(* address is a slot, a content and a part of it.                          *)
(***************************************************************************)
EXTENDS Naturals, FiniteSets

CONSTANTS
    Slots,  \* manifest indices
    Parts   \* the chunks of a file

NoRows == [s \in Slots |-> 0]

Leaves(s, row) == {<<s, row, k>> : k \in Parts}

\* Every address reachable from a chunk row: the scope of OP_CHUNK.
InScope(rows) == UNION {Leaves(s, rows[s]) : s \in {s \in Slots : rows[s] # 0}}

NewSeeder == [armed |-> FALSE, rows |-> NoRows, scope |-> {}]

\* Seeder::update replaces everything with what the caller knows.
Update(seeder, rows) == [armed |-> TRUE, rows |-> rows, scope |-> InScope(rows)]

\* Seeder::adopt adds one row, and is a no-op until an update supplied a store.
AdoptRow(seeder, s, row) ==
    IF seeder.armed
    THEN [seeder EXCEPT !.rows[s] = row, !.scope = @ \cup Leaves(s, row)]
    ELSE seeder

\* Mutant: a slot whose row is known counts as held.
CompleteSlotsByRow(seeder, store) == {s \in Slots : seeder.rows[s] # 0}

\* Seeder::complete_slots asks the store for each row's coverage.
CompleteSlots(seeder, store) ==
    {s \in Slots : seeder.rows[s] # 0 /\ Leaves(s, seeder.rows[s]) \subseteq store}

\* OP_READ over a whole slot answers only if no part of it is a hole.
CanRead(seeder, store, s) ==
    seeder.rows[s] # 0 /\ Leaves(s, seeder.rows[s]) \subseteq store

\* OP_CHUNK answers for stored chunks in scope.
CanAnswerChunk(seeder, store, address) == address \in seeder.scope \cap store
=============================================================================
