---------------------------- MODULE PublishedTree ----------------------------
(***************************************************************************)
(* What following a share promises its readers: a reader shows a tree the  *)
(* producer published, whole and unaltered, and only ever moves forward.   *)
(* How the tree travels (deltas, snapshots, resends, reconnections) does   *)
(* not appear.                                                             *)
(***************************************************************************)
EXTENDS Naturals, Sequences

CONSTANT Readers

VARIABLES
    trees,  \* the trees published so far
    shown,  \* shown[r]: which of them reader r shows, 0 before the first
    view    \* view[r]: what reader r shows

vars == <<trees, shown, view>>

NothingShown == [files |-> << >>, dirs |-> {}]

TreeAt(v) == IF v = 0 THEN NothingShown ELSE trees[v]

Init ==
    /\ Len(trees) = 1
    /\ shown = [r \in Readers |-> 0]
    /\ view = [r \in Readers |-> NothingShown]

Publish ==
    /\ Len(trees') = Len(trees) + 1
    /\ SubSeq(trees', 1, Len(trees)) = trees
    /\ UNCHANGED <<shown, view>>

Show(r) ==
    /\ shown'[r] \in shown[r]..Len(trees)
    /\ shown' = [shown EXCEPT ![r] = shown'[r]]
    /\ view' = [view EXCEPT ![r] = TreeAt(shown'[r])]
    /\ UNCHANGED trees

Next == Publish \/ \E r \in Readers : Show(r)

Spec == Init /\ [][Next]_vars
=============================================================================
