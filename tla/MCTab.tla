------------------------------- MODULE MCTab -------------------------------
(***************************************************************************)
(* Small instances of Tab for the model checker.                           *)
(***************************************************************************)
EXTENDS Tab

OneSlot == {0}
TwoParts == {1, 2}
One == [s \in Slots |-> IF s = 0 THEN 1 ELSE 0]
=============================================================================
