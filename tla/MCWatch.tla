------------------------------- MODULE MCWatch -------------------------------
(***************************************************************************)
(* Small instances of Watch for the model checker.                         *)
(***************************************************************************)
EXTENDS Watch

CONSTANT m1

OneMount == {m1}
OneDir == {1}
NoDirs == {}
OneFile == {11}
TwoFiles == {11, 12}
TwoStamps == {1, 2}
OneStamp == {1}
=============================================================================
