------------------------------ MODULE MCMirror ------------------------------
(***************************************************************************)
(* Small instances of Mirror for the model checker.                        *)
(***************************************************************************)
EXTENDS Mirror, TLC

NoDirs == {}
OneFile == {11}
TwoFiles == {11, 12}
TwoStamps == {1, 2}
\* Two edits of the same length, the case a size cannot tell apart.
SameSize == 1 :> 1 @@ 2 :> 1
Everything == {FilePaths}
EverythingOrOne == {FilePaths, {11}}
=============================================================================
