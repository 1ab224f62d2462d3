------------------------------- MODULE MCMesh -------------------------------
(***************************************************************************)
(* Small instances of TabPeer, and so of Mesh, for the model checker.      *)
(***************************************************************************)
EXTENDS TabPeer

NoMirror == {}
OneMirror == {2}
OneMount == {3}
OneTab == {4}
MountAndMirror == {{2, 3}}
TabAlone == {{4}}
Either == MountAndMirror \cup TabAlone
BothTickets ==
    {[signed |-> FALSE, protected |-> TRUE, meshId |-> FALSE],
     [signed |-> TRUE, protected |-> TRUE, meshId |-> TRUE]}
=============================================================================
