------------------------------- MODULE MCMounted -------------------------------
(* A small mount: two names, two levels. *)
EXTENDS Mounted

SomePaths == {<<1>>, <<2>>, <<2, 1>>}
===============================================================================
