------------------------------- MODULE MCSession -------------------------------
(* Two mounts of one protected share, and what a dial goes through.          *)
EXTENDS Session

FairSpec == Spec /\ WF_vars(Progress)
===============================================================================
