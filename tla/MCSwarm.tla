------------------------------ MODULE MCSwarm ------------------------------
(***************************************************************************)
(* Swarm with two peers, a home and a file of two chunks; the plan over    *)
(* every claim of up to three peers on three chunks.                       *)
(***************************************************************************)
EXTENDS Swarm

\* Whatever is missing and whoever claims what, the plan is whole.
PlansAreWhole ==
    SwarmInit => \A n \in 0..3, missing \in SUBSET (0..2) :
                \A holders \in [1..n -> SUBSET (0..2)] :
                    PlanIsWhole(missing, holders)

=============================================================================
