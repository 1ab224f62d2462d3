------------------------------- MODULE MCConnect -------------------------------
(* Two connects of one tab and one seeder, or one connect and two seeders, of *)
(* which one may be at the end of a channel that freezes.  The share: a small *)
(* file before the payload.  The tight cap, an affair of one attempt, is left  *)
(* to the lone connect.                                                       *)
EXTENDS Connect, TLC

TwoTrees == << <<1, 3>>, <<1, 0, 2>> >>

Small ==
    \/ attempt[2] = Idle /\ client[2] = NoClient
    \/ 12 \notin cards /\ known[12] = NoRecord /\ peer[12] = [alive |-> FALSE, tree |-> First, reach |-> Window]
       /\ \A a \in Attempts : ~attempt[a].tight

Races == (\E a \in Attempts : Race(a)) /\ Small'

SmallInit ==
    /\ Init /\ Small
    /\ \A p \in Peers : peer[p].reach < Window => p = 12 /\ peer[p].alive

FairSpec == SmallInit /\ [][Next /\ Small']_vars /\ WF_vars(Races)
===============================================================================
