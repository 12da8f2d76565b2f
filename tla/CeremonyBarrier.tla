-------------------------- MODULE CeremonyBarrier --------------------------
(***************************************************************************)
(* What one key-generation or signing ceremony promises, with nothing of   *)
(* how messages travel: the nodes go through numbered rounds, and a node   *)
(* may enter a round only when every other node has entered the one        *)
(* before it.  Round 0 is "not started"; round Rounds + 1 is "the protocol *)
(* has produced its output".  A node that learns several things at once    *)
(* may pass several rounds in one step.                                    *)
(***************************************************************************)
EXTENDS Integers

CONSTANTS Nodes,   \* the nodes of the ceremony
          Rounds   \* how many message rounds the protocol has

VARIABLE level     \* level[n]: the round node n is in

LastLevel == Rounds + 1

BarrierInit == level = [n \in Nodes |-> 0]

(* Node n moves up to round r; its peers are all at least at round r - 1.  *)
Enter(n, r) ==
    /\ r > level[n]
    /\ \A p \in Nodes \ {n} : level[p] >= r - 1
    /\ level' = [level EXCEPT ![n] = r]

BarrierNext == \E n \in Nodes : \E r \in 1..LastLevel : Enter(n, r)

BarrierSpec == BarrierInit /\ [][BarrierNext]_level

-----------------------------------------------------------------------------

(* No two nodes are ever more than one round apart.                        *)
Skew == \A n, p \in Nodes : level[n] <= level[p] + 1
=============================================================================
