------------------------------- MODULE MCSign -------------------------------
(* Sign for TLC: three nodes, node 1 coordinating, as NewTSS asks for.     *)
EXTENDS Sign

CONSTANTS n1, n2, n3

MCNodes   == {n1, n2, n3}
MCTables  == {n2, n3}
MCFaults  == {"skip", "lose", "prepare"}
=============================================================================
