----------------------------- MODULE MCTransfer -----------------------------
(* Transfer for TLC: two requests of a user, for one payment or for two.    *)
EXTENDS Transfer

CONSTANTS r1, r2, p1, p2, user

MCRequests == {r1, r2}
MCSession  == [r \in MCRequests |-> user]
MCPlans    == {[r \in MCRequests |-> p1], [r \in MCRequests |-> IF r = r1 THEN p1 ELSE p2]}
MCAmount   == [p \in {p1, p2} |-> IF p = p1 THEN 1 ELSE 3]
=============================================================================
