----------------------------- MODULE MCAccounts -----------------------------
(* Accounts for TLC: two signups, with one address or with two.             *)
EXTENDS Accounts

CONSTANTS s1, s2, e1, e2

MCSignups == {s1, s2}
MCSession == [s \in MCSignups |-> s]
MCPlans   == {[s \in MCSignups |-> e1], [s \in MCSignups |-> IF s = s1 THEN e1 ELSE e2]}
=============================================================================
