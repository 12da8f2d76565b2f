------------------------------ MODULE MCSession ------------------------------
(* Session for TLC: four requests, which may be exchanged.                  *)
EXTENDS Session, TLC

CONSTANTS r1, r2, r3, r4

MCSymmetry == Permutations(Reqs)
=============================================================================
