------------------------------- MODULE MCTokens -------------------------------
(* Tokens for TLC: four requests, which may be exchanged.                     *)
EXTENDS Tokens, TLC

CONSTANTS r1, r2, r3, r4

MCSymmetry == Permutations(Reqs)
===============================================================================
