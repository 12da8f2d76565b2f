-------------------------- MODULE MCTransferPages --------------------------
(* TransferPages for TLC: the user and another account of the browser.  The *)
(* user's wallet address has letters of both cases, the other's only        *)
(* digits.                                                                  *)
EXTENDS TransferPages, TLC

CONSTANTS me, other, Mixed, Lowered, Digits, Empty, l1, l2, s1, s2

MCTexts   == {Mixed, Lowered, Digits, Empty}
MCLower   == [t \in MCTexts |-> IF t = Mixed THEN Lowered ELSE t]
MCAddress == [u \in {me, other} |-> IF u = me THEN Mixed ELSE Digits]
MCSymmetry == Permutations({s1, s2}) \cup Permutations({l1, l2})
=============================================================================
