------------------------------ MODULE MCPayment ------------------------------
(* Payment for TLC: two vouchers of different prices, one of which the bill  *)
(* is too small for, so that it can only be typed.                           *)
EXTENDS Payment

CONSTANTS Blank, big, small, a1, a2, s1

MCMinOf   == [c \in {big, small} |-> IF c = big THEN 3 ELSE 1]
MCPriceOf == [c \in {Blank, big, small} |-> IF c = big THEN 0 ELSE IF c = small THEN 1 ELSE 2]
==============================================================================
