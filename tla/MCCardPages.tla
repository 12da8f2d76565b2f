---------------------------- MODULE MCCardPages ----------------------------
(* CardPages for TLC: a number of each type that is treated differently,    *)
(* two currencies and an amount that fits each of them.                     *)
EXTENDS CardPages

CONSTANTS Blank, Visa, Amex, low, high, bad, a1, d1, s1

MCNumbers == {Blank, Visa, Amex}
MCTypeOf  == [n \in MCNumbers |-> IF n = Visa THEN "visa" ELSE IF n = Amex THEN "amex" ELSE "none"]
MCFits    == {<<"VND", high>>, <<"ETH", low>>}
=============================================================================
