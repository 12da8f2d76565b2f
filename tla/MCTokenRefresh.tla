--------------------------- MODULE MCTokenRefresh ---------------------------
(* TokenRefresh for TLC: three calls, of one client or of both.             *)
EXTENDS TokenRefresh

CONSTANTS c1, c2, c3

MCCalls == {c1, c2, c3}
MCKinds == {[c \in MCCalls |-> IF c = c3 THEN "rtk" ELSE "axios"],
            [c \in MCCalls |-> IF c = c1 THEN "axios" ELSE "rtk"]}
=============================================================================
