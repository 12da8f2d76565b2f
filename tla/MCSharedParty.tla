---------------------------- MODULE MCSharedParty ----------------------------
(* SharedParty for TLC: two ceremonies of two rounds under one session id.  *)
EXTENDS SharedParty

CONSTANTS r1, r2

MCRuns == {r1, r2}
=============================================================================
