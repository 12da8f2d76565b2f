CONSTANTS
  r1 = r1
  r2 = r2
  r3 = r3
  r4 = r4
  Reqs = {r1, r2, r3, r4}
  Duration = 2
  MaxTime = 3
  None = None
SPECIFICATION TokensSpec
INVARIANTS
  SpentIsRefused
SYMMETRY MCSymmetry
\* Requests and seconds are bounded.
CHECK_DEADLOCK FALSE
