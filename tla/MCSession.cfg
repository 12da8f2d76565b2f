CONSTANTS
  r1 = r1
  r2 = r2
  r3 = r3
  r4 = r4
  Reqs = {r1, r2, r3, r4}
  None = None
SPECIFICATION Spec
INVARIANTS
  BlockedFormWaits
  SignOutSettles
SYMMETRY MCSymmetry
\* The pages wait for the user.
CHECK_DEADLOCK FALSE
