CONSTANTS
  me = me
  other = other
  Mixed = Mixed
  Lowered = Lowered
  Digits = Digits
  Empty = Empty
  l1 = l1
  l2 = l2
  s1 = s1
  s2 = s2
  None = None
  Users = {me, other}
  Me = me
  Texts <- MCTexts
  Blank = Empty
  Lower <- MCLower
  Address <- MCAddress
  Links = {l1, l2}
  Amounts = {0, 1, 2}
  Allowed = {1, 2}
  Balances = {1, 2}
  Sends = {s1, s2}
SYMMETRY MCSymmetry
SPECIFICATION Spec
INVARIANTS
  FromOwnWallet
  PaysTheLink
  LoadingIsPending
PROPERTIES
  SentAsChecked
\* A page that is broken stays so until something is opened.
CHECK_DEADLOCK FALSE
