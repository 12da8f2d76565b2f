CONSTANTS
  Blank = Blank
  big = big
  small = small
  a1 = a1
  a2 = a2
  s1 = s1
  None = None
  Codes = {Blank, big, small}
  Empty = Blank
  Listed = {big, small}
  MinOf <- MCMinOf
  Full = 2
  PriceOf <- MCPriceOf
  Applies = {a1, a2}
  Sends = {s1}
SPECIFICATION Spec
INVARIANTS
  ShownIsCharged
\* The page waits for the user.
CHECK_DEADLOCK FALSE
