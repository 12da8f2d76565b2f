CONSTANTS
  Blank = Blank
  Visa = Visa
  Amex = Amex
  low = low
  high = high
  bad = bad
  a1 = a1
  d1 = d1
  s1 = s1
  None = None
  Numbers <- MCNumbers
  Empty = Blank
  TypeOf <- MCTypeOf
  Lengths = {3, 4}
  Currencies = {"VND", "ETH"}
  Amounts = {low, high, bad}
  NaN = bad
  Fits <- MCFits
  Adds = {a1}
  Deletes = {d1}
  Sends = {s1}
SPECIFICATION CardsSpec
INVARIANTS
  SubmittedFits
  MovedInBounds
\* The pages wait for the user.
CHECK_DEADLOCK FALSE
