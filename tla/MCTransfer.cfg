CONSTANTS
  r1 = r1
  r2 = r2
  p1 = p1
  p2 = p2
  user = user
  NoCall = NoCall
  Calls <- MCRequests
  Session <- MCSession
  Payments = {p1, p2}
  Plans <- MCPlans
  Amount <- MCAmount
  GasPrices = {1, 3}
  Funds = 6
  CallFaults = {"notify", "hang", "redis", "deadline"}
  Faults = {"read", "send", "record", "evict", "gone"}
SPECIFICATION FairSpec
INVARIANTS
  AcceptedIsSigned
  ErrorMeansUnpaid
  PaidOnce
  OkIsPaid
  OthersResultNeedsMishap
PROPERTIES
  ImplementsLedger
  RequestsEnd
  LoneRequestsPaid
\* The user stops asking; nothing has to happen then.
CHECK_DEADLOCK FALSE
