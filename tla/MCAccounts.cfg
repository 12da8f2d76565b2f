CONSTANTS
  s1 = s1
  s2 = s2
  e1 = e1
  e2 = e2
  NoCall = NoCall
  Calls <- MCSignups
  Session <- MCSession
  Emails = {e1, e2}
  Plans <- MCPlans
  CallFaults = {"notify", "hang", "redis", "deadline"}
  Faults = {"database", "tokens", "gone"}
SPECIFICATION FairSpec
INVARIANTS
  HeldShareFits
  AllOrNothing
PROPERTIES
  ImplementsRegister
  SignupsEnd
\* Everybody has signed up or failed to; nothing has to happen then.
CHECK_DEADLOCK FALSE
