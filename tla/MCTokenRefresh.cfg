CONSTANTS
  c1 = c1
  c2 = c2
  c3 = c3
  Calls <- MCCalls
  Kinds <- MCKinds
  MaxTokens = 3
SPECIFICATION RefreshFairSpec
INVARIANTS
  OneRefresh
PROPERTIES
  OnlyOlderSignsOut
  QueuedResume
\* Every call ends, or is queued behind a refresh that failed.
CHECK_DEADLOCK FALSE
