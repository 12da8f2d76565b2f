CONSTANTS
  n1 = n1
  n2 = n2
  n3 = n3
  Nodes <- MCNodes
  Coord = n1
  ShareTables <- MCTables
  Rounds = 3
  Faults <- AllFaults
SPECIFICATION KeygenFairSpec
INVARIANTS
  CeremonyTypeOK
  OnlyLastRoundDiscarded
  NoneDroppedLate
  OutputNeedsEveryone
PROPERTIES
  ImplementsBarrier
  KeygenCompletes
\* A ceremony ends: when it is complete, given up, or stuck, nothing moves.
CHECK_DEADLOCK FALSE
