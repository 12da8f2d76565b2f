CONSTANTS
  r1 = r1
  r2 = r2
  Runs <- MCRuns
  Rounds = 2
  NoRun = NoRun
SPECIFICATION FairSpec
INVARIANTS
  SharedTypeOK
  LoneRunsShareNothing
  FinishedLeaveNothing
PROPERTIES
  SendersEnd
  RunsFinish
\* A session is over when its runs are: nothing moves, and nothing has to.
CHECK_DEADLOCK FALSE
