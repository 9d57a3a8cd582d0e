SPECIFICATION FairSpec
CONSTANTS
  c1 = c1
  c2 = c2
  i1 = i1
  i2 = i2
  Clients = {c1, c2}
  Instances = {i1, i2}
  Until <- Deadlines
  Millisecond = 2
  RetryMilliseconds = 2
  DefaultWait = 2
  Horizon = 13
INVARIANTS
  DeadlineKept
  RetriesPaced
PROPERTY ConnectReturns
CHECK_DEADLOCK FALSE
