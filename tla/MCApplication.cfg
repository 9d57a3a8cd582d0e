SPECIFICATION ApplicationSpec
CONSTANTS
  t1 = t1
  t2 = t2
  t3 = t3
  Threads = {t1, t2, t3}
  Main = t1
  ThreadLimit = 2
  EventLimit = 3
  MaxScopes = 5
  Paths <- Arguments
  NoPath = "none"
  File <- Files
  Number <- Numbers
  Endpoints = {"pipe"}
  MaxSessions = 4
  Timeouts <- Milliseconds
  OfferedCommands = {"--help", "--serve", "--demo-mixed"}
  MaxArguments = 5
INVARIANTS
  ExitTruthful
  OpenScopeHasTrace
  
PROPERTY OutputsClose
CHECK_DEADLOCK FALSE
