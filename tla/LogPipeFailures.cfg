\* Everything that can go wrong around the protocol goes wrong: unsignalled
\* wake-ups, a hangup of the logger, the third open() of the log file failing,
\* tokens, records and lines that are not written;
\* two handlers are threads of the server, one is a child it forked.
CONSTANTS
  w1 = w1
  w2 = w2
  w3 = w3
  w4 = w4
  Logger = Logger
  NoOne = NoOne
  Workers <- MCWorkers
  ThreadWorkers <- MCThreads
  FdBudget = 2
  PipeSlots = 2
  SpuriousWakeups = TRUE
  GroupHangup = TRUE
  IOErrors = TRUE
SPECIFICATION Spec
INVARIANTS
  TypeOK
  MutualExclusion
PROPERTIES
  AccessLogSafety
\* A dead logger may leave every handler blocked: that is what is explored.
CHECK_DEADLOCK FALSE
