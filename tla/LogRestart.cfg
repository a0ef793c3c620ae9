\* Two servers of two handlers each; as many descriptors on the log file as a
\* server has records, and one record's worth of pipe.
CONSTANTS
  t1 = t1
  c1 = c1
  t2 = t2
  c2 = c2
  Workers1 <- MCWorkers1
  Threads1 <- MCThreads1
  Logger1 = Logger1
  Workers2 <- MCWorkers2
  Threads2 <- MCThreads2
  Logger2 = Logger2
  NoOne = NoOne
  FdBudget = 2
  PipeSlots = 1
SPECIFICATION FairSpec
PROPERTIES
  BothLogsSafe
  CrashRecovery
\* Idle servers wait for ever, and orphans can block each other.
CHECK_DEADLOCK FALSE
