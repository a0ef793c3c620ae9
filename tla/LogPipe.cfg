\* The protocol with nothing failing: four handlers, enough descriptors.
CONSTANTS
  w1 = w1
  w2 = w2
  w3 = w3
  w4 = w4
  Logger = Logger
  NoOne = NoOne
  Workers <- MCFourWorkers
  ThreadWorkers <- MCFourWorkers
  FdBudget = 4
  PipeSlots = 1
  SpuriousWakeups = FALSE
  GroupHangup = FALSE
  IOErrors = FALSE
SPECIFICATION FairSpec
INVARIANTS
  SignalFindsWaiter
  CriticalSectionNeverBlocks
PROPERTIES
  AccessLogFair
  EveryRecordWritten
\* With every record written the logger waits for ever.
CHECK_DEADLOCK FALSE
