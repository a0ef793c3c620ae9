\* The logger runs out of descriptors after as many records as it can open files.
CONSTANTS
  w1 = w1
  w2 = w2
  w3 = w3
  w4 = w4
  Logger = Logger
  NoOne = NoOne
  Workers <- MCWorkers
  ThreadWorkers <- MCWorkers
  FdBudget = 2
  PipeSlots = 2
  SpuriousWakeups = FALSE
  GroupHangup = FALSE
  IOErrors = FALSE
SPECIFICATION Spec
INVARIANTS
  LoggerAlwaysActive
CHECK_DEADLOCK FALSE
