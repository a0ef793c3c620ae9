\* Every kind of request, too few descriptors, and spawns that fail.
CONSTANTS
  r1 = r1
  r2 = r2
  NoOne = NoOne
  Requests <- MCTwoRequests
  Targets <- AllTargets
  MaxFd = 4
  Leftover = 2
  Reloads = 1
  CallsMayFail = TRUE
  Entries = 1
  Stallers = {}
  Leavers <- MCTwoRequests
SPECIFICATION Spec
SYMMETRY MCSymmetry
INVARIANTS
  TypeOK
  HandlersUseTheirOwn
  OneSender
  LoggedAfterService
  ServedIsLogged
PROPERTIES
  OnlyTheHandlerCloses
\* A server that is out of descriptors, or dead, stops: that is explored.
CHECK_DEADLOCK FALSE
