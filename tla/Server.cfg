\* A healthy site and as many descriptors as the requests can need at once;
\* one client may be silent, not read, or leave.
CONSTANTS
  r1 = r1
  r2 = r2
  NoOne = NoOne
  Requests <- MCTwoRequests
  Targets <- MCHealthy
  MaxFd = 9
  Leftover = 0
  Reloads = 1
  CallsMayFail = FALSE
  Entries = 1
  Stallers <- MCOneClient
  Leavers <- MCOneClient
SPECIFICATION MCSpec
INVARIANTS
  ClosedAfterAnswer
  NothingLeaks
PROPERTIES
  EveryClientServed
  EveryFileLogged
\* Once every client is served the server waits for ever.
CHECK_DEADLOCK FALSE
