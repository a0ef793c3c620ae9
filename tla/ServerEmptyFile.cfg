\* One of the files on the site is empty.
CONSTANTS
  r1 = r1
  r2 = r2
  NoOne = NoOne
  Requests <- MCTwoRequests
  Targets <- MCEmptyAndFile
  MaxFd = 9
  Leftover = 0
  Reloads = 0
  CallsMayFail = FALSE
  Entries = 1
  Stallers = {}
  Leavers = {}
SPECIFICATION FairSpec
PROPERTIES
  EveryFileLogged
CHECK_DEADLOCK FALSE
