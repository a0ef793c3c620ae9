\* Two clients, the requests they may make together, and Ctrl-C as often as
\* the scenario says.
CONSTANTS
  r1 = r1
  r2 = r2
  console = console
  noPipe = noPipe
  noConn = noConn
  Requests <- MCRequests
  Scenarios <- MCScenarios
  Console = console
  NoPipe = noPipe
  NoConn = noConn
  CallsMayFail = TRUE
SPECIFICATION FairSpec
INVARIANTS
  TypeOK
  OneRequestProcess
  AnswersReachTheirClients
  RecordsAreTrue
PROPERTIES
  HandOffCompletes
  EventIsNoticed
  LoneRecordIsWritten
\* The runner waits for clients, and the hand-off to a process can get stuck.
CHECK_DEADLOCK FALSE
