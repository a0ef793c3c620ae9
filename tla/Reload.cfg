\* Good and bad configuration files, two options on the command line, and
\* SIGHUPs at any time.
CONSTANTS
  h1 = h1
  h2 = h2
  Handlers <- MCHandlers
  Files <- MCFiles
  CommandLine <- MCPortAndMode
  Daemon = TRUE
  ListingLines = 2
  MaxVersion = 2
  MaxHangups = 2
SPECIFICATION FairSpec
INVARIANTS
  TypeOK
  WholeConfigurations
  ListensOnPort
  LinesFromSnapshot
PROPERTIES
  IdleReloadTakesEffect
\* A server that is dead, or waits for clients and signals, stops.
CHECK_DEADLOCK FALSE
