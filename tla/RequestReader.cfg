\* A buffer of four bytes and every message of up to six.
CONSTANTS
  MaxLength = 6
  Messages <- MCMessages
  BufferSize = 4
SPECIFICATION FairSpec
INVARIANTS
  TypeOK
  SelectorIsTheLine
  VerdictByLength
PROPERTIES
  LinesAreAnswered
\* A handler waits for a client that waits too.
CHECK_DEADLOCK FALSE
