\* The root directory of the README's example.
CONSTANTS
  Site <- MCSite
  Cwd <- MCCwd
  Roots <- MCReadmeRoot
  Typed <- MCEmptySelector
  HiddenNames <- MCHidden
  ShellNames <- MCShell
  LogName = "log"
  MaxSelector = 9
  NoNode = NoNode
  NoLine = NoLine
SPECIFICATION Spec
INVARIANTS
  EveryListedEntryIsServed
