\* A site of eight directories, browsed from six roots.
CONSTANTS
  Site <- MCSite
  Cwd <- MCCwd
  Roots <- MCRoots
  Typed <- MCTyped
  HiddenNames <- MCHidden
  ShellNames <- MCShell
  LogName = "log"
  MaxSelector = 9
  NoNode = NoNode
  NoLine = NoLine
SPECIFICATION Spec
INVARIANTS
  TypeOK
  ListedEntriesAreServed
  AnnouncedTypeFits
  ListingComplete
  LogIsNotServed
