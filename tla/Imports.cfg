\* Files with up to three items behind their imports.
CONSTANTS
  Main <- MCMain
  Programs <- MCPrograms
SPECIFICATION Spec
INVARIANTS
  OnlyWholeFilesAreEmitted
  UsesReachTheirDefinitions
CHECK_DEADLOCK FALSE
