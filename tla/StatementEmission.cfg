SPECIFICATION Spec

CONSTANTS
  MaxFunctions = 2
  MaxStatements = 2
  MaxClosures = 2

INVARIANTS
  BlocksMatch
  EnvironmentsAreFresh
  DefinedOnce
  DefinedBeforeUse

\* The compiler stops at the end of the program.
CHECK_DEADLOCK FALSE
