SPECIFICATION Spec

CONSTANTS
  Plain = TRUE
  MaxLength = 8
  MaxNesting = 3

INVARIANTS
  Balanced
  AbortsNameTheirTransaction
  NamesDiffer

CHECK_DEADLOCK FALSE
