SPECIFICATION Spec

CONSTANTS
  Plain = FALSE
  MaxLength = 6
  MaxNesting = 3

INVARIANTS
  NothingEndedTwice

CHECK_DEADLOCK FALSE
