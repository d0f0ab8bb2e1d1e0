SPECIFICATION Spec

CONSTANTS
  MaxNesting = 3

INVARIANTS
  ReadingsAgree
  BodiesAreWhole

CHECK_DEADLOCK FALSE
