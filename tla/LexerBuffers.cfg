SPECIFICATION FairSpec

CONSTANTS
  Types <- MCTypes
  MaxLength = 3
  MaxDistance = 3
  MaxPosition = 9

INVARIANTS
  GatheredIsVerbatim

PROPERTIES
  Implements
  ParserSeesNoSpaces
  SpansEnd

CHECK_DEADLOCK FALSE
