SPECIFICATION Spec

CONSTANTS
  Names = {x, y}
  NestClosures = TRUE
  DebugInClosures = FALSE
  Shadow = FALSE
  MaxLength = 8
  MaxNesting = 3

SYMMETRY Interchangeable

INVARIANTS
  UsesMeanWhatTheySay
  EnvironmentIsComplete
  FieldsDiffer
  ReferencesAreAccepted

CHECK_DEADLOCK FALSE
