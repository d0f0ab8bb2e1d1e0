SPECIFICATION Spec

CONSTANTS
  Written <- MCWritten
  Edited <- MCEdited
  Alphabet = {"*", "!", "?", "[", "4", "]", "(", ")", "{", "}", "->", ",", ":",
              "Int", "Char", "ascii", "y", "vararg", "@const", "@access"}
  MaxTokens = 4

INVARIANTS
  WrittenTypesAreRead
  ReadingsEndTogether
  DeclarationsKeepTheirMeaning
  TupleNamesDiffer

CHECK_DEADLOCK FALSE
