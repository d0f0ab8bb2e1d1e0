\* Chains of up to three operators, and all texts of up to four tokens.
CONSTANTS
  Written <- MCWritten
  Alphabet <- MCAlphabet
  MaxTokens = 4
SPECIFICATION Spec
INVARIANTS
  GroupedAsTheTablesSay
  CGroupsAlike
  OperandsAreKept
  PrintedIsC
CHECK_DEADLOCK FALSE
