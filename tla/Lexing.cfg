\* Texts of up to five lines, and of up to four characters.
CONSTANTS
  Platform = "linux"
  LineTexts <- MCLineTexts
  MaxLines = 5
  Alphabet <- MCAlphabet
  MaxLength = 4
SPECIFICATION Spec
INVARIANTS
  BranchesAreHonoured
  TokensCoverTheText
  OperatorsAreLongest
  Relexed
  LexesToTheEnd
CHECK_DEADLOCK FALSE
