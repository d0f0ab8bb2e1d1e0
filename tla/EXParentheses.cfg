\* One operator, and operators in parentheses.
CONSTANTS
  Written <- MCFewWritten
  Alphabet <- MCAlphabet
  MaxTokens = 2
SPECIFICATION Spec
INVARIANT ParenthesesAreKept
CHECK_DEADLOCK FALSE
