CONSTANTS
  Alphabet <- MCAlphabet
  Kinds <- MCKinds
  MaxLength = 5
  MaxTokens = 12
SPECIFICATION Spec
INVARIANTS
  LongestWords
  ParsesTheLanguage
CHECK_DEADLOCK FALSE
