CONSTANTS
  Alphabet <- MCAlphabetSpelling
  MaxLen = 4
  MaxTokens = 5
SPECIFICATION Spec
INVARIANT
  SpellingIsFolded
