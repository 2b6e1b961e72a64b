CONSTANTS
  Alphabet <- MCAlphabet
  MaxLen = 4
  MaxTokens = 5
SPECIFICATION MCSpec
INVARIANTS
  BeginningOfTokenFound
PROPERTY
  SearchReturns
