CONSTANTS
  Alphabet <- MCAlphabetRelex
  MaxLen = 6
  MaxTokens = 7
SPECIFICATION Spec
INVARIANT
  RelexStartsBeforeToken
