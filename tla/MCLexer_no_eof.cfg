CONSTANTS
  Alphabet <- MCAlphabetNoEOF
  MaxLen = 3
  MaxTokens = 4
SPECIFICATION MCSpecNoLineComment
PROPERTY
  EventuallyEOF
