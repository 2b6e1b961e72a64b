CONSTANTS
  Alphabet <- MCAlphabetUnicode
  MaxLen = 2
  MaxTokens = 3
SPECIFICATION Spec
INVARIANT
  NonASCIIInTokens
