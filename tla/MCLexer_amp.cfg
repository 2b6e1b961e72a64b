CONSTANTS
  Alphabet <- MCAlphabetAmp
  MaxLen = 2
  MaxTokens = 3
SPECIFICATION Spec
INVARIANT
  EOFOnceAndLast
