CONSTANTS
  Alphabet <- MCAlphabetSafety
  MaxLen = 4
  MaxTokens = 5
SPECIFICATION MCSpecSafety
INVARIANTS
  TypeOK
  TokenSpansOrdered
  NeedsCleaningExact
  StartOfLineExact
  SpellingShorterThanToken
