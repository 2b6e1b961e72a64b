CONSTANTS
  Null = Null
  IntBits <- MCIntBits
  Int64Bits <- MCInt64Bits
  Types <- MCTypes
  APBits <- MCAPBits
SPECIFICATION Spec
CHECK_DEADLOCK FALSE
INVARIANTS
  ArithmeticExact
  TruncateExact
  InRangeExact
  ConversionsExact
