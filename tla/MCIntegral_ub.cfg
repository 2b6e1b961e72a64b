CONSTANTS
  Null = Null
  IntBits <- MCIntBits
  Int64Bits <- MCInt64Bits
  Types <- MCTypes
  APBits <- MCAPBits
SPECIFICATION MCSpecTruncateMul
CHECK_DEADLOCK FALSE
INVARIANT
  NoUndefinedBehaviour
