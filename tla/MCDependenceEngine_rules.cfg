CONSTANTS
  Null = Null
  Kinds <- MCKindsAllButMSPropertySubscript
  KidDeps <- MCKidDeps
  TyDeps <- MCTyDeps
  Features <- MCNoFeatures
SPECIFICATION Spec
CHECK_DEADLOCK FALSE
INVARIANTS
  ErrorPropagates
  NoInventedBits
  Monotone
