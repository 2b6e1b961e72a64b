CONSTANTS
  Null = Null
  Kinds <- MCKindsUnaryExprOrTypeTrait
  KidDeps <- MCKidDeps
  TyDeps <- MCTyDeps
  Features <- MCAttrError
SPECIFICATION Spec
CHECK_DEADLOCK FALSE
INVARIANT
  Monotone
