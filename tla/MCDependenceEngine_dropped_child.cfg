CONSTANTS
  Null = Null
  Kinds <- MCKindsDroppedChild
  KidDeps <- MCKidDeps
  TyDeps <- MCTyDeps
  Features <- MCStride
SPECIFICATION Spec
CHECK_DEADLOCK FALSE
INVARIANT
  ErrorPropagates
