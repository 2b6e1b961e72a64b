------------------------- MODULE MCDependenceEngine -------------------------
(***************************************************************************)
(* Bounds for DependenceEngine.  A child's dependence is one of four       *)
(* classes: none, erroneous, type-dependent (hence value- and             *)
(* instantiation-dependent), and containing an unexpanded pack.  A type   *)
(* is non-dependent, instantiation-dependent only, dependent, dependent    *)
(* and containing a pack, or erroneous.                                    *)
(***************************************************************************)
EXTENDS DependenceEngine

MCKidDeps ==
  {{}, {"Error"}, {"Type", "Value", "Instantiation"}, {"UnexpandedPack", "Instantiation"}}

MCTyDeps ==
  {{}, {"Instantiation"}, {"Dependent", "Instantiation"},
   {"UnexpandedPack", "Dependent", "Instantiation"}, {"Error"}}

\* Every kind except MSPropertySubscript, whose base is checked on its own.
MCKindsAllButMSPropertySubscript == AllKinds \ {"MSPropertySubscript"}

\* The two kinds whose computeDependence leaves a child out.
MCKindsDroppedChild == {"MSPropertySubscript", "OMPArraySection"}
MCKindsUnaryExprOrTypeTrait == {"UnaryExprOrTypeTrait"}

MCNoFeatures == {}
MCStride == {"stride"}
MCAttrError == {"attrError"}
====
