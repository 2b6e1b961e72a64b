--------------------------- MODULE DependenceEngine ---------------------------
(***************************************************************************)
(* Construction of one expression node and the dependence it caches.      *)
(*                                                                         *)
(* Every constructor of an Expr subclass ends with                         *)
(*   setDependence(computeDependence(this, ...))                           *)
(* (e.g. OMPArraySectionExpr, include/latino/AST/ExprOpenMP.h): the node's *)
(* children are already built, so their dependences are fixed, and the    *)
(* node's own dependence is computed once, from them and from facts about *)
(* its types and declarations.                                            *)
(*                                                                         *)
(* A node is a record: its kind, its children's dependences (kids, Null   *)
(* for an absent child), the dependences of the types, qualifiers and     *)
(* template arguments it reads (tys, Null when absent), and the facts the  *)
(* rule reads from declarations or the caller that hold (flags).  Which   *)
(* kids, tys and flags a kind has is its Shape.                            *)
(***************************************************************************)
EXTENDS ExprDependence, FiniteSets, Naturals, Sequences

CONSTANTS
  Kinds,      \* the node kinds constructed
  KidDeps,    \* the dependences a child may have
  TyDeps,     \* the dependences a type, qualifier or template argument may have
  Features    \* optional parts: "stride" (an array section's stride),
              \* "attrError" (an alignas whose alignment contains an error)

VARIABLES
  node,  \* the node under construction
  dep    \* its cached ExprDependence; Null until the constructor sets it

vars == <<node, dep>>

K  == KidDeps
OK == KidDeps \cup {Null}
T  == TyDeps
OT == TyDeps \cup {Null}

\* Shape(k): the domains of k's kids and tys, and the flags it may carry.
Sh(kids, tys, flags) == [kids |-> kids, tys |-> tys, flags |-> flags]

StrideKid == IF "stride" \in Features THEN OK ELSE {Null}
AttrFlags == {"alignOf", "hasDecl", "attrDependent"}
               \cup (IF "attrError" \in Features THEN {"attrError"} ELSE {})
DeclFlags == {"parameterPack", "NonTypeTemplateParm", "Var", "CXXMethod",
              "constantVar", "initValueDependent", "staticMember",
              "incompleteArray", "dependentContext"}
NameFlags == {"nameInstantiationDependent", "namePack"}

Shape(k) ==
  CASE k \in {"FullExpr", "Paren", "ExtVectorElement", "CXXRewrittenBinary",
              "MSPropertyRef", "CXXBindTemporary", "CXXDelete", "ExpressionTrait",
              "PackExpansion", "SubstNonTypeTemplateParm", "DependentCoawait",
              "MaterializeTemporary"}                  -> Sh(<<K>>, <<>>, {})
    [] k = "MSPropertySubscript"                       -> Sh(<<K, K>>, <<>>, {})
    [] k \in {"ArraySubscript", "BinaryOperator", "BinaryConditional",
              "ParenList", "InitList", "PseudoObject", "Atomic"}
                                                       -> Sh(<<K, K>>, <<>>, {})
    [] k \in {"UnaryOperator", "CompoundLiteral", "ConvertVector", "VAArg",
              "AsType", "CXXStdInitializerList", "OffsetOf"}
                                                       -> Sh(<<K>>, <<T>>, {})
    [] k \in {"NoInit", "ImplicitValueInit", "CXXThis", "CXXScalarValueInit",
              "Predefined"}                            -> Sh(<<>>, <<T>>, {})
    [] k = "OpaqueValue"            -> Sh(<<OK>>, <<T>>, {})
    [] k = "UnaryExprOrTypeTrait"   -> Sh(<<OK>>, <<OT>>, AttrFlags)
    [] k = "MatrixSubscript"        -> Sh(<<K, K, OK>>, <<>>, {})
    [] k = "Cast"                   -> Sh(<<OK>>, <<T>>, {"implicit"})
    [] k = "ConditionalOperator"    -> Sh(<<K, K, K>>, <<>>, {})
    [] k = "StmtExpr"               -> Sh(<<OK>>, <<T>>, {"inTemplate"})
    [] k = "ChooseExpr"             -> Sh(<<K, K, K>>, <<>>, {"conditionDependent", "conditionTrue"})
    [] k = "ArrayInitLoop"          -> Sh(<<K, K>>, <<T>>, {})
    [] k = "Block"                  -> Sh(<<>>, <<T>>, {"dependentContext"})
    [] k \in {"CXXTypeid", "CXXUuidof"} -> Sh(<<OK>>, <<OT>>, {})
    [] k = "CXXThrow"               -> Sh(<<OK>>, <<>>, {})
    [] k = "ArrayTypeTrait"         -> Sh(<<OK>>, <<T>>, {})
    [] k = "CXXNoexcept"            -> Sh(<<K>>, <<>>, {"canThrowDependent"})
    [] k = "CoroutineSuspend"       -> Sh(<<K, OK>>, <<>>, {})
    [] k = "OMPArraySection"        -> Sh(<<K, OK, OK, StrideKid>>, <<>>, {})
    [] k = "OMPArrayShaping"        -> Sh(<<K, OK>>, <<T>>, {})
    [] k = "OMPIterator"            -> Sh(<<OK, OK, OK>>, <<T, OT>>, {})
    [] k = "DeclRef"                -> Sh(<<>>, <<OT, OT, T, OT>>, DeclFlags)
    [] k = "Recovery"               -> Sh(<<K, K>>, <<T>>, {})
    [] k = "Call"                   -> Sh(<<K, OK, K>>, <<>>, {})
    [] k = "Member"                 -> Sh(<<K>>, <<T>>, {"field", "currentInstantiation", "bitFieldValueDependentWidth"})
    [] k = "ShuffleVector"          -> Sh(<<K, K>>, <<T>>, {})
    [] k = "GenericSelection"       -> Sh(<<K, K, K>>, <<>>, {"containsPack", "resultDependent"})
    [] k = "DesignatedInit"         -> Sh(<<K, OK, OK>>, <<>>, {"array", "range"})
    [] k = "CXXNew"                 -> Sh(<<OK, OK, K>>, <<T>>, {})
    [] k = "CXXPseudoDestructor"    -> Sh(<<K>>, <<OT, OT, OT>>, {})
    [] k = "Overload"               -> Sh(<<>>, <<OT, OT>>, {"knownDependent", "knownInstantiationDependent", "containsPack", "dependentDecl"} \cup NameFlags)
    [] k = "DependentScopeDeclRef"  -> Sh(<<>>, <<OT, OT>>, NameFlags)
    [] k = "CXXConstruct"           -> Sh(<<K, K>>, <<T>>, {})
    [] k = "Lambda"                 -> Sh(<<>>, <<T>>, {"containsPack"})
    [] k = "CXXUnresolvedConstruct" -> Sh(<<K, K>>, <<T>>, {"deducedType"})
    [] k = "CXXDependentScopeMember" -> Sh(<<OK>>, <<OT, OT>>, NameFlags)
    [] k = "CXXFold"                -> Sh(<<OK, OK>>, <<>>, {})
    [] k = "TypeTrait"              -> Sh(<<>>, <<T, T>>, {})
    [] k = "ConceptSpecialization"  -> Sh(<<>>, <<T, T>>, {"valueDependent"})

AllKinds ==
  {"FullExpr", "OpaqueValue", "Paren", "UnaryOperator", "UnaryExprOrTypeTrait",
   "ArraySubscript", "MatrixSubscript", "CompoundLiteral", "Cast",
   "BinaryOperator", "ConditionalOperator", "BinaryConditional", "StmtExpr",
   "ConvertVector", "ChooseExpr", "ParenList", "VAArg", "NoInit",
   "ArrayInitLoop", "ImplicitValueInit", "ExtVectorElement", "Block", "AsType",
   "CXXRewrittenBinary", "CXXStdInitializerList", "CXXTypeid", "MSPropertyRef",
   "MSPropertySubscript", "CXXUuidof", "CXXThis", "CXXThrow", "CXXBindTemporary",
   "CXXScalarValueInit", "CXXDelete", "ArrayTypeTrait", "ExpressionTrait",
   "CXXNoexcept", "PackExpansion", "SubstNonTypeTemplateParm",
   "CoroutineSuspend", "DependentCoawait", "OMPArraySection", "OMPArrayShaping",
   "OMPIterator", "DeclRef", "Recovery", "Predefined", "Call", "OffsetOf",
   "Member", "InitList", "ShuffleVector", "GenericSelection", "DesignatedInit",
   "PseudoObject", "Atomic", "CXXNew", "CXXPseudoDestructor", "Overload",
   "DependentScopeDeclRef", "CXXConstruct", "Lambda", "CXXUnresolvedConstruct",
   "CXXDependentScopeMember", "MaterializeTemporary", "CXXFold", "TypeTrait",
   "ConceptSpecialization"}

\* The tuples whose i-th element is in doms[i].
Tuples(doms) ==
  {f \in [DOMAIN doms -> UNION {doms[i] : i \in DOMAIN doms}] :
     \A i \in DOMAIN doms : f[i] \in doms[i]}

\* The combinations the AST can hold: a sizeof/typeid/uuidof has an
\* expression operand or a type operand; a designator is a field, an array
\* index or a range and has as many index expressions; a name refers to one
\* kind of declaration and the variable facts belong to variables.
WellFormed(n) ==
  LET f == n.flags IN
  /\ n.kind \in {"UnaryExprOrTypeTrait", "CXXTypeid", "CXXUuidof"} =>
        (n.kids[1] = Null) # (n.tys[1] = Null)
  /\ n.kind = "UnaryExprOrTypeTrait" =>
        /\ (f \cap {"hasDecl", "attrError", "attrDependent"} # {} => "alignOf" \in f)
        /\ (f \cap {"attrError", "attrDependent"} # {} => "hasDecl" \in f)
  /\ n.kind = "DesignatedInit" =>
        /\ Cardinality(f) <= 1
        /\ (n.kids[2] # Null) = (f # {})
        /\ (n.kids[3] # Null) = ("range" \in f)
  /\ n.kind = "ChooseExpr" => ("conditionDependent" \in f => "conditionTrue" \notin f)
  /\ n.kind = "DeclRef" =>
        /\ Cardinality(f \cap {"NonTypeTemplateParm", "Var", "CXXMethod"}) <= 1
        /\ (f \cap {"constantVar", "initValueDependent", "staticMember", "incompleteArray"} # {}
              => "Var" \in f)
        /\ ("incompleteArray" \in f => "staticMember" \in f)
        /\ ("initValueDependent" \in f => "constantVar" \in f)
        /\ ("dependentContext" \in f => "CXXMethod" \in f)
  /\ n.kind = "Member" =>
        (f \cap {"currentInstantiation", "bitFieldValueDependentWidth"} # {} => "field" \in f)

Nodes ==
  {n \in UNION {[kind : {k}, kids : Tuples(Shape(k).kids), tys : Tuples(Shape(k).tys),
                 flags : SUBSET Shape(k).flags] : k \in Kinds} : WellFormed(n)}

(***************************************************************************)
(* The computeDependence overload each kind's constructor calls, with the *)
(* node's parts in the places the overload reads them.                     *)
(***************************************************************************)
OptSeq(t) == IF t = Null THEN <<>> ELSE <<t>>

ComputeDependence(n) ==
  LET k == n.kind  a == n.kids  t == n.tys  f == n.flags
      Has(x) == x \in f
      Attrs == IF f \cap {"attrError", "attrDependent"} = {} THEN {}
               ELSE {[errorDependent |-> Has("attrError"), dependent |-> Has("attrDependent")]}
      Decl == CASE Has("NonTypeTemplateParm") -> "NonTypeTemplateParm"
                [] Has("Var")                 -> "Var"
                [] Has("CXXMethod")           -> "CXXMethod"
                [] OTHER                      -> "Other"
      Designator == [kind |-> CASE Has("array") -> "array" [] Has("range") -> "range"
                                [] OTHER -> "field",
                     index |-> a[2], start |-> a[2], end |-> a[3]]
  IN
  CASE k = "FullExpr"             -> FullExprDep(a[1])
    [] k = "OpaqueValue"          -> OpaqueValueExprDep(t[1], a[1])
    [] k = "Paren"                -> ParenExprDep(a[1])
    [] k = "UnaryOperator"        -> UnaryOperatorDep(t[1], a[1])
    [] k = "UnaryExprOrTypeTrait" -> UnaryExprOrTypeTraitExprDep(a[1] = Null, t[1], a[1],
                                       Has("alignOf"), Has("hasDecl"), Attrs)
    [] k = "ArraySubscript"       -> ArraySubscriptExprDep(a[1], a[2])
    [] k = "MatrixSubscript"      -> MatrixSubscriptExprDep(a[1], a[2], a[3])
    [] k = "CompoundLiteral"      -> CompoundLiteralExprDep(t[1], a[1])
    [] k = "Cast"                 -> CastExprDep(t[1], Has("implicit"), a[1])
    [] k = "BinaryOperator"       -> BinaryOperatorDep(a[1], a[2])
    [] k = "ConditionalOperator"  -> ConditionalOperatorDep(a[1], a[2], a[3])
    [] k = "BinaryConditional"    -> BinaryConditionalOperatorDep(a[1], a[2])
    [] k = "StmtExpr"             -> StmtExprDep(t[1], a[1], Has("inTemplate"))
    [] k = "ConvertVector"        -> ConvertVectorExprDep(t[1], a[1])
    [] k = "ChooseExpr"           -> ChooseExprDep(Has("conditionDependent"), Has("conditionTrue"),
                                                   a[1], a[2], a[3])
    [] k = "ParenList"            -> ParenListExprDep(a)
    [] k = "VAArg"                -> VAArgExprDep(t[1], a[1])
    [] k = "NoInit"               -> NoInitExprDep(t[1])
    [] k = "ArrayInitLoop"        -> ArrayInitLoopExprDep(t[1], a[1], a[2])
    [] k = "ImplicitValueInit"    -> ImplicitValueInitExprDep(t[1])
    [] k = "ExtVectorElement"     -> ExtVectorElementExprDep(a[1])
    [] k = "Block"                -> BlockExprDep(t[1], Has("dependentContext"))
    [] k = "AsType"               -> AsTypeExprDep(t[1], a[1])
    [] k = "CXXRewrittenBinary"   -> CXXRewrittenBinaryOperatorDep(a[1])
    [] k = "CXXStdInitializerList" -> CXXStdInitializerListExprDep(t[1], a[1])
    [] k = "CXXTypeid"            -> CXXTypeidExprDep(a[1] = Null, t[1], a[1])
    [] k = "MSPropertyRef"        -> MSPropertyRefExprDep(a[1])
    [] k = "MSPropertySubscript"  -> MSPropertySubscriptExprDep(a[2])
    [] k = "CXXUuidof"            -> CXXUuidofExprDep(a[1] = Null, t[1], a[1])
    [] k = "CXXThis"              -> CXXThisExprDep(t[1])
    [] k = "CXXThrow"             -> CXXThrowExprDep(a[1])
    [] k = "CXXBindTemporary"     -> CXXBindTemporaryExprDep(a[1])
    [] k = "CXXScalarValueInit"   -> CXXScalarValueInitExprDep(t[1])
    [] k = "CXXDelete"            -> CXXDeleteExprDep(a[1])
    [] k = "ArrayTypeTrait"       -> ArrayTypeTraitExprDep(t[1], a[1])
    [] k = "ExpressionTrait"      -> ExpressionTraitExprDep(a[1])
    [] k = "CXXNoexcept"          -> CXXNoexceptExprDep(a[1], Has("canThrowDependent"))
    [] k = "PackExpansion"        -> PackExpansionExprDep(a[1])
    [] k = "SubstNonTypeTemplateParm" -> SubstNonTypeTemplateParmExprDep(a[1])
    [] k = "CoroutineSuspend"     -> CoroutineSuspendExprDep(a[1], a[2])
    [] k = "DependentCoawait"     -> DependentCoawaitExprDep(a[1])
    [] k = "OMPArraySection"      -> OMPArraySectionExprDep(a[1], a[2], a[3])
    [] k = "OMPArrayShaping"      -> OMPArrayShapingExprDep(a[1], t[1], <<a[2]>>)
    [] k = "OMPIterator"          -> OMPIteratorExprDep(t[1],
                                       <<[declTy |-> t[2], begin |-> a[1], end |-> a[2], step |-> a[3]]>>)
    [] k = "DeclRef"              -> DeclRefExprDep(t[1], OptSeq(t[2]), Has("parameterPack"), t[3], t[4],
                                       Decl, Has("constantVar"), Has("initValueDependent"),
                                       Has("staticMember"), Has("incompleteArray"),
                                       Has("dependentContext"))
    [] k = "Recovery"             -> RecoveryExprDep(t[1], a)
    [] k = "Predefined"           -> PredefinedExprDep(t[1])
    [] k = "Call"                 -> CallExprDep(a[1], <<a[2]>>, <<a[3]>>)
    [] k = "OffsetOf"             -> OffsetOfExprDep(t[1], a)
    [] k = "Member"               -> MemberExprDep(a[1], Has("field"), Has("currentInstantiation"), t[1],
                                       Has("bitFieldValueDependentWidth"))
    [] k = "InitList"             -> InitListExprDep(a)
    [] k = "ShuffleVector"        -> ShuffleVectorExprDep(t[1], a)
    [] k = "GenericSelection"     -> GenericSelectionExprDep(Has("containsPack"), <<a[1], a[2]>>, a[3],
                                       Has("resultDependent"), 1)
    [] k = "DesignatedInit"       -> DesignatedInitExprDep(a[1], <<Designator>>)
    [] k = "PseudoObject"         -> PseudoObjectExprDep(a[1], <<a[2]>>)
    [] k = "Atomic"               -> AtomicExprDep(a)
    [] k = "CXXNew"               -> CXXNewExprDep(t[1], a[1], a[2], <<a[3]>>)
    [] k = "CXXPseudoDestructor"  -> CXXPseudoDestructorExprDep(a[1], t[1], t[2], t[3])
    [] k = "Overload"             -> OverloadExprDep(Has("knownDependent"), Has("knownInstantiationDependent"),
                                       Has("containsPack"), Has("nameInstantiationDependent"),
                                       Has("namePack"), t[1], IF Has("dependentDecl") THEN 1 ELSE 0,
                                       OptSeq(t[2]))
    [] k = "DependentScopeDeclRef" -> DependentScopeDeclRefExprDep(Has("nameInstantiationDependent"),
                                       Has("namePack"), t[1], OptSeq(t[2]))
    [] k = "CXXConstruct"         -> CXXConstructExprDep(t[1], a)
    [] k = "Lambda"               -> LambdaExprDep(t[1], Has("containsPack"))
    [] k = "CXXUnresolvedConstruct" -> CXXUnresolvedConstructExprDep(t[1], Has("deducedType"), a)
    [] k = "CXXDependentScopeMember" -> CXXDependentScopeMemberExprDep(a[1] = Null, a[1], t[1],
                                       Has("nameInstantiationDependent"), Has("namePack"), OptSeq(t[2]))
    [] k = "MaterializeTemporary" -> MaterializeTemporaryExprDep(a[1])
    [] k = "CXXFold"              -> CXXFoldExprDep(a[1], a[2])
    [] k = "TypeTrait"            -> TypeTraitExprDep(t)
    [] k = "ConceptSpecialization" -> ConceptSpecializationExprDep(t, Has("valueDependent"))

(***************************************************************************)
(* The state machine: the children exist, then the constructor caches the *)
(* node's dependence.                                                      *)
(***************************************************************************)
Init ==
  /\ node \in Nodes
  /\ dep = Null

\* setDependence(computeDependence(this)) at the end of the constructor.
Construct ==
  /\ dep = Null
  /\ dep' = ComputeDependence(node)
  /\ UNCHANGED node

Next == Construct

Spec == Init /\ [][Next]_vars

(***************************************************************************)
(* Properties.                                                             *)
(***************************************************************************)

\* Where an Error or an UnexpandedPack bit may come from: a child, a type,
\* qualifier or template argument, a pack the caller or the declaration
\* reports, or an aligned attribute whose alignment contains an error.
Origins(n) ==
  DepOfAll(n.kids)
    \cup UNION {ToExprDependence(DepOf(n.tys[i])) : i \in DOMAIN n.tys}
    \cup (IF n.flags \cap {"containsPack", "parameterPack", "namePack"} # {}
          THEN {"UnexpandedPack"} ELSE {})
    \cup (IF "attrError" \in n.flags THEN {"Error"} ELSE {})

\* The node with one more bit in one of its children or types.
Larger(n) ==
  {[n EXCEPT !.kids[i] = @ \cup {b}] : i \in {j \in DOMAIN n.kids : n.kids[j] # Null}, b \in ExprBits}
    \cup {[n EXCEPT !.tys[i] = @ \cup {b}] : i \in {j \in DOMAIN n.tys : n.tys[j] # Null}, b \in TypeBits}

\* spec.md 2.4/4.2: an error in any child is never lost: every
\* computeDependence overload carries a child's Error bit to the node.
ErrorPropagates ==
  dep # Null =>
    ((\E i \in DOMAIN node.kids : "Error" \in DepOf(node.kids[i])) => "Error" \in dep)

\* spec.md 5 ("no rule may invent a dependence bit"): the overloads set
\* Error and UnexpandedPack only when a child, a type, the caller or the
\* declaration has it; a RecoveryExpr is the one node that is an error by
\* itself.
NoInventedBits ==
  dep # Null =>
    \A b \in {"Error", "UnexpandedPack"} \cap dep :
      b \in Origins(node) \/ (b = "Error" /\ node.kind = "Recovery")

\* spec.md 3 (ExprDependence): the dependence of a node is a monotone
\* function of its children's dependences and its types' dependences: a
\* child or type that is more dependent never makes the node less so.
Monotone ==
  dep # Null => \A m \in Larger(node) : dep \subseteq ComputeDependence(m)
====
