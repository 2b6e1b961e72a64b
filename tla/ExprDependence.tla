---------------------------- MODULE ExprDependence ----------------------------
(***************************************************************************)
(* The dependence rules of src/lib/AST/ComputeDependence.cpp: one operator *)
(* per computeDependence overload, in the order of the file.               *)
(*                                                                         *)
(* An ExprDependence is the set of its bits.  A TypeDependence (of a type, *)
(* a nested-name-specifier or a template argument) is a set of the bits in *)
(* TypeBits.  A child the node may lack (getLowerBound(), getSubExpr() of  *)
(* a throw, ...) is Null; a list of children is a sequence.  The facts a   *)
(* rule reads from declarations, types and the caller are booleans.       *)
(***************************************************************************)
EXTENDS FiniteSets, Naturals, Sequences

ExprBits == {"UnexpandedPack", "Instantiation", "Type", "Value", "Error"}
TypeBits == {"UnexpandedPack", "Instantiation", "Dependent", "VariablyModified", "Error"}

TV  == {"Type", "Value"}                    \* ExprDependence::TypeValue
VI  == {"Value", "Instantiation"}           \* ExprDependence::ValueInstantiation
TVI == {"Type", "Value", "Instantiation"}   \* ExprDependence::TypeValueInstantiation

CONSTANT Null   \* an absent child, type or qualifier (a model value)

\* The dependence of a child that may be absent.
DepOf(e) == IF e = Null THEN {} ELSE e

\* The union of the dependences of a list of children (absent ones skipped).
DepOfAll(s) == UNION {DepOf(s[i]) : i \in DOMAIN s}

(***************************************************************************)
(* latino/AST/DependenceFlags.h (not in the repository): a dependent type, *)
(* name or argument makes an expression type- and value-dependent; the     *)
(* other bits carry over and VariablyModified is dropped.                  *)
(***************************************************************************)
ToExprDependence(td) ==
  (td \cap {"UnexpandedPack", "Instantiation", "Error"})
    \cup (IF "Dependent" \in td THEN TV ELSE {})

TurnTypeToValueDependence(d) == d \ {"Type"}

IsDependentType(td) == "Dependent" \in td
IsInstantiationDependentType(td) == "Instantiation" \in td

(***************************************************************************)
(* The rules.                                                              *)
(***************************************************************************)
FullExprDep(sub) == sub

\* Its assert that the result holds no UnexpandedPack is a precondition
\* on the callers, which are not in the repository, and is not checked.
OpaqueValueExprDep(ty, source) == ToExprDependence(ty) \cup DepOf(source)

ParenExprDep(sub) == sub

UnaryOperatorDep(ty, sub) == ToExprDependence(ty) \cup sub

\* (mutant: the alignof early return taken when either bit is set)
UnaryExprOrTypeTraitExprDepEitherBit(isArgumentType, argType, arg, isAlignOf, hasDecl, attrs) ==
  IF isArgumentType THEN TurnTypeToValueDependence(ToExprDependence(argType))
  ELSE
    LET Deps == (arg \ TV) \cup (IF "Type" \in arg THEN {"Value"} ELSE {})
    IN  IF ~isAlignOf THEN Deps
        ELSE IF "Value" \in Deps \/ "Instantiation" \in Deps THEN Deps
        ELSE IF ~hasDecl THEN Deps
        ELSE Deps \cup (IF \E a \in attrs : a.errorDependent THEN {"Error"} ELSE {})
                  \cup (IF \E a \in attrs : a.dependent THEN VI ELSE {})

\* sizeof/alignof: never type-dependent; value-dependent if the argument is
\* type-dependent; alignof(decl) reads the decl's AlignedAttrs, given as a
\* set of [errorDependent, dependent] records, unless the result is already
\* value- and instantiation-dependent.
UnaryExprOrTypeTraitExprDep(isArgumentType, argType, arg, isAlignOf, hasDecl, attrs) ==
  IF isArgumentType THEN TurnTypeToValueDependence(ToExprDependence(argType))
  ELSE
    LET Deps == (arg \ TV) \cup (IF "Type" \in arg THEN {"Value"} ELSE {})
    IN  IF ~isAlignOf THEN Deps
        ELSE IF "Value" \in Deps /\ "Instantiation" \in Deps THEN Deps
        ELSE IF ~hasDecl THEN Deps
        ELSE Deps \cup (IF \E a \in attrs : a.errorDependent THEN {"Error"} ELSE {})
                  \cup (IF \E a \in attrs : a.dependent THEN VI ELSE {})

ArraySubscriptExprDep(lhs, rhs) == lhs \cup rhs

MatrixSubscriptExprDep(base, row, col) == base \cup row \cup DepOf(col)

CompoundLiteralExprDep(ty, init) ==
  ToExprDependence(ty) \cup TurnTypeToValueDependence(init)

\* An implicit cast does not contain the pack of its target type; the
\* subexpression contributes all but Type.
CastExprDep(ty, isImplicit, sub) ==
  LET D == IF isImplicit THEN ToExprDependence(ty) \ {"UnexpandedPack"}
                         ELSE ToExprDependence(ty)
  IN  D \cup (DepOf(sub) \ {"Type"})

BinaryOperatorDep(lhs, rhs) == lhs \cup rhs

ConditionalOperatorDep(cond, lhs, rhs) == cond \cup lhs \cup rhs

BinaryConditionalOperatorDep(common, falseExpr) == common \cup falseExpr

\* A statement expression: its type, the result expression if any, VI in a
\* dependent context; never an unexpanded pack.
StmtExprDep(ty, result, inTemplate) ==
  ((ToExprDependence(ty) \cup DepOf(result))
     \cup (IF inTemplate THEN VI ELSE {})) \ {"UnexpandedPack"}

\* __builtin_convertvector and as_type: Type only from a dependent type.
ConvertVectorExprDep(ty, src) ==
  LET D == ToExprDependence(ty) \cup src
  IN  IF ~IsDependentType(ty) THEN D \ {"Type"} ELSE D

\* (mutant: the inactive branch left out altogether)
ChooseExprDepActiveOnly(isConditionDependent, isConditionTrue, cond, lhs, rhs) ==
  IF isConditionDependent THEN TVI \cup cond \cup lhs \cup rhs
  ELSE LET Active == IF isConditionTrue THEN lhs ELSE rhs
       IN  (Active \cap TV) \cup ((cond \cup Active) \ TV)

\* __builtin_choose_expr: with a known condition, Type and Value come from
\* the active branch only, everything else from all three.
ChooseExprDep(isConditionDependent, isConditionTrue, cond, lhs, rhs) ==
  IF isConditionDependent THEN TVI \cup cond \cup lhs \cup rhs
  ELSE LET Active   == IF isConditionTrue THEN lhs ELSE rhs
           Inactive == IF isConditionTrue THEN rhs ELSE lhs
       IN  (Active \cap TV) \cup ((cond \cup Active \cup Inactive) \ TV)

ParenListExprDep(exprs) == DepOfAll(exprs)

VAArgExprDep(writtenTy, sub) ==
  (ToExprDependence(writtenTy) \cup (sub \ {"Type"})) \ {"Value"}

NoInitExprDep(ty) == ToExprDependence(ty) \cap {"Instantiation", "Error"}

ArrayInitLoopExprDep(ty, common, sub) ==
  LET D == common \cup sub \cup {"Instantiation"}
  IN  TurnTypeToValueDependence(
        IF ~IsInstantiationDependentType(ty) THEN D \ {"Instantiation"} ELSE D)

ImplicitValueInitExprDep(ty) == ToExprDependence(ty) \cap {"Instantiation"}

ExtVectorElementExprDep(base) == base

BlockExprDep(ty, isDependentContext) ==
  (ToExprDependence(ty) \cup (IF isDependentContext THEN {"Instantiation"} ELSE {}))
    \ {"UnexpandedPack"}

AsTypeExprDep(ty, src) ==
  LET D == ToExprDependence(ty) \cup src
  IN  IF ~IsDependentType(ty) THEN D \ {"Type"} ELSE D

CXXRewrittenBinaryOperatorDep(semantic) == semantic

CXXStdInitializerListExprDep(ty, sub) ==
  TurnTypeToValueDependence(sub) \cup (ToExprDependence(ty) \cap {"Type", "Error"})

\* typeid is never type-dependent.
CXXTypeidExprDep(isTypeOperand, operandTy, operand) ==
  (IF isTypeOperand THEN ToExprDependence(operandTy)
                    ELSE TurnTypeToValueDependence(DepOf(operand))) \ {"Type"}

MSPropertyRefExprDep(base) == base \ {"Type"}

MSPropertySubscriptExprDep(idx) == idx

CXXUuidofExprDep(isTypeOperand, operandTy, operand) ==
  IF isTypeOperand THEN TurnTypeToValueDependence(ToExprDependence(operandTy))
  ELSE TurnTypeToValueDependence(DepOf(operand))

\* Its assert that the result holds no UnexpandedPack is not checked, as
\* for OpaqueValueExprDep.
CXXThisExprDep(ty) == ToExprDependence(ty)

CXXThrowExprDep(op) == IF op = Null THEN {} ELSE op \ TV

CXXBindTemporaryExprDep(sub) == sub

CXXScalarValueInitExprDep(ty) == ToExprDependence(ty) \ TV

CXXDeleteExprDep(arg) == TurnTypeToValueDependence(arg)

ArrayTypeTraitExprDep(queriedTy, dim) ==
  TurnTypeToValueDependence(ToExprDependence(queriedTy) \cup DepOf(dim))

ExpressionTraitExprDep(queried) ==
  (queried \ {"Type"}) \cup (IF "Type" \in queried THEN {"Value"} ELSE {})

CXXNoexceptExprDep(operand, canThrowDependent) ==
  (operand \ TV) \cup (IF canThrowDependent THEN VI ELSE {})

PackExpansionExprDep(pattern) == (pattern \ {"UnexpandedPack"}) \cup TVI

SubstNonTypeTemplateParmExprDep(replacement) == replacement

\* co_await / co_yield: with a resume expression, Type and Value (and
\* Error) come from it and the rest from the common expression.
CoroutineSuspendExprDep(common, resume) ==
  IF resume # Null
  THEN (resume \cap (TV \cup {"Error"})) \cup (common \ TV)
  ELSE common \cup TVI

DependentCoawaitExprDep(operand) == operand \cup TVI

\* array sections: the base, the lower bound and the length.
OMPArraySectionExprDep(base, lowerBound, length) ==
  base \cup DepOf(lowerBound) \cup DepOf(length)

OMPArrayShapingExprDep(base, ty, dims) ==
  base \cup ToExprDependence(ty) \cup DepOfAll(dims)

\* Each iterator is [declTy, begin, end, step]; any of them may be Null.
OMPIteratorExprDep(ty, iterators) ==
  ToExprDependence(ty)
    \cup UNION {LET it == iterators[i] IN
                  (IF it.declTy = Null THEN {} ELSE ToExprDependence(it.declTy))
                    \cup DepOf(it.begin) \cup DepOf(it.end) \cup DepOf(it.step)
                : i \in DOMAIN iterators}

\* A name reference, by the declaration it names.  decl is one of "Var",
\* "NonTypeTemplateParm", "CXXMethod" or "Other"; convTy is the type named
\* by a conversion-function-id, or Null.  The rules are tried in order and
\* the first three may return early:
\*   the declared type is dependent; the conversion type is dependent; the
\*   declaration is a non-type template parameter.
\* For a variable, constantVar stands for "literal (C++11) or integral type,
\* const-qualified or a reference", initValueDependent for "has an
\* initializer that is value-dependent", staticMemberOfDependentContext and
\* incompleteArray for the static-data-member rule.
DeclRefExprDep(qualifier, templateArgs, isParameterPack, ty, convTy, decl, constantVar, initValueDependent, staticMemberOfDependentContext, incompleteArray, isDependentContext) ==
  LET Deps0 == (IF qualifier = Null THEN {}
                ELSE ToExprDependence(qualifier \ {"Dependent"}))
                 \cup UNION {ToExprDependence(templateArgs[i]) : i \in DOMAIN templateArgs}
                 \cup (IF isParameterPack THEN {"UnexpandedPack"} ELSE {})
                 \cup (ToExprDependence(ty) \cap {"Error"})
      Deps1 == Deps0 \cup (IF IsInstantiationDependentType(ty) THEN {"Instantiation"} ELSE {})
      Deps2 == Deps1 \cup (IF convTy # Null /\ IsInstantiationDependentType(convTy)
                           THEN {"Instantiation"} ELSE {})
      VarDeps == Deps2
                   \cup (IF constantVar /\ initValueDependent THEN VI ELSE {})
                   \cup (IF staticMemberOfDependentContext THEN VI ELSE {})
                   \cup (IF staticMemberOfDependentContext /\ incompleteArray THEN {"Type"} ELSE {})
  IN  CASE IsDependentType(ty)                  -> Deps0 \cup TVI
        [] convTy # Null /\ IsDependentType(convTy) -> Deps1 \cup TVI
        [] decl = "NonTypeTemplateParm"         -> Deps2 \cup VI
        [] decl = "Var"                         -> VarDeps
        [] decl = "CXXMethod" /\ isDependentContext -> Deps2 \cup VI
        [] OTHER                                -> Deps2

\* A recovery expression is value-, instantiation-dependent and erroneous,
\* plus its type and all its subexpressions.
RecoveryExprDep(ty, subs) ==
  ToExprDependence(ty) \cup VI \cup {"Error"} \cup DepOfAll(subs)

PredefinedExprDep(ty) == ToExprDependence(ty) \ {"UnexpandedPack"}

CallExprDep(callee, args, preArgs) == callee \cup DepOfAll(args) \cup DepOfAll(preArgs)

OffsetOfExprDep(ty, indexExprs) ==
  TurnTypeToValueDependence(ToExprDependence(ty))
    \cup UNION {TurnTypeToValueDependence(indexExprs[i]) : i \in DOMAIN indexExprs}

\* Member access: a field of the current instantiation of a dependent class
\* drops Type unless the member's type is dependent; a bit-field whose
\* width is value-dependent adds it.
MemberExprDep(base, isField, isCurrentInstantiationOfDependent, ty, isBitFieldValueDependentWidth) ==
  LET D1 == IF isField /\ isCurrentInstantiationOfDependent /\ ~IsDependentType(ty)
            THEN base \ {"Type"} ELSE base
  IN  D1 \cup (IF isField /\ isBitFieldValueDependentWidth THEN {"Type"} ELSE {})

InitListExprDep(inits) == DepOfAll(inits)

ShuffleVectorExprDep(ty, subs) == ToExprDependence(ty) \cup DepOfAll(subs)

\* (mutant: the caller's pack verdict read inverted)
GenericSelectionExprDepPackInverted(containsPack, assocs, controlling, isResultDependent, resultIndex) ==
  LET D == (IF ~containsPack THEN {"UnexpandedPack"} ELSE {})
             \cup (DepOfAll(assocs) \cap {"Error"})
             \cup (controlling \cap {"Error"})
  IN  IF isResultDependent THEN D \cup TVI
      ELSE D \cup (assocs[resultIndex] \ {"UnexpandedPack"})

\* _Generic: only Error from the association and controlling expressions;
\* the rest from the selected one (resultIndex) unless the result is
\* dependent.  containsPack is the caller's verdict on unexpanded packs.
GenericSelectionExprDep(containsPack, assocs, controlling, isResultDependent, resultIndex) ==
  LET D == (IF containsPack THEN {"UnexpandedPack"} ELSE {})
             \cup (DepOfAll(assocs) \cap {"Error"})
             \cup (controlling \cap {"Error"})
  IN  IF isResultDependent THEN D \cup TVI
      ELSE D \cup (assocs[resultIndex] \ {"UnexpandedPack"})

\* A designator is [kind, index, start, end] with kind "field", "array" or
\* "range"; a dependent array index or range makes the whole TVI.
DesignatedInitExprDep(init, designators) ==
  LET DesignatorDeps(d) ==
        CASE d.kind = "array" -> d.index
          [] d.kind = "range" -> d.start \cup d.end
          [] OTHER            -> {}
  IN  init \cup UNION {DesignatorDeps(designators[i])
                         \cup (IF DesignatorDeps(designators[i]) \cap TV # {} THEN TVI ELSE {})
                       : i \in DOMAIN designators}

PseudoObjectExprDep(syntactic, semantics) == syntactic \cup DepOfAll(semantics)

AtomicExprDep(subs) == DepOfAll(subs)

CXXNewExprDep(ty, arraySize, initializer, placementArgs) ==
  ToExprDependence(ty)
    \cup TurnTypeToValueDependence(DepOf(arraySize))
    \cup TurnTypeToValueDependence(DepOf(initializer))
    \cup UNION {TurnTypeToValueDependence(placementArgs[i]) : i \in DOMAIN placementArgs}

CXXPseudoDestructorExprDep(base, destroyedTy, scopeTy, qualifier) ==
  base \cup (IF destroyedTy = Null THEN {} ELSE ToExprDependence(destroyedTy))
       \cup (IF scopeTy = Null THEN {} ELSE TurnTypeToValueDependence(ToExprDependence(scopeTy)))
       \cup (IF qualifier = Null THEN {} ELSE ToExprDependence(qualifier \ {"Dependent"}))

\* The dependence a DeclarationNameInfo carries into an expression.
DependenceInName(nameInstantiationDependent, nameContainsPack) ==
  (IF nameInstantiationDependent THEN {"Instantiation"} ELSE {})
    \cup (IF nameContainsPack THEN {"UnexpandedPack"} ELSE {})

\* An overload set: the caller's verdicts, the name, the qualifier, every
\* declaration found (dependentDecls: how many are in a dependent context
\* or unresolved using-declarations), the explicit template arguments.
OverloadExprDep(knownDependent, knownInstantiationDependent, knownContainsPack, nameInst, namePack, qualifier, dependentDecls, templateArgs) ==
  (IF knownDependent THEN TV ELSE {})
    \cup (IF knownInstantiationDependent THEN {"Instantiation"} ELSE {})
    \cup (IF knownContainsPack THEN {"UnexpandedPack"} ELSE {})
    \cup DependenceInName(nameInst, namePack)
    \cup (IF qualifier = Null THEN {} ELSE ToExprDependence(qualifier \ {"Dependent"}))
    \cup (IF dependentDecls > 0 THEN TVI ELSE {})
    \cup UNION {ToExprDependence(templateArgs[i]) : i \in DOMAIN templateArgs}

DependentScopeDeclRefExprDep(nameInst, namePack, qualifier, templateArgs) ==
  TV \cup DependenceInName(nameInst, namePack)
     \cup (IF qualifier = Null THEN {} ELSE ToExprDependence(qualifier))
     \cup UNION {ToExprDependence(templateArgs[i]) : i \in DOMAIN templateArgs}

CXXConstructExprDep(ty, args) ==
  ToExprDependence(ty) \cup UNION {args[i] \ {"Type"} : i \in DOMAIN args}

LambdaExprDep(ty, containsPack) ==
  ToExprDependence(ty) \cup (IF containsPack THEN {"UnexpandedPack"} ELSE {})

CXXUnresolvedConstructExprDep(ty, containsDeducedType, args) ==
  VI \cup ToExprDependence(ty)
     \cup (IF containsDeducedType THEN {"Type"} ELSE {})
     \cup UNION {args[i] \cap {"UnexpandedPack", "Error"} : i \in DOMAIN args}

CXXDependentScopeMemberExprDep(isImplicitAccess, base, qualifier, nameInst, namePack, templateArgs) ==
  TVI \cup (IF isImplicitAccess THEN {} ELSE base)
      \cup (IF qualifier = Null THEN {} ELSE ToExprDependence(qualifier))
      \cup DependenceInName(nameInst, namePack)
      \cup UNION {ToExprDependence(templateArgs[i]) : i \in DOMAIN templateArgs}

MaterializeTemporaryExprDep(sub) == sub

CXXFoldExprDep(lhs, rhs) ==
  TVI \cup (DepOf(lhs) \ {"UnexpandedPack"}) \cup (DepOf(rhs) \ {"UnexpandedPack"})

TypeTraitExprDep(argTys) ==
  UNION {ToExprDependence(argTys[i]) \ {"Type"} : i \in DOMAIN argTys}

\* A concept-id: only Instantiation and UnexpandedPack of the template
\* arguments matter; the loop stops once it has both.
ConceptSpecializationExprDep(templateArgs, valueDependent) ==
  LET Interesting == {"Instantiation", "UnexpandedPack"}
      RECURSIVE Fold(_, _)
      Fold(TA, i) ==
        IF i > Len(templateArgs) THEN TA
        ELSE LET TA2 == TA \cup (templateArgs[i] \cap Interesting)
             IN  IF TA2 = Interesting THEN TA2 ELSE Fold(TA2, i + 1)
  IN  (IF valueDependent THEN {"Value"} ELSE {}) \cup ToExprDependence(Fold({}, 1))
==============================================================================
