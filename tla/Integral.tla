------------------------------- MODULE Integral -------------------------------
(***************************************************************************)
(* interp::Integral<Bits, Signed> (src/lib/AST/Interp/Integral.h): a       *)
(* value V of the C++ type T = Repr<Bits, Signed>::Type and the operations *)
(* the constant interpreter applies to it.                                 *)
(*                                                                         *)
(* A type is a record [bits, signed].  Widths are parameters, so that a    *)
(* model keeps the relations the code depends on (narrower than int, as    *)
(* wide as int, wider than unsigned) at widths TLC can enumerate.  C++     *)
(* arithmetic is modelled as the compiler does it: operands narrower than  *)
(* int are promoted to int, the exact result is reduced to the operation's *)
(* type, a signed result that does not fit is undefined behaviour (ub),    *)
(* and a conversion to an integer type is modular (two's complement).      *)
(*                                                                         *)
(* One step applies one operation to V and records its outcome in out:     *)
(* the operation, its argument, the result r, the overflow flag the        *)
(* operation returns and whether its evaluation had undefined behaviour.   *)
(***************************************************************************)
EXTENDS Integers, Bitwise

CONSTANTS
  IntBits,    \* width of int and unsigned
  Int64Bits,  \* width of int64_t and uint64_t
  Types,      \* the instances Integral<Bits, Signed>, as [bits, signed]
  APBits,     \* widths NumBits passed to toAPSInt
  Null

VARIABLES
  ty,   \* the instance's <Bits, Signed>
  V,    \* its value
  out   \* outcome of the operation applied, Null before

vars == <<ty, V, out>>

Ty(b, s) == [bits |-> b, signed |-> s]
IntT == Ty(IntBits, TRUE)
UnsignedT == Ty(IntBits, FALSE)
UInt64T == Ty(Int64Bits, FALSE)
Int64T == Ty(Int64Bits, TRUE)

\* std::numeric_limits<T>::min() and max().
Min(t) == IF t.signed THEN -(2 ^ (t.bits - 1)) ELSE 0
Max(t) == IF t.signed THEN 2 ^ (t.bits - 1) - 1 ELSE 2 ^ t.bits - 1
Vals(t) == Min(t) .. Max(t)

\* Conversion of an integer to type t: the value congruent to x modulo 2^bits.
Conv(x, t) ==
  LET m == 2 ^ t.bits IN IF x % m > Max(t) THEN (x % m) - m ELSE x % m

\* Integral promotion: a type narrower than int computes in int.
Promote(t) == IF t.bits < IntBits THEN IntT ELSE t

\* The bitwise operators on two's complement values of type t.
BitAnd(x, y, t) == Conv(Conv(x, Ty(t.bits, FALSE)) & Conv(y, Ty(t.bits, FALSE)), t)
BitOr(x, y, t) == Conv(Conv(x, Ty(t.bits, FALSE)) | Conv(y, Ty(t.bits, FALSE)), t)

\* An outcome: result, returned overflow flag, undefined behaviour.
Outcome(r, ovf, ub) == [r |-> r, ovf |-> ovf, ub |-> ub]

\* x computed by a built-in operator on operands of type t and stored in a T:
\* undefined when the promoted type is signed and x does not fit in it.
Unchecked(x, t) ==
  Outcome(Conv(x, t), FALSE, Promote(t).signed /\ x \notin Vals(Promote(t)))

\* llvm::AddOverflow, SubOverflow, MulOverflow on a signed T: the truncated
\* result and whether the exact one does not fit.
Overflow(x, t) == Outcome(Conv(x, t), x \notin Vals(t), FALSE)

CheckAddUB(A, B, t) == IF t.signed THEN Overflow(A + B, t) ELSE Unchecked(A + B, t)

\* Mutant: the unsigned subtraction with its operands swapped.
CheckSubUBSwapped(A, B, t) == IF t.signed THEN Overflow(A - B, t) ELSE Unchecked(B - A, t)

CheckSubUB(A, B, t) == IF t.signed THEN Overflow(A - B, t) ELSE Unchecked(A - B, t)

CheckMulUB(A, B, t) == IF t.signed THEN Overflow(A * B, t) ELSE Unchecked(A * B, t)

\* Integral(-V) and Integral(~V): the operator applies to the promoted V.
Negate(A, t) == Unchecked(-A, t)
Complement(A, t) == Unchecked(-A - 1, t)

\* Mutant: truncate sign-extending whatever the signedness.
TruncateAlwaysExtends(A, TruncBits, t) ==
  IF TruncBits >= t.bits THEN {Outcome(A, FALSE, FALSE)}
  ELSE LET P == Promote(t)
           Shifted == Conv(2 ^ TruncBits, P)
           MaskUB == P.signed /\ Shifted - 1 \notin Vals(P)
           BitMask == Conv(Shifted - 1, t)
           Amount == (TruncBits - 1) % (2 ^ IntBits)
           SignBits == IF Amount < P.bits THEN {Conv(2 ^ Amount, t)}
                       ELSE {Conv(x, t) : x \in Vals(P)}
           ExtMask == Conv(-BitMask - 1, t)
       IN {Outcome(BitOr(BitAnd(A, BitMask, t),
                         IF BitAnd(A, SignBit, t) # 0 THEN ExtMask ELSE 0, t),
                   FALSE, MaskUB \/ Amount >= P.bits) : SignBit \in SignBits}

(***************************************************************************)
(* truncate(TruncBits).  T(1) << T(TruncBits) is computed in the promoted  *)
(* type; when that is signed and TruncBits = Bits - 1 it yields Min, and    *)
(* Min - 1 overflows.  TruncBits - 1 is unsigned: for TruncBits = 0 it is   *)
(* 2^IntBits - 1, a shift by more than the width, whose result the build    *)
(* leaves open: any value of the promoted type.                            *)
(***************************************************************************)
Truncate(A, TruncBits, t) ==
  IF TruncBits >= t.bits THEN {Outcome(A, FALSE, FALSE)}
  ELSE LET P == Promote(t)
           Shifted == Conv(2 ^ TruncBits, P)
           MaskUB == P.signed /\ Shifted - 1 \notin Vals(P)
           BitMask == Conv(Shifted - 1, t)
           Amount == (TruncBits - 1) % (2 ^ IntBits)
           SignBits == IF Amount < P.bits THEN {Conv(2 ^ Amount, t)}
                       ELSE {Conv(x, t) : x \in Vals(P)}
           ExtMask == Conv(-BitMask - 1, t)
       IN {Outcome(BitOr(BitAnd(A, BitMask, t),
                         IF t.signed /\ BitAnd(A, SignBit, t) # 0 THEN ExtMask ELSE 0, t),
                   FALSE, MaskUB \/ Amount >= P.bits) : SignBit \in SignBits}

\* operator>(unsigned RHS): V >= 0 && static_cast<unsigned>(V) > RHS.
GreaterUnsigned(A, RHS) == A >= 0 /\ Conv(A, UnsignedT) > RHS

\* Mutant: the unsigned range check without V >= 0.
CheckRangeNoSign(x, t) ==
  IF t.signed THEN Min(t) <= x /\ x <= Max(t) ELSE Conv(x, UInt64T) <= Max(t)

\* inRange(int64_t Value): CheckRange<T, Min, Max>.
CheckRange(x, t) ==
  IF t.signed THEN Min(t) <= x /\ x <= Max(t) ELSE x >= 0 /\ Conv(x, UInt64T) <= Max(t)

(***************************************************************************)
(* APSInt: a bit pattern pat of width bits and its signedness; its value   *)
(* is pat read as signed or unsigned.                                      *)
(***************************************************************************)
APSInt(pat, bits, isUnsigned) == [pat |-> pat, bits |-> bits, isUnsigned |-> isUnsigned]
APSValue(s) == Conv(s.pat, Ty(s.bits, ~s.isUnsigned))

\* toAPSInt(): APInt(Bits, static_cast<uint64_t>(V), Signed), unsigned iff !Signed.
ToAPSInt(A, t) == APSInt(Conv(Conv(A, UInt64T), Ty(t.bits, FALSE)), t.bits, ~t.signed)

\* Mutant: toAPSInt(NumBits) with the two extensions swapped.
ToAPSIntNSwapped(A, NumBits, t) ==
  LET s == ToAPSInt(A, t)
      sext == Conv(Conv(s.pat, Ty(t.bits, TRUE)), Ty(NumBits, FALSE))
      zext == Conv(s.pat, Ty(NumBits, FALSE))
  IN APSInt(IF t.signed THEN zext ELSE sext, NumBits, ~t.signed)

\* toAPSInt(NumBits): sextOrTrunc when Signed, zextOrTrunc otherwise.
ToAPSIntN(A, NumBits, t) ==
  LET s == ToAPSInt(A, t)
      sext == Conv(Conv(s.pat, Ty(t.bits, TRUE)), Ty(NumBits, FALSE))
      zext == Conv(s.pat, Ty(NumBits, FALSE))
  IN APSInt(IF t.signed THEN sext ELSE zext, NumBits, ~t.signed)

\* Integral(const APSInt &V): getSExtValue() if signed, else getZExtValue().
FromAPSInt(s, t) ==
  Conv(IF s.isUnsigned THEN s.pat ELSE Conv(s.pat, Ty(s.bits, TRUE)), t)

(***************************************************************************)
(* Operands.  Every value of a type as wide as int or narrower; for wider  *)
(* types, and for int64_t arguments, the values at the edges of every type *)
(* in play: each type's Min and Max and their neighbours, -1, 0 and 1.     *)
(***************************************************************************)
Samples ==
  (UNION {{Min(t) - 1, Min(t), Min(t) + 1, Max(t) - 1, Max(t), Max(t) + 1} :
            t \in Types \cup {IntT, UnsignedT}} \cup {-1, 0, 1}) \cap Vals(Int64T)

Operands(t) == IF t.bits <= IntBits THEN Vals(t) ELSE Samples \cap Vals(t)

APSInts ==
  {APSInt(Conv(x, Ty(n, FALSE)), n, u) : n \in APBits, u \in BOOLEAN, x \in Samples}

-----------------------------------------------------------------------------

Init == ty \in Types /\ V \in Vals(ty) /\ out = Null

\* One operation applied to V: its outcome is recorded, V and ty unchanged.
Apply(op, arg, o) ==
  /\ out' = [op |-> op, arg |-> arg, r |-> o.r, ovf |-> o.ovf, ub |-> o.ub]
  /\ UNCHANGED <<ty, V>>

\* add, sub, mul(A, B, OpBits, R): R->V and the flag CheckAddUB etc. return.
Add == out = Null /\ \E B \in Operands(ty) : Apply("add", B, CheckAddUB(V, B, ty))
Sub == out = Null /\ \E B \in Operands(ty) : Apply("sub", B, CheckSubUB(V, B, ty))
Mul == out = Null /\ \E B \in Operands(ty) : Apply("mul", B, CheckMulUB(V, B, ty))

\* increment and decrement: add and sub with Integral(T(1)).
Increment == out = Null /\ Apply("increment", 1, CheckAddUB(V, 1, ty))
Decrement == out = Null /\ Apply("decrement", 1, CheckSubUB(V, 1, ty))

NegateOp == out = Null /\ Apply("negate", Null, Negate(V, ty))
ComplementOp == out = Null /\ Apply("complement", Null, Complement(V, ty))

TruncateOp ==
  /\ out = Null
  /\ \E TruncBits \in 0 .. ty.bits : \E o \in Truncate(V, TruncBits, ty) :
       Apply("truncate", TruncBits, o)

\* operator Integral<DstBits, DstSign>(), from(Integral<SrcBits, SrcSign>)
\* and toUnsigned(): the constructor Integral(T V) : V(V) into the other type.
Convert ==
  out = Null /\ \E d \in Types : Apply("convert", d, Outcome(Conv(V, d), FALSE, FALSE))

ToAPSIntOp ==
  /\ out = Null
  /\ \E n \in APBits :
       Apply("toAPSInt", n, Outcome(APSValue(ToAPSIntN(V, n, ty)), FALSE, FALSE))

\* The constructor Integral(const APSInt &) of the instance's type.
FromAPSIntOp ==
  /\ out = Null
  /\ \E s \in APSInts : Apply("fromAPSInt", s, Outcome(FromAPSInt(s, ty), FALSE, FALSE))

\* from(T Value) and inRange(int64_t Value, NumBits) on an int64_t Value.
From ==
  out = Null /\ \E x \in Samples : Apply("from", x, Outcome(Conv(x, ty), FALSE, FALSE))
InRange ==
  out = Null /\ \E x \in Samples : Apply("inRange", x, Outcome(CheckRange(x, ty), FALSE, FALSE))

GreaterThan ==
  /\ out = Null
  /\ \E RHS \in Samples \cap Vals(UnsignedT) :
       Apply("greater", RHS, Outcome(GreaterUnsigned(V, RHS), FALSE, FALSE))

Next ==
  \/ Add \/ Sub \/ Mul \/ Increment \/ Decrement
  \/ NegateOp \/ ComplementOp \/ TruncateOp
  \/ Convert \/ ToAPSIntOp \/ FromAPSIntOp \/ From \/ InRange \/ GreaterThan

Spec == Init /\ [][Next]_vars

-----------------------------------------------------------------------------
(* Properties.  Each holds in the state after the operation.               *)

Ops == {"add", "sub", "mul", "increment", "decrement", "negate", "complement",
        "truncate", "convert", "toAPSInt", "fromAPSInt", "from", "inRange", "greater"}

Exact(op, A, B) ==
  CASE op = "add" -> A + B  [] op = "sub" -> A - B  [] op = "mul" -> A * B
    [] op = "increment" -> A + 1  [] op = "decrement" -> A - 1

\* add, sub, mul, increment and decrement (CheckAddUB, CheckSubUB,
\* CheckMulUB) leave in R the exact result reduced modulo 2^Bits, and
\* report overflow exactly when T is signed and the exact result is not a
\* value of T.  An unsigned T wraps silently, by design.
ArithmeticExact ==
  out # Null /\ out.op \in {"add", "sub", "mul", "increment", "decrement"} =>
    LET x == Exact(out.op, V, out.arg)
    IN out.r = Conv(x, ty) /\ out.ovf = (ty.signed /\ x \notin Vals(ty))

\* truncate(TruncBits) for 1 <= TruncBits keeps the low TruncBits bits of V,
\* sign-extended from bit TruncBits - 1 when T is signed: the value of V in
\* the TruncBits-bit type of T's signedness; it is V when TruncBits >= Bits.
TruncateExact ==
  out # Null /\ out.op = "truncate" /\ out.arg >= 1 =>
    out.r = IF out.arg >= ty.bits THEN V ELSE Conv(V, Ty(out.arg, ty.signed))

\* inRange(Value) answers exactly whether from(Value) keeps Value: the
\* range check agrees with the conversion it guards, including negative
\* values against an unsigned 64-bit T.
InRangeExact ==
  out # Null /\ out.op = "inRange" => (out.r = (Conv(out.arg, ty) = out.arg))

\* A conversion out of or into an Integral (the conversion operator, from,
\* toUnsigned, toAPSInt(NumBits), Integral(APSInt)) keeps the value exactly
\* when the value is representable in the target.
ConversionsExact ==
  out # Null =>
    /\ out.op = "convert" => ((out.r = V) = (V \in Vals(out.arg)))
    /\ out.op = "toAPSInt" => ((out.r = V) = (V \in Vals(Ty(out.arg, ty.signed))))
    /\ out.op = "fromAPSInt" => LET x == APSValue(out.arg) IN (out.r = x) = (x \in Vals(ty))

\* No operation evaluates a C++ expression whose behaviour is undefined: no
\* signed overflow of a built-in operator, no shift by the width or more.
NoUndefinedBehaviour == out # Null => ~out.ub


=============================================================================
