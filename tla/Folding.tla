-------------------------------- MODULE Folding --------------------------------
(***************************************************************************)
(* The arithmetic of src/sema/expr_eval.c: the value of a constant         *)
(* expression of numbers, one operator after another, with the type that   *)
(* src/sema/typecheck.c gives the result of each and the conversions of    *)
(* src/literal.c.  An operand on the right is a literal or a constexpr     *)
(* variable.                                                               *)
(***************************************************************************)
EXTENDS Floats

CONSTANTS
  Bits,       \* the bits of each integer type
  Reals,      \* literals of floating point, in units of 2^-RealScale
  RealScale

VARIABLES
  val,        \* the value so far (midlit_TaggedValue), its type with it
  fold,       \* the last step: its operator op, or the type converted to, and
              \* its operand on the right r
  rmode       \* the rounding mode of the command line

foldVars == <<val, fold, rmode>>

IntTypes == DOMAIN Bits
SignedTypes == {"SHORT", "INT", "LONG"}
FloatTypes == {"FLOAT", "DOUBLE"}
ArithTypes == IntTypes \cup FloatTypes

ASSUME FoldingAssumption ==
  /\ {"INT", "UINT"} \subseteq IntTypes /\ IntTypes \subseteq SignedTypes \cup {"UINT", "ULONG"}
  /\ \A t \in IntTypes : Bits[t] \in 1..WordBits
  /\ Bits["INT"] = Bits["UINT"]

\* midsema_get_flt_kind
FltKind(t) == IF t = "FLOAT" THEN "SINGLE" ELSE "DOUBLE"

\* midsema_type_lit_value_kind
LitKind(t) ==
  CASE t \in FloatTypes  -> "FLOAT"
    [] t \in SignedTypes -> "SIGNED_INT"
    [] OTHER             -> "UNSIGNED_INT"

Tagged(t, kind, v) == [type |-> t, kind |-> kind, v |-> v]
OfType(t, v) == Tagged(t, LitKind(t), v)

NoValue == Tagged("NONE", "NONE", FromInt(1, 0))

\* The compiler stops in an assertion or a crash, or does not end.
Stuck(how) == [NoValue EXCEPT !.kind = how]
StuckKinds == {"ABORTED", "HUNG"}
IsStuck(x) == x.kind \in StuckKinds

FloatOfType(t, f) == IF f.cat \in StuckKinds THEN Stuck(f.cat) ELSE OfType(t, f)
-----------------------------------------------------------------------------
(***************************************************************************)
(* The type of a result.                                                   *)
(***************************************************************************)
\* midsema_typespec_conv_rank
Rank(t) ==
  CASE t = "SHORT" -> 30
    [] t \in {"INT", "UINT"} -> 40
    [] t \in {"LONG", "ULONG"} -> 50
    [] t = "FLOAT" -> 70
    [] t = "DOUBLE" -> 80

\* midsema_integral_prom: the least values of the types are compared as
\* unsigned integers of different widths.
Promoted(t) ==
  LET smin(u) == IF u \in SignedTypes THEN 2^(Bits[u] - 1) ELSE 0
      smax(u) == IF u \in SignedTypes THEN 2^(Bits[u] - 1) - 1 ELSE 2^Bits[u] - 1
  IN  CASE t \in FloatTypes \/ Rank(t) >= Rank("INT")               -> t
        [] smax("INT") >= smax(t) /\ smin("INT") <= smin(t) -> "INT"
        [] OTHER                                            -> "UINT"

\* typecheck_arith_bin_op_expr
ResultType(t, u) ==
  IF Rank(Promoted(t)) > Rank(Promoted(u)) THEN Promoted(t) ELSE Promoted(u)

FltArithOps == {"ADD", "SUB", "MUL", "DIV"}
ArithOps == FltArithOps \cup {"MOD", "SHIFT", "AND", "XOR", "OR"}

\* Other operators on floats are an error of type and not folded.
BinopTypechecks(op, t, u) == {t, u} \cap FloatTypes # {} => op \in FltArithOps
-----------------------------------------------------------------------------
(***************************************************************************)
(* midlit_convert_value_deinit_queue.  An integer is extended as the type  *)
(* it is converted to is signed.                                           *)
(***************************************************************************)
Resized(v, t) == CHOOSE res \in Ext(v, Bits[t], t \in SignedTypes) : TRUE

IntToFloat(x, t) ==
  FloatOfType(t, IF x.kind = "SIGNED_INT" THEN InitSint(x.v, FltKind(t), rmode)
                 ELSE InitUint(x.v, FALSE, FltKind(t), rmode))

FloatToInt(x, t) ==
  IF x.v.cat \in {"NAN", "INF"} THEN Stuck("ABORTED") ELSE OfType(t, Resized(ToWhole(x.v), t))

Converted(x, t) ==
  CASE x.kind = "FLOAT" /\ t \in FloatTypes -> FloatOfType(t, ChangeKind(x.v, FltKind(t)))
    [] x.kind = "FLOAT"                     -> FloatToInt(x, t)
    [] t \in FloatTypes                     -> IntToFloat(x, t)
    [] OTHER                                -> OfType(t, Resized(x.v, t))
-----------------------------------------------------------------------------
(***************************************************************************)
(* eval_arith_binop on two values of the type of the result.               *)
(***************************************************************************)
FltOp(op, a, b) ==
  CASE op = "ADD" -> FltAdd(a, b)
    [] op = "SUB" -> FltSub(a, b)
    [] op = "MUL" -> FltMul(a, b)
    [] op = "DIV" -> FltDiv(a, b)

Wordwise(v, word) == [v EXCEPT !.w = [i \in DOMAIN v.w |-> word]]

IntOp(op, signed, a, b) ==
  CASE op = "ADD" -> Add(a, b)
    [] op = "SUB" -> Sub(a, b)
    [] op = "MUL" -> Mul(a, b)
    [] op = "DIV" -> IF signed THEN Sdiv(a, b) ELSE Udiv(a, b)
    [] op = "MOD" -> IF signed THEN Srem(a, b) ELSE Urem(a, b)
    [] op = "AND" -> Wordwise(a, BitByBit(BothBits, a.w[0], b.w[0]))
    [] op = "XOR" -> Wordwise(a, BitByBit(OneBit, a.w[0], b.w[0]))
    [] op = "OR"  -> Wordwise(a, BitByBit(EitherBit, a.w[0], b.w[0]))

\* A division by zero crashes; so does a shift: its amount, kept in the struct
\* itself, is taken for the address of its words.
IntCrashes(op, b) == op = "SHIFT" \/ (op \in {"DIV", "MOD"} /\ Value(b) = 0)

OnConverted(op, t, a, b) ==
  CASE IsStuck(a)            -> a
    [] IsStuck(b)            -> b
    [] t \in FloatTypes      -> FloatOfType(t, FltOp(op, a.v, b.v))
    [] IntCrashes(op, b.v)   -> Stuck("ABORTED")
    [] OTHER                 -> OfType(t, IntOp(op, t \in SignedTypes, a.v, b.v))

Binop(op, x, y) ==
  LET t == ResultType(x.type, y.type)
  IN  OnConverted(op, t, Converted(x, t), Converted(y, t))

\* eval_unaryop: the value does not become one of the type of the result.
Unop(op, x) ==
  CASE op = "BITWISE_NOT" /\ x.kind = "FLOAT" -> Stuck("ABORTED")
    [] op = "BITWISE_NOT" -> [x EXCEPT !.type = Promoted(@), !.v = Complement(@)]
    [] op = "UNARY_PLUS"  -> [x EXCEPT !.type = Promoted(@)]
    [] x.kind = "FLOAT"   -> [x EXCEPT !.v = Opposite(@)]
    [] OTHER              -> [x EXCEPT !.type = Promoted(@), !.v = Negate(@)]
-----------------------------------------------------------------------------
(***************************************************************************)
(* Literals, and what a constexpr variable may hold.                       *)
(***************************************************************************)
IntLeaves == UNION {{OfType(t, FromInt(Bits[t], k)) : k \in 0..2^Bits[t]-1} : t \in IntTypes}

RealLeaves(rounding) ==
  UNION {{FloatOfType(t, f) : f \in InitDouble(num, RealScale, FltKind(t), rounding)} :
           t \in FloatTypes, num \in Reals}

Negated(leaves) == {Unop("UNARY_MINUS", x) : x \in {x \in leaves : ~IsStuck(x)}}

SpecialLeaves(rounding) ==
  LET one(t) == One(FALSE, FltKind(t), rounding)
  IN  UNION {{OfType(t, WithSign(As(cat, one(t)), neg)) : neg \in BOOLEAN} :
               t \in FloatTypes, cat \in {"INF", "NAN"}}

\* For each rounding mode.
Leaves ==
  [rounding \in Roundings |->
     IntLeaves \cup RealLeaves(rounding) \cup Negated(RealLeaves(rounding))
       \cup SpecialLeaves(rounding)]

FoldInit == val = NoValue /\ fold = [op |-> "NONE", r |-> NoValue] /\ rmode \in Roundings

Step(op, r, new) == fold' = [op |-> op, r |-> r] /\ val' = new /\ UNCHANGED rmode

HasValue == val.type # "NONE"

eval_leaf == val = NoValue /\ \E x \in Leaves[rmode] : Step("LEAF", x, x)

eval_arith_binop ==
  /\ HasValue
  /\ \E op \in ArithOps, y \in Leaves[rmode] :
       /\ BinopTypechecks(op, val.type, y.type) /\ ~IsStuck(y)
       /\ Step(op, y, Binop(op, val, y))

eval_unaryop ==
  HasValue /\ \E op \in {"UNARY_PLUS", "UNARY_MINUS", "BITWISE_NOT"} :
                Step(op, NoValue, Unop(op, val))

\* typecheck_constexpr_var: the value becomes that of a variable of type t.
typecheck_constexpr_var ==
  HasValue /\ \E t \in ArithTypes : Step(t, NoValue, Converted(val, t))

\* The expression is done, or the compiler is started once more.
NextExpr == val # NoValue /\ Step("NONE", NoValue, NoValue)

FoldNext ==
  eval_leaf \/ eval_arith_binop \/ eval_unaryop \/ typecheck_constexpr_var \/ NextExpr
=============================================================================
