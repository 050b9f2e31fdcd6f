------------------------------- MODULE MCNumbers -------------------------------
(***************************************************************************)
(* The numbers of the compiler, in two machines of which one runs: a client *)
(* of the integers (MCAPInt), or the folding of constant expressions, which *)
(* is built of the same functions.                                         *)
(***************************************************************************)
EXTENDS MCAPInt, Folding

MCMantBits == [kind \in {"SINGLE", "DOUBLE"} |-> IF kind = "SINGLE" THEN 2 ELSE 3]
MCExpBits == MCMantBits
MCBits ==
  [t \in {"SHORT", "INT", "UINT", "LONG"} |->
     CASE t = "SHORT" -> 2 [] t = "LONG" -> 4 [] OTHER -> 3]

\* Doubles, which are what the host reads: zero, the least and the greatest, one
\* past it, some just below a power of two; some are between two floats.
MCReals == {0, 256} \cup {m * 2^k : m \in {1, 3, 7}, k \in {0, 1, 4, 5}}

\* The machine that does not run has nothing to do.
FoldsNothing == val = NoValue /\ fold = [op |-> "NONE", r |-> NoValue] /\ rmode = "NONE"

CallsNothing ==
  /\ a = FromInt(3, 0) /\ b = a
  /\ call = [op |-> "to_uint", k |-> 0, n |-> 3] /\ out = 0

NumbersInit == (Init /\ FoldsNothing) \/ (FoldInit /\ CallsNothing)

NumbersNext ==
  \/ rmode = "NONE" /\ Next /\ UNCHANGED foldVars
  \/ rmode # "NONE" /\ FoldNext /\ UNCHANGED vars

NumbersSpec == NumbersInit /\ [][NumbersNext]_<<vars, foldVars>>

\* The last call and the last operator tell no states apart.
NumbersView == <<a, b, val, rmode>>
-----------------------------------------------------------------------------
(***************************************************************************)
(* What the values stand for: an integer, or a number of units 2^-U.       *)
(***************************************************************************)
U == RealScale
Sign(neg) == IF neg THEN -1 ELSE 1

Units(f) ==
  Sign(f.neg) * CASE f.cat = "ZERO" -> 0
                  [] f.cat = "INF"  -> 2^(ExpMax(f.kind) + 1 + U)
                  [] OTHER          -> Value(f.mant) * 2^(f.exp + U + 1 - f.mant.n)

\* All values of a kind, with the infinities where the next would be.
MagnitudesOf ==
  [kind \in Kinds |->
     LET m == MantBits[kind]
         last == U + 1 - m
     IN  {0, 2^(ExpMax(kind) + 1 + U)}
           \cup {mant * 2^(ExpMin(kind) + last) : mant \in 1..2^m-1}
           \cup {mant * 2^(exp + last) :
                   mant \in 2^(m-1)..2^m-1, exp \in ExpMin(kind)..ExpMax(kind)}]

ValuesOf == [kind \in Kinds |-> MagnitudesOf[kind] \cup {-v : v \in MagnitudesOf[kind]}]

\* The distance from zero.
Mag(x) == IF x < 0 THEN -x ELSE x

\* f is num / den, or one of the two values next to it.
Faithful(f, num, den) ==
  LET res == Units(f) * den
  IN  \/ res = num
      \/ \A v \in ValuesOf[f.kind] :
           v * den = res \/ v * den \notin Min({num, res})..Max({num, res})

Finite(f) == f.cat \in {"NORMAL", "ZERO"}

\* The integer that x is.
Integer(x) ==
  IF x.kind = "SIGNED_INT" /\ Negative(x.v) THEN Value(x.v) - 2^x.v.n ELSE Value(x.v)

WellFormedFloat(f) ==
  /\ f.cat \in {"NORMAL", "ZERO", "INF", "NAN"}
  /\ f.mant.n = MantBits[f.kind] /\ IsCanonical(f.mant)
  /\ Is("NORMAL", f) =>
       f.exp \in ExpMin(f.kind)..ExpMax(f.kind) /\ Value(f.mant) # 0 /\ ~Misformed(f)

WellFormed(x) ==
  \/ x.kind = "FLOAT" /\ x.v.kind = FltKind(x.type) /\ WellFormedFloat(x.v)
  \/ x.kind # "FLOAT" /\ x.type \in IntTypes /\ IsCanonical(x.v)
-----------------------------------------------------------------------------
(***************************************************************************)
(* The steps that the code takes to their end.                             *)
(***************************************************************************)
\* No conversion to a narrower float ends, nor one to a float of an integer
\* with just the bits of its mantissa; a denormal comes out malformed.
ConversionEnds(x, t) ==
  CASE x.kind = "FLOAT" /\ t \in FloatTypes ->
         \/ x.v.kind = FltKind(t)
         \/ FltKind(t) = "DOUBLE" /\ (Is("NORMAL", x.v) => Negative(x.v.mant))
    [] x.kind = "FLOAT" -> Finite(x.v)
    [] t \in FloatTypes ->
         LET magnitude == IF x.kind = "SIGNED_INT" THEN Magnitude(x.v) ELSE x.v
             m == MantBits[FltKind(t)]
         IN  UnsignedSigBits(magnitude) = m => magnitude.n = m
    [] OTHER -> TRUE

\* x + y, which is exact, is no longer than the lesser of the two.
Cancels(x, y) ==
  x + y # 0 /\ Mag(x + y) < 2 * 2^FloorLog2(Min({Mag(x), Mag(y)}))

\* The sum of x and y takes more than a word before it is rounded.
FarApart(m, x, y) == m + 1 + Mag(FloorLog2(Mag(x)) - FloorLog2(Mag(y))) > WordBits

FltOpEnds(op, l, r) ==
  op \in {"ADD", "SUB"} /\ BothNormal(l, r) =>
    LET x == Units(l)
        y == IF op = "ADD" THEN Units(r) ELSE -Units(r)
    IN  ~Cancels(x, y) /\ ~FarApart(MantBits[l.kind], x, y)

OpEnds(op, t, l, r) ==
  IF t \in FloatTypes THEN FltOpEnds(op, l.v, r.v) ELSE ~IntCrashes(op, r.v)

BinopEnds(op, x, y, t) ==
  /\ ConversionEnds(x, t) /\ ConversionEnds(y, t)
  /\ OpEnds(op, t, Converted(x, t), Converted(y, t))

\* A literal ends unless the logarithm of its value is rounded up.
StepEnds(op, y) ==
  CASE op = "LEAF"         -> ~IsStuck(y)
    [] op \in ArithOps     -> BinopEnds(op, val, y, ResultType(val.type, y.type))
    [] op \in ArithTypes   -> ConversionEnds(val, op)
    [] op = "BITWISE_NOT"  -> val.kind # "FLOAT"
    [] OTHER               -> op \in {"UNARY_PLUS", "UNARY_MINUS"}

OperandsWellFormed(op, y) ==
  (op # "LEAF" => WellFormed(val)) /\ (op \in ArithOps => WellFormed(y))

\* The step that is taken is one that ends, on numbers that are well formed.
Regular == OperandsWellFormed(fold'.op, fold'.r) /\ StepEnds(fold'.op, fold'.r)

(***************************************************************************)
(* A literal is a well-formed number, and folding an operator or a         *)
(* conversion of well-formed numbers gives one, in every rounding mode: a  *)
(* mantissa of its kind's width, which begins with a one unless the        *)
(* exponent is the least, an exponent in range, an integer with no bits    *)
(* past its width.  Nothing but what StepEnds names stops the compiler, or *)
(* keeps it for ever, or leaves something else.                            *)
(***************************************************************************)
FoldsToWellFormed == [][Regular => WellFormed(val')]_<<vars, foldVars>>
-----------------------------------------------------------------------------
(***************************************************************************)
(* What the results are.                                                   *)
(***************************************************************************)
Quotient(x, y) == Sign((x < 0) # (y < 0)) * (Mag(x) \div Mag(y))

Same(x, y, n) == (x - y) % 2^n = 0

\* An extension is that of the type converted to, not of the value's own.
KeepsValue(x, t) ==
  Bits[t] > x.v.n /\ Negative(x.v) => (x.kind = "SIGNED_INT") = (t \in SignedTypes)

ConvertsFaithfully(x, t, res) ==
  CASE x.kind = "FLOAT" /\ t \in FloatTypes -> Finite(x.v) => Units(res.v) = Units(x.v)
    [] x.kind = "FLOAT"   -> Same(Integer(res), Quotient(Units(x.v), 2^U), Bits[t])
    [] t \in FloatTypes   -> Faithful(res.v, Integer(x) * 2^U, 1)
    [] OTHER              -> KeepsValue(x, t) => Same(Integer(res), Integer(x), Bits[t])

IntFaithful(op, x, y, res, n) ==
  CASE op = "ADD" -> Same(res, x + y, n)
    [] op = "SUB" -> Same(res, x - y, n)
    [] op = "MUL" -> Same(res, x * y, n)
    [] op = "DIV" -> Same(res, Quotient(x, y), n)
    [] op = "MOD" -> Same(res, x - y * Quotient(x, y), n)
    [] OTHER -> TRUE

\* A zero takes the number's opposite, and a negative number that is not the
\* lesser of the two their sum.
SumWrong(op, l, r, x, y) ==
  \/ Is("ZERO", l) /\ ~Is("ZERO", r)
  \/ op = "ADD" /\ x < 0 /\ y > 0 /\ x + y <= 0

\* The mantissa of l, normalized, is not less than that of r.
MantNotLess(x, y) == Mag(x) * 2^FloorLog2(Mag(y)) >= Mag(y) * 2^FloorLog2(Mag(x))

\* A quotient that is exact is rounded up; one of mantissas longer than half a
\* word is that of another number.
QuotientFaithful(l, res, x, y) ==
  x # 0 /\ l.kind = "SINGLE" /\ MantNotLess(x, y) /\ l.rounding \notin {"UP", "DOWN"} =>
    Faithful(res, x * 2^U * Sign(y < 0), Mag(y))

FltFaithful(op, l, r, res, x, y) ==
  CASE op = "ADD" -> ~SumWrong(op, l, r, x, y) => Faithful(res, x + y, 1)
    [] op = "SUB" -> ~SumWrong(op, l, r, x, y) => Faithful(res, x - y, 1)
    [] op = "MUL" -> Faithful(res, x * y, 2^U)
    [] op = "DIV" -> y # 0 => QuotientFaithful(l, res, x, y)

OpFaithful(op, t, l, r, res) ==
  IF t \notin FloatTypes THEN IntFaithful(op, Integer(l), Integer(r), Integer(res), Bits[t])
  ELSE Finite(l.v) /\ Finite(r.v) => FltFaithful(op, l.v, r.v, res.v, Units(l.v), Units(r.v))

BinopFaithful(op, x, y, t) == OpFaithful(op, t, Converted(x, t), Converted(y, t), val')

StepFaithful(op, y) ==
  CASE op = "LEAF"          -> TRUE
    [] op \in ArithOps      -> BinopFaithful(op, val, y, ResultType(val.type, y.type))
    [] op \in ArithTypes    -> ConvertsFaithfully(val, op, val')
    [] op = "UNARY_PLUS"    -> val'.v = val.v
    [] op = "BITWISE_NOT"   -> Same(Integer(val'), -Integer(val) - 1, val.v.n)
    [] val.kind = "FLOAT"   -> Finite(val.v) => Units(val'.v) = -Units(val.v)
    [] OTHER                -> Same(Integer(val'), -Integer(val), val.v.n)

(***************************************************************************)
(* A step that the code takes to its end leaves the number it should: an   *)
(* integer is the exact result, modulo 2 to its width; a float is the      *)
(* exact result where that is a value of its kind, or else one of the two  *)
(* values next to it, in every rounding mode, also where it underflows or  *)
(* overflows.  The sums and quotients that are not are named above.        *)
(***************************************************************************)
FoldsFaithfully ==
  [][Regular => StepFaithful(fold'.op, fold'.r)]_<<vars, foldVars>>
=============================================================================
