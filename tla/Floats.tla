-------------------------------- MODULE Floats --------------------------------
(***************************************************************************)
(* The numbers of src/apfloat.c.  A normal value is                        *)
(*   mant * 2^(exp - (mant.n - 1)),                                        *)
(* its mantissa an integer of src/apint.c with the leading one written     *)
(* out; a value too small for that has the least exponent and a mantissa   *)
(* whose first bit is zero.  The other categories keep whatever mantissa   *)
(* and exponent they had.  An operation that ends in a failed assertion    *)
(* gives a float of category ABORTED, one whose loop does not end HUNG.    *)
(***************************************************************************)
EXTENDS WordsDiv

CONSTANTS
  MantBits,  \* the bits of the mantissa of each kind, with the leading one
  ExpBits    \* the bits of its exponent

Kinds == DOMAIN MantBits

ASSUME FloatsAssumption ==
  /\ DOMAIN ExpBits = Kinds
  /\ \A kind \in Kinds : MantBits[kind] \in 2..WordBits /\ ExpBits[kind] \in Nat \ {0, 1}

NearestEven == "NEAREST_TIES_EVEN"
NearestAway == "NEAREST_TIES_AWAY"
Roundings == {NearestEven, NearestAway, "UP", "DOWN", "TOWARDS_ZERO"}

ExpMax(kind) == 2^(ExpBits[kind] - 1) - 1
ExpMin(kind) == 1 - ExpMax(kind)

\* ieee_eff_exp_min: the exponent of the least value of all.
EffExpMin(kind) == ExpMin(kind) - MantBits[kind] + 1

Float(mant, exp, neg, kind, rounding, cat) ==
  [mant |-> mant, exp |-> exp, neg |-> neg, kind |-> kind, rounding |-> rounding, cat |-> cat]

Is(cat, f) == f.cat = cat
As(cat, f) == [f EXCEPT !.cat = cat]
WithSign(f, neg) == [f EXCEPT !.neg = neg]

\* midflt_ieee_one, and a mantissa as midint_alloc leaves it.
One(neg, kind, rounding) ==
  Float(FromInt(MantBits[kind], 2^(MantBits[kind] - 1)), 0, neg, kind, rounding, "NORMAL")
Alloced(kind, rounding) ==
  Float(FromInt(MantBits[kind], 0), 0, FALSE, kind, rounding, "NORMAL")

SigBits(f) == UnsignedSigBits(f.mant)

\* midint_ext without the sign, which is exact here: a mantissa is cut down
\* to one word only.
Zext(v, n) == CHOOSE res \in Ext(v, n, FALSE) : TRUE
-----------------------------------------------------------------------------
\* A slip: the exponent stays behind.
NormalizedMant(f) == [f EXCEPT !.mant = Shl(@, f.mant.n - SigBits(f))]

\* ieee_normalize: afterwards the first bit of the mantissa is a one.
Normalize(f) ==
  LET shift == f.mant.n - SigBits(f)
  IN  IF shift = 0 THEN f ELSE [f EXCEPT !.mant = Shl(@, shift), !.exp = @ - shift]

\* A slip: what is too small is left as it is.
PostOpOverflowOnly(f) == IF f.exp > ExpMax(f.kind) THEN As("INF", f) ELSE f

\* ieee_post_op_correct
PostOpCorrect(f) ==
  LET shift == ExpMin(f.kind) - f.exp
  IN  CASE f.mant.n # MantBits[f.kind] -> As("ABORTED", f)
        [] f.exp > ExpMax(f.kind)      -> As("INF", f)
        [] shift <= 0                  -> f
        [] shift >= f.mant.n           -> As("ZERO", f)
        [] OTHER -> [f EXCEPT !.mant = Lshr(@, shift), !.exp = ExpMin(f.kind)]

\* ieee_should_inc_mant: of the bits cut off, round is the first and sticky
\* tells whether another is a one; guard is the last bit that stays.
ShouldIncMant(f, guard, round, sticky) ==
  CASE f.rounding = NearestEven -> round /\ (guard \/ sticky)
    [] f.rounding = NearestAway -> round
    [] f.rounding = "UP"        -> ~f.neg /\ (round \/ sticky)
    [] f.rounding = "DOWN"      -> f.neg /\ (round \/ sticky)
    [] OTHER                    -> FALSE

(***************************************************************************)
(* midint_count_trailing_zeroes: the loop looks at the bits from the       *)
(* second on, and does not end when there is no one among them.            *)
(***************************************************************************)
FirstWord(v) == Min({i \in DOMAIN v.w : v.w[i] # 0} \cup {NWords(v.n)})

CountHangs(v) == FirstWord(v) \in DOMAIN v.w /\ v.w[FirstWord(v)] = 1

TrailingZeroes(v) ==
  LET i == FirstWord(v)
      Bit(k) == (v.w[i] \div 2^k) % 2
  IN  IF i = NWords(v.n) THEN v.n
      ELSE i * WordBits + Min({k \in 0..WordBits-2 : Bit(k + 1) = 1})

\* What cutting shift bits off the mantissa tells the rounding.
Rounds(f, mant, shift) ==
  ShouldIncMant(f, GetBit(mant, shift) = 1, GetBit(mant, shift - 1) = 1,
                TrailingZeroes(mant) < shift - 1)

\* The mantissa with a one added at the bit shift, and a bit more for it.
Incremented(mant, shift) == IncBit(Zext(mant, mant.n + 1), shift)

\* The first bits of mant, for a float that is already scaled by what mant is
\* longer than its kind has.
CutTo(f, mant) ==
  LET shift == UnsignedSigBits(mant) - MantBits[f.kind]
  IN  [f EXCEPT !.mant = Zext(Lshr(mant, shift), MantBits[f.kind]), !.exp = @ + shift]
-----------------------------------------------------------------------------
(***************************************************************************)
(* midflt_ieee_init of num * 2^-scale, a double of the host: bits past the *)
(* last of the mantissa are dropped.  The exponent is the floor of log2,   *)
(* which the host rounds: of a double just below a power of two it may be  *)
(* the next integer, and then an assertion fails.                          *)
(***************************************************************************)
FloorLog2(num) == CHOOSE k \in 0..30 : 2^k <= num /\ num < 2 * 2^k

JustBelowPower(num) ==
  LET host == MantBits["DOUBLE"]
      last == FloorLog2(num) + 1 - host
  IN  last >= 0 /\ num = (2^host - 1) * 2^last

InitAs(num, exp, true_exp, one) ==
  LET m == one.mant.n
      bits == (num * 2^(m - 1)) \div 2^FloorLog2(num)
  IN  CASE exp > ExpMax(one.kind)    -> As("INF", one)
        [] exp < EffExpMin(one.kind) -> As("ZERO", one)
        [] exp # true_exp            -> As("ABORTED", one)
        [] OTHER -> PostOpCorrect([one EXCEPT !.mant = FromInt(m, bits)])

InitDouble(num, scale, kind, rounding) ==
  LET one == One(FALSE, kind, rounding)
      exp == FloorLog2(num) - scale
      exps == {exp} \cup (IF JustBelowPower(num) THEN {exp + 1} ELSE {})
  IN  IF num = 0 THEN {As("ZERO", one)}
      ELSE {InitAs(num, e, exp, [one EXCEPT !.exp = e]) : e \in exps}

(***************************************************************************)
(* midflt_ieee_init_uint and midflt_ieee_init_sint.  An integer with just  *)
(* the bits of the mantissa is not resized.                                *)
(***************************************************************************)
InitUint(v, neg, kind, rounding) ==
  LET m == MantBits[kind]
      bits == UnsignedSigBits(v)
      mant == CASE m > bits -> Shl(Zext(v, m), m - bits)
                [] m < bits -> Zext(Lshr(v, bits - m), m)
                [] OTHER    -> v
  IN  IF Value(v) = 0 THEN As("ZERO", Alloced(kind, rounding))
      ELSE PostOpCorrect(Float(mant, bits - 1, neg, kind, rounding, "NORMAL"))

InitSint(v, kind, rounding) == InitUint(Magnitude(v), Negative(v), kind, rounding)

(***************************************************************************)
(* midflt_ieee_to_sint, which is not asked about an infinity or a NaN: the *)
(* fraction is dropped.                                                    *)
(***************************************************************************)
ToWhole(f) ==
  LET width == ExpMax(f.kind) + 3
      dec_bit == f.mant.n - f.exp - 1
      whole == IF dec_bit < 0 THEN Shl(Zext(f.mant, width), -dec_bit)
               ELSE Lshr(Zext(f.mant, width), dec_bit)
  IN  IF Is("ZERO", f) \/ f.exp < 0 THEN FromInt(width, 0) ELSE NegatedIf(f.neg, whole)

(***************************************************************************)
(* midflt_ieee_change_kind.  To a wider kind a mantissa that begins with   *)
(* zeroes is not normalized.  To a narrower one it is rounded and shifted, *)
(* but keeps its width, which fails an assertion.                          *)
(***************************************************************************)
ChangeKind(f, kind) ==
  LET m == MantBits[kind]
  IN  CASE f.kind = kind  -> f
        [] m > f.mant.n   -> PostOpCorrect([f EXCEPT !.mant = Shl(Zext(@, m), m - f.mant.n),
                                                    !.kind = kind])
        [] CountHangs(f.mant) -> As("HUNG", f)
        [] OTHER          -> As("ABORTED", [f EXCEPT !.kind = kind])
-----------------------------------------------------------------------------
(***************************************************************************)
(* Multiplication and division.                                            *)
(***************************************************************************)
\* ieee_muldiv_sign_bit
MulDivSign(a, b) ==
  CASE Is("NAN", a) = Is("NAN", b) -> a.neg # b.neg
    [] Is("NAN", b)                -> b.neg
    [] OTHER                       -> a.neg

BothNormal(a, b) == Is("NORMAL", a) /\ Is("NORMAL", b)
Either(cat, a, b) == Is(cat, a) \/ Is(cat, b)
Both(cat, a, b) == Is(cat, a) /\ Is(cat, b)

\* ieee_mul_special_cases
MulSpecial(a, b) ==
  WithSign(CASE Either("NAN", a, b)                           -> As("NAN", a)
             [] Either("INF", a, b) /\ Either("ZERO", a, b) -> As("NAN", a)
             [] Either("INF", a, b)                           -> As("INF", a)
             [] OTHER                                         -> As("ZERO", a),
           MulDivSign(a, b))

(***************************************************************************)
(* ieee_mul_base, of mantissas that begin with a one.  The product has one *)
(* bit too many or none, once those below the mantissa's have been shifted *)
(* out: the rounding does not see them.                                    *)
(***************************************************************************)
MulBase(a, b) ==
  LET unnorm == Lshr(FullMul(a.mant, b.mant), a.mant.n - 1)
      scaled == [a EXCEPT !.exp = @ + b.exp, !.neg = MulDivSign(a, b)]
      shift == UnsignedSigBits(unnorm) - a.mant.n
      inc == TrailingZeroes(unnorm) < shift /\ Rounds(scaled, unnorm, shift)
  IN  CutTo(scaled, IF inc THEN Incremented(unnorm, shift) ELSE unnorm)

\* ieee_is_denormal, which both ask of b, asserts that b has the least exponent
\* if its mantissa begins with a zero.
Misformed(f) == ~Negative(f.mant) /\ f.exp # ExpMin(f.kind)

\* midflt_ieee_mul
FltMul(a, b) ==
  CASE ~BothNormal(a, b) -> MulSpecial(a, b)
    [] Misformed(b)      -> As("ABORTED", a)
    [] OTHER             -> PostOpCorrect(MulBase(Normalize(a), Normalize(b)))

\* ieee_div_special_cases
DivSpecial(a, b) ==
  LET nan == Both("INF", a, b) \/ Both("ZERO", a, b)
  IN  CASE Either("NAN", a, b) -> WithSign(As("NAN", a), MulDivSign(a, b))
        [] nan                 -> WithSign(As("NAN", a), TRUE)
        [] Is("INF", a) \/ Is("ZERO", b) -> WithSign(As("INF", a), MulDivSign(a, b))
        [] OTHER               -> WithSign(As("ZERO", a), MulDivSign(a, b))

(***************************************************************************)
(* midint_udivrem of an integer of twice the mantissa's bits, the first a  *)
(* one, by a mantissa.  Where only the dividend has more than a word, the  *)
(* remainder has no words to be written to and stays zero.                 *)
(***************************************************************************)
MantUdivrem(unnorm, mant) ==
  IF IsBignum(unnorm.n)
  THEN [quot |-> Padded(unnorm.n, BignumDiv(unnorm.w, NWords(unnorm.n), mant.w, 1).quot), rem |-> 0]
  ELSE [quot |-> FromInt(unnorm.n, unnorm.w[0] \div mant.w[0]), rem |-> unnorm.w[0] % mant.w[0]]

(***************************************************************************)
(* ieee_div_base.  The quotient is rounded before it is normalized, and    *)
(* sticky is set when nothing is left.                                     *)
(***************************************************************************)
DivBase(a, b) ==
  LET m == a.mant.n
      div == MantUdivrem(Shl(Zext(a.mant, 2 * m), m), b.mant)
      scaled == [a EXCEPT !.exp = @ - b.exp, !.neg = MulDivSign(a, b)]
      cut == Lshr(div.quot, 1)
      inc == ShouldIncMant(scaled, GetBit(cut, 0) = 1, GetBit(div.quot, 0) = 1, div.rem = 0)
      rounded == IF inc THEN IncBit(cut, 0) ELSE cut
      bits == UnsignedSigBits(rounded)
  IN  IF bits >= m THEN CutTo(scaled, rounded)
      ELSE [scaled EXCEPT !.mant = Zext(Shl(rounded, m - bits), m), !.exp = @ - (m - bits)]

\* midflt_ieee_div
FltDiv(a, b) ==
  CASE ~BothNormal(a, b) -> DivSpecial(a, b)
    [] Misformed(b)      -> As("ABORTED", a)
    [] OTHER             -> PostOpCorrect(DivBase(Normalize(a), Normalize(b)))
-----------------------------------------------------------------------------
(***************************************************************************)
(* Addition and subtraction.                                               *)
(***************************************************************************)
\* ieee_match_exps: both mantissas in units of the lesser exponent, with a bit
\* more for a carry.
Matched(f, exp, n) == Shl(Zext(f.mant, n), f.exp - exp)

Align(a, b) ==
  LET exp == Min({a.exp, b.exp})
      n == a.mant.n + Max({a.exp, b.exp}) - exp + 1
  IN  [exp |-> exp, a |-> Matched(a, exp, n), b |-> Matched(b, exp, n)]

(***************************************************************************)
(* ieee_addsub_normalize_mant.  Only a mantissa that is too long comes out *)
(* with the width it should have.                                          *)
(***************************************************************************)
SumNormalized(f) ==
  LET shift == SigBits(f) - MantBits[f.kind]
  IN  CASE shift = 0 -> f
        [] shift < 0 -> [f EXCEPT !.mant = Shl(@, -shift), !.exp = @ + shift]
        [] CountHangs(f.mant) -> As("HUNG", f)
        [] OTHER -> CutTo(f, IF Rounds(f, f.mant, shift) THEN Incremented(f.mant, shift)
                             ELSE f.mant)

Corrected(f) == IF Is("HUNG", f) THEN f ELSE PostOpCorrect(f)

\* ieee_add_base: the sum of the mantissas, which always is too long.
AddBase(a, b) ==
  LET x == Normalize(a)
      al == Align(x, Normalize(b))
  IN  Corrected(SumNormalized([x EXCEPT !.mant = Add(al.a, al.b), !.exp = al.exp]))

\* ieee_sub_base: their difference, b being the lesser.
SubBase(a, b) ==
  LET x == Normalize(a)
      al == Align(x, Normalize(b))
  IN  Corrected(SumNormalized([x EXCEPT !.mant = Sub(al.a, al.b), !.exp = al.exp]))

\* midflt_ieee_is_eq, midflt_ieee_is_lt and midflt_ieee_is_gt of normal values,
\* which are only compared when they have the same sign.
IsEq(a, b) == a.neg = b.neg /\ a.exp = b.exp /\ a.mant = b.mant

Less(a, b) == a.exp < b.exp \/ (a.exp = b.exp /\ Value(a.mant) < Value(b.mant))
IsLt(a, b) == IF a.neg THEN Less(b, a) ELSE Less(a, b)
IsGt(a, b) == IF a.neg THEN Less(a, b) ELSE Less(b, a)

(***************************************************************************)
(* ieee_addsub_special_cases.  b_neg is meant to be the sign of b as it is *)
(* added, and is the opposite.                                             *)
(***************************************************************************)
IsAddSubSpecial(a, b, sub) == ~BothNormal(a, b) \/ (sub /\ IsEq(a, b))

AddSubSpecial(a, b, sub) ==
  LET b_neg == IF sub THEN b.neg ELSE ~b.neg
      assigned == [b EXCEPT !.neg = b_neg]
  IN  CASE Both("NAN", a, b)    -> WithSign(a, a.neg /\ b_neg)
        [] Either("NAN", a, b)  -> WithSign(As("NAN", a), FALSE)
        [] Both("INF", a, b)    -> IF a.neg # b_neg THEN WithSign(As("NAN", a), TRUE) ELSE a
        [] Either("INF", a, b)  -> As("INF", a)
        [] Both("ZERO", a, b)   -> WithSign(a, a.neg /\ b_neg)
        [] Is("ZERO", a)        -> assigned
        [] Is("ZERO", b)        -> a
        [] OTHER                -> WithSign(As("ZERO", a), b.rounding = "DOWN")

Abs(f) == WithSign(f, FALSE)
Opposite(f) == WithSign(f, ~f.neg)

\* midflt_ieee_sub, of two different objects.
FltSub(a, b) ==
  CASE IsAddSubSpecial(a, b, TRUE)             -> AddSubSpecial(a, b, TRUE)
    [] ~a.neg /\ ~b.neg /\ IsLt(a, b) -> WithSign(SubBase(b, a), TRUE)
    [] a.neg /\ b.neg /\ IsGt(a, b)   -> SubBase(Abs(b), Abs(a))
    [] a.neg /\ ~b.neg                -> WithSign(AddBase(Abs(a), b), TRUE)
    [] ~a.neg /\ b.neg                -> AddBase(a, Abs(b))
    [] OTHER                          -> SubBase(a, b)

\* midflt_ieee_add: of a negative and a lesser positive value the magnitudes
\* are added.
FltAdd(a, b) ==
  CASE IsAddSubSpecial(a, b, FALSE)            -> AddSubSpecial(a, b, FALSE)
    [] a.neg /\ ~b.neg /\ IsLt(Abs(a), b) -> SubBase(b, Abs(a))
    [] b.neg                              -> FltSub(a, Abs(b))
    [] OTHER                              -> AddBase(a, b)
=============================================================================
