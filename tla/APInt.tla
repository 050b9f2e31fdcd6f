--------------------------------- MODULE APInt ---------------------------------
(***************************************************************************)
(* A client of src/apint.c: two integers a and b, the calls it may make on *)
(* them and, for each, what the code does to their words.  Every call has  *)
(* an action of its own; those that only look at the integers share one.   *)
(***************************************************************************)
EXTENDS WordsDiv

CONSTANTS
  Widths,  \* the widths an integer may have
  Imms,    \* the immediate operands
  Ops      \* Ops[n]: the calls the client makes on an integer of n bits

ASSUME APIntAssumption == Widths \subseteq Nat \ {0} /\ Imms \subseteq Word

VARIABLES
  a, b,    \* the integers (mid_APInt)
  call,    \* the last call: its name op, its immediate k, the width of a after it
  out      \* what it returned

vars == <<a, b, call, out>>

\* A call that may be made now, with immediate k, and leaves a n bits wide.
Called(op, k, n) == op \in Ops[a.n] /\ n \in Widths /\ call' = [op |-> op, k |-> k, n |-> n]

\* The call puts new into a.
Becomes(op, k, new) == Called(op, k, new.n) /\ a' = new /\ UNCHANGED <<b, out>>

\* The call returns answer.
Returns(op, k, answer) == Called(op, k, a.n) /\ out' = answer /\ UNCHANGED <<a, b>>

SameWidth == a.n = b.n   \* asserted by the calls of two operands
-----------------------------------------------------------------------------
(***************************************************************************)
(* Making, copying and resizing integers.                                  *)
(***************************************************************************)
\* midint_init, which crashes on a value that does not fit in one word.
midint_init ==
  \E n \in Widths, word \in Imms, sign \in BOOLEAN :
    LET s == SignExtWord(word, WordBits)
        value == IF sign THEN (IF word < Base \div 2 THEN word ELSE word - Base) ELSE word
    IN  /\ IsBignum(n) \/ (IF sign THEN value \in -(2^(n-1))..2^(n-1)-1 ELSE word < 2^n)
        /\ Becomes("init", value, Init1(n, word, sign))

midint_copy == Called("copy", 0, a.n) /\ b' = a /\ UNCHANGED <<a, out>>

midint_assign == SameWidth /\ Becomes("assign", 0, b)

midint_assign_uimm == \E k \in Imms : Becomes("assign_uimm", k, Init1(a.n, k, FALSE))

ExtName(n, sign) ==
  IF n >= a.n THEN IF sign THEN "sext" ELSE "zext"
  ELSE IF IsBignum(n) THEN "trunc_in_bignum" ELSE "trunc"

midint_ext ==
  \E n \in Widths, sign \in BOOLEAN : \E v \in Ext(a, n, sign) :
    Becomes(ExtName(n, sign), 0, v)
-----------------------------------------------------------------------------
(***************************************************************************)
(* Arithmetic in place.  The nip_ forms do the same to a copy.             *)
(***************************************************************************)
midint_add == SameWidth /\ Becomes("add", 0, Add(a, b))
midint_sub == SameWidth /\ Becomes("sub", 0, Sub(a, b))
midint_mul == SameWidth /\ Becomes("mul", 0, Mul(a, b))

midint_add_uimm == \E k \in Imms : Becomes("add_uimm", k, AddUimm(a, k))
midint_sub_uimm == \E k \in Imms : Becomes("sub_uimm", k, SubUimm(a, k))
midint_mul_uimm == \E k \in Imms : Becomes("mul_uimm", k, MulUimm(a, k))

midint_ufullmul ==
  /\ SameWidth /\ FullMulFits(a.n) /\ 2 * a.n \in Widths
  /\ Becomes("ufullmul", 0, FullMul(a, b))

\* Division by more than a digit, half a word, goes through knuth_bignum_div.
Long(v) == IsBignum(v.n) /\ Value(v) >= Half
DivName(short, long, divisor) == IF Long(divisor) THEN long ELSE short

Divisible == SameWidth /\ Value(b) # 0   \* it crashes otherwise

midint_udiv == Divisible /\ Becomes(DivName("udiv", "udiv_long", b), 0, Udiv(a, b))
midint_urem == Divisible /\ Becomes(DivName("urem", "urem_long", b), 0, Urem(a, b))
midint_sdiv ==
  Divisible /\ Becomes(DivName("sdiv", "sdiv_long", Magnitude(b)), 0, Sdiv(a, b))
midint_srem ==
  Divisible /\ Becomes(DivName("srem", "srem_long", Magnitude(b)), 0, Srem(a, b))

\* midint_udivrem with a and b as the outputs, as the header allows: where the
\* quotient is zero it is written first, and the remainder is read from it, unless
\* the dividend is a copy.
UdivRem(x, y, copied) ==
  LET words(v) == NWords(UnsignedSigBits(v))
      Pad(res) == [quot |-> Padded(x.n, res.quot), rem |-> Padded(y.n, res.rem)]
  IN  CASE IsBignum(x.n) /\ Value(x) > Value(y) /\ UnsignedSigBits(y) > 1 ->
             Pad(BignumDiv(x.w, words(x), y.w, words(y)))
        [] IsBignum(x.n) /\ Value(x) < Value(y) /\ ~copied ->
             [quot |-> FromInt(x.n, 0), rem |-> FromInt(y.n, 0)]
        [] OTHER -> [quot |-> Udiv(x, y), rem |-> Urem(x, y)]

InBoth(op, res) ==
  /\ Called(op, 0, a.n)
  /\ a' = res.quot /\ b' = res.rem
  /\ UNCHANGED out

midint_udivrem ==
  Divisible /\ InBoth(DivName("udivrem", "udivrem_long", b), UdivRem(a, b, FALSE))

\* midint_sdivrem: a negative operand is negated into a copy.
SdivRem(x, y) ==
  LET p == Magnitude(x)
      q == Magnitude(y)
      Signed(res) ==
        [quot |-> NegatedIf(Negative(x) # Negative(y), res.quot),
         rem  |-> NegatedIf(Negative(x), res.rem)]
  IN  Signed(UdivRem(p, q, Negative(x)))

midint_sdivrem ==
  Divisible /\ InBoth(DivName("sdivrem", "sdivrem_long", Magnitude(b)), SdivRem(a, b))
-----------------------------------------------------------------------------
(***************************************************************************)
(* Shifts and bits.  A shift by the width or more is asserted not to be.   *)
(***************************************************************************)
BitsOf(v) == 0..v.n-1

midint_shl_imm  == \E k \in BitsOf(a) : Becomes("shl", k, Shl(a, k))
midint_lshr_imm == \E k \in BitsOf(a) : Becomes("lshr", k, Lshr(a, k))
midint_ashr_imm ==
  \E k \in BitsOf(a) :
    Becomes(IF k > WordBits /\ k % WordBits # 0 THEN "ashr_far" ELSE "ashr", k, Ashr(a, k))

midint_not    == Becomes("not", 0, Complement(a))
midint_negate == Becomes("negate", 0, Negate(a))

WordByWord(pairs) ==
  [a EXCEPT !.w = [i \in Idx(a.n) |-> BitByBit(pairs, a.w[i], b.w[i])]]

midint_and == SameWidth /\ Becomes("and", 0, WordByWord(BothBits))
midint_or  == SameWidth /\ Becomes("or", 0, WordByWord(EitherBit))
midint_xor == SameWidth /\ Becomes("xor", 0, WordByWord(OneBit))

midint_inc_bit  == \E k \in BitsOf(a) : Becomes("inc_bit", k, IncBit(a, k))
midint_flip_bit == \E k \in BitsOf(a) : Becomes("flip_bit", k, FlipBit(a, k))

midint_get_umax == Becomes("get_umax", 0, Init1(a.n, Base - 1, TRUE))
midint_get_smin == Becomes("get_smin", 0, Shl(Init1(a.n, 1, FALSE), a.n - 1))
midint_get_smax ==
  Becomes("get_smax", 0,
    IF a.n = 1 THEN FromInt(1, 0) ELSE SubUimm(Shl(Init1(a.n, 1, FALSE), a.n - 1), 1))
-----------------------------------------------------------------------------
(***************************************************************************)
(* What the calls return that change nothing.                              *)
(***************************************************************************)
Cmp(p, q) == CASE p < q -> -1 [] p > q -> 1 [] OTHER -> 0

\* cmp_bignums: from the last words down, which are taken to be of the same
\* place, until b has none left.
CmpBignums(v, u) ==
  LET at(i) == <<Top(v) - i, Top(u) - i>>
      word(z, i) == IF i \in DOMAIN z.w THEN z.w[i] ELSE 0
      differ == {i \in 0..Top(u) : word(v, at(i)[1]) # word(u, at(i)[2])}
  IN  IF differ = {} THEN 0
      ELSE Cmp(word(v, at(Min(differ))[1]), word(u, at(Min(differ))[2]))

CmpDiffSizes(v, u) ==
  IF IsBignum(v.n) /\ IsBignum(u.n) THEN CmpBignums(v, u)
  ELSE IF IsBignum(v.n) /\ UnsignedSigBits(v) > WordBits THEN 1
  ELSE IF IsBignum(u.n) /\ UnsignedSigBits(u) > WordBits THEN -1
  ELSE Cmp(v.w[0], u.w[0])

\* midint_signed_cmp compares the sign extended words as unsigned ones.
SignedCmp(v, u) ==
  IF ~IsBignum(v.n) THEN Cmp(SignExtWord(v.w[0], v.n), SignExtWord(u.w[0], u.n))
  ELSE IF Negative(v) # Negative(u) THEN IF Negative(v) THEN -1 ELSE 1
  ELSE CmpBignums(v, u)

\* The loops of these leave out the word before the last.
LowWords(v) == 0..Top(v)-2
IsAllOnes(v) ==
  v.w[Top(v)] = 2^LastBits(v.n) - 1 /\ \A i \in LowWords(v) : v.w[i] = Base - 1
IsSmin(v) ==
  LET top == v.w[Top(v)] = 2^(LastBits(v.n) - 1)
  IN  IF IsBignum(v.n) THEN ~top /\ \A i \in LowWords(v) : v.w[i] = 0 ELSE top

IsSignedMin(v) ==
  v.w[Top(v)] = 2^(LastBits(v.n) - 1) /\ \A i \in 0..Top(v)-1 : v.w[i] = 0

IsWordPow2(word) == word # 0 /\ BitByBit(BothBits, word, word - 1) = 0
IsPow2(v) ==
  \E i \in Idx(v.n) : IsWordPow2(v.w[i]) /\ \A j \in Idx(v.n) \ {i} : v.w[j] = 0

ToSint(v) ==
  LET word == IF IsBignum(v.n) THEN v.w[0] ELSE SignExtWord(v.w[0], v.n)
  IN  IF word < Base \div 2 THEN word ELSE word - Base

Query ==
  \/ \E k \in BitsOf(a) : Returns("get_bit", k, GetBit(a, k))
  \/ Returns("is_zero", 0, Num(\A i \in Idx(a.n) : a.w[i] = 0))
  \/ Returns("is_signed_min", 0, Num(IsSignedMin(a)))
  \/ Returns("is_all_ones", 0, Num(IsAllOnes(a)))
  \/ Returns("is_negative", 0, Num(Negative(a)))
  \/ Returns("is_pow2", 0, Num(IsPow2(a)))
  \/ \E k \in Imms :
       Returns("unsigned_cmp_imm", k,
               IF UnsignedSigBits(a) > WordBits THEN 1 ELSE Cmp(a.w[0], k))
  \/ UnsignedSigBits(a) <= WordBits /\ Returns("to_uint", 0, a.w[0])
  \/ SignedSigBits(a) <= WordBits /\ Returns("to_sint", 0, ToSint(a))
  \/ Returns("unsigned_cmp_diff_sizes", 0, CmpDiffSizes(a, b))
  \/ /\ SameWidth
     /\ \/ Returns("is_eq", 0, Num(a = b))
        \/ Returns("unsigned_cmp", 0, CmpBignums(a, b))
        \/ Returns("signed_cmp", 0, SignedCmp(a, b))
  \/ Returns("is_smin", 0, Num(IsSmin(a)))
-----------------------------------------------------------------------------
Init ==
  /\ \E n, m \in Widths : a = FromInt(n, 0) /\ b = FromInt(m, 0)
  /\ call = [op |-> "zero", k |-> 0, n |-> a.n]
  /\ out = 0

Next ==
  \/ midint_init \/ midint_copy \/ midint_assign \/ midint_assign_uimm \/ midint_ext
  \/ midint_add \/ midint_sub \/ midint_mul
  \/ midint_add_uimm \/ midint_sub_uimm \/ midint_mul_uimm \/ midint_ufullmul
  \/ midint_udiv \/ midint_urem \/ midint_sdiv \/ midint_srem
  \/ midint_udivrem \/ midint_sdivrem
  \/ midint_shl_imm \/ midint_lshr_imm \/ midint_ashr_imm
  \/ midint_not \/ midint_negate \/ midint_and \/ midint_or \/ midint_xor
  \/ midint_inc_bit \/ midint_flip_bit
  \/ midint_get_umax \/ midint_get_smin \/ midint_get_smax
  \/ Query

Spec == Init /\ [][Next]_vars
-----------------------------------------------------------------------------
\* The names are those of the header; a call that takes another path through
\* the code where it does not keep its promise has a name of its own.
AllOps ==
  {"init", "copy", "assign", "assign_uimm", "zext", "sext", "trunc", "trunc_in_bignum",
   "add", "add_uimm", "sub", "sub_uimm", "mul", "mul_uimm", "ufullmul",
   "udiv", "udiv_long", "urem", "urem_long", "sdiv", "sdiv_long", "srem", "srem_long",
   "udivrem", "udivrem_long", "sdivrem", "sdivrem_long",
   "shl", "lshr", "ashr", "ashr_far", "not", "negate", "and", "or", "xor",
   "inc_bit", "flip_bit", "get_umax", "get_smax", "get_smin",
   "get_bit", "is_zero", "is_signed_min", "is_smin", "is_all_ones", "is_negative", "is_pow2",
   "is_eq", "unsigned_cmp", "unsigned_cmp_imm", "unsigned_cmp_diff_sizes", "signed_cmp",
   "to_uint", "to_sint"}

\* The calls that are wrong for some integer of n bits.
Broken(n) ==
  LET words == NWords(n)
      Of(p, set) == IF p THEN set ELSE {}
  IN  Of(words = 1, {"signed_cmp"})
      \cup Of(words > 1, {"sext", "trunc_in_bignum", "sub_uimm", "get_smax", "is_all_ones",
                          "is_smin", "udiv_long", "urem_long", "sdiv_long", "srem_long",
                          "udivrem", "udivrem_long", "sdivrem", "sdivrem_long",
                          "unsigned_cmp_diff_sizes", "ashr_far"})
      \cup Of(words > 1 /\ n % WordBits # 0, {"to_sint"})
      \cup Of(words > 2, {"add_uimm", "negate", "sdiv", "srem"})

(***************************************************************************)
(* a and b are integers of the widths they should have, kept in the words  *)
(* those widths need, with the bits past the width zero: the representation *)
(* that midint_is_eq, midint_is_zero and every comparison rely on.         *)
(***************************************************************************)
TypeOK ==
  \A v \in {a, b} : v.n \in Widths /\ v \in AInt(v.n) /\ IsCanonical(v)

Integers_ == INSTANCE FixedInt
               WITH n <- a.n, x <- Value(a), m <- b.n, y <- Value(b)

(***************************************************************************)
(* Whatever calls are made one after another, each does to the numbers     *)
(* that the words stand for what apint.h says: no carry, borrow, partial   *)
(* product or shifted bit is lost between words, and the bits past the     *)
(* width never come back.                                                  *)
(***************************************************************************)
Implements == Integers_!Spec
=============================================================================
