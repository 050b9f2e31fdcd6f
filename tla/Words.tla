-------------------------------- MODULE Words --------------------------------
(***************************************************************************)
(* The arithmetic of src/apint.c on integers of any width, kept as words   *)
(* with the least significant first.  An integer of one word is kept in    *)
(* the struct itself; what the code does to it is what its loops do to one *)
(* word, except where it is told apart here.  The bits of the last word    *)
(* past the width are meant to be zero.                                    *)
(***************************************************************************)
EXTENDS Integers

CONSTANT WordBits  \* midint_word_n_bits, 64 in the code

ASSUME WordBitsAssumption == WordBits \in Nat \ {0} /\ WordBits % 2 = 0

Base == 2^WordBits
Word == 0..Base-1
Num(p) == IF p THEN 1 ELSE 0

IsBignum(n) == n > WordBits
NWords(n) == (n + WordBits - 1) \div WordBits
LastBits(n) == ((n - 1) % WordBits) + 1

Idx(n) == 0..NWords(n)-1
Top(v) == NWords(v.n) - 1

\* What a one in word i stands for.
Place(i) == 2^(i * WordBits)

\* The integers of n bits, the words of mid_APInt as they may be in memory.
AInt(n) == [n : {n}, w : [Idx(n) -> Word]]

FromInt(n, x) == [n |-> n, w |-> [i \in Idx(n) |-> (x \div Place(i)) % Base]]

\* What the first words of w stand for, none of them to all m.
Sums(w, m) ==
  LET sum[i \in 0..m] == IF i = 0 THEN 0 ELSE sum[i-1] + w[i-1] * Place(i-1)
  IN  sum

Value(v) == Sums(v.w, NWords(v.n))[NWords(v.n)]

IsCanonical(v) == v.w[Top(v)] < 2^LastBits(v.n)

\* midint_mask_extra_bits
Masked(v) == [v EXCEPT !.w[Top(v)] = @ % 2^LastBits(v.n)]

GetBit(v, k) == (v.w[k \div WordBits] \div 2^(k % WordBits)) % 2

Negative(v) == GetBit(v, v.n - 1) = 1

\* sign_ext_word to a whole word, or to fewer bits.
SignExtWord(word, bits) ==
  (IF (word \div 2^(bits - 1)) % 2 = 1 THEN word - 2^bits ELSE word) % Base

\* midint_init_arr of one word, which the constructors all come down to.
Init1(n, word, sign) ==
  LET fill == IF sign /\ word >= Base \div 2 THEN Base - 1 ELSE 0
  IN  Masked([n |-> n, w |-> [i \in Idx(n) |-> IF i = 0 THEN word ELSE fill]])

\* The operators & | ^ on words: pairs are the pairs of bits that make a one.
BothBits == {<<1, 1>>}
EitherBit == {<<0, 1>>, <<1, 0>>, <<1, 1>>}
OneBit == {<<0, 1>>, <<1, 0>>}

BitByBit(pairs, x, y) ==
  LET bit(z, k) == (z \div 2^k) % 2
      sum[k \in 0..WordBits] ==
        IF k = 0 THEN 0
        ELSE sum[k-1] + (IF <<bit(x, k-1), bit(y, k-1)>> \in pairs THEN 2^(k-1) ELSE 0)
  IN  sum[WordBits]
-----------------------------------------------------------------------------
\* midint_add: the carry out of a word is seen from its sum having wrapped.
Add(a, b) ==
  LET sum(i) == (a.w[i] + b.w[i]) % Base
      carry[i \in 0..NWords(a.n)] ==
        /\ i > 0
        /\ sum(i-1) < a.w[i-1] \/ (carry[i-1] /\ sum(i-1) = Base - 1)
  IN  Masked([a EXCEPT !.w = [i \in Idx(a.n) |-> (sum(i) + Num(carry[i])) % Base]])

SubBorrowingOnce(a, b) ==
  LET diff(i) == (a.w[i] - b.w[i]) % Base
      borrow(i) == i > 0 /\ diff(i-1) > a.w[i-1]
  IN  Masked([a EXCEPT !.w = [i \in Idx(a.n) |-> (diff(i) - Num(borrow(i))) % Base]])

Sub(a, b) ==
  LET diff(i) == (a.w[i] - b.w[i]) % Base
      borrow[i \in 0..NWords(a.n)] ==
        /\ i > 0
        /\ diff(i-1) > a.w[i-1] \/ (borrow[i-1] /\ diff(i-1) = 0)
  IN  Masked([a EXCEPT !.w = [i \in Idx(a.n) |-> (diff(i) - Num(borrow[i])) % Base]])

\* midint_add_uimm: the carry goes on from a word that it made all ones.
AddUimm(a, imm) ==
  LET low == (a.w[0] + imm) % Base
      carry[i \in Idx(a.n) \cup {1}] ==
        CASE i = 0 -> FALSE
          [] i = 1 -> low < imm
          [] OTHER -> carry[i-1] /\ (a.w[i-1] + Num(carry[i-1])) % Base = Base - 1
      word(i) == IF i = 0 THEN low ELSE (a.w[i] + Num(carry[i])) % Base
  IN  Masked([a EXCEPT !.w = [i \in Idx(a.n) |-> word(i)]])

\* midint_sub_uimm: in a bignum the borrow is taken from the first word too,
\* and goes on from a word that it made zero.
SubUimm(a, imm) ==
  LET low == (a.w[0] - imm) % Base
      start(i) == IF i = 0 THEN low ELSE a.w[i]
      borrow[i \in Idx(a.n)] ==
        IF i = 0 THEN IsBignum(a.n) /\ low > a.w[0]
        ELSE borrow[i-1] /\ (start(i-1) - Num(borrow[i-1])) % Base = 0
  IN  Masked([a EXCEPT !.w = [i \in Idx(a.n) |-> (start(i) - Num(borrow[i])) % Base]])

ComplementUnmasked(a) == [a EXCEPT !.w = [i \in Idx(a.n) |-> Base - 1 - a.w[i]]]
Complement(a) == Masked([a EXCEPT !.w = [i \in Idx(a.n) |-> Base - 1 - a.w[i]]])

Negate(a) == AddUimm(Complement(a), 1)

\* midint_inc_bit
IncBit(a, k) ==
  LET at == k \div WordBits
      plus[i \in Idx(a.n)] ==
        CASE i < at -> 0
          [] i = at -> 2^(k % WordBits)
          [] OTHER  -> Num(a.w[i-1] + plus[i-1] >= Base)
  IN  Masked([a EXCEPT !.w = [i \in Idx(a.n) |-> (a.w[i] + plus[i]) % Base]])

FlipBit(a, k) ==
  LET bit == 2^(k % WordBits)
  IN  [a EXCEPT !.w[k \div WordBits] = IF GetBit(a, k) = 1 THEN @ - bit ELSE @ + bit]
-----------------------------------------------------------------------------
(***************************************************************************)
(* The shifts move whole words, then bits between neighbours.  Each word   *)
(* is computed from words that are not yet overwritten.                    *)
(***************************************************************************)
Shl(a, count) ==
  LET ws == count \div WordBits
      bs == count % WordBits
      from(i) == IF i < ws THEN 0 ELSE a.w[i - ws]
      word(i) == ((from(i) * 2^bs) % Base)
                   + (IF i > ws THEN from(i-1) \div 2^(WordBits - bs) ELSE 0)
  IN  IF count = 0 THEN a
      ELSE Masked([a EXCEPT !.w = [i \in Idx(a.n) |-> word(i)]])

\* words i and i + 1 of w, shifted right into one.
Spliced(w, i, bs) == (w[i] \div 2^bs) + ((w[i+1] * 2^(WordBits - bs)) % Base)

Lshr(a, count) ==
  LET ws == count \div WordBits
      bs == count % WordBits
      last == Top(a) - ws
      word(i) == CASE i < last -> Spliced(a.w, i + ws, bs)
                   [] i = last -> a.w[i + ws] \div 2^bs
                   [] OTHER    -> 0
  IN  IF count = 0 THEN a
      ELSE Masked([a EXCEPT !.w = [i \in Idx(a.n) |-> word(i)]])

\* shift_arith_right
ArithRight(word, bs) ==
  IF word < Base \div 2 THEN word \div 2^bs
  ELSE ((word - Base) \div 2^bs) + Base

\* midint_ashr_imm: the last word that is moved is shifted where it will go,
\* not from where it is.
Ashr(a, count) ==
  LET ws == count \div WordBits
      bs == count % WordBits
      last == Top(a) - ws
      w == [a.w EXCEPT ![Top(a)] = SignExtWord(@, LastBits(a.n))]
      word(i) == CASE i < last -> Spliced(w, i + ws, bs)
                   [] i = last -> IF bs = 0 THEN w[i + ws] ELSE ArithRight(w[i], bs)
                   [] OTHER    -> IF Negative(a) THEN Base - 1 ELSE 0
  IN  IF count = 0 THEN a
      ELSE Masked([a EXCEPT !.w = [i \in Idx(a.n) |-> word(i)]])
-----------------------------------------------------------------------------
(***************************************************************************)
(* tc_multiply_part: the product of two words is put together from those   *)
(* of their halves; a carry is counted whenever the low word wraps.        *)
(***************************************************************************)
Half == 2^(WordBits \div 2)

Plus(p, word) ==
  LET low == (p.low + word) % Base
  IN  [low |-> low, high |-> p.high + Num(low < p.low)]

PlusMid(p, mid) ==
  Plus([p EXCEPT !.high = @ + mid \div Half], (mid * Half) % Base)

Times(x, y, carry) ==
  IF x = 0 \/ y = 0 THEN [low |-> carry, high |-> 0]
  ELSE LET ends == [low  |-> (x % Half) * (y % Half),
                    high |-> (x \div Half) * (y \div Half)]
       IN  Plus(PlusMid(PlusMid(ends, (x % Half) * (y \div Half)),
                        (x \div Half) * (y % Half)), carry)

\* One row: parts words of src times mul, added to those of dst from at on.
\* The carry out of the last one is its word parts.
Row(dst, at, src, mul, parts) ==
  LET term[j \in 0..parts] ==
        LET carry == IF j = 0 THEN 0 ELSE term[j-1].high
        IN  IF j = parts THEN [low |-> carry, high |-> 0]
            ELSE Plus(Times(src[j], mul, carry), dst[at + j])
  IN  [j \in 0..parts |-> term[j].low]

\* tc_full_multiply: every row with the carry out of it.
FullProduct(a, b) ==
  LET words == NWords(a.n)
      rows[i \in 0..words] ==
        IF i = 0 THEN [j \in 0..2*words-1 |-> 0]
        ELSE LET row == Row(rows[i-1], i - 1, b.w, a.w[i-1], words)
             IN  [j \in 0..2*words-1 |->
                    IF j < i - 1 \/ j > i - 1 + words THEN rows[i-1][j]
                    ELSE row[j - i + 1]]
  IN  rows[words]

MulUnmasked(a, b) ==
  LET words == NWords(a.n)
      full == FullProduct(a, b)
  IN  [a EXCEPT !.w = [j \in Idx(a.n) |-> full[j]]]

\* tc_multiply: each row is cut off at the width of the operands.
Mul(a, b) ==
  LET words == NWords(a.n)
      rows[i \in 0..words] ==
        IF i = 0 THEN [j \in Idx(a.n) |-> 0]
        ELSE LET row == Row(rows[i-1], i - 1, a.w, b.w[i-1], words - i + 1)
             IN  [j \in Idx(a.n) |-> IF j < i - 1 THEN rows[i-1][j] ELSE row[j - i + 1]]
  IN  Masked([a EXCEPT !.w = rows[words]])

\* midint_nip_mul_uimm masks one word only, and midint_mul_uimm the result.
NipMulUimm(a, imm) ==
  LET row == Row([j \in Idx(a.n) |-> 0], 0, a.w, imm, NWords(a.n))
      res == [a EXCEPT !.w = [j \in Idx(a.n) |-> row[j]]]
  IN  IF IsBignum(a.n) THEN res ELSE Masked(res)

MulUimm(a, imm) == Masked(NipMulUimm(a, imm))

(***************************************************************************)
(* midint_ufullmul into an integer of twice the width: the product takes   *)
(* twice the words, which may be one more than that integer has.           *)
(***************************************************************************)
FullMulFits(n) == IsBignum(n) => NWords(2 * n) = 2 * NWords(n)

FullMul(a, b) ==
  [n |-> 2 * a.n, w |-> [i \in Idx(2 * a.n) |-> FullProduct(a, b)[i]]]
=============================================================================
