------------------------------- MODULE WordsDiv -------------------------------
(***************************************************************************)
(* The division of src/apint.c: schoolbook long division on digits of half *)
(* a word (knuth_bignum_div), and the cases told apart before it.          *)
(***************************************************************************)
EXTENDS Words, FiniteSetsExt

HalfBits == WordBits \div 2

\* How many places of f are significant, up to the highest that is not zero.
Places(f) == Max({i + 1 : i \in {i \in DOMAIN f : f[i] # 0}} \cup {0})

\* unsigned_sig_bits of a word: 1 for 0.
WordSigBits(word) == CHOOSE k \in 1..WordBits : word < 2^k /\ (k = 1 \/ word >= 2^(k-1))

UnsignedSigBits(v) ==
  IF ~IsBignum(v.n) THEN WordSigBits(v.w[0])
  ELSE LET k == Places(v.w)
       IN  IF k = 0 THEN 0 ELSE WordSigBits(v.w[k-1]) + (k - 1) * WordBits

\* midint_signed_sig_bits counts the copies of the sign from the end of the
\* last word, not from the width; bits past the width are never ones.
SignedSigBits(v) ==
  LET sign == IF Negative(v) THEN Base - 1 ELSE 0
      inner == {i \in DOMAIN v.w : v.w[i] # sign}
      flipped(word) == IF sign = 0 THEN word ELSE Base - 1 - word
      copies == IF inner = {} THEN IF IsBignum(v.n) THEN v.n ELSE WordBits
                ELSE (Top(v) - Max(inner)) * WordBits
                       + (WordBits - WordSigBits(flipped(v.w[Max(inner)])))
  IN  v.n - copies + 1

\* convert_to_u32_digits
Digits(w, words) ==
  [i \in 0..2*words-1 |-> IF i % 2 = 0 THEN w[i \div 2] % Half ELSE w[i \div 2] \div Half]

FromDigits(d, words) ==
  [i \in 0..words-1 |-> d[2*i] + d[2*i + 1] * Half]

\* x, all digits but the last, shifted left by s bits.
ShiftedDigits(x, s) ==
  [i \in DOMAIN x |->
     ((x[i] * 2^s) % Half) + (IF i = 0 THEN 0 ELSE x[i-1] \div 2^(HalfBits - s))]
-----------------------------------------------------------------------------
(***************************************************************************)
(* One turn of the loop of knuth_bignum_div, for the digit j of the        *)
(* quotient: st holds the dividend u that is left and the quotient q.      *)
(***************************************************************************)
Guess(u, v, n, j) ==
  LET dividend == u[j+n] * Half + u[j+n-1]
      qp == dividend \div v[n-1]
      rp == dividend % v[n-1]
      TooBig(q, r) ==
        q = Half \/ (q * v[n-2]) % Base > (Half * r + u[j+n-2]) % Base
  IN  IF ~TooBig(qp, rp) THEN qp
      ELSE IF rp + v[n-1] < Half /\ TooBig(qp - 1, rp + v[n-1]) THEN qp - 2
      ELSE qp - 1

\* The borrow is a signed word: when a digit wraps, the high half of subres
\* is all ones and takes the borrow below zero.
Subtracted(u, v, n, j, qp) ==
  LET subres(i, borrow) == (u[j+i] - borrow - ((qp * v[i]) % Half)) % Base
      borrow[i \in 0..n] ==
        IF i = 0 THEN 0
        ELSE (((qp * v[i-1]) % Base) \div Half) - (subres(i-1, borrow[i-1]) \div Half)
  IN  [u |-> [i \in DOMAIN u |->
                CASE i \in j..j+n-1 -> subres(i - j, borrow[i - j]) % Half
                  [] i = j + n      -> (u[i] - borrow[n]) % Half
                  [] OTHER          -> u[i]],
       neg |-> u[j+n] < borrow[n]]

AddedBack(u, v, n, j) ==
  LET sum(i, carry) == (u[j+i] + v[i] + Num(carry)) % Half
      limit(i) == Min({u[j+i], v[i]})
      carry[i \in 0..n] ==
        /\ i > 0
        /\ LET new == sum(i-1, carry[i-1])
           IN  new < limit(i-1) \/ (carry[i-1] /\ new = limit(i-1))
  IN  [i \in DOMAIN u |->
         CASE i \in j..j+n-1 -> sum(i - j, carry[i - j])
           [] i = j + n      -> (u[i] + Num(carry[n])) % Half
           [] OTHER          -> u[i]]

Turn(st, v, n, j) ==
  LET qp == Guess(st.u, v, n, j)
      sub == Subtracted(st.u, v, n, j, qp)
      digit == IF sub.neg THEN qp - 1 ELSE qp
  IN  [u |-> IF sub.neg THEN AddedBack(sub.u, v, n, j) ELSE sub.u,
       q |-> [st.q EXCEPT ![j] = digit % Half]]

\* The divisor is shifted until its highest bit is set, the dividend with it
\* and, in the end, the remainder back.
Knuth(u, v, q, m, n) ==
  LET s == HalfBits - WordSigBits(v[n-1])
      v1 == ShiftedDigits(v, s)
      turns[k \in 0..m+1] ==
        IF k = 0 THEN [u |-> ShiftedDigits(u, s), q |-> q]
        ELSE Turn(turns[k-1], v1, n, m + 1 - k)
      left == turns[m+1].u
  IN  [q |-> turns[m+1].q,
       r |-> [i \in DOMAIN v |->
                IF i >= n THEN 0
                ELSE (left[i] \div 2^s)
                       + (IF i = n - 1 THEN 0 ELSE ((left[i+1] * 2^(HalfBits - s)) % Half))]]

\* The division by a single digit.
ShortForgetting(u, divisor, q, m) ==
  [q |-> [i \in DOMAIN q |-> IF i <= m THEN u[i] \div divisor ELSE q[i]],
   rem |-> u[0] % divisor]

Short(u, divisor, q, m) ==
  LET turns[k \in 0..m+1] ==
        IF k = 0 THEN [rem |-> 0, q |-> q]
        ELSE LET i == m + 1 - k
                 partial == turns[k-1].rem * Half + u[i]
             IN  [rem |-> partial % divisor,
                  q |-> [turns[k-1].q EXCEPT ![i] = (partial \div divisor) % Half]]
  IN  [q |-> turns[m+1].q, rem |-> turns[m+1].rem]

ByDigit(res, v) ==
  [q |-> res.q, r |-> [i \in DOMAIN v |-> IF i = 0 THEN res.rem ELSE 0]]

InWords(res, a_words, b_words) ==
  [quot |-> FromDigits(res.q, a_words), rem |-> FromDigits(res.r, b_words)]

\* bignum_div on the first words of a and of b.
BignumDiv(a, a_words, b, b_words) ==
  LET u == [i \in 0..2*a_words |-> IF i = 2*a_words THEN 0 ELSE Digits(a, a_words)[i]]
      v == Digits(b, b_words)
      q == [i \in 0..2*a_words-1 |-> 0]
      n == Places(v)
      m == Places(u) - n
  IN  InWords(IF n = 1 THEN ByDigit(Short(u, v[0], q, m), v) ELSE Knuth(u, v, q, m, n),
              a_words, b_words)

Padded(n, w) == [n |-> n, w |-> [i \in Idx(n) |-> IF i \in DOMAIN w THEN w[i] ELSE 0]]
-----------------------------------------------------------------------------
\* midint_nip_udiv and midint_nip_urem, for a divisor that is not zero.
Udiv(a, b) ==
  LET a_words == NWords(UnsignedSigBits(a))
      b_words == NWords(UnsignedSigBits(b))
  IN  IF ~IsBignum(a.n)              THEN Init1(a.n, a.w[0] \div b.w[0], FALSE)
      ELSE IF a_words = 0            THEN Init1(a.n, 0, FALSE)
      ELSE IF UnsignedSigBits(b) = 1 THEN a
      ELSE IF Value(a) < Value(b)    THEN Init1(a.n, 0, FALSE)
      ELSE IF a = b                  THEN Init1(a.n, 1, FALSE)
      ELSE IF a_words = 1            THEN Init1(a.n, a.w[0] \div b.w[0], FALSE)
      ELSE Padded(a.n, BignumDiv(a.w, a_words, b.w, b_words).quot)

Urem(a, b) ==
  LET a_words == NWords(UnsignedSigBits(a))
      b_words == NWords(UnsignedSigBits(b))
  IN  IF ~IsBignum(a.n)              THEN Init1(a.n, a.w[0] % b.w[0], FALSE)
      ELSE IF a_words = 0            THEN Init1(a.n, 0, FALSE)
      ELSE IF UnsignedSigBits(b) = 1 THEN Init1(a.n, 0, FALSE)
      ELSE IF Value(a) < Value(b)    THEN a
      ELSE IF a = b                  THEN Init1(a.n, 0, FALSE)
      ELSE IF a_words = 1            THEN Init1(a.n, a.w[0] % b.w[0], FALSE)
      ELSE Padded(a.n, BignumDiv(a.w, a_words, b.w, b_words).rem)

NegatedIf(p, v) == IF p THEN Negate(v) ELSE v

Magnitude(v) == NegatedIf(Negative(v), v)

\* midint_nip_sdiv and midint_nip_srem
Sdiv(a, b) == NegatedIf(Negative(a) # Negative(b), Udiv(Magnitude(a), Magnitude(b)))
Srem(a, b) == NegatedIf(Negative(a), Urem(Magnitude(a), Magnitude(b)))
-----------------------------------------------------------------------------
(***************************************************************************)
(* midint_ext.  Between integers of several words, a last word that is cut *)
(* off is masked with the whole new width, a shift past the word where     *)
(* that is more than one; and words are only ever added, so that the sign  *)
(* is not looked at and the last word is not masked.                       *)
(***************************************************************************)
ExtInBignum(v, n, sign) ==
  LET resized == [n |-> n, w |-> [i \in Idx(n) |->
                    IF i \in DOMAIN v.w THEN v.w[i] ELSE IF sign THEN Base - 1 ELSE 0]]
  IN  IF n >= v.n THEN {resized}
      ELSE {[resized EXCEPT !.w[Top(resized)] = last] :
              last \in {resized.w[Top(resized)] % 2^(n % WordBits), resized.w[Top(resized)]}}

Ext(v, n, sign) ==
  CASE IsBignum(v.n) /\ IsBignum(n) -> ExtInBignum(v, n, sign)
    [] ~IsBignum(v.n) /\ IsBignum(n) -> {Init1(n, IF sign THEN SignExtWord(v.w[0], v.n) ELSE v.w[0], sign)}
    [] OTHER -> LET grown == ~IsBignum(v.n) /\ n > v.n /\ sign
                IN  {FromInt(n, (IF grown THEN SignExtWord(v.w[0], v.n) ELSE v.w[0]) % 2^n)}
=============================================================================
