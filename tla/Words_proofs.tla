----------------------------- MODULE Words_proofs -----------------------------
(***************************************************************************)
(* What the operations of Words do to the number that the words of an      *)
(* integer stand for, for every width of a word and of the integer: each   *)
(* gives a canonical integer, with the bits past the width zero, whose     *)
(* value is what the operation says, modulo the power of the width.        *)
(***************************************************************************)
EXTENDS Words, Arithmetic
-----------------------------------------------------------------------------
(***************************************************************************)
(* Division, and congruence: numbers that differ by a multiple.            *)
(***************************************************************************)
LEMMA DivMod ==
  ASSUME NEW m \in Nat \ {0}, NEW q \in Int, NEW r \in 0..m-1, NEW x \in Int, x = q * m + r
  PROVE  x % m = r /\ x \div m = q
<1>1. x = m * (x \div m) + (x % m) /\ x % m \in 0..m-1 /\ x \div m \in Int OBVIOUS
<1>2. PICK p \in Int, s \in 0..m-1 : x = m * p + s /\ x \div m = p /\ x % m = s BY <1>1
<1>3. m * (p - q) = r - s BY <1>2
<1>4. p = q
  <2>1. CASE p - q >= 1
    <3>1. m * (p - q) >= m BY <2>1
    <3> QED BY <1>3, <3>1
  <2>2. CASE p - q <= -1
    <3>1. m * (p - q) <= -m BY <2>2
    <3> QED BY <1>3, <3>1
  <2> QED BY <2>1, <2>2
<1>5. r = s BY <1>3, <1>4
<1> QED BY <1>2, <1>4, <1>5

\* A number is its quotient times the divisor and its remainder.
LEMMA DivModOf ==
  ASSUME NEW m \in Nat \ {0}, NEW x \in Int
  PROVE  x = (x \div m) * m + (x % m) /\ x % m \in 0..m-1 /\ x \div m \in Int
<1>1. x = m * (x \div m) + (x % m) /\ x % m \in 0..m-1 /\ x \div m \in Int OBVIOUS
<1>2. PICK p \in Int, s \in Int : x \div m = p /\ x % m = s BY <1>1
<1>3. m * p = p * m OBVIOUS
<1> QED BY <1>1, <1>2, <1>3

\* Numbers that differ by a multiple of m have the same remainder.
LEMMA Congruent ==
  ASSUME NEW m \in Nat \ {0}, NEW x \in Int, NEW k \in Int, NEW y \in Int, x = y + k * m
  PROVE  x % m = y % m
<1>1. y = (y \div m) * m + (y % m) /\ y % m \in 0..m-1 /\ y \div m \in Int BY DivModOf
<1>2. PICK q \in Int, r \in 0..m-1 : y = q * m + r /\ y % m = r BY <1>1
<1>3. PICK p \in Int : p = q + k OBVIOUS
<1>4. x = p * m + r BY <1>2, <1>3
<1>5. x % m = r
  <2>1. \A u \in Int : u = p * m + r => u % m = r BY DivMod
  <2> QED BY <1>4, <2>1
<1> QED BY <1>2, <1>5

\* A number below zero by less than m wraps to m above it.
LEMMA WrapsUnder ==
  ASSUME NEW m \in Nat \ {0}, NEW p \in Int, p < 0, p + m >= 0
  PROVE  p % m = p + m
<1>1. PICK q \in Int, r \in 0..m-1 : q = -1 /\ r = p + m OBVIOUS
<1>2. p = q * m + r BY <1>1
<1>3. \A u \in Int : u = q * m + r => u % m = r BY DivMod
<1> QED BY <1>1, <1>2, <1>3
-----------------------------------------------------------------------------
(***************************************************************************)
(* Words and the places they have in an integer.                           *)
(***************************************************************************)
LEMMA Places_ ==
  /\ WordBits \in Nat /\ WordBits >= 2
  /\ Base \in Nat /\ Base >= 2 /\ Half \in Nat /\ Half >= 2 /\ Base = Half * Half
  /\ Place(0) = 1
  /\ \A i \in Nat : Place(i) \in Nat \ {0} /\ Place(i + 1) = Place(i) * Base
<1>1. WordBits \in Nat /\ WordBits >= 2 BY WordBitsAssumption
<1>2. PICK h \in Nat : WordBits = h + h /\ h >= 1 /\ WordBits \div 2 = h
  <2>1. WordBits = (WordBits \div 2) * 2 + (WordBits % 2) /\ WordBits \div 2 \in Int
    BY <1>1, DivModOf
  <2>2. WordBits % 2 = 0 BY WordBitsAssumption
  <2>3. PICK h \in Int : WordBits \div 2 = h BY <2>1
  <2>4. WordBits = h + h BY <2>1, <2>2, <2>3
  <2>5. h \in Nat /\ h >= 1 BY <1>1, <2>4
  <2> QED BY <2>3, <2>4, <2>5
<1>3. Half = 2^h /\ 2^h \in Nat \ {0} BY <1>2, PowerOfTwo DEF Half
<1>4. Base = Half * Half BY <1>2, <1>3, PowerSum DEF Base
<1>5. Half >= 2
  <2>1. 2^1 = 2
    <3>1. 2^0 = 1 /\ 2^(0+1) = 2 * 2^0 BY PowerOfTwo
    <3> QED BY <3>1
  <2>2. 2^1 <= 2^h BY <1>2, PowerMonotone
  <2> QED BY <1>3, <2>1, <2>2
<1>6. Base >= 2 /\ Base \in Nat
  <2>1. PICK x \in Nat : x = Half BY <1>3
  <2>2. x >= 2 BY <1>5, <2>1
  <2>3. x * x >= 2 /\ x * x \in Nat BY <2>2
  <2> QED BY <1>4, <2>1, <2>3
<1>7. Place(0) = 1
  <2>1. 0 * WordBits = 0 BY <1>1
  <2>2. 2^0 = 1 OBVIOUS
  <2> QED BY <2>1, <2>2 DEF Place
<1>8. ASSUME NEW i \in Nat PROVE Place(i) \in Nat \ {0} /\ Place(i + 1) = Place(i) * Base
  <2>1. PICK w \in Nat : WordBits = w BY <1>1
  <2>2. (i + 1) * w = i * w + w /\ i * w \in Nat OBVIOUS
  <2>3. 2^(i * w + w) = 2^(i * w) * 2^w /\ 2^(i * w) \in Nat \ {0} BY <2>2, PowerSum, PowerOfTwo
  <2> QED BY <2>1, <2>2, <2>3 DEF Place, Base
<1> QED BY <1>1, <1>3, <1>4, <1>5, <1>6, <1>7, <1>8

\* A word stands for Base times as much as the one before it.
LEMMA PlaceIs ==
  ASSUME NEW i \in Nat
  PROVE  /\ Place(i) \in Nat \ {0} /\ Place(i) \in Int /\ Place(i + 1) = Place(i) * Base
         /\ Place(i + 1) \in Nat \ {0}
<1>1. i + 1 \in Nat OBVIOUS
<1>2. Place(i) \in Nat \ {0} /\ Place(i + 1) = Place(i) * Base BY Places_
<1>3. Place(i + 1) \in Nat \ {0} BY <1>1, Places_
<1> QED BY <1>2, <1>3

\* The power of a sum is the product of the powers.
LEMMA PowersOf ==
  ASSUME NEW m \in Nat, NEW n \in Nat
  PROVE  2^m \in Nat \ {0} /\ 2^n \in Nat \ {0} /\ 2^(m + n) = 2^m * 2^n
BY PowerOfTwo, PowerSum

\* The words of n bits, and the bits of the last one.
LEMMA WidthOf ==
  ASSUME NEW n \in Nat \ {0}
  PROVE  /\ NWords(n) \in Nat \ {0} /\ LastBits(n) \in 1..WordBits
         /\ n = (NWords(n) - 1) * WordBits + LastBits(n)
         /\ 2^n = Place(NWords(n) - 1) * 2^LastBits(n)
         /\ Base = 2^LastBits(n) * 2^(WordBits - LastBits(n))
         /\ 2^LastBits(n) \in Nat /\ 2^LastBits(n) >= 2 /\ 2^n \in Nat /\ 2^n >= 2
         /\ 2^(WordBits - LastBits(n)) \in Nat \ {0}
         /\ NWords(n) = 1 <=> ~IsBignum(n)
<1>1. PICK w \in Nat : WordBits = w /\ w >= 2 BY Places_
<1>2. PICK q \in Int, r \in 0..w-1 : n - 1 = q * w + r /\ (n - 1) % w = r
  <2>1. n - 1 \in Int /\ w \in Nat \ {0} BY <1>1
  <2> QED BY <2>1, DivModOf
<1>3. q >= 0
  <2>1. SUFFICES ASSUME q <= -1 PROVE FALSE OBVIOUS
  <2>2. q * w <= -w BY <1>1, <2>1
  <2> QED BY <1>2, <2>2
<1>4. NWords(n) = q + 1
  <2>1. n + w - 1 = (q + 1) * w + r BY <1>2
  <2>2. n + w - 1 \in Int /\ q + 1 \in Int /\ w \in Nat \ {0} BY <1>1
  <2>3. (n + w - 1) \div w = q + 1 BY <2>1, <2>2, DivMod
  <2> QED BY <1>1, <2>3 DEF NWords
<1>5. LastBits(n) = r + 1 BY <1>1, <1>2 DEF LastBits
<1>6. n = q * w + (r + 1) BY <1>2
<1>7. q * w \in Nat BY <1>3
<1>8. 2^n = 2^(q * w) * 2^(r + 1) /\ 2^(r + 1) \in Nat \ {0} BY <1>6, <1>7, PowersOf
<1>9. Base = 2^(r + 1) * 2^(w - (r + 1)) /\ 2^(w - (r + 1)) \in Nat \ {0}
  <2>1. w = (r + 1) + (w - (r + 1)) /\ w - (r + 1) \in Nat /\ r + 1 \in Nat BY <1>1
  <2>2. /\ 2^((r + 1) + (w - (r + 1))) = 2^(r + 1) * 2^(w - (r + 1))
        /\ 2^(w - (r + 1)) \in Nat \ {0}
    BY <2>1, PowersOf
  <2> QED BY <1>1, <2>1, <2>2 DEF Base
<1>10. Place(q + 1 - 1) = 2^(q * w)
  <2>1. q + 1 - 1 = q OBVIOUS
  <2> QED BY <1>1, <2>1 DEF Place
<1>11. \A k \in Nat \ {0} : 2^k \in Nat /\ 2^k >= 2
  <2>1. TAKE k \in Nat \ {0}
  <2>2. k - 1 \in Nat /\ k - 1 + 1 = k OBVIOUS
  <2>3. 2^(k - 1) \in Nat \ {0} /\ 2^(k - 1 + 1) = 2 * 2^(k - 1) BY <2>2, PowerOfTwo
  <2> QED BY <2>2, <2>3
<1>12. q + 1 = 1 <=> n <= w
  <2>1. CASE q = 0 BY <1>2, <2>1
  <2>2. CASE q >= 1
    <3>1. q * w >= w BY <2>2
    <3> QED BY <1>2, <2>2, <3>1
  <2> QED BY <1>3, <2>1, <2>2
<1>13. ~IsBignum(n) <=> n <= w BY <1>1 DEF IsBignum
<1>14. r + 1 \in 1..w /\ r + 1 \in Nat \ {0} /\ n \in Nat \ {0} OBVIOUS
<1>15. n = (q + 1 - 1) * w + (r + 1)
  <2>1. q + 1 - 1 = q OBVIOUS
  <2> QED BY <1>6, <2>1
<1>16. 2^(r + 1) \in Nat /\ 2^(r + 1) >= 2 /\ 2^n \in Nat /\ 2^n >= 2 BY <1>11, <1>14
<1> QED BY <1>1, <1>3, <1>4, <1>5, <1>8, <1>9, <1>10, <1>12, <1>13, <1>14, <1>15, <1>16
-----------------------------------------------------------------------------
(***************************************************************************)
(* Induction, for a property given as the set of the numbers that have it. *)
(***************************************************************************)
LEMMA Induct ==
  ASSUME NEW m \in Nat, NEW S, 0 \in S, \A i \in 0..m-1 : i \in S => i + 1 \in S
  PROVE  \A i \in 0..m : i \in S
<1> DEFINE T == {i \in Nat : i <= m /\ i \notin S}
<1>1. SUFFICES ASSUME T # {} PROVE FALSE OBVIOUS
<1>2. PICK k \in T : \A i \in T : k <= i BY <1>1, NatMin
<1>3. k \in Nat /\ k <= m /\ k \notin S BY <1>2
<1>4. PICK i \in Nat : k = i + 1
  <2>1. k # 0 BY <1>3
  <2>2. k - 1 \in Nat /\ k = (k - 1) + 1 BY <1>3, <2>1
  <2> QED BY <2>2
<1>5. i \in 0..m-1 /\ i <= m /\ ~(k <= i) BY <1>3, <1>4
<1>6. i \in S BY <1>2, <1>5
<1> QED BY <1>3, <1>4, <1>5, <1>6
-----------------------------------------------------------------------------
(***************************************************************************)
(* What words stand for.                                                   *)
(***************************************************************************)
IsSums(s, w, m) ==
  s = [i \in 0..m |-> IF i = 0 THEN 0 ELSE s[i-1] + w[i-1] * Place(i-1)]

\* What the first words stand for grows by a word in its place.
LEMMA SumsAre ==
  ASSUME NEW m \in Nat, NEW w \in [0..m-1 -> Int]
  PROVE  /\ Sums(w, m) \in [0..m -> Int] /\ Sums(w, m)[0] = 0
         /\ \A i \in 0..m-1 : Sums(w, m)[i+1] = Sums(w, m)[i] + w[i] * Place(i)
<1> DEFINE s == CHOOSE s : IsSums(s, w, m)
<1>1. Sums(w, m) = s BY DEF Sums, IsSums
<1>2. ASSUME NEW i \in 0..m-1 PROVE w[i] \in Int /\ Place(i) \in Int
  <2>1. i \in Nat OBVIOUS
  <2>2. Place(i) \in Int BY <2>1, PlaceIs
  <2>3. w[i] \in Int OBVIOUS
  <2> QED BY <2>2, <2>3
<1>3. \E t : IsSums(t, w, m)
  <2> DEFINE next == [k \in 0+1..m |-> [x \in Int |-> x + w[k-1] * Place(k-1)]]
  <2>1. next \in [0+1..m -> [Int -> Int]]
    <3>1. ASSUME NEW k \in 0+1..m, NEW x \in Int PROVE x + w[k-1] * Place(k-1) \in Int
      <4>1. k - 1 \in 0..m-1 OBVIOUS
      <4>2. PICK y \in Int, p \in Int : y = w[k-1] /\ p = Place(k-1) BY <1>2, <4>1
      <4>3. x + y * p \in Int OBVIOUS
      <4> QED BY <4>2, <4>3
    <3> QED BY <3>1
  <2>2. PICK f \in [0..m -> Int] :
          f = [k \in 0..m |-> IF k = 0 THEN 0 ELSE next[k][f[k-1]]]
    <3> HIDE DEF next
    <3>1. \E f \in [0..m -> Int] : Iteration(f, 0, m, 0, next)
      <4>1. 0 \in Int /\ m \in Int OBVIOUS
      <4> QED BY <2>1, <4>1, Iterates
    <3> QED BY <3>1 DEF Iteration
  <2>3. ASSUME NEW k \in 0..m, k # 0
        PROVE  next[k][f[k-1]] = f[k-1] + w[k-1] * Place(k-1)
    <3>1. k - 1 \in 0..m /\ k \in 0+1..m BY <2>3
    <3>2. f[k-1] \in Int BY <3>1
    <3> QED BY <3>1, <3>2
  <2>4. IsSums(f, w, m)
    <3> HIDE DEF next
    <3> QED BY <2>2, <2>3 DEF IsSums
  <2> QED BY <2>4
<1>4. IsSums(s, w, m) BY <1>3
<1> HIDE DEF s
<1>5. s[0] = 0
  <2>1. 0 \in 0..m OBVIOUS
  <2> QED BY <1>4, <2>1 DEF IsSums
<1>6. ASSUME NEW i \in 0..m-1 PROVE s[i+1] = s[i] + w[i] * Place(i)
  <2>1. PICK k \in 1..m : k = i + 1 OBVIOUS
  <2>2. k \in 0..m /\ k # 0 /\ k - 1 = i BY <2>1
  <2>3. s[k] = s[k-1] + w[k-1] * Place(k-1) BY <1>4, <2>2 DEF IsSums
  <2> QED BY <2>1, <2>2, <2>3
<1>7. s \in [0..m -> Int]
  <2> DEFINE S == {i \in 0..m : s[i] \in Int}
  <2>1. 0 \in S BY <1>5
  <2>2. ASSUME NEW i \in 0..m-1, i \in S PROVE i + 1 \in S
    <3>1. PICK x \in Int, y \in Int, p \in Int : x = s[i] /\ y = w[i] /\ p = Place(i)
      BY <1>2, <2>2
    <3>2. s[i+1] = x + y * p BY <1>6, <3>1
    <3>3. x + y * p \in Int OBVIOUS
    <3>4. i + 1 \in 0..m OBVIOUS
    <3> QED BY <3>2, <3>3, <3>4
  <2> HIDE DEF S
  <2>3. \A i \in 0..m : i \in S BY <2>1, <2>2, Induct
  <2>4. \A i \in 0..m : s[i] \in Int BY <2>3 DEF S
  <2>5. s = [i \in 0..m |-> s[i]] BY <1>4 DEF IsSums
  <2> QED BY <2>4, <2>5
<1> QED BY <1>1, <1>5, <1>6, <1>7

\* What the first words stand for is a number.
LEMMA SumsInt ==
  ASSUME NEW m \in Nat, NEW w \in [0..m-1 -> Int], NEW i \in 0..m
  PROVE  Sums(w, m)[i] \in Int
BY SumsAre

\* A word is a number less than Base.
LEMMA WordIs == \A x \in Word : x \in Nat /\ x \in Int /\ x \in 0..Base-1 /\ x < Base
<1>1. Base \in Int BY Places_
<1> QED BY <1>1 DEF Word

\* The next sum, as numbers that can be reckoned with.
LEMMA SumsStep ==
  ASSUME NEW m \in Nat, NEW w \in [0..m-1 -> Int], NEW i \in 0..m-1
  PROVE  /\ Sums(w, m)[i] \in Int /\ Sums(w, m)[i+1] \in Int
         /\ w[i] \in Int /\ Place(i) \in Nat \ {0} /\ Place(i+1) = Place(i) * Base
         /\ Sums(w, m)[i+1] = Sums(w, m)[i] + w[i] * Place(i)
<1>1. i \in 0..m /\ i + 1 \in 0..m /\ i \in Nat OBVIOUS
<1> QED BY ZenonT(40), <1>1, SumsAre, Places_

\* The sums depend on the words they are of only.
LEMMA SumsSame ==
  ASSUME NEW m \in Nat, NEW n \in Nat, NEW w \in [0..m-1 -> Int], NEW v \in [0..n-1 -> Int],
         NEW k \in 0..m, k <= n, \A i \in 0..k-1 : w[i] = v[i]
  PROVE  Sums(w, m)[k] = Sums(v, n)[k]
<1> DEFINE S == {i \in 0..k : Sums(w, m)[i] = Sums(v, n)[i]}
<1>1. 0 \in S BY SumsAre
<1>2. ASSUME NEW i \in 0..k-1, i \in S PROVE i + 1 \in S
  <2>1. i \in 0..m-1 /\ i \in 0..n-1 /\ i + 1 \in 0..k OBVIOUS
  <2>2. Sums(w, m)[i+1] = Sums(w, m)[i] + w[i] * Place(i) BY <2>1, SumsStep
  <2>3. Sums(v, n)[i+1] = Sums(v, n)[i] + v[i] * Place(i) BY <2>1, SumsStep
  <2> QED BY <1>2, <2>1, <2>2, <2>3
<1> HIDE DEF S
<1>3. k \in Nat OBVIOUS
<1>4. \A i \in 0..k : i \in S BY <1>1, <1>2, <1>3, Induct
<1>5. k \in S BY <1>4
<1> QED BY <1>5 DEF S

\* The first words stand for less than what comes after them.
LEMMA SumsBound ==
  ASSUME NEW m \in Nat, NEW w \in [0..m-1 -> Word]
  PROVE  \A i \in 0..m : Sums(w, m)[i] \in 0..Place(i)-1
<1> DEFINE S == {i \in 0..m : Sums(w, m)[i] \in 0..Place(i)-1}
<1>0. w \in [0..m-1 -> Int] /\ \A i \in 0..m-1 : w[i] \in 0..Base-1
  <2>1. \A i \in 0..m-1 : w[i] \in 0..Base-1 BY DEF Word
  <2>2. \A i \in 0..m-1 : w[i] \in Int BY <2>1
  <2> QED BY <2>1, <2>2
<1>1. 0 \in S
  <2>1. Sums(w, m)[0] = 0 BY <1>0, SumsAre
  <2>2. Place(0) = 1 BY Places_
  <2> QED BY <2>1, <2>2
<1>2. ASSUME NEW i \in 0..m-1, i \in S PROVE i + 1 \in S
  <2>1. PICK x \in Int, y \in Int, p \in Nat, base \in Nat :
          x = Sums(w, m)[i] /\ y = w[i] /\ p = Place(i) /\ base = Base
    BY <1>0, SumsStep, Places_
  <2>2. Sums(w, m)[i+1] = x + y * p /\ Place(i+1) = p * base BY ZenonT(40), <1>0, <2>1, SumsStep
  <2>3. x \in 0..p-1 /\ y \in 0..base-1 BY <1>0, <1>2, <2>1
  <2>4. y * p <= (base - 1) * p /\ y * p >= 0 BY <2>3
  <2>5. (base - 1) * p = p * base - p OBVIOUS
  <2>6. x + y * p \in 0..p*base-1 BY <2>3, <2>4, <2>5
  <2>7. i + 1 \in 0..m OBVIOUS
  <2> QED BY <2>2, <2>6, <2>7
<1> HIDE DEF S
<1>3. \A i \in 0..m : i \in S BY <1>1, <1>2, Induct
<1> QED BY <1>3 DEF S

\* Words put together with a carry from each into the next.
Chained(w, u, v, c, m) == \A i \in 0..m-1 : w[i] + c[i+1] * Base = u[i] + v[i] + c[i]

ChainedSums(w, u, v, c, m) ==
  \A i \in 0..m : Sums(w, m)[i] + c[i] * Place(i) = Sums(u, m)[i] + Sums(v, m)[i] + c[0]

\* Words added one by one, with what is carried from each to the next, stand for
\* the sum.
LEMMA Chain ==
  ASSUME NEW m \in Nat, NEW w \in [0..m-1 -> Int], NEW u \in [0..m-1 -> Int],
         NEW v \in [0..m-1 -> Int], NEW c \in [0..m -> Int],
         Chained(w, u, v, c, m)
  PROVE  ChainedSums(w, u, v, c, m)
<1> DEFINE S == {i \in 0..m : Sums(w, m)[i] + c[i] * Place(i)
                                = Sums(u, m)[i] + Sums(v, m)[i] + c[0]}
<1>1. 0 \in S
  <2>1. Sums(w, m)[0] = 0 /\ Sums(u, m)[0] = 0 /\ Sums(v, m)[0] = 0 BY SumsAre
  <2>2. Place(0) = 1 BY Places_
  <2>3. 0 \in 0..m OBVIOUS
  <2>4. c[0] \in Int BY <2>3
  <2>5. c[0] * 1 = 0 + 0 + c[0] BY <2>4
  <2> QED BY <2>1, <2>2, <2>3, <2>5
<1>2. ASSUME NEW i \in 0..m-1, i \in S PROVE i + 1 \in S
  <2>1. PICK p \in Int, base \in Int, x \in Int, y \in Int, z \in Int :
          /\ p = Place(i) /\ base = Base /\ x = w[i] /\ y = u[i] /\ z = v[i]
    <3>1. w[i] \in Int /\ u[i] \in Int /\ v[i] \in Int OBVIOUS
    <3>3. Place(i) \in Int
      <4>1. i \in Nat OBVIOUS
      <4> QED BY <4>1, PlaceIs
    <3>2. Base \in Int BY Places_
    <3> QED BY <3>1, <3>2, <3>3
  <2>2. PICK d \in Int, e \in Int, c0 \in Int : d = c[i] /\ e = c[i+1] /\ c0 = c[0]
    <3>1. i \in 0..m /\ i + 1 \in 0..m /\ 0 \in 0..m OBVIOUS
    <3> QED BY <3>1
  <2>3. PICK sw \in Int, su \in Int, sv \in Int :
          sw = Sums(w, m)[i] /\ su = Sums(u, m)[i] /\ sv = Sums(v, m)[i]
    BY SumsStep
  <2>4. x + e * base = y + z + d BY <2>1, <2>2 DEF Chained
  <2>5. sw + d * p = su + sv + c0 BY <1>2, <2>1, <2>2, <2>3
  <2>6. /\ Sums(w, m)[i+1] = sw + x * p /\ Sums(u, m)[i+1] = su + y * p
        /\ Sums(v, m)[i+1] = sv + z * p /\ Place(i+1) = p * base
    BY <2>1, <2>3, SumsStep
  <2>7. (x + e * base) * p = (y + z + d) * p BY <2>4
  <2>8. x * p + e * (p * base) = y * p + z * p + d * p BY <2>7
  <2>9. sw + x * p + e * (p * base) = su + y * p + (sv + z * p) + c0
    <3>1. PICK dp \in Int, ep \in Int, xp \in Int, yp \in Int, zp \in Int :
            dp = d * p /\ ep = e * (p * base) /\ xp = x * p /\ yp = y * p /\ zp = z * p
      OBVIOUS
    <3>2. xp + ep = yp + zp + dp /\ sw + dp = su + sv + c0 BY <2>5, <2>8, <3>1
    <3>3. sw + xp + ep = su + yp + (sv + zp) + c0 BY <3>2
    <3> QED BY <3>1, <3>3
  <2>10. i + 1 \in 0..m OBVIOUS
  <2> QED BY <2>2, <2>6, <2>9, <2>10
<1> HIDE DEF S
<1>3. \A i \in 0..m : i \in S BY <1>1, <1>2, Induct
<1> QED BY <1>3 DEF S, ChainedSums
-----------------------------------------------------------------------------
(***************************************************************************)
(* Integers of n bits, whose bits past the width are zero.                 *)
(***************************************************************************)
Canonical(v, n) == v \in AInt(n) /\ IsCanonical(v)

\* Of an integer of n bits: its words, the last of them, and what it stands for.
LEMMA IntegerOf ==
  ASSUME NEW n \in Nat \ {0}, NEW v \in AInt(n)
  PROVE  /\ v.n = n /\ v.w \in [0..NWords(n)-1 -> Word] /\ v.w \in [0..NWords(n)-1 -> Int]
         /\ v = [n |-> n, w |-> v.w]
         /\ NWords(n) \in Nat /\ NWords(n) - 1 \in Nat /\ NWords(n) - 1 \in 0..NWords(n)-1
         /\ Top(v) = NWords(n) - 1 /\ v.w[Top(v)] \in 0..Base-1
         /\ Value(v) = Sums(v.w, NWords(n))[NWords(n)]
         /\ Sums(v.w, NWords(n))[NWords(n)-1] \in 0..Place(NWords(n)-1)-1
         /\ Value(v) = Sums(v.w, NWords(n))[NWords(n)-1]
                         + v.w[NWords(n)-1] * Place(NWords(n)-1)
<1>1. PICK m \in Nat \ {0} : m = NWords(n) BY WidthOf
<1>2. v.n = n /\ v.w \in [0..m-1 -> Word] /\ v = [n |-> n, w |-> v.w] BY <1>1 DEF AInt, Idx
<1>3. v.w \in [0..m-1 -> Int]
  <2>1. \A i \in 0..m-1 : v.w[i] \in 0..Base-1 BY <1>2 DEF Word
  <2>2. \A i \in 0..m-1 : v.w[i] \in Int BY <2>1
  <2> QED BY <1>2, <2>2
<1>4. m - 1 \in Nat /\ m - 1 \in 0..m-1 /\ m - 1 \in 0..m /\ m - 1 + 1 = m OBVIOUS
<1>5. Top(v) = m - 1 /\ Value(v) = Sums(v.w, m)[m] BY <1>1, <1>2 DEF Top, Value
<1>6. v.w[m-1] \in 0..Base-1 BY <1>2, <1>4 DEF Word
<1>7. Sums(v.w, m)[m-1] \in 0..Place(m-1)-1 BY <1>2, <1>4, SumsBound
<1>8. Sums(v.w, m)[m-1+1] = Sums(v.w, m)[m-1] + v.w[m-1] * Place(m-1)
  BY ZenonT(40), <1>3, <1>4, SumsStep
<1> QED BY <1>1, <1>2, <1>3, <1>4, <1>5, <1>6, <1>7, <1>8

\* A number of n bits is less than 2^n.
LEMMA CanonicalValue ==
  ASSUME NEW n \in Nat \ {0}, NEW v, Canonical(v, n)
  PROVE  Value(v) \in 0..2^n-1 /\ Value(v) % 2^n = Value(v)
<1>1. v \in AInt(n) /\ v.w[Top(v)] < 2^LastBits(v.n) BY DEF Canonical, IsCanonical
<1>2. PICK s \in Int, t \in Int, p \in Nat \ {0}, l \in Nat :
        /\ s = Sums(v.w, NWords(n))[NWords(n)-1] /\ t = v.w[NWords(n)-1]
        /\ p = Place(NWords(n)-1) /\ l = 2^LastBits(n)
  <2>1. NWords(n) - 1 \in Nat BY <1>1, IntegerOf
  <2>2. Place(NWords(n)-1) \in Nat \ {0} BY <2>1, PlaceIs
  <2>3. 2^LastBits(n) \in Nat BY WidthOf
  <2>4. v.w[NWords(n)-1] \in Int
    <3>1. Top(v) = NWords(n) - 1 /\ v.w[Top(v)] \in 0..Base-1 BY <1>1, IntegerOf
    <3> QED BY <3>1
  <2>5. Sums(v.w, NWords(n))[NWords(n)-1] \in Int
    <3>1. Sums(v.w, NWords(n))[NWords(n)-1] \in 0..Place(NWords(n)-1)-1 BY <1>1, IntegerOf
    <3> QED BY <3>1
  <2> QED BY <2>2, <2>3, <2>4, <2>5
<1>3. s \in 0..p-1 /\ t >= 0 /\ t < l
  <2>1. v.n = n /\ Top(v) = NWords(n) - 1 BY <1>1, IntegerOf
  <2>2. v.w[NWords(n)-1] \in 0..Base-1 BY <1>1, <2>1, IntegerOf
  <2>3. Sums(v.w, NWords(n))[NWords(n)-1] \in 0..Place(NWords(n)-1)-1 BY <1>1, IntegerOf
  <2>4. t < l BY <1>1, <1>2, <2>1
  <2>5. t >= 0 BY <1>2, <2>2
  <2> QED BY <1>2, <2>3, <2>4, <2>5
<1>4. Value(v) = s + t * p BY <1>1, <1>2, IntegerOf
<1>5. 2^n = p * l BY <1>2, WidthOf
<1>6. t * p <= (l - 1) * p /\ t * p >= 0 BY <1>3
<1>7. (l - 1) * p = p * l - p OBVIOUS
<1>8. s + t * p \in 0..p*l-1 BY <1>3, <1>6, <1>7
<1>9. Value(v) \in 0..2^n-1 BY <1>4, <1>5, <1>8
<1>10. 2^n \in Nat BY WidthOf
<1>11. PICK x \in Int, z \in Nat : x = Value(v) /\ z = 2^n BY <1>9, <1>10
<1>12. x % z = x BY <1>9, <1>11
<1> QED BY <1>9, <1>11, <1>12

\* Masking the last word leaves a number modulo 2^n.
LEMMA MaskedIs ==
  ASSUME NEW n \in Nat \ {0}, NEW v \in AInt(n), NEW x \in Int, NEW k \in Int,
         Value(v) = x + k * Place(NWords(n))
  PROVE  Canonical(Masked(v), n) /\ Value(Masked(v)) = x % 2^n
<1>1. PICK s \in Int, t \in Nat, p \in Nat \ {0}, l \in Nat \ {0}, h \in Nat \ {0} :
        /\ s = Sums(v.w, NWords(n))[NWords(n)-1] /\ t = v.w[NWords(n)-1]
        /\ p = Place(NWords(n)-1) /\ l = 2^LastBits(n) /\ h = 2^(WordBits - LastBits(n))
  <2>1. NWords(n) - 1 \in Nat BY IntegerOf
  <2>2. Place(NWords(n)-1) \in Nat \ {0} BY <2>1, PlaceIs
  <2>3. 2^LastBits(n) \in Nat \ {0} /\ 2^(WordBits - LastBits(n)) \in Nat \ {0}
    <3>1. 2^LastBits(n) \in Nat /\ 2^LastBits(n) >= 2 BY WidthOf
    <3>2. 2^LastBits(n) # 0 BY <3>1
    <3>3. 2^(WordBits - LastBits(n)) \in Nat \ {0} BY WidthOf
    <3> QED BY <3>1, <3>2, <3>3
  <2>4. v.w[NWords(n)-1] \in Nat
    <3>1. Top(v) = NWords(n) - 1 /\ v.w[Top(v)] \in 0..Base-1 BY IntegerOf
    <3> QED BY <3>1
  <2>5. Sums(v.w, NWords(n))[NWords(n)-1] \in Int
    <3>1. Sums(v.w, NWords(n))[NWords(n)-1] \in 0..Place(NWords(n)-1)-1 BY IntegerOf
    <3> QED BY <3>1
  <2> QED BY <2>2, <2>3, <2>4, <2>5
<1>2. PICK m \in Nat : m = NWords(n) BY WidthOf
<1>3. /\ v.n = n /\ v.w \in [0..m-1 -> Word] /\ v.w \in [0..m-1 -> Int] /\ Top(v) = m - 1
      /\ v = [n |-> n, w |-> v.w] /\ m - 1 \in 0..m-1
  BY <1>2, IntegerOf
<1>4. Base = l * h /\ 2^n = p * l /\ Place(m) = p * (l * h)
  <2>1. Base = l * h /\ 2^n = p * l BY <1>1, WidthOf
  <2>2. m - 1 \in Nat /\ m - 1 + 1 = m BY <1>3
  <2>3. Place(m - 1 + 1) = Place(m - 1) * Base BY <2>2, PlaceIs
  <2> QED BY <1>1, <1>2, <2>1, <2>2, <2>3
<1>5. PICK q \in Int, r \in 0..l-1 : t = q * l + r /\ t % l = r
  <2>1. t = (t \div l) * l + (t % l) /\ t % l \in 0..l-1 /\ t \div l \in Int BY DivModOf
  <2> QED BY <2>1
<1> DEFINE w == [v.w EXCEPT ![m-1] = r]
           u == [n |-> n, w |-> w]
<1>6. Masked(v) = u
  <2>1. Masked(v) = [v EXCEPT !.w[m-1] = @ % l] BY <1>1, <1>3 DEF Masked
  <2>2. v.w[m-1] % l = r BY <1>1, <1>2, <1>5
  <2>3. Masked(v) = [v EXCEPT !.w = [v.w EXCEPT ![m-1] = r]] BY <2>1, <2>2
  <2>4. [[n |-> n, w |-> v.w] EXCEPT !.w = w] = u OBVIOUS
  <2> QED BY <1>3, <2>3, <2>4
<1>7. r \in Word
  <2>1. PICK base \in Int : base = Base /\ base = l * h BY <1>4
  <2>2. l * h >= l OBVIOUS
  <2>3. r \in 0..base-1 BY <2>1, <2>2
  <2> QED BY <2>1, <2>3 DEF Word
<1>8. u \in AInt(n) BY <1>2, <1>3, <1>7 DEF AInt, Idx
<1>9. u.w[Top(u)] = r
  <2>1. Top(u) = m - 1 BY <1>2 DEF Top
  <2> QED BY <1>3, <2>1
<1>10. IsCanonical(u) BY <1>1, <1>9 DEF IsCanonical
<1>11. Value(u) = s + r * p
  <2> HIDE DEF w
  <2>1. Value(u) = Sums(u.w, m)[m-1] + u.w[m-1] * Place(m-1)
    BY ZenonT(40), <1>2, <1>8, IntegerOf
  <2>2. u.w[m-1] = r BY <1>3 DEF w
  <2>3. Sums(u.w, m)[m-1] = Sums(v.w, m)[m-1]
    <3>1. u.w \in [0..m-1 -> Int] BY <1>2, <1>8, IntegerOf
    <3>2. \A i \in 0..(m-1)-1 : u.w[i] = v.w[i] BY <1>3 DEF w
    <3>3. PICK k1 \in 0..m : k1 = m - 1 /\ k1 <= m BY <1>3
    <3>4. \A i \in 0..k1-1 : u.w[i] = v.w[i] BY <3>2, <3>3
    <3> HIDE DEF u
    <3>5. PICK uw \in [0..m-1 -> Int], vw \in [0..m-1 -> Int] : uw = u.w /\ vw = v.w
      BY <1>3, <3>1
    <3>6. \A i \in 0..k1-1 : uw[i] = vw[i] BY <3>4, <3>5
    <3>7. Sums(uw, m)[k1] = Sums(vw, m)[k1] BY ZenonT(40), <3>3, <3>6, SumsSame
    <3>8. Sums(u.w, m)[k1] = Sums(v.w, m)[k1] BY <3>5, <3>7
    <3> QED BY <3>3, <3>8
  <2> QED BY <1>1, <1>2, <2>1, <2>2, <2>3
<1> HIDE DEF u
<1>12. Value(v) = s + t * p BY <1>1, IntegerOf
<1>13. Value(u) = x + (k * h - q) * 2^n
  <2>1. s + (q * l + r) * p = x + k * (p * (l * h)) BY <1>2, <1>4, <1>5, <1>12
  <2>2. PICK z \in Int, y \in Int, e \in Int : z = r * p /\ y = q * (p * l) /\ e = (k * h) * (p * l)
    OBVIOUS
  <2>3. (q * l + r) * p = y + z BY <2>2
  <2>4. k * (p * (l * h)) = e BY <2>2
  <2>5. s + z = x + (e - y) BY <2>1, <2>3, <2>4
  <2>6. e - y = (k * h - q) * (p * l) BY <2>2
  <2> QED BY <1>4, <1>11, <2>2, <2>5, <2>6
<1>14. Value(u) % 2^n = x % 2^n
  <2>1. PICK j \in Int : j = k * h - q OBVIOUS
  <2>2. 2^n \in Nat \ {0}
    <3>1. 2^n \in Nat /\ 2^n >= 2 BY WidthOf
    <3> QED BY <3>1
  <2>3. Value(u) \in Int
    <3>1. s + r * p \in Int OBVIOUS
    <3> QED BY <1>11, <3>1
  <2>4. PICK y \in Int, z \in Nat \ {0} : y = Value(u) /\ z = 2^n BY <2>2, <2>3
  <2>5. y = x + j * z BY <1>13, <2>1, <2>4
  <2>6. y % z = x % z BY <2>5, Congruent
  <2> QED BY <2>4, <2>6
<1>15. Canonical(u, n) BY <1>8, <1>10 DEF Canonical
<1> QED BY <1>6, <1>14, <1>15, CanonicalValue

\* What an operation leaves, from the words it makes.
LEMMA ResultIs ==
  ASSUME NEW n \in Nat \ {0}, NEW v \in AInt(n), NEW w \in [0..NWords(n)-1 -> Word],
         NEW x \in Int, NEW k \in Int,
         Sums(w, NWords(n))[NWords(n)] = x + k * Place(NWords(n))
  PROVE  LET u == Masked([v EXCEPT !.w = w])
         IN  Canonical(u, n) /\ Value(u) = x % 2^n
<1> DEFINE u == [v EXCEPT !.w = w]
<1>1. v = [n |-> n, w |-> v.w] BY IntegerOf
<1>2. u = [n |-> n, w |-> w] BY <1>1
<1>3. u \in AInt(n) BY <1>2 DEF AInt, Idx
<1>4. u.w = w BY <1>2
<1> HIDE DEF u
<1>5. Value(u) = x + k * Place(NWords(n)) BY <1>3, <1>4, IntegerOf
<1>6. Canonical(Masked(u), n) /\ Value(Masked(u)) = x % 2^n BY <1>3, <1>5, MaskedIs
<1> QED BY <1>6 DEF u
-----------------------------------------------------------------------------
(***************************************************************************)
(* Addition and subtraction.                                               *)
(***************************************************************************)
\* A function that tells step by step whether a carry is made or goes on.
IsCarry(f, m, Made, Kept) ==
  f = [i \in 0..m |-> i > 0 /\ (i - 1 \in Made \/ (f[i-1] /\ i - 1 \in Kept))]

\* There are carries that are made, or go on, as asked.
LEMMA CarriesExist ==
  ASSUME NEW m \in Nat, NEW Made, NEW Kept
  PROVE  \E f \in [0..m -> BOOLEAN] : IsCarry(f, m, Made, Kept)
<1> DEFINE next == [k \in 0+1..m |-> [p \in BOOLEAN |-> k - 1 \in Made \/ (p /\ k - 1 \in Kept)]]
<1>1. next \in [0+1..m -> [BOOLEAN -> BOOLEAN]] OBVIOUS
<1>2. PICK f \in [0..m -> BOOLEAN] :
        f = [k \in 0..m |-> IF k = 0 THEN FALSE ELSE next[k][f[k-1]]]
  <2> HIDE DEF next
  <2>1. 0 \in Int /\ m \in Int /\ FALSE \in BOOLEAN OBVIOUS
  <2>2. \E f \in [0..m -> BOOLEAN] : Iteration(f, 0, m, FALSE, next) BY <1>1, <2>1, Iterates
  <2> QED BY <2>2 DEF Iteration
<1> DEFINE g == [i \in 0..m |-> i > 0 /\ (i - 1 \in Made \/ (f[i-1] /\ i - 1 \in Kept))]
<1>3. ASSUME NEW k \in 0..m PROVE f[k] = g[k]
  <2>1. CASE k = 0
    <3>1. f[k] = FALSE BY <1>2, <2>1
    <3>2. ~(k > 0) BY <2>1
    <3>3. g[k] = FALSE BY <3>2
    <3> QED BY <3>1, <3>3
  <2>2. CASE k # 0
    <3>1. k > 0 /\ k - 1 \in 0..m /\ k \in 0+1..m BY <2>2
    <3>2. f[k-1] \in BOOLEAN BY <3>1
    <3>3. next[k][f[k-1]] = (k - 1 \in Made \/ (f[k-1] /\ k - 1 \in Kept)) BY <3>1, <3>2
    <3>4. g[k] = (k - 1 \in Made \/ (f[k-1] /\ k - 1 \in Kept)) BY <3>1
    <3>5. f[k] = next[k][f[k-1]]
      <4> HIDE DEF next
      <4> QED BY <1>2, <2>2
    <3> HIDE DEF g, next
    <3> QED BY <3>3, <3>4, <3>5
  <2> QED BY <2>1, <2>2
<1> HIDE DEF next
<1>4. f = g BY <1>3
<1> QED BY <1>4 DEF IsCarry

Nums(f, m) == [i \in 0..m |-> Num(f[i])]

\* They are zeros and ones, and none comes into the first word.
LEMMA CarriesAre ==
  ASSUME NEW m \in Nat, NEW Made, NEW Kept, NEW f, IsCarry(f, m, Made, Kept)
  PROVE  LET c == Nums(f, m)
         IN  /\ c \in [0..m -> 0..1] /\ c \in [0..m -> Int] /\ c[0] = 0
             /\ \A i \in 0..m-1 : c[i+1] = 1 <=> i \in Made \/ (c[i] = 1 /\ i \in Kept)
<1> DEFINE c == Nums(f, m)
<1>1. ~f[0]
  <2>1. 0 \in 0..m /\ ~(0 > 0) OBVIOUS
  <2> QED BY <2>1 DEF IsCarry
<1>2. \A i \in 0..m : c[i] = IF f[i] THEN 1 ELSE 0 BY DEF Num, Nums
<1>3. \A i \in 0..m : c[i] \in 0..1 /\ c[i] \in Int /\ (c[i] = 1 <=> f[i]) BY <1>2
<1>4. c \in [0..m -> 0..1] /\ c \in [0..m -> Int] BY <1>3 DEF Nums
<1>5. ASSUME NEW i \in 0..m-1
      PROVE  f[i+1] <=> i \in Made \/ (f[i] /\ i \in Kept)
  <2>1. PICK k \in 0..m : k = i + 1 /\ k > 0 /\ k - 1 = i OBVIOUS
  <2>2. f[k] = (k > 0 /\ (k - 1 \in Made \/ (f[k-1] /\ k - 1 \in Kept))) BY DEF IsCarry
  <2> QED BY <2>1, <2>2
<1> HIDE DEF c
<1>6. \A i \in 0..m-1 : i \in 0..m /\ i + 1 \in 0..m OBVIOUS
<1>7. 0 \in 0..m OBVIOUS
<1>8. c[0] = 0
  <2>1. c[0] \in 0..1 /\ c[0] # 1 BY <1>1, <1>3, <1>7
  <2> QED BY <2>1
<1>9. \A i \in 0..m-1 : c[i+1] = 1 <=> i \in Made \/ (c[i] = 1 /\ i \in Kept)
  BY <1>3, <1>5, <1>6
<1> QED BY <1>4, <1>8, <1>9 DEF c

\* The sum of two words and a carry, from a sum that wraps.
IsSum(s, x, y, m) == s = (x + y) % m

IsWordSum(r, e, x, y, c, m) == r \in 0..m-1 /\ r + e * m = x + y + c

IsCarryOf(e, s, x, c, m) == e = 1 <=> s < x \/ (c = 1 /\ s = m - 1)

\* The carry out of a word is seen, as midint_add sees it, from the sum having
\* wrapped.
LEMMA WordSum ==
  ASSUME NEW m \in Nat, m >= 2, NEW x \in 0..m-1, NEW y \in 0..m-1, NEW c \in 0..1,
         NEW e \in 0..1, NEW s \in Int, NEW r \in Int,
         IsSum(s, x, y, m), IsSum(r, s, c, m), IsCarryOf(e, s, x, c, m)
  PROVE  IsWordSum(r, e, x, y, c, m)
<1>0. m \in Nat \ {0} OBVIOUS
<1>1. s \in 0..m-1 /\ (x + y < m => s = x + y) /\ (x + y >= m => s = x + y - m)
  <2>1. x + y \in Nat /\ x + y < m + m OBVIOUS
  <2>2. PICK p \in Nat : p = x + y /\ p < m + m BY <2>1
  <2>3. p % m \in 0..m-1 /\ (p < m => p % m = p) /\ (p >= m => p % m = p - m)
    BY <1>0, <2>2, WrapsTells
  <2> QED BY <2>2, <2>3 DEF IsSum
<1>2. s < x <=> x + y >= m BY <1>1
<1>3. PICK d \in Nat : d = s + c /\ d <= m BY <1>1
<1>4. d % m \in 0..m-1 /\ (d < m => d % m = d) /\ (d >= m => d % m = d - m)
  <2>1. d < m + m BY <1>0, <1>3
  <2> QED BY <1>0, <2>1, WrapsTells
<1>5. r \in 0..m-1 /\ (d < m => r = d) /\ (d >= m => r = d - m) BY <1>3, <1>4 DEF IsSum
<1>6. e = 1 <=> d >= m \/ s < x
  <2>1. d >= m <=> c = 1 /\ s = m - 1 BY <1>1, <1>3
  <2> QED BY <2>1 DEF IsCarryOf
<1>7. CASE e = 1
  <2>1. e * m = m BY <1>7
  <2>2. d >= m => c = 1 /\ s = m - 1 BY <1>1, <1>3
  <2>3. r + m = x + y + c BY <1>1, <1>2, <1>3, <1>5, <1>6, <1>7, <2>2
  <2> QED BY <1>5, <2>1, <2>3 DEF IsWordSum
<1>8. CASE e = 0
  <2>1. e * m = 0 BY <1>8
  <2>2. r = x + y + c BY <1>1, <1>2, <1>3, <1>5, <1>6, <1>8
  <2>3. r + 0 = x + y + c BY <2>2
  <2> QED BY <1>5, <2>1, <2>3 DEF IsWordSum
<1> QED BY <1>7, <1>8

\* midint_add gives the sum modulo 2^n: no carry is lost between the words.
LEMMA AddExact ==
  ASSUME NEW n \in Nat \ {0}, NEW v \in AInt(n), NEW u \in AInt(n)
  PROVE  Canonical(Add(v, u), n) /\ Value(Add(v, u)) = (Value(v) + Value(u)) % 2^n
<1> DEFINE m == NWords(v.n)
           x == v.w
           y == u.w
           sum(i) == (x[i] + y[i]) % Base
           Is(f) == f = [i \in 0..m |-> /\ i > 0
                                        /\ sum(i-1) < x[i-1] \/ (f[i-1] /\ sum(i-1) = Base - 1)]
           carry == CHOOSE f : Is(f)
           w == [i \in 0..m-1 |-> (sum(i) + Num(carry[i])) % Base]
           c == Nums(carry, m)
           Made == {i \in 0..m-1 : sum(i) < x[i]}
           Kept == {i \in 0..m-1 : sum(i) = Base - 1}
<1>1. Add(v, u) = Masked([v EXCEPT !.w = w]) BY DEF Add, Idx, Nums
<1>2. v.n = n /\ m = NWords(n) /\ m \in Nat BY IntegerOf
<1>3. /\ x \in [0..m-1 -> Word] /\ y \in [0..m-1 -> Word]
      /\ x \in [0..m-1 -> Int] /\ y \in [0..m-1 -> Int]
      /\ Value(v) = Sums(x, m)[m] /\ Value(u) = Sums(y, m)[m]
  BY <1>2, IntegerOf
<1> HIDE DEF m, x, y, sum
<1>4. \A i \in 0..m-1 : x[i] \in 0..Base-1 /\ y[i] \in 0..Base-1 BY <1>3 DEF Word
<1>5. IsCarry(carry, m, Made, Kept)
  <2>1. ASSUME NEW f PROVE IsCarry(f, m, Made, Kept) <=> Is(f)
    <3>1. ASSUME NEW i \in 0..m, i > 0
          PROVE  (i-1 \in Made <=> sum(i-1) < x[i-1]) /\ (i-1 \in Kept <=> sum(i-1) = Base - 1)
      <4>1. i - 1 \in 0..m-1 BY <1>2, <3>1
      <4> QED BY <4>1
    <3> HIDE DEF Made, Kept
    <3> QED BY <3>1 DEF IsCarry
  <2> HIDE DEF Made, Kept, Is
  <2>2. \E f : Is(f) BY <1>2, <2>1, CarriesExist
  <2> QED BY <2>1, <2>2
<1> HIDE DEF carry, Made, Kept
<1>6. /\ c \in [0..m -> 0..1] /\ c \in [0..m -> Int] /\ c[0] = 0
      /\ \A i \in 0..m-1 : c[i+1] = 1 <=> i \in Made \/ (c[i] = 1 /\ i \in Kept)
  BY <1>2, <1>5, CarriesAre
<1>7. ASSUME NEW i \in 0..m-1
      PROVE  w[i] \in Word /\ w[i] + c[i+1] * Base = x[i] + y[i] + c[i]
  <2>1. i \in 0..m /\ i + 1 \in 0..m BY <1>2
  <2>2. PICK base \in Nat, s \in Int, d \in 0..1, e \in 0..1 :
          base = Base /\ s = sum(i) /\ d = c[i] /\ e = c[i+1] /\ base >= 2
    <3>1. Base \in Nat /\ Base >= 2 BY Places_
    <3>2. (x[i] + y[i]) % Base \in Int BY <1>4, <3>1
    <3> QED BY <1>6, <2>1, <3>1, <3>2 DEF sum
  <2>3. s = (x[i] + y[i]) % base BY <2>2 DEF sum
  <2>4. w[i] = (s + d) % base BY <2>1, <2>2 DEF Nums
  <2>5. e = 1 <=> s < x[i] \/ (d = 1 /\ s = base - 1)
    <3>1. i \in Made <=> s < x[i] BY <2>2 DEF Made
    <3>2. i \in Kept <=> s = base - 1 BY <2>2 DEF Kept
    <3> QED BY <1>6, <2>2, <3>1, <3>2
  <2>6. x[i] \in 0..base-1 /\ y[i] \in 0..base-1 BY <1>4, <2>2
  <2> HIDE DEF w, c
  <2>7. PICK xi \in 0..base-1, yi \in 0..base-1, r \in Int :
          xi = x[i] /\ yi = y[i] /\ r = w[i]
    <3>1. (s + d) % base \in Int BY <2>2
    <3> QED BY <2>4, <2>6, <3>1
  <2>8. IsSum(s, xi, yi, base) /\ IsSum(r, s, d, base) /\ IsCarryOf(e, s, xi, d, base)
    BY <2>3, <2>4, <2>5, <2>7 DEF IsSum, IsCarryOf
  <2>9. r \in 0..base-1 /\ r + e * base = xi + yi + d
    <3>1. base >= 2 BY <2>2
    <3>2. IsWordSum(r, e, xi, yi, d, base) BY <2>8, <3>1, WordSum, Zenon
    <3> QED BY <3>2 DEF IsWordSum
  <2> QED BY <2>2, <2>7, <2>9 DEF Word
<1>8. w \in [0..m-1 -> Word] BY <1>7
<1>9. w \in [0..m-1 -> Int]
  <2>1. \A i \in 0..m-1 : w[i] \in Int BY <1>7, WordIs
  <2> QED BY <2>1
<1> HIDE DEF w, c
<1>10. Sums(w, m)[m] + c[m] * Place(m) = Sums(x, m)[m] + Sums(y, m)[m] + c[0]
  <2>1. m \in 0..m BY <1>2
  <2>2. \A i \in 0..m-1 : w[i] + c[i+1] * Base = x[i] + y[i] + c[i] BY <1>7
  <2>3. \A i \in 0..m :
          Sums(w, m)[i] + c[i] * Place(i) = Sums(x, m)[i] + Sums(y, m)[i] + c[0]
    <3>1. m \in Nat /\ w \in [0..m-1 -> Int] /\ x \in [0..m-1 -> Int]
            /\ y \in [0..m-1 -> Int] /\ c \in [0..m -> Int]
      BY <1>2, <1>3, <1>6, <1>9
    <3>2. Chained(w, x, y, c, m) BY <2>2 DEF Chained
    <3>3. ChainedSums(w, x, y, c, m) BY <3>1, <3>2, Chain
    <3> QED BY <3>3 DEF ChainedSums
  <2> QED BY <2>1, <2>3
<1> QED
  <2>1. m \in 0..m BY <1>2
  <2>2. PICK p \in Int, d \in Int, sx \in Int, sy \in Int, sw \in Int :
         /\ p = Place(m) /\ d = c[m] /\ sx = Sums(x, m)[m] /\ sy = Sums(y, m)[m]
         /\ sw = Sums(w, m)[m]
    <3>1. Sums(x, m)[m] \in Int /\ Sums(y, m)[m] \in Int /\ Sums(w, m)[m] \in Int
      BY <1>2, <1>3, <1>9, <2>1, SumsInt
    <3> QED BY <1>2, <1>6, <2>1, <3>1, PlaceIs
  <2>3. sw + d * p = sx + sy BY <1>6, <1>10, <2>2
  <2>4. PICK z \in Int, k \in Int : z = sx + sy /\ k = -d OBVIOUS
  <2>5. sw = z + k * p BY <2>3, <2>4
  <2>6. Sums(w, NWords(n))[NWords(n)] = z + k * Place(NWords(n)) BY <1>2, <2>2, <2>5
  <2>7. w \in [0..NWords(n)-1 -> Word] BY <1>2, <1>8
  <2>8. Canonical(Add(v, u), n) /\ Value(Add(v, u)) = z % 2^n
    BY <1>1, <2>6, <2>7, ResultIs
  <2> QED BY <1>3, <2>2, <2>4, <2>8

\* The difference of two words and a borrow, from one that wraps.
IsDiff(s, x, y, m) == s = (x - y) % m

IsWordDiff(r, e, x, y, c, m) == r \in 0..m-1 /\ x + e * m = r + y + c

IsBorrowOf(e, s, x, c, m) == e = 1 <=> s > x \/ (c = 1 /\ s = 0)

\* The borrow of a word is seen, as midint_sub sees it, from the difference
\* having wrapped.
LEMMA WordDiff ==
  ASSUME NEW m \in Nat, m >= 2, NEW x \in 0..m-1, NEW y \in 0..m-1, NEW c \in 0..1,
         NEW e \in 0..1, NEW s \in Int, NEW r \in Int,
         IsDiff(s, x, y, m), IsDiff(r, s, c, m), IsBorrowOf(e, s, x, c, m)
  PROVE  IsWordDiff(r, e, x, y, c, m)
<1>0. m \in Nat \ {0} OBVIOUS
<1>1. s \in 0..m-1 /\ (x >= y => s = x - y) /\ (x < y => s = x - y + m)
  <2>1. PICK p \in Int : p = x - y /\ p < m /\ p + m >= 0 OBVIOUS
  <2>2. p >= 0 => p % m = p BY <1>0, <2>1
  <2>3. p < 0 => p % m = p + m BY <1>0, <2>1, WrapsUnder
  <2> QED BY <1>0, <2>1, <2>2, <2>3 DEF IsDiff
<1>2. s > x <=> x < y BY <1>1
<1>3. PICK d \in Int : d = s - c /\ d < m /\ d >= -1 BY <1>1
<1>4. r \in 0..m-1 /\ (d >= 0 => r = d) /\ (d = -1 => r = m - 1)
  <2>1. d >= 0 => d % m = d BY <1>0, <1>3
  <2>2. d = -1 => d % m = m - 1 BY <1>0, <1>3, WrapsUnder
  <2> QED BY <1>0, <1>3, <2>1, <2>2 DEF IsDiff
<1>6. e = 1 <=> d = -1 \/ s > x
  <2>1. d = -1 <=> c = 1 /\ s = 0 BY <1>1, <1>3
  <2> QED BY <2>1 DEF IsBorrowOf
<1>7. CASE e = 1
  <2>1. e * m = m BY <1>7
  <2>2. d = -1 => c = 1 /\ s = 0 BY <1>1, <1>3
  <2>3. x + m = r + y + c BY <1>1, <1>2, <1>3, <1>4, <1>6, <1>7, <2>2
  <2> QED BY <1>4, <2>1, <2>3 DEF IsWordDiff
<1>8. CASE e = 0
  <2>1. e * m = 0 BY <1>8
  <2>2. d >= 0 /\ x >= y BY <1>2, <1>3, <1>6, <1>8
  <2>3. x + 0 = r + y + c BY <1>1, <1>3, <1>4, <2>2
  <2> QED BY <1>4, <2>1, <2>3 DEF IsWordDiff
<1> QED BY <1>7, <1>8

\* midint_sub gives the difference modulo 2^n: no borrow is lost between the
\* words.
LEMMA SubExact ==
  ASSUME NEW n \in Nat \ {0}, NEW v \in AInt(n), NEW u \in AInt(n)
  PROVE  Canonical(Sub(v, u), n) /\ Value(Sub(v, u)) = (Value(v) - Value(u)) % 2^n
<1> DEFINE m == NWords(v.n)
           x == v.w
           y == u.w
           diff(i) == (x[i] - y[i]) % Base
           Is(f) == f = [i \in 0..m |-> /\ i > 0
                                        /\ diff(i-1) > x[i-1] \/ (f[i-1] /\ diff(i-1) = 0)]
           borrow == CHOOSE f : Is(f)
           w == [i \in 0..m-1 |-> (diff(i) - Num(borrow[i])) % Base]
           c == Nums(borrow, m)
           Made == {i \in 0..m-1 : diff(i) > x[i]}
           Kept == {i \in 0..m-1 : diff(i) = 0}
<1>1. Sub(v, u) = Masked([v EXCEPT !.w = w]) BY DEF Sub, Idx, Nums
<1>2. v.n = n /\ m = NWords(n) /\ m \in Nat BY IntegerOf
<1>3. /\ x \in [0..m-1 -> Word] /\ y \in [0..m-1 -> Word]
      /\ x \in [0..m-1 -> Int] /\ y \in [0..m-1 -> Int]
      /\ Value(v) = Sums(x, m)[m] /\ Value(u) = Sums(y, m)[m]
  BY <1>2, IntegerOf
<1> HIDE DEF m, x, y, diff
<1>4. \A i \in 0..m-1 : x[i] \in 0..Base-1 /\ y[i] \in 0..Base-1 BY <1>3 DEF Word
<1>5. IsCarry(borrow, m, Made, Kept)
  <2>1. ASSUME NEW f PROVE IsCarry(f, m, Made, Kept) <=> Is(f)
    <3>1. ASSUME NEW i \in 0..m, i > 0
          PROVE  (i-1 \in Made <=> diff(i-1) > x[i-1]) /\ (i-1 \in Kept <=> diff(i-1) = 0)
      <4>1. i - 1 \in 0..m-1 BY <1>2, <3>1
      <4> QED BY <4>1
    <3> HIDE DEF Made, Kept
    <3> QED BY <3>1 DEF IsCarry
  <2> HIDE DEF Made, Kept, Is
  <2>2. \E f : Is(f) BY <1>2, <2>1, CarriesExist
  <2> QED BY <2>1, <2>2
<1> HIDE DEF borrow, Made, Kept
<1>6. /\ c \in [0..m -> 0..1] /\ c \in [0..m -> Int] /\ c[0] = 0
      /\ \A i \in 0..m-1 : c[i+1] = 1 <=> i \in Made \/ (c[i] = 1 /\ i \in Kept)
  BY <1>2, <1>5, CarriesAre
<1>7. ASSUME NEW i \in 0..m-1
      PROVE  w[i] \in Word /\ x[i] + c[i+1] * Base = w[i] + y[i] + c[i]
  <2>1. i \in 0..m /\ i + 1 \in 0..m BY <1>2
  <2>2. PICK base \in Nat, s \in Int, d \in 0..1, e \in 0..1 :
          base = Base /\ s = diff(i) /\ d = c[i] /\ e = c[i+1] /\ base >= 2
    <3>1. Base \in Nat /\ Base >= 2 BY Places_
    <3>2. (x[i] - y[i]) % Base \in Int BY <1>4, <3>1
    <3> QED BY <1>6, <2>1, <3>1, <3>2 DEF diff
  <2>3. s = (x[i] - y[i]) % base BY <2>2 DEF diff
  <2>4. w[i] = (s - d) % base BY <2>1, <2>2 DEF Nums
  <2>5. e = 1 <=> s > x[i] \/ (d = 1 /\ s = 0)
    <3>1. i \in Made <=> s > x[i] BY <2>2 DEF Made
    <3>2. i \in Kept <=> s = 0 BY <2>2 DEF Kept
    <3> QED BY <1>6, <2>2, <3>1, <3>2
  <2>6. x[i] \in 0..base-1 /\ y[i] \in 0..base-1 BY <1>4, <2>2
  <2> HIDE DEF w, c
  <2>7. PICK xi \in 0..base-1, yi \in 0..base-1, r \in Int :
          xi = x[i] /\ yi = y[i] /\ r = w[i]
    <3>1. (s - d) % base \in Int BY <2>2
    <3> QED BY <2>4, <2>6, <3>1
  <2>8. IsDiff(s, xi, yi, base) /\ IsDiff(r, s, d, base) /\ IsBorrowOf(e, s, xi, d, base)
    BY <2>3, <2>4, <2>5, <2>7 DEF IsDiff, IsBorrowOf
  <2>9. r \in 0..base-1 /\ xi + e * base = r + yi + d
    <3>1. base >= 2 BY <2>2
    <3>2. IsWordDiff(r, e, xi, yi, d, base) BY <2>8, <3>1, WordDiff, Zenon
    <3> QED BY <3>2 DEF IsWordDiff
  <2> QED BY <2>2, <2>7, <2>9 DEF Word
<1>8. w \in [0..m-1 -> Word] BY <1>7
<1>9. w \in [0..m-1 -> Int]
  <2>1. \A i \in 0..m-1 : w[i] \in Int BY <1>7, WordIs
  <2> QED BY <2>1
<1> HIDE DEF w, c
<1>10. Sums(x, m)[m] + c[m] * Place(m) = Sums(w, m)[m] + Sums(y, m)[m] + c[0]
  <2>1. m \in 0..m BY <1>2
  <2>2. \A i \in 0..m-1 : x[i] + c[i+1] * Base = w[i] + y[i] + c[i] BY <1>7
  <2>3. \A i \in 0..m :
          Sums(x, m)[i] + c[i] * Place(i) = Sums(w, m)[i] + Sums(y, m)[i] + c[0]
    <3>1. m \in Nat /\ w \in [0..m-1 -> Int] /\ x \in [0..m-1 -> Int]
            /\ y \in [0..m-1 -> Int] /\ c \in [0..m -> Int]
      BY <1>2, <1>3, <1>6, <1>9
    <3>2. Chained(x, w, y, c, m) BY <2>2 DEF Chained
    <3>3. ChainedSums(x, w, y, c, m) BY <3>1, <3>2, Chain
    <3> QED BY <3>3 DEF ChainedSums
  <2> QED BY <2>1, <2>3
<1> QED
  <2>1. m \in 0..m BY <1>2
  <2>2. PICK p \in Int, d \in Int, sx \in Int, sy \in Int, sw \in Int :
         /\ p = Place(m) /\ d = c[m] /\ sx = Sums(x, m)[m] /\ sy = Sums(y, m)[m]
         /\ sw = Sums(w, m)[m]
    <3>1. Sums(x, m)[m] \in Int /\ Sums(y, m)[m] \in Int /\ Sums(w, m)[m] \in Int
      BY <1>2, <1>3, <1>9, <2>1, SumsInt
    <3> QED BY <1>2, <1>6, <2>1, <3>1, PlaceIs
  <2>3. sx + d * p = sw + sy BY <1>6, <1>10, <2>2
  <2>4. PICK z \in Int, k \in Int : z = sx - sy /\ k = d OBVIOUS
  <2>5. sw = z + k * p BY <2>3, <2>4
  <2>6. Sums(w, NWords(n))[NWords(n)] = z + k * Place(NWords(n)) BY <1>2, <2>2, <2>5
  <2>7. w \in [0..NWords(n)-1 -> Word] BY <1>2, <1>8
  <2>8. Canonical(Sub(v, u), n) /\ Value(Sub(v, u)) = z % 2^n
    BY <1>1, <2>6, <2>7, ResultIs
  <2> QED BY <1>3, <2>2, <2>4, <2>8
-----------------------------------------------------------------------------
(***************************************************************************)
(* Words that are zero, and one word alone.                                *)
(***************************************************************************)
\* Where the words from i to k are zero, the sums do not grow.
LEMMA SumsFlat ==
  ASSUME NEW m \in Nat, NEW w \in [0..m-1 -> Int], NEW i \in 0..m,
         \A j \in i..m-1 : w[j] = 0
  PROVE  Sums(w, m)[m] = Sums(w, m)[i]
<1> DEFINE d == m - i
           S == {j \in 0..d : Sums(w, m)[i+j] = Sums(w, m)[i]}
<1>1. d \in Nat /\ i + d = m OBVIOUS
<1>2. 0 \in S
  <2>1. i + 0 = i OBVIOUS
  <2> QED BY <1>1, <2>1
<1>3. ASSUME NEW j \in 0..d-1, j \in S PROVE j + 1 \in S
  <2>1. PICK k \in 0..m-1 : k = i + j /\ k + 1 = i + (j + 1) /\ k \in i..m-1 OBVIOUS
  <2>2. Sums(w, m)[k+1] = Sums(w, m)[k] + w[k] * Place(k) BY SumsStep
  <2>3. PICK p \in Int, s \in Int : p = Place(k) /\ s = Sums(w, m)[k] BY SMTT(40), SumsStep
  <2>4. w[k] = 0 BY <2>1
  <2>5. Sums(w, m)[k+1] = s BY <2>2, <2>3, <2>4
  <2>6. j + 1 \in 0..d BY <1>1
  <2> QED BY <1>3, <2>1, <2>3, <2>5, <2>6
<1> HIDE DEF S, d
<1>4. \A j \in 0..d : j \in S BY <1>1, <1>2, <1>3, Induct
<1>5. d \in S BY <1>1, <1>4
<1> QED BY <1>1, <1>5 DEF S

\* Words that are all zero stand for zero.
LEMMA SumsZero ==
  ASSUME NEW m \in Nat, NEW w \in [0..m-1 -> Int], \A j \in 0..m-1 : w[j] = 0
  PROVE  Sums(w, m)[m] = 0
<1>1. 0 \in 0..m OBVIOUS
<1>2. Sums(w, m)[m] = Sums(w, m)[0] BY <1>1, SumsFlat
<1> QED BY <1>2, SumsAre

OnlyAt(w, i, m) == \A j \in 0..m-1 : j # i => w[j] = 0

\* One word alone stands for itself, in its place.
LEMMA SumsOne ==
  ASSUME NEW m \in Nat, NEW w \in [0..m-1 -> Int], NEW i \in 0..m-1, OnlyAt(w, i, m)
  PROVE  Sums(w, m)[m] = w[i] * Place(i)
<1>1. PICK k \in 0..m : k = i + 1 OBVIOUS
<1>2. \A j \in k..m-1 : w[j] = 0 BY <1>1 DEF OnlyAt
<1>3. Sums(w, m)[m] = Sums(w, m)[k] BY <1>2, SumsFlat
<1>4. Sums(w, m)[i+1] = Sums(w, m)[i] + w[i] * Place(i) BY SumsStep
<1>5. Sums(w, m)[i] = 0
  <2> DEFINE z == [j \in 0..i-1 |-> 0]
  <2>1. z \in [0..i-1 -> Int] /\ i \in Nat /\ i \in 0..m /\ i <= i OBVIOUS
  <2>2. \A j \in 0..i-1 : w[j] = z[j] BY DEF OnlyAt
  <2>3. \A j \in 0..i-1 : z[j] = 0 OBVIOUS
  <2> HIDE DEF z
  <2>4. Sums(w, m)[i] = Sums(z, i)[i] BY <2>1, <2>2, SumsSame
  <2> QED BY <2>1, <2>3, <2>4, SumsZero
<1>6. PICK p \in Int, x \in Int : p = Place(i) /\ x = w[i] BY SumsStep
<1>7. 0 + x * p = x * p OBVIOUS
<1> QED BY <1>1, <1>3, <1>4, <1>5, <1>6, <1>7
-----------------------------------------------------------------------------
\* An integer of n bits that is not negative is kept as it is, one that is made
\* of one word modulo 2^n.
LEMMA Init1Exact ==
  ASSUME NEW n \in Nat \ {0}, NEW word \in Word
  PROVE  Canonical(Init1(n, word, FALSE), n) /\ Value(Init1(n, word, FALSE)) = word % 2^n
<1>1. PICK m \in Nat \ {0} : m = NWords(n) BY WidthOf
<1> DEFINE w == [i \in 0..m-1 |-> IF i = 0 THEN word ELSE 0]
           v == [n |-> n, w |-> w]
<1>2. Init1(n, word, FALSE) = Masked(v) BY <1>1 DEF Init1, Idx
<1>3. 0 \in Word
  <2>1. Base \in Nat /\ Base >= 2 BY Places_
  <2> QED BY <2>1 DEF Word
<1>4. w \in [0..m-1 -> Word] BY <1>3
<1>5. v \in AInt(n) BY <1>1, <1>4 DEF AInt, Idx
<1>6. Value(v) = word
  <2>1. w \in [0..m-1 -> Int] BY WordIs
  <2>2. 0 \in 0..m-1 /\ w[0] = word /\ OnlyAt(w, 0, m) BY DEF OnlyAt
  <2>3. Value(v) = Sums(w, m)[m] BY <1>1 DEF Value
  <2> HIDE DEF w, v
  <2>4. Sums(w, m)[m] = w[0] * Place(0) BY <2>1, <2>2, SumsOne
  <2>5. Place(0) = 1 BY Places_
  <2>6. word * 1 = word BY WordIs
  <2> QED BY <2>2, <2>3, <2>4, <2>5, <2>6
<1> HIDE DEF v
<1>7. word \in Int BY WordIs
<1>8. PICK p \in Int : p = Place(NWords(n)) BY <1>1, PlaceIs
<1>9. Value(v) = word + 0 * Place(NWords(n))
  <2>1. word + 0 * p = word BY <1>7
  <2> QED BY <1>6, <1>8, <2>1
<1>10. 0 \in Int OBVIOUS
<1> QED BY ZenonT(40), <1>2, <1>5, <1>7, <1>9, <1>10, MaskedIs

\* midint_not gives -x - 1 modulo 2^n.
LEMMA ComplementExact ==
  ASSUME NEW n \in Nat \ {0}, NEW v \in AInt(n)
  PROVE  Canonical(Complement(v), n) /\ Value(Complement(v)) = (-Value(v) - 1) % 2^n
<1> DEFINE m == NWords(v.n)
           x == v.w
           w == [i \in 0..m-1 |-> Base - 1 - x[i]]
           z == [i \in 0..m-1 |-> 0]
           c == [i \in 0..m |-> 1]
<1>1. Complement(v) = Masked([v EXCEPT !.w = w]) BY DEF Complement, Idx
<1>2. v.n = n /\ m = NWords(n) /\ m \in Nat BY IntegerOf
<1>3. x \in [0..m-1 -> Word] /\ x \in [0..m-1 -> Int] /\ Value(v) = Sums(x, m)[m]
  BY <1>2, IntegerOf
<1> HIDE DEF m, x
<1>4. ASSUME NEW i \in 0..m-1
      PROVE  w[i] \in Word /\ w[i] \in Int /\ z[i] + c[i+1] * Base = x[i] + w[i] + c[i]
  <2>1. PICK base \in Nat, xi \in Int : base = Base /\ xi = x[i] /\ xi \in 0..base-1
    BY <1>3, WordIs, Places_
  <2>2. base - 1 - xi \in 0..base-1 /\ 0 + 1 * base = xi + (base - 1 - xi) + 1 BY <2>1
  <2>3. i \in 0..m /\ i + 1 \in 0..m BY <1>2
  <2> QED BY <2>1, <2>2, <2>3 DEF Word
<1>5. /\ w \in [0..m-1 -> Word] /\ w \in [0..m-1 -> Int] /\ z \in [0..m-1 -> Int]
      /\ c \in [0..m -> Int]
  BY <1>4
<1>6. Sums(z, m)[m] = 0
  <2>1. \A j \in 0..m-1 : z[j] = 0 OBVIOUS
  <2> HIDE DEF z
  <2> QED BY <1>2, <1>5, <2>1, SumsZero
<1>7. m \in 0..m /\ 0 \in 0..m BY <1>2
<1>8. c[m] = 1 /\ c[0] = 1 BY <1>7
<1> HIDE DEF w, z, c
<1>9. Sums(z, m)[m] + c[m] * Place(m) = Sums(x, m)[m] + Sums(w, m)[m] + c[0]
  <2>1. Chained(z, x, w, c, m) BY <1>4 DEF Chained
  <2>2. m \in Nat /\ w \in [0..m-1 -> Int] /\ x \in [0..m-1 -> Int]
          /\ z \in [0..m-1 -> Int] /\ c \in [0..m -> Int]
    BY <1>2, <1>3, <1>5
  <2>3. ChainedSums(z, x, w, c, m) BY <2>1, <2>2, Chain
  <2> QED BY <1>7, <2>3 DEF ChainedSums
<1>10. PICK p \in Int, sx \in Int, sw \in Int :
         p = Place(m) /\ sx = Sums(x, m)[m] /\ sw = Sums(w, m)[m]
  BY <1>2, <1>3, <1>5, <1>7, PlaceIs, SumsInt
<1>11. 0 + 1 * p = sx + sw + 1 BY <1>6, <1>8, <1>9, <1>10
<1>12. PICK t \in Int, k \in Int : t = -sx - 1 /\ k = 1 OBVIOUS
<1>13. sw = t + k * p BY <1>11, <1>12
<1>14. Sums(w, NWords(n))[NWords(n)] = t + k * Place(NWords(n)) BY <1>2, <1>10, <1>13
<1>15. w \in [0..NWords(n)-1 -> Word] BY <1>2, <1>5
<1>16. Canonical(Complement(v), n) /\ Value(Complement(v)) = t % 2^n
  BY <1>1, <1>14, <1>15, ResultIs
<1> QED BY <1>3, <1>10, <1>12, <1>16

\* The word that bit k is in, and the place it has there.
LEMMA BitAt ==
  ASSUME NEW n \in Nat \ {0}, NEW k \in 0..n-1
  PROVE  /\ k \div WordBits \in 0..NWords(n)-1 /\ k % WordBits \in 0..WordBits-1
         /\ 2^(k % WordBits) \in Nat \ {0} /\ 2^(WordBits - (k % WordBits)) \in Nat
         /\ 2^(WordBits - (k % WordBits)) >= 2
         /\ Base = 2^(k % WordBits) * 2^(WordBits - (k % WordBits))
         /\ 2^k = Place(k \div WordBits) * 2^(k % WordBits)
<1>1. PICK w \in Nat \ {0} : WordBits = w BY WordBitsAssumption
<1>2. PICK q \in Int, r \in 0..w-1 : k = q * w + r /\ k % w = r /\ k \div w = q
  <2>1. k = (k \div w) * w + (k % w) /\ k % w \in 0..w-1 /\ k \div w \in Int BY DivModOf
  <2> QED BY <2>1
<1>3. q >= 0
  <2>1. SUFFICES ASSUME q <= -1 PROVE FALSE OBVIOUS
  <2>2. q * w <= -w BY <2>1
  <2>3. PICK p \in Int : p = q * w /\ p <= -w BY <2>2
  <2>4. k = p + r BY <1>2, <2>3
  <2>5. p <= -w BY <2>3
  <2>6. p + r < 0 BY <2>5
  <2> QED BY <2>4, <2>6
<1>4. q <= NWords(n) - 1
  <2>1. PICK m \in Nat \ {0}, l \in 1..w : m = NWords(n) /\ n = (m - 1) * w + l
    <3>1. NWords(n) \in Nat \ {0} /\ LastBits(n) \in 1..w /\ n = (NWords(n) - 1) * w + LastBits(n)
      BY <1>1, WidthOf
    <3> QED BY <3>1
  <2>2. SUFFICES ASSUME q >= m PROVE FALSE BY <1>2, <2>1
  <2>3. q * w >= m * w BY <2>2
  <2>4. (m - 1) * w = m * w - w BY <2>1
  <2>5. PICK mw \in Int, qw \in Int : mw = m * w /\ qw = q * w BY <2>1
  <2>6. qw >= mw /\ n = mw - w + l /\ k = qw + r BY <1>2, <2>1, <2>3, <2>4, <2>5
  <2>7. n <= mw /\ k >= mw BY <2>6
  <2> QED BY <2>7
<1>5. 2^r \in Nat \ {0} /\ 2^(w - r) \in Nat /\ 2^(w - r) >= 2 /\ Base = 2^r * 2^(w - r)
  <2>1. r \in Nat /\ w - r \in Nat /\ r + (w - r) = w /\ w - r - 1 \in Nat OBVIOUS
  <2>2. 2^(r + (w - r)) = 2^r * 2^(w - r) /\ 2^r \in Nat \ {0} /\ 2^(w - r) \in Nat
    BY <2>1, PowersOf
  <2>3. (w - r - 1) + 1 = w - r OBVIOUS
  <2>4. 2^(w - r - 1) \in Nat \ {0} /\ 2^((w - r - 1) + 1) = 2 * 2^(w - r - 1)
    BY <2>1, PowerOfTwo
  <2>5. 2^(w - r) >= 2 BY <2>3, <2>4
  <2> QED BY <1>1, <2>1, <2>2, <2>5 DEF Base
<1>6. 2^k = Place(q) * 2^r
  <2>1. q * w \in Nat /\ r \in Nat BY <1>3
  <2>2. 2^(q * w + r) = 2^(q * w) * 2^r BY <2>1, PowersOf
  <2> QED BY <1>1, <1>2, <2>2 DEF Place
<1>7. q \in 0..NWords(n)-1
  <2>1. NWords(n) \in Int BY WidthOf
  <2> QED BY <1>3, <1>4, <2>1
<1> QED BY <1>1, <1>2, <1>5, <1>6, <1>7

\* A function that tells step by step what goes on from the word of a bit.
IsPlus(f, x, at, bit, m) ==
  f = [i \in 0..m-1 |-> CASE i < at -> 0
                          [] i = at -> bit
                          [] OTHER  -> Num(x[i-1] + f[i-1] >= Base)]

\* There is what midint_inc_bit adds to each word: the bit, and then the carries.
LEMMA PlusExists ==
  ASSUME NEW m \in Nat \ {0}, NEW x \in [0..m-1 -> Int], NEW at \in 0..m-1, NEW bit \in Int
  PROVE  \E f \in [0..m-1 -> Int] : IsPlus(f, x, at, bit, m)
<1> DEFINE start == IF at = 0 THEN bit ELSE 0
           next == [k \in 0+1..m-1 |-> [s \in Int |->
                      IF k < at THEN 0 ELSE IF k = at THEN bit
                      ELSE IF x[k-1] + s >= Base THEN 1 ELSE 0]]
<1>1. next \in [0+1..m-1 -> [Int -> Int]] OBVIOUS
<1>2. PICK f \in [0..m-1 -> Int] :
        f = [k \in 0..m-1 |-> IF k = 0 THEN start ELSE next[k][f[k-1]]]
  <2>0. start \in Int OBVIOUS
  <2> HIDE DEF next, start
  <2>1. 0 \in Int /\ m - 1 \in Int OBVIOUS
  <2>2. \E f \in [0..m-1 -> Int] : Iteration(f, 0, m-1, start, next)
    BY <1>1, <2>0, <2>1, Iterates
  <2> QED BY <2>2 DEF Iteration
<1> DEFINE g == [i \in 0..m-1 |-> CASE i < at -> 0
                                    [] i = at -> bit
                                    [] OTHER  -> Num(x[i-1] + f[i-1] >= Base)]
<1>3. ASSUME NEW k \in 0..m-1 PROVE f[k] = g[k]
  <2>1. CASE k = 0
    <3>1. f[k] = start BY <1>2, <2>1
    <3>2. g[k] = start BY <2>1
    <3> QED BY <3>1, <3>2
  <2>2. CASE k # 0
    <3>1. k \in 0+1..m-1 /\ k - 1 \in 0..m-1 BY <2>2
    <3>2. f[k-1] \in Int BY <3>1
    <3>3. f[k] = next[k][f[k-1]]
      <4> HIDE DEF next
      <4> QED BY <1>2, <2>2
    <3>4. next[k][f[k-1]] = IF k < at THEN 0 ELSE IF k = at THEN bit
                            ELSE IF x[k-1] + f[k-1] >= Base THEN 1 ELSE 0
      BY <3>1, <3>2
    <3>5. g[k] = IF k < at THEN 0 ELSE IF k = at THEN bit
                 ELSE IF x[k-1] + f[k-1] >= Base THEN 1 ELSE 0
      BY DEF Num
    <3> QED BY <3>3, <3>4, <3>5
  <2> QED BY <2>1, <2>2
<1>4. f = g BY <1>3
<1> QED BY <1>4 DEF IsPlus

\* midint_inc_bit adds 2^k modulo 2^n: its carry goes as far as it has to.
LEMMA IncBitExact ==
  ASSUME NEW n \in Nat \ {0}, NEW v \in AInt(n), NEW k \in 0..n-1
  PROVE  Canonical(IncBit(v, k), n) /\ Value(IncBit(v, k)) = (Value(v) + 2^k) % 2^n
<1> DEFINE m == NWords(v.n)
           x == v.w
           at == k \div WordBits
           bit == 2^(k % WordBits)
           plus == CHOOSE f : IsPlus(f, x, at, bit, m)
           w == [i \in 0..m-1 |-> (x[i] + plus[i]) % Base]
           y == [i \in 0..m-1 |-> IF i = at THEN bit ELSE 0]
           c == [i \in 0..m |-> IF i <= at THEN 0
                                ELSE IF x[i-1] + plus[i-1] >= Base THEN 1 ELSE 0]
<1>1. IncBit(v, k) = Masked([v EXCEPT !.w = w]) BY DEF IncBit, Idx, IsPlus
<1>2. v.n = n /\ m = NWords(n) /\ m \in Nat \ {0} BY IntegerOf, WidthOf
<1>3. x \in [0..m-1 -> Word] /\ x \in [0..m-1 -> Int] /\ Value(v) = Sums(x, m)[m]
  BY <1>2, IntegerOf
<1>4. at \in 0..m-1 /\ bit \in Nat \ {0} /\ 2^k = Place(at) * bit /\ bit \in 0..Base-1
  <2>1. at \in 0..m-1 /\ bit \in Nat \ {0} /\ 2^k = Place(at) * bit BY <1>2, BitAt
  <2>2. PICK h \in Nat : Base = bit * h /\ h >= 2 BY BitAt
  <2>3. bit * h >= bit + bit BY <2>1, <2>2
  <2>4. bit * h \in Int BY <2>1
  <2> QED BY <2>1, <2>2, <2>3, <2>4
<1> HIDE DEF m, x, at, bit
<1>5. IsPlus(plus, x, at, bit, m)
  <2>1. bit \in Int BY <1>4
  <2>2. \E f : IsPlus(f, x, at, bit, m) BY <1>2, <1>3, <1>4, <2>1, PlusExists
  <2> QED BY <2>2
<1> HIDE DEF plus
<1>6. ASSUME NEW i \in 0..m-1
      PROVE  /\ i < at => plus[i] = 0
             /\ i = at => plus[i] = bit
             /\ i > at => plus[i] = IF x[i-1] + plus[i-1] >= Base THEN 1 ELSE 0
  <2>1. plus[i] = CASE i < at -> 0
                    [] i = at -> bit
                    [] OTHER  -> Num(x[i-1] + plus[i-1] >= Base)
    BY <1>5 DEF IsPlus
  <2>2. CASE i < at BY <1>4, <2>1, <2>2
  <2>3. CASE i = at BY <1>4, <2>1, <2>3
  <2>4. CASE i > at
    <3>1. ~(i < at) /\ i # at BY <1>4, <2>4
    <3>2. plus[i] = Num(x[i-1] + plus[i-1] >= Base) BY <2>1, <3>1
    <3> QED BY <3>1, <3>2 DEF Num
  <2> QED BY <1>4, <2>2, <2>3, <2>4
<1>7. PICK base \in Nat : base = Base /\ base >= 2 BY Places_
<1>8. ASSUME NEW i \in 0..m-1
      PROVE  plus[i] \in 0..base-1 /\ plus[i] = y[i] + c[i] /\ y[i] \in Int /\ c[i] \in Int
  <2>1. i \in 0..m BY <1>2
  <2>2. CASE i < at
    <3>1. plus[i] = 0 /\ i # at /\ i <= at BY <1>4, <1>6, <2>2
    <3> QED BY <1>7, <2>1, <3>1
  <2>3. CASE i = at
    <3>1. plus[i] = bit /\ i <= at BY <1>4, <1>6, <2>3
    <3>2. bit + 0 = bit BY <1>4
    <3> QED BY <1>4, <1>7, <2>1, <2>3, <3>1, <3>2
  <2>4. CASE i > at
    <3>1. ~(i <= at) /\ i # at BY <1>4, <2>4
    <3>2. plus[i] \in 0..1 /\ c[i] = plus[i] /\ y[i] = 0 BY <1>6, <2>1, <2>4, <3>1
    <3> QED BY <1>7, <3>2
  <2> QED BY <1>4, <2>2, <2>3, <2>4
<1>9. ASSUME NEW i \in 0..m-1
      PROVE  w[i] \in Word /\ w[i] \in Int /\ w[i] + c[i+1] * Base = x[i] + y[i] + c[i]
  <2>1. PICK xi \in 0..base-1, pi \in 0..base-1 : xi = x[i] /\ pi = plus[i]
    BY <1>3, <1>7, <1>8, WordIs
  <2>2. PICK s \in Nat : s = xi + pi /\ s < base + base BY <2>1
  <2>3. s % base \in 0..base-1 /\ (s < base => s % base = s) /\ (s >= base => s % base = s - base)
    <3>1. base \in Nat \ {0} BY <1>7
    <3> QED BY <2>2, <3>1, WrapsTells
  <2>4. w[i] = s % base BY <1>7, <2>1, <2>2
  <2>5. c[i+1] = IF s >= base THEN 1 ELSE 0
    <3>1. PICK j \in 0..m : j = i + 1 /\ j - 1 = i BY <1>2
    <3>2. CASE i < at
      <4>1. j <= at BY <1>4, <3>1, <3>2
      <4>2. s < base BY <1>6, <2>1, <2>2, <3>2
      <4> QED BY <3>1, <4>1, <4>2
    <3>3. CASE i >= at
      <4>1. ~(j <= at) BY <1>4, <3>1, <3>3
      <4> QED BY <1>7, <2>1, <2>2, <3>1, <4>1
    <3> QED BY <1>4, <3>2, <3>3
  <2>6. x[i] + y[i] + c[i] = s
    <3>1. PICK yi \in Int, ci \in Int : yi = y[i] /\ ci = c[i] /\ pi = yi + ci BY <1>8, <2>1
    <3>2. xi + yi + ci = s BY SMTT(40), <2>2, <3>1
    <3> HIDE DEF y, c
    <3> QED BY <2>1, <3>1, <3>2
  <2>7. PICK wi \in Int : wi = w[i] /\ wi \in 0..base-1 BY <2>3, <2>4
  <2>8. CASE s >= base
    <3>1. wi + 1 * base = s BY <2>3, <2>4, <2>7, <2>8
    <3> QED BY <1>7, <2>5, <2>6, <2>7, <2>8, <3>1 DEF Word
  <2>9. CASE s < base
    <3>1. wi + 0 * base = s BY <2>3, <2>4, <2>7, <2>9
    <3> QED BY <1>7, <2>5, <2>6, <2>7, <2>9, <3>1 DEF Word
  <2> QED BY <1>7, <2>2, <2>8, <2>9
<1>10. /\ w \in [0..m-1 -> Word] /\ w \in [0..m-1 -> Int] /\ y \in [0..m-1 -> Int]
       /\ c \in [0..m -> Int]
  <2>1. \A i \in 0..m : c[i] \in Int OBVIOUS
  <2> QED BY <1>8, <1>9, <2>1
<1>12. m \in 0..m /\ 0 \in 0..m /\ m \in Nat BY <1>2
<1>11. Sums(y, m)[m] = 2^k
  <2>1. y[at] = bit /\ OnlyAt(y, at, m) BY <1>4 DEF OnlyAt
  <2> HIDE DEF y
  <2>2. Sums(y, m)[m] = y[at] * Place(at) BY <1>4, <1>10, <1>12, <2>1, SumsOne
  <2>3. at \in Nat BY <1>4
  <2>4. PICK p \in Int : p = Place(at) BY <2>3, PlaceIs
  <2>5. bit * p = p * bit BY <1>4
  <2> QED BY <1>4, <2>1, <2>2, <2>4, <2>5
<1>13. c[0] = 0 BY <1>4, <1>12
<1> HIDE DEF w, y, c
<1>14. Sums(w, m)[m] + c[m] * Place(m) = Sums(x, m)[m] + Sums(y, m)[m] + c[0]
  <2>1. Chained(w, x, y, c, m) BY <1>9 DEF Chained
  <2>2. m \in Nat /\ w \in [0..m-1 -> Int] /\ x \in [0..m-1 -> Int]
          /\ y \in [0..m-1 -> Int] /\ c \in [0..m -> Int]
    BY <1>3, <1>10, <1>12
  <2>3. ChainedSums(w, x, y, c, m) BY <2>1, <2>2, Chain
  <2> QED BY <1>12, <2>3 DEF ChainedSums
<1>15. PICK p \in Int, d \in Int, sx \in Int, sy \in Int, sw \in Int :
         /\ p = Place(m) /\ d = c[m] /\ sx = Sums(x, m)[m] /\ sy = Sums(y, m)[m]
         /\ sw = Sums(w, m)[m]
  BY <1>3, <1>10, <1>12, PlaceIs, SumsInt
<1>16. sw + d * p = sx + sy BY <1>13, <1>14, <1>15
<1>17. PICK t \in Int, j \in Int : t = sx + sy /\ j = -d OBVIOUS
<1>18. sw = t + j * p BY <1>16, <1>17
<1>19. Sums(w, NWords(n))[NWords(n)] = t + j * Place(NWords(n)) BY <1>2, <1>15, <1>18
<1>20. w \in [0..NWords(n)-1 -> Word] BY <1>2, <1>10
<1>21. Canonical(IncBit(v, k), n) /\ Value(IncBit(v, k)) = t % 2^n
  BY SMTT(40), <1>1, <1>19, <1>20, ResultIs
<1> QED BY <1>3, <1>11, <1>15, <1>17, <1>21

\* An immediate operand is added to an integer of at most two words exactly.
LEMMA AddUimmExact ==
  ASSUME NEW n \in Nat \ {0}, NWords(n) <= 2, NEW v \in AInt(n), NEW imm \in Word
  PROVE  Canonical(AddUimm(v, imm), n) /\ Value(AddUimm(v, imm)) = (Value(v) + imm) % 2^n
<1> DEFINE m == NWords(v.n)
           x == v.w
           low == (x[0] + imm) % Base
           D == Idx(v.n) \cup {1}
           Is(f) == f = [i \in D |->
                      CASE i = 0 -> FALSE
                        [] i = 1 -> low < imm
                        [] OTHER -> f[i-1] /\ (x[i-1] + Num(f[i-1])) % Base = Base - 1]
           carry == CHOOSE f : Is(f)
           word(i) == IF i = 0 THEN low ELSE (x[i] + Num(carry[i])) % Base
           w == [i \in Idx(v.n) |-> word(i)]
           y == [i \in 0..m-1 |-> IF i = 0 THEN imm ELSE 0]
           c1 == IF low < imm THEN 1 ELSE 0
           c == [i \in 0..m |-> IF i = 0 THEN 0 ELSE IF i = 1 THEN c1
                                ELSE IF x[1] + c1 >= Base THEN 1 ELSE 0]
<1>1. AddUimm(v, imm) = Masked([v EXCEPT !.w = w]) BY DEF AddUimm
<1>2. v.n = n /\ m = NWords(n) /\ m \in Nat \ {0} /\ m <= 2 /\ Idx(v.n) = 0..m-1 /\ D = {0, 1}
  <2>1. v.n = n /\ m = NWords(n) /\ m \in Nat \ {0} /\ m <= 2 /\ Idx(v.n) = 0..m-1
    BY IntegerOf, WidthOf DEF Idx
  <2> HIDE DEF m
  <2>2. (0..m-1) \cup {1} = {0, 1} BY <2>1
  <2> QED BY <2>1, <2>2
<1>3. x \in [0..m-1 -> Word] /\ x \in [0..m-1 -> Int] /\ Value(v) = Sums(x, m)[m]
  BY <1>2, IntegerOf
<1> HIDE DEF m, x, low, D
<1>4. ~carry[0] /\ (carry[1] <=> low < imm)
  <2> DEFINE g == [i \in D |-> i = 1 /\ low < imm]
  <2> DEFINE h(i) == CASE i = 0 -> FALSE
                       [] i = 1 -> low < imm
                       [] OTHER -> g[i-1] /\ (x[i-1] + Num(g[i-1])) % Base = Base - 1
  <2>1. ASSUME NEW i \in D PROVE g[i] = h(i)
    <3>1. CASE i = 0
      <4>1. ~(i = 1) BY <3>1
      <4>2. g[i] = FALSE BY <4>1
      <4>3. h(i) = FALSE BY <3>1
      <4> QED BY <4>2, <4>3
    <3>2. CASE i = 1
      <4>1. i # 0 BY <3>2
      <4>2. g[i] = (low < imm) BY <3>2
      <4>3. h(i) = (low < imm) BY <3>2, <4>1
      <4> QED BY <4>2, <4>3
    <3> QED BY <1>2, <3>1, <3>2
  <2>2. Is(g)
    <3>1. g = [i \in D |-> h(i)]
      <4> HIDE DEF h
      <4> QED BY <2>1
    <3> QED BY <3>1
  <2>3. Is(carry)
    <3> HIDE DEF Is, g
    <3> QED BY <2>2
  <2> HIDE DEF carry
  <2>4. 0 \in D /\ 1 \in D BY <1>2
  <2>5. carry[0] = FALSE BY <2>3, <2>4
  <2>6. carry[1] = (low < imm) BY <2>3, <2>4
  <2> QED BY <2>5, <2>6
<1> HIDE DEF carry
<1>5. PICK base \in Nat : base = Base /\ base >= 2 BY Places_
<1>6. 0 \in 0..m-1 /\ imm \in 0..base-1 /\ imm \in Int BY <1>2, <1>5, WordIs
<1>7. PICK x0 \in 0..base-1 : x0 = x[0] BY <1>3, <1>5, <1>6, WordIs
<1>8. low \in 0..base-1 /\ low + c1 * base = x0 + imm
  <2>1. base \in Nat \ {0} /\ x0 + imm \in Nat /\ x0 + imm < base + base BY <1>5, <1>6
  <2>2. PICK s \in Nat : s = x0 + imm /\ s < base + base BY <2>1
  <2>3. s % base \in 0..base-1 /\ (s < base => s % base = s) /\ (s >= base => s % base = s - base)
    BY <2>1, <2>2, WrapsTells
  <2>4. low = s % base BY <1>5, <1>7, <2>2 DEF low
  <2>5. low < imm <=> s >= base BY <1>6, <2>2, <2>3, <2>4
  <2>6. CASE s >= base
    <3>1. low + 1 * base = s BY <2>3, <2>4, <2>6
    <3> QED BY <2>2, <2>3, <2>4, <2>5, <2>6, <3>1
  <2>7. CASE s < base
    <3>1. low + 0 * base = s BY <2>3, <2>4, <2>7
    <3> QED BY <2>2, <2>3, <2>4, <2>5, <2>7, <3>1
  <2> QED BY <1>5, <2>2, <2>6, <2>7
<1>9. c1 \in 0..1 /\ c1 \in Int OBVIOUS
<1>10. c[0] = 0 /\ c[1] = c1 BY <1>2
<1> HIDE DEF c1
<1>11. ASSUME NEW i \in 0..m-1
       PROVE  w[i] \in Word /\ w[i] \in Int /\ w[i] + c[i+1] * Base = x[i] + y[i] + c[i]
  <2>1. CASE i = 0
    <3>1. w[0] = low /\ y[0] = imm BY <1>2, <1>6
    <3>2. x0 + imm + 0 = x0 + imm BY <1>6
    <3>3. 0 + 1 = 1 OBVIOUS
    <3> HIDE DEF w, y, c
    <3> QED BY <1>5, <1>7, <1>8, <1>10, <2>1, <3>1, <3>2, <3>3 DEF Word
  <2>2. CASE i # 0
    <3>1. i = 1 /\ m = 2 BY <1>2, <2>2
    <3>2. PICK x1 \in 0..base-1 : x1 = x[1]
      <4>1. 1 \in 0..m-1 BY <3>1
      <4> QED BY <1>3, <1>5, <4>1, WordIs
    <3>3. PICK s \in Nat : s = x1 + c1 /\ s < base + base BY <1>5, <1>9
    <3>4. s % base \in 0..base-1 /\ (s < base => s % base = s) /\ (s >= base => s % base = s - base)
      <4>1. base \in Nat \ {0} BY <1>5
      <4> QED BY <3>3, <4>1, WrapsTells
    <3>5. w[1] = s % base
      <4>1. Num(carry[1]) = c1 BY <1>4 DEF Num, c1
      <4> QED BY <1>2, <1>5, <3>1, <3>2, <3>3, <4>1
    <3>6. c[2] = IF s >= base THEN 1 ELSE 0 BY <1>5, <3>1, <3>2, <3>3
    <3>7. y[1] = 0 BY <3>1
    <3>8. PICK w1 \in 0..base-1 : w1 = w[1] BY <3>4, <3>5
    <3>9. x1 + 0 + c1 = s BY <1>9, <3>3
    <3>10. w1 + c[2] * base = s
      <4>1. CASE s >= base
        <5>1. w1 + 1 * base = s BY <3>4, <3>5, <3>8, <4>1
        <5> QED BY <3>6, <4>1, <5>1
      <4>2. CASE s < base
        <5>1. w1 + 0 * base = s BY <3>4, <3>5, <3>8, <4>2
        <5> QED BY <3>6, <4>2, <5>1
      <4> QED BY <1>5, <4>1, <4>2
    <3>11. 1 + 1 = 2 OBVIOUS
    <3> HIDE DEF w, y, c
    <3> QED BY <1>5, <1>10, <3>1, <3>2, <3>7, <3>8, <3>9, <3>10, <3>11 DEF Word
  <2> QED BY <2>1, <2>2
<1>12. /\ w \in [0..m-1 -> Word] /\ w \in [0..m-1 -> Int] /\ y \in [0..m-1 -> Int]
       /\ c \in [0..m -> Int]
  <2>1. \A i \in 0..m : c[i] \in Int BY <1>9
  <2>2. \A i \in 0..m-1 : y[i] \in Int BY <1>6
  <2>3. w = [i \in 0..m-1 |-> w[i]] BY <1>2
  <2>4. w \in [0..m-1 -> Word] /\ w \in [0..m-1 -> Int]
    <3> HIDE DEF w
    <3> QED BY <1>11, <2>3
  <2> QED BY <2>1, <2>2, <2>4
<1>13. Sums(y, m)[m] = imm
  <2>1. y[0] = imm /\ OnlyAt(y, 0, m) BY <1>6 DEF OnlyAt
  <2> HIDE DEF y
  <2>2. m \in Nat BY <1>2
  <2>3. Sums(y, m)[m] = y[0] * Place(0) BY <1>6, <1>12, <2>1, <2>2, SumsOne
  <2>4. Place(0) = 1 BY Places_
  <2>5. imm * 1 = imm BY <1>6
  <2> QED BY <2>1, <2>3, <2>4, <2>5
<1>14. m \in 0..m /\ 0 \in 0..m /\ m \in Nat BY <1>2
<1> HIDE DEF w, y, c
<1>15. Sums(w, m)[m] + c[m] * Place(m) = Sums(x, m)[m] + Sums(y, m)[m] + c[0]
  <2>1. Chained(w, x, y, c, m) BY <1>11 DEF Chained
  <2>2. m \in Nat /\ w \in [0..m-1 -> Int] /\ x \in [0..m-1 -> Int]
          /\ y \in [0..m-1 -> Int] /\ c \in [0..m -> Int]
    BY <1>3, <1>12, <1>14
  <2>3. ChainedSums(w, x, y, c, m) BY <2>1, <2>2, Chain
  <2> QED BY <1>14, <2>3 DEF ChainedSums
<1>16. PICK p \in Int, d \in Int, sx \in Int, sw \in Int :
         /\ p = Place(m) /\ d = c[m] /\ sx = Sums(x, m)[m] /\ sw = Sums(w, m)[m]
  BY <1>3, <1>12, <1>14, PlaceIs, SumsInt
<1>17. sw + d * p = sx + imm BY <1>6, <1>10, <1>13, <1>15, <1>16
<1>18. PICK t \in Int, j \in Int : t = sx + imm /\ j = -d BY <1>6
<1>19. sw = t + j * p BY <1>17, <1>18
<1>20. Sums(w, NWords(n))[NWords(n)] = t + j * Place(NWords(n)) BY <1>2, <1>16, <1>19
<1>21. w \in [0..NWords(n)-1 -> Word] BY <1>2, <1>12
<1>22. Canonical(AddUimm(v, imm), n) /\ Value(AddUimm(v, imm)) = t % 2^n
  BY SMTT(40), <1>1, <1>20, <1>21, ResultIs
<1> QED BY <1>3, <1>16, <1>18, <1>22

\* Negation adds one to the complement.
LEMMA NegateExact ==
  ASSUME NEW n \in Nat \ {0}, NWords(n) <= 2, NEW v \in AInt(n)
  PROVE  Canonical(Negate(v), n) /\ Value(Negate(v)) = (-Value(v)) % 2^n
<1>1. PICK x \in Int, z \in Nat \ {0} : x = Value(v) /\ z = 2^n
  <2>1. Value(v) \in Int /\ 2^n \in Nat \ {0}
    <3>1. NWords(n) \in Nat BY WidthOf
    <3>2. v.w \in [0..NWords(n)-1 -> Int] /\ Value(v) = Sums(v.w, NWords(n))[NWords(n)]
      BY IntegerOf
    <3>3. NWords(n) \in 0..NWords(n) BY <3>1
    <3>4. 2^n \in Nat /\ 2^n >= 2 BY WidthOf
    <3> QED BY <3>1, <3>2, <3>3, <3>4, SumsInt
  <2> QED BY <2>1
<1>2. 1 \in Word
  <2>1. Base \in Nat /\ Base >= 2 BY Places_
  <2> QED BY <2>1 DEF Word
<1>3. Complement(v) \in AInt(n) /\ Value(Complement(v)) = (-x - 1) % z
  BY <1>1, ComplementExact DEF Canonical
<1>4. /\ Canonical(Negate(v), n)
      /\ Value(Negate(v)) = (Value(Complement(v)) + 1) % z
  <2>1. /\ Canonical(AddUimm(Complement(v), 1), n)
        /\ Value(AddUimm(Complement(v), 1)) = (Value(Complement(v)) + 1) % 2^n
    BY <1>2, <1>3, AddUimmExact
  <2> QED BY <1>1, <2>1 DEF Negate
<1>5. PICK t \in Int : t = -x - 1 OBVIOUS
<1>6. t = (t \div z) * z + (t % z) /\ t % z \in 0..z-1 /\ t \div z \in Int BY DivModOf
<1>7. PICK q \in Int, r \in Int : q = t \div z /\ r = t % z BY <1>6
<1>8. -x = r + 1 + q * z
  <2>1. t = q * z + r BY <1>6, <1>7
  <2>2. PICK p \in Int : p = q * z OBVIOUS
  <2>3. -x = r + 1 + p BY <1>5, <2>1, <2>2
  <2> QED BY <2>2, <2>3
<1>9. PICK g \in Int, h \in Int : g = -x /\ h = r + 1 OBVIOUS
<1>10. g = h + q * z BY <1>8, <1>9
<1>11. g % z = h % z BY <1>10, Congruent
<1> QED BY <1>1, <1>3, <1>4, <1>5, <1>7, <1>9, <1>11
-----------------------------------------------------------------------------
(***************************************************************************)
(* The product of two words.                                               *)
(***************************************************************************)
Pairs == [low : Word, high : Nat]

IsPair(p, x) == p \in Pairs /\ x = p.low + p.high * Base

\* A word added to a pair: what the low word wraps by goes into the high one.
LEMMA PlusIs ==
  ASSUME NEW p \in Pairs, NEW x \in Int, NEW word \in Word, IsPair(p, x)
  PROVE  IsPair(Plus(p, word), x + word)
<1>1. PICK base \in Nat \ {0}, l \in Nat, h \in Nat, w \in Nat :
        /\ base = Base /\ l = p.low /\ h = p.high /\ w = word /\ l < base /\ w < base
  <2>1. Base \in Nat \ {0} BY Places_
  <2>2. p.low \in Word /\ p.high \in Nat BY DEF Pairs
  <2> QED BY <2>1, <2>2, WordIs
<1>2. PICK s \in Nat : s = l + w /\ s < base + base BY <1>1
<1>3. PICK r \in 0..base-1 :
        r = s % base /\ (s < base => r = s) /\ (s >= base => r = s - base)
  BY <1>2, WrapsTells
<1>4. r < l <=> s >= base BY <1>1, <1>2, <1>3
<1>5. PICK e \in Nat : e = IF r < l THEN 1 ELSE 0 OBVIOUS
<1>6. Plus(p, word) = [low |-> r, high |-> h + e]
  BY <1>1, <1>2, <1>3, <1>5 DEF Plus, Num
<1>7. r + (h + e) * base = l + h * base + w
  <2>1. PICK hb \in Int : hb = h * base OBVIOUS
  <2>2. (h + e) * base = hb + e * base BY <2>1
  <2>3. CASE s >= base
    <3>1. e * base = base BY <1>4, <1>5, <2>3
    <3> QED BY <1>2, <1>3, <2>1, <2>2, <2>3, <3>1
  <2>4. CASE s < base
    <3>1. e * base = 0 BY <1>2, <1>4, <1>5, <2>4
    <3> QED BY <1>2, <1>3, <2>1, <2>2, <2>4, <3>1
  <2> QED BY <1>1, <1>2, <2>3, <2>4
<1>8. x = l + h * base BY <1>1 DEF IsPair
<1>9. r \in Word /\ h + e \in Nat BY <1>1, <1>3 DEF Word
<1>10. [low |-> r, high |-> h + e] \in Pairs BY <1>9 DEF Pairs
<1> QED BY <1>1, <1>6, <1>7, <1>8, <1>10 DEF IsPair

\* A product of two halves, one of them the higher of its word, is added half a
\* word up.
LEMMA PlusMidIs ==
  ASSUME NEW p \in Pairs, NEW x \in Int, NEW mid \in Nat, IsPair(p, x)
  PROVE  IsPair(PlusMid(p, mid), x + mid * Half)
<1>1. PICK half \in Nat \ {0}, base \in Nat \ {0} : half = Half /\ base = Base /\ base = half * half
  <2>1. Half \in Nat /\ Half >= 2 /\ Base \in Nat /\ Base >= 2 /\ Base = Half * Half BY Places_
  <2> QED BY <2>1
<1>2. PICK q \in Int, r \in 0..half-1 :
        mid = q * half + r /\ mid \div half = q /\ mid % half = r
  <2>1. mid = (mid \div half) * half + (mid % half) /\ mid % half \in 0..half-1
          /\ mid \div half \in Int
    BY DivModOf
  <2> QED BY <2>1
<1>3. q \in Nat
  <2>1. SUFFICES ASSUME q <= -1 PROVE FALSE OBVIOUS
  <2>2. q * half <= -half BY <2>1
  <2>3. PICK s \in Int : s = q * half BY <2>2
  <2> QED BY <1>2, <2>2, <2>3
<1>4. PICK rh \in Nat : rh = r * half /\ rh \in 0..base-1
  <2>1. r * half <= (half - 1) * half /\ r * half >= 0 BY <1>2
  <2>2. (half - 1) * half = half * half - half OBVIOUS
  <2> QED BY <1>1, <2>1, <2>2
<1>5. (mid * half) % base = rh
  <2>1. mid * half = q * base + rh BY <1>1, <1>2, <1>4
  <2>2. PICK s \in Int : s = mid * half OBVIOUS
  <2>3. \A t \in Int : t = q * base + rh => t % base = rh BY <1>4, DivMod
  <2> QED BY <2>1, <2>2, <2>3
<1> DEFINE p1 == [p EXCEPT !.high = @ + q]
<1>6. PICK l \in Word, h \in Nat : p = [low |-> l, high |-> h] BY DEF Pairs
<1>7. PlusMid(p, mid) = Plus(p1, rh) BY <1>1, <1>2, <1>5 DEF PlusMid
<1>8. p1 = [low |-> l, high |-> h + q] BY <1>6
<1>9. IsPair(p1, x + q * base)
  <2>1. x = l + h * base BY <1>1, <1>6 DEF IsPair
  <2>2. l \in Int BY WordIs
  <2>3. x + q * base = l + (h + q) * base BY <2>1, <2>2
  <2>4. h + q \in Nat BY <1>3
  <2> QED BY <1>1, <1>8, <2>3, <2>4 DEF IsPair, Pairs
<1>10. PICK y \in Int : y = x + q * base OBVIOUS
<1>11. rh \in Word BY <1>1, <1>4 DEF Word
<1>12. p1 \in Pairs /\ IsPair(p1, y) BY <1>9, <1>10 DEF IsPair
<1> HIDE DEF p1
<1>13. IsPair(Plus(p1, rh), y + rh) BY <1>11, <1>12, PlusIs
<1>14. y + rh = x + mid * half
  <2>1. mid * half = q * base + rh BY <1>1, <1>2, <1>4
  <2>2. PICK s \in Int, t \in Int : s = mid * half /\ t = q * base OBVIOUS
  <2> QED BY <1>10, <2>1, <2>2
<1> QED BY <1>1, <1>7, <1>13, <1>14

\* tc_multiply_part is exact, and the high part fits in a word.
LEMMA TimesIs ==
  ASSUME NEW x \in Word, NEW y \in Word, NEW carry \in Word
  PROVE  IsPair(Times(x, y, carry), x * y + carry)
<1>1. PICK half \in Nat \ {0}, base \in Nat \ {0} : half = Half /\ base = Base /\ base = half * half
  <2>1. Half \in Nat /\ Half >= 2 /\ Base \in Nat /\ Base >= 2 /\ Base = Half * Half BY Places_
  <2> QED BY <2>1
<1>2. x \in Nat /\ y \in Nat /\ carry \in Nat /\ x < base /\ y < base BY <1>1, WordIs
<1>3. CASE x = 0 \/ y = 0
  <2>1. Times(x, y, carry) = [low |-> carry, high |-> 0] BY <1>3 DEF Times
  <2>2. x * y = 0 BY <1>2, <1>3
  <2>3. 0 + carry = carry + 0 * base BY <1>2
  <2> QED BY <1>1, <2>1, <2>2, <2>3 DEF IsPair, Pairs
<1>4. CASE ~(x = 0 \/ y = 0)
  <2>1. ASSUME NEW z \in Nat, z < base
        PROVE  \E h \in Nat, l \in 0..half-1 : z = h * half + l /\ z % half = l /\ z \div half = h
    <3>1. PICK h \in Int, l \in 0..half-1 : z = h * half + l /\ z % half = l /\ z \div half = h
      <4>1. z = (z \div half) * half + (z % half) /\ z % half \in 0..half-1 /\ z \div half \in Int
        BY DivModOf
      <4> QED BY <4>1
    <3>2. h >= 0
      <4>1. SUFFICES ASSUME h <= -1 PROVE FALSE OBVIOUS
      <4>2. h * half <= -half BY <4>1
      <4>3. PICK s \in Int : s = h * half BY <4>2
      <4> QED BY <3>1, <4>2, <4>3
    <3> QED BY <3>1, <3>2
  <2>2. PICK xh \in Nat, xl \in 0..half-1 : x = xh * half + xl /\ x % half = xl /\ x \div half = xh
    BY <1>2, <2>1
  <2>3. PICK yh \in Nat, yl \in 0..half-1 : y = yh * half + yl /\ y % half = yl /\ y \div half = yh
    BY <1>2, <2>1
  <2> DEFINE ends == [low |-> xl * yl, high |-> xh * yh]
  <2>4. Times(x, y, carry) = Plus(PlusMid(PlusMid(ends, xl * yh), xh * yl), carry)
    BY <1>1, <1>4, <2>2, <2>3 DEF Times
  <2>5. PICK e \in Int, m1 \in Nat, m2 \in Nat :
          e = xl * yl + (xh * yh) * base /\ m1 = xl * yh /\ m2 = xh * yl
    <3>1. xl \in Nat /\ yl \in Nat OBVIOUS
    <3> QED BY <3>1
  <2>6. IsPair(ends, e)
    <3>1. xl * yl \in 0..base-1
      <4>1. xl * yl <= (half - 1) * yl /\ xl * yl >= 0 BY <2>2, <2>3
      <4>2. (half - 1) * yl <= (half - 1) * (half - 1) BY <2>3
      <4>3. (half - 1) * (half - 1) = half * half - half - half + 1 OBVIOUS
      <4>4. PICK s \in Int, t \in Int : s = xl * yl /\ t = (half - 1) * yl OBVIOUS
      <4>5. s <= half * half - half - half + 1 BY <4>1, <4>2, <4>3, <4>4
      <4>6. PICK hh \in Int : hh = half * half OBVIOUS
      <4>7. half >= 1 OBVIOUS
      <4>8. s <= hh - 1 BY <4>5, <4>6, <4>7
      <4> QED BY <1>1, <4>1, <4>4, <4>6, <4>8
    <3>2. xh * yh \in Nat OBVIOUS
    <3>3. xl * yl \in Word BY <1>1, <3>1 DEF Word
    <3>4. ends \in Pairs BY <3>2, <3>3 DEF Pairs
    <3> QED BY <1>1, <2>5, <3>4 DEF IsPair
  <2>7. ends \in Pairs BY <2>6 DEF IsPair
  <2> HIDE DEF ends
  <2>8. PICK e1 \in Int, e2 \in Int : e1 = e + m1 * half /\ e2 = e1 + m2 * half OBVIOUS
  <2> DEFINE p1 == PlusMid(ends, m1)
             p2 == PlusMid(p1, m2)
  <2>9. IsPair(p1, e1) BY <1>1, <2>6, <2>7, <2>8, PlusMidIs
  <2>10. p1 \in Pairs BY <2>9 DEF IsPair
  <2> HIDE DEF p1
  <2>11. IsPair(p2, e2) BY <1>1, <2>8, <2>9, <2>10, PlusMidIs
  <2>12. p2 \in Pairs BY <2>11 DEF IsPair
  <2> HIDE DEF p2
  <2>13. IsPair(Plus(p2, carry), e2 + carry) BY <2>11, <2>12, PlusIs
  <2>14. e2 = x * y
    <3>1. x * y = (xh * half + xl) * (yh * half + yl) BY <2>2, <2>3
    <3>2. (xh * half + xl) * (yh * half + yl)
            = xl * yl + (xh * yh) * (half * half) + (xl * yh) * half + (xh * yl) * half
      OBVIOUS
    <3>3. e2 = xl * yl + (xh * yh) * (half * half) + (xl * yh) * half + (xh * yl) * half
      BY <1>1, <2>5, <2>8
    <3> QED BY <3>1, <3>2, <3>3
  <2> QED BY <2>4, <2>5, <2>13, <2>14 DEF p1, p2
<1> QED BY <1>3, <1>4

\* A part of a row: the product, what was carried, and what was there.
LEMMA PartIs ==
  ASSUME NEW x \in Word, NEW y \in Word, NEW carry \in Word, NEW z \in Word
  PROVE  LET p == Plus(Times(x, y, carry), z)
         IN  p.low \in Word /\ p.high \in Word /\ p.low + p.high * Base = x * y + carry + z
<1> DEFINE t == Times(x, y, carry)
           p == Plus(t, z)
<1>1. PICK base \in Nat \ {0} : base = Base BY Places_
<1>2. x \in 0..base-1 /\ y \in 0..base-1 /\ carry \in 0..base-1 /\ z \in 0..base-1
  BY <1>1, WordIs
<1>3. PICK e \in Int : e = x * y + carry BY <1>2
<1>4. IsPair(t, e) BY <1>3, TimesIs
<1>5. t \in Pairs BY <1>4 DEF IsPair
<1> HIDE DEF t
<1>6. IsPair(p, e + z) BY <1>4, <1>5, PlusIs
<1>7. PICK l \in Nat, h \in Nat : l = p.low /\ h = p.high /\ e + z = l + h * base /\ l \in Word
  <2>1. p \in Pairs BY <1>6 DEF IsPair
  <2>2. p.low \in Word /\ p.high \in Nat BY <2>1 DEF Pairs
  <2> QED BY <1>1, <1>6, <2>2, WordIs DEF IsPair
<1>8. h < base
  <2>1. SUFFICES ASSUME h >= base PROVE FALSE OBVIOUS
  <2>2. h * base >= base * base BY <2>1
  <2>3. x * y <= (base - 1) * y BY <1>2
  <2>4. (base - 1) * y <= (base - 1) * (base - 1) BY <1>2
  <2>5. (base - 1) * (base - 1) = base * base - base - base + 1 OBVIOUS
  <2>6. PICK bb \in Int, xy \in Int, by \in Int, hb \in Int :
          bb = base * base /\ xy = x * y /\ by = (base - 1) * y /\ hb = h * base
    BY <1>2
  <2>7. xy <= bb - base - base + 1 BY <2>3, <2>4, <2>5, <2>6
  <2>8. e + z <= bb - 1 BY <1>2, <1>3, <2>6, <2>7
  <2>9. e + z >= bb BY <1>7, <2>2, <2>6
  <2>10. e + z \in Int BY <1>2
  <2> QED BY <2>8, <2>9, <2>10
<1>9. h \in Word BY <1>1, <1>8 DEF Word
<1> QED BY <1>1, <1>3, <1>7, <1>9 DEF t

\* The places of i + j words.
LEMMA PlaceSum ==
  ASSUME NEW i \in Nat, NEW j \in Nat
  PROVE  Place(i + j) = Place(i) * Place(j)
<1>1. PICK w \in Nat : w = WordBits BY WordBitsAssumption
<1>2. (i + j) * w = i * w + j * w /\ i * w \in Nat /\ j * w \in Nat OBVIOUS
<1>3. 2^(i * w + j * w) = 2^(i * w) * 2^(j * w) BY <1>2, PowersOf
<1> QED BY <1>1, <1>2, <1>3 DEF Place
-----------------------------------------------------------------------------
(***************************************************************************)
(* A row of a product.                                                     *)
(***************************************************************************)
Parts == [low : Word, high : Word]

IsRow(f, dst, at, src, mul, parts) ==
  f = [j \in 0..parts |->
         LET carry == IF j = 0 THEN 0 ELSE f[j-1].high
         IN  IF j = parts THEN [low |-> carry, high |-> 0]
             ELSE Plus(Times(src[j], mul, carry), dst[at + j])]

\* The words r of a row, and what is carried into each.
RowOf(r, c, dst, at, src, mul, parts) ==
  /\ r \in [0..parts-1 -> Word] /\ c \in [0..parts -> Word] /\ c[0] = 0
  /\ \A j \in 0..parts-1 : r[j] + c[j+1] * Base = src[j] * mul + dst[at + j] + c[j]

AreWords(src, dst, at, parts) == \A j \in 0..parts-1 : src[j] \in Word /\ dst[at + j] \in Word

IsRowOf(row, dst, at, src, mul, parts) ==
  \E r, c : /\ RowOf(r, c, dst, at, src, mul, parts)
            /\ \A j \in 0..parts-1 : row[j] = r[j]
            /\ row[parts] = c[parts]

\* The words of a row, with what is carried into each, add up to the products.
LEMMA RowIs ==
  ASSUME NEW parts \in Nat \ {0}, NEW at \in Nat, NEW src, NEW dst, NEW mul \in Word,
         AreWords(src, dst, at, parts)
  PROVE  IsRowOf(Row(dst, at, src, mul, parts), dst, at, src, mul, parts)
<1> DEFINE term == CHOOSE f : IsRow(f, dst, at, src, mul, parts)
           part(j, carry) == Plus(Times(src[j], mul, carry), dst[at + j])
           start == part(0, 0)
           next == [k \in 0+1..parts |-> [t \in Parts |->
                      IF k = parts THEN [low |-> t.high, high |-> 0] ELSE part(k, t.high)]]
<1>1. Row(dst, at, src, mul, parts) = [j \in 0..parts |-> term[j].low] BY DEF Row, IsRow
<1>2. 0 \in Word
  <2>1. Base \in Nat /\ Base >= 2 BY Places_
  <2> QED BY <2>1 DEF Word
<1>3. ASSUME NEW j \in 0..parts-1, NEW carry \in Word
      PROVE  /\ part(j, carry) \in Parts
             /\ part(j, carry).low + part(j, carry).high * Base
                  = src[j] * mul + carry + dst[at + j]
  <2>1. PICK x \in Word, z \in Word : x = src[j] /\ z = dst[at + j] BY DEF AreWords
  <2> DEFINE p == Plus(Times(x, mul, carry), z)
  <2>2. p.low \in Word /\ p.high \in Word /\ p.low + p.high * Base = x * mul + carry + z
    BY PartIs
  <2>3. \E l, h : p = [low |-> l, high |-> h] BY DEF Plus
  <2>4. part(j, carry) = p BY <2>1
  <2> HIDE DEF p, part
  <2>5. p \in Parts BY <2>2, <2>3 DEF Parts
  <2> QED BY <2>1, <2>2, <2>4, <2>5
<1> HIDE DEF part
<1>4. start \in Parts
  <2>1. 0 \in 0..parts-1 OBVIOUS
  <2> QED BY <1>2, <1>3, <2>1
<1>5. next \in [0+1..parts -> [Parts -> Parts]]
  <2>1. ASSUME NEW k \in 0+1..parts, NEW t \in Parts
        PROVE  (IF k = parts THEN [low |-> t.high, high |-> 0] ELSE part(k, t.high)) \in Parts
    <3>1. t.high \in Word BY DEF Parts
    <3>2. CASE k = parts BY <1>2, <3>1, <3>2 DEF Parts
    <3>3. CASE k # parts
      <4>1. k \in 0..parts-1 BY <3>3
      <4> QED BY <1>3, <3>1, <3>3, <4>1
    <3> QED BY <3>2, <3>3
  <2> QED BY <2>1
<1>6. PICK f \in [0..parts -> Parts] :
        f = [k \in 0..parts |-> IF k = 0 THEN start ELSE next[k][f[k-1]]]
  <2> HIDE DEF next, start
  <2>1. 0 \in Int /\ parts \in Int OBVIOUS
  <2>2. \E f \in [0..parts -> Parts] : Iteration(f, 0, parts, start, next)
    BY <1>4, <1>5, <2>1, Iterates
  <2> QED BY <2>2 DEF Iteration
<1>7. IsRow(f, dst, at, src, mul, parts)
  <2> DEFINE g == [j \in 0..parts |->
                     LET carry == IF j = 0 THEN 0 ELSE f[j-1].high
                     IN  IF j = parts THEN [low |-> carry, high |-> 0]
                         ELSE Plus(Times(src[j], mul, carry), dst[at + j])]
  <2>1. ASSUME NEW k \in 0..parts PROVE f[k] = g[k]
    <3>1. CASE k = 0
      <4>1. f[k] = start BY <1>6, <3>1
      <4>2. g[k] = start BY <3>1 DEF part
      <4> QED BY <4>1, <4>2
    <3>2. CASE k # 0
      <4>1. k \in 0+1..parts /\ k - 1 \in 0..parts BY <3>2
      <4>2. f[k-1] \in Parts BY <4>1
      <4>3. f[k] = next[k][f[k-1]]
        <5> HIDE DEF next
        <5> QED BY <1>6, <3>2
      <4>4. next[k][f[k-1]] = IF k = parts THEN [low |-> f[k-1].high, high |-> 0]
                              ELSE part(k, f[k-1].high)
        BY <4>1, <4>2
      <4>5. g[k] = IF k = parts THEN [low |-> f[k-1].high, high |-> 0]
                   ELSE part(k, f[k-1].high)
        BY <3>2 DEF part
      <4> QED BY <4>3, <4>4, <4>5
    <3> QED BY <3>1, <3>2
  <2>2. f = g BY <2>1
  <2> QED BY <2>2 DEF IsRow
<1>8. IsRow(term, dst, at, src, mul, parts)
  <2> HIDE DEF IsRow
  <2> QED BY <1>7
<1> HIDE DEF term, next, start
<1>9. term[0] = part(0, 0)
  <2>1. 0 \in 0..parts /\ 0 # parts OBVIOUS
  <2> QED BY <1>8, <2>1 DEF IsRow, part
<1>10. \A k \in 1..parts-1 : term[k] = part(k, term[k-1].high) BY <1>8 DEF IsRow, part
<1>11. term[parts] = [low |-> term[parts-1].high, high |-> 0]
  <2>1. parts \in 0..parts /\ parts # 0 OBVIOUS
  <2> QED BY <1>8, <2>1 DEF IsRow
<1>12. \A k \in 0..parts-1 : term[k] \in Parts
  <2> DEFINE S == {k \in 0..parts-1 : term[k] \in Parts}
  <2>1. 0 \in S
    <3>1. 0 \in 0..parts-1 OBVIOUS
    <3> QED BY <1>2, <1>3, <1>9, <3>1
  <2>2. ASSUME NEW k \in 0..parts-1-1, k \in S PROVE k + 1 \in S
    <3>1. PICK j \in 1..parts-1 : j = k + 1 /\ j - 1 = k /\ j \in 0..parts-1 OBVIOUS
    <3>2. term[j] = part(j, term[k].high) BY <1>10, <3>1
    <3>3. term[k].high \in Word BY <2>2 DEF Parts
    <3> QED BY <1>3, <3>1, <3>2, <3>3
  <2> HIDE DEF S
  <2>3. parts - 1 \in Nat OBVIOUS
  <2>4. \A k \in 0..parts-1 : k \in S BY <2>1, <2>2, <2>3, Induct
  <2> QED BY <2>4 DEF S
<1> DEFINE r == [j \in 0..parts-1 |-> term[j].low]
           c == [j \in 0..parts |-> IF j = 0 THEN 0 ELSE term[j-1].high]
<1>13. r \in [0..parts-1 -> Word] BY <1>12 DEF Parts
<1>14. \A j \in 0..parts : c[j] \in Word
  <2>1. TAKE j \in 0..parts
  <2>2. CASE j = 0 BY <1>2, <2>2
  <2>3. CASE j # 0
    <3>1. j - 1 \in 0..parts-1 BY <2>3
    <3> QED BY <1>12, <2>3, <3>1 DEF Parts
  <2> QED BY <2>2, <2>3
<1>15. ASSUME NEW j \in 0..parts-1
       PROVE  r[j] + c[j+1] * Base = src[j] * mul + dst[at + j] + c[j]
  <2>1. j \in 0..parts /\ c[j] \in Word BY <1>14
  <2>2. c[j+1] = term[j].high
    <3>1. PICK k \in 0..parts : k = j + 1 /\ k # 0 /\ k - 1 = j OBVIOUS
    <3> QED BY <3>1
  <2>3. term[j] = part(j, c[j])
    <3>1. CASE j = 0 BY <1>9, <3>1
    <3>2. CASE j # 0
      <4>1. j \in 1..parts-1 BY <3>2
      <4> QED BY <1>10, <2>1, <3>2, <4>1
    <3> QED BY <3>1, <3>2
  <2>4. r[j] = term[j].low OBVIOUS
  <2>5. PICK cj \in Word : cj = c[j] BY <2>1
  <2> HIDE DEF r, c
  <2>6. part(j, cj).low + part(j, cj).high * Base = src[j] * mul + cj + dst[at + j] BY <1>3
  <2>7. PICK x \in Int, z \in Int, y \in Int, u \in Int :
          x = src[j] /\ z = dst[at + j] /\ y = mul /\ u = cj
    BY WordIs DEF AreWords
  <2>8. x * y + u + z = x * y + z + u
    <3>1. PICK q \in Int : q = x * y OBVIOUS
    <3> QED BY <3>1
  <2> QED BY <2>2, <2>3, <2>4, <2>5, <2>6, <2>7, <2>8
<1>16. c \in [0..parts -> Word] /\ c[0] = 0
  <2>1. c[0] = 0 OBVIOUS
  <2> QED BY <1>14, <2>1
<1>17. RowOf(r, c, dst, at, src, mul, parts)
  <2> HIDE DEF r, c
  <2> QED BY <1>13, <1>15, <1>16 DEF RowOf
<1>18. \A j \in 0..parts-1 : Row(dst, at, src, mul, parts)[j] = r[j] BY <1>1
<1>19. Row(dst, at, src, mul, parts)[parts] = c[parts]
  <2>1. parts \in 0..parts /\ parts # 0 OBVIOUS
  <2>2. Row(dst, at, src, mul, parts)[parts] = term[parts].low BY <1>1, <2>1
  <2>3. c[parts] = term[parts-1].high BY <2>1
  <2>4. term[parts].low = term[parts-1].high BY <1>11
  <2> QED BY <2>2, <2>3, <2>4
<1> HIDE DEF r, c
<1> QED BY <1>17, <1>18, <1>19 DEF IsRowOf

\* What a row adds to the words it is added to.
RowInto(res, dst, r, at, parts) ==
  /\ \A j \in 0..at-1 : res[j] = dst[j]
  /\ \A j \in 0..parts-1 : res[at + j] = r[j]

RowAdds(res, dst, src, mul, c, at, parts, m) ==
  Sums(res, m)[at + parts] + c[parts] * Place(at + parts)
    = Sums(dst, m)[at + parts] + Sums(src, m)[parts] * mul * Place(at)

\* A row adds the number times one word, but for the carry out of it.
LEMMA RowSums ==
  ASSUME NEW m \in Nat, NEW parts \in Nat, NEW at \in Nat, at + parts <= m,
         NEW dst \in [0..m-1 -> Word], NEW res \in [0..m-1 -> Word],
         NEW src \in [0..m-1 -> Word], NEW mul \in Word, NEW r, NEW c,
         RowOf(r, c, dst, at, src, mul, parts), RowInto(res, dst, r, at, parts)
  PROVE  RowAdds(res, dst, src, mul, c, at, parts, m)
<1>1. /\ dst \in [0..m-1 -> Int] /\ res \in [0..m-1 -> Int] /\ src \in [0..m-1 -> Int]
      /\ mul \in Int
  <2>1. \A i \in 0..m-1 : dst[i] \in Int /\ res[i] \in Int /\ src[i] \in Int BY WordIs
  <2> QED BY <2>1, WordIs
<1> DEFINE S == {j \in 0..parts : Sums(res, m)[at + j] + c[j] * Place(at + j)
                   = Sums(dst, m)[at + j] + Sums(src, m)[j] * mul * Place(at)}
<1>2. 0 \in S
  <2>1. at \in 0..m /\ at + 0 = at OBVIOUS
  <2>2. Sums(res, m)[at] = Sums(dst, m)[at]
    <3>1. PICK k \in 0..m : k = at /\ k <= m BY <2>1
    <3>2. \A i \in 0..k-1 : res[i] = dst[i] BY <3>1 DEF RowInto
    <3> QED BY <1>1, <3>1, <3>2, SumsSame
  <2>3. c[0] = 0 /\ Sums(src, m)[0] = 0 BY <1>1, SumsAre DEF RowOf
  <2>4. PICK p \in Int, s \in Int, u \in Int : p = Place(at) /\ s = Sums(dst, m)[at] /\ u = mul
    BY <1>1, <2>1, PlaceIs, SumsInt
  <2>5. s + 0 * p = s + 0 * u * p OBVIOUS
  <2> QED BY <2>1, <2>2, <2>3, <2>4, <2>5
<1>3. ASSUME NEW j \in 0..parts-1, j \in S PROVE j + 1 \in S
  <2>1. PICK k \in 0..m-1 : k = at + j /\ k + 1 = at + (j + 1) OBVIOUS
  <2>2. j \in 0..m-1 /\ k \in Nat /\ j \in Nat /\ j + 1 \in 0..parts OBVIOUS
  <2>3. PICK sr \in Int, sd \in Int, ss \in Int, p \in Int, pa \in Int, pj \in Int, base \in Int :
          /\ sr = Sums(res, m)[k] /\ sd = Sums(dst, m)[k] /\ ss = Sums(src, m)[j]
          /\ p = Place(k) /\ pa = Place(at) /\ pj = Place(j) /\ base = Base
    <3>1. Sums(res, m)[k] \in Int /\ Sums(dst, m)[k] \in Int /\ Sums(src, m)[j] \in Int
      BY <1>1, <2>1, <2>2, SumsStep
    <3>2. Place(k) \in Int /\ Place(at) \in Int /\ Place(j) \in Int BY <2>2, PlaceIs
    <3>3. Base \in Int BY Places_
    <3> QED BY <3>1, <3>2, <3>3
  <2>4. PICK x \in Int, y \in Int, z \in Int, u \in Int, d \in Int, e \in Int :
          x = res[k] /\ y = dst[k] /\ z = src[j] /\ u = mul /\ d = c[j] /\ e = c[j+1]
    <3>1. c[j] \in Word /\ c[j+1] \in Word
      <4>1. j \in 0..parts /\ j + 1 \in 0..parts OBVIOUS
      <4> QED BY <4>1 DEF RowOf
    <3>2. c[j] \in Int /\ c[j+1] \in Int BY <3>1, WordIs
    <3> QED BY <1>1, <2>1, <2>2, <3>2
  <2>5. x + e * base = z * u + y + d
    <3>1. r[j] + c[j+1] * Base = src[j] * mul + dst[at + j] + c[j] BY DEF RowOf
    <3>2. res[k] = r[j] BY <2>1 DEF RowInto
    <3> QED BY <2>1, <2>3, <2>4, <3>1, <3>2
  <2>6. sr + d * p = sd + ss * u * pa BY <1>3, <2>1, <2>3, <2>4
  <2>7. p = pa * pj BY <2>1, <2>2, <2>3, PlaceSum
  <2>8. /\ Sums(res, m)[k+1] = sr + x * p /\ Sums(dst, m)[k+1] = sd + y * p
        /\ Place(k+1) = p * base
    BY ZenonT(40), <1>1, <2>1, <2>3, <2>4, SumsStep
  <2>9. Sums(src, m)[j+1] = ss + z * pj BY ZenonT(40), <1>1, <2>2, <2>3, <2>4, SumsStep
  <2>10. sr + x * p + e * (p * base) = sd + y * p + (ss + z * pj) * u * pa
    <3>1. (x + e * base) * p = (z * u + y + d) * p BY <2>5
    <3>2. x * p + e * (p * base) = (z * u) * p + y * p + d * p BY <3>1
    <3>3. (ss + z * pj) * u * pa = ss * u * pa + (z * u) * p BY <2>7
    <3>4. PICK xp \in Int, ep \in Int, zp \in Int, yp \in Int, dp \in Int, sp \in Int :
            /\ xp = x * p /\ ep = e * (p * base) /\ zp = (z * u) * p /\ yp = y * p
            /\ dp = d * p /\ sp = ss * u * pa
      OBVIOUS
    <3>5. xp + ep = zp + yp + dp /\ sr + dp = sd + sp BY <2>6, <3>2, <3>4
    <3>6. sr + xp + ep = sd + yp + (sp + zp) BY <3>5
    <3> QED BY <3>3, <3>4, <3>6
  <2> QED BY ZenonT(40), <2>1, <2>2, <2>4, <2>8, <2>9, <2>10, <2>3
<1> HIDE DEF S
<1>4. \A j \in 0..parts : j \in S BY <1>2, <1>3, Induct
<1>5. parts \in S BY <1>4
<1> QED BY <1>5 DEF S, RowAdds

\* What the words from the i-th on stand for is a multiple of its place.
LEMMA UpperPart ==
  ASSUME NEW m \in Nat, NEW w \in [0..m-1 -> Word], NEW i \in 0..m
  PROVE  \E h \in Nat : Sums(w, m)[m] = Sums(w, m)[i] + h * Place(i)
<1>0. w \in [0..m-1 -> Int]
  <2>1. \A j \in 0..m-1 : w[j] \in Int BY WordIs
  <2> QED BY <2>1
<1> DEFINE d == m - i
           S == {j \in 0..d : \E h \in Nat : Sums(w, m)[i+j] = Sums(w, m)[i] + h * Place(i)}
<1>1. d \in Nat /\ i + d = m /\ i \in Nat OBVIOUS
<1>2. PICK p \in Nat, s \in Int : p = Place(i) /\ s = Sums(w, m)[i] BY <1>0, <1>1, PlaceIs, SumsInt
<1>3. 0 \in S
  <2>1. i + 0 = i OBVIOUS
  <2>2. s = s + 0 * p OBVIOUS
  <2> QED BY <1>1, <1>2, <2>1, <2>2
<1>4. ASSUME NEW j \in 0..d-1, j \in S PROVE j + 1 \in S
  <2>1. PICK k \in 0..m-1 : k = i + j /\ k + 1 = i + (j + 1) OBVIOUS
  <2>2. PICK h \in Nat : Sums(w, m)[k] = s + h * p BY <1>2, <1>4, <2>1
  <2>3. PICK x \in Nat, q \in Nat : x = w[k] /\ q = Place(j)
    <3>1. w[k] \in Nat BY WordIs
    <3>2. j \in Nat OBVIOUS
    <3> QED BY <3>1, <3>2, PlaceIs
  <2>4. Place(k) = p * q
    <3>1. j \in Nat OBVIOUS
    <3> QED BY <1>1, <1>2, <2>1, <2>3, <3>1, PlaceSum
  <2>5. Sums(w, m)[k+1] = s + h * p + x * (p * q)
    <3>1. Sums(w, m)[k+1] = Sums(w, m)[k] + w[k] * Place(k) BY ZenonT(40), <1>0, SumsStep
    <3> QED BY <2>2, <2>3, <2>4, <3>1
  <2>6. PICK g \in Nat : g = h + x * q OBVIOUS
  <2>7. s + h * p + x * (p * q) = s + g * p
    <3>1. g * p = h * p + x * (p * q) BY <2>6
    <3>2. PICK hp \in Int, xp \in Int : hp = h * p /\ xp = x * (p * q) OBVIOUS
    <3> QED BY <3>1, <3>2
  <2>8. j + 1 \in 0..d OBVIOUS
  <2>9. Sums(w, m)[i + (j + 1)] = Sums(w, m)[i] + g * Place(i) BY <1>2, <2>1, <2>5, <2>7
  <2> QED BY <2>8, <2>9
<1> HIDE DEF S, d
<1>5. \A j \in 0..d : j \in S BY <1>1, <1>3, <1>4, Induct
<1>6. d \in S BY <1>1, <1>5
<1> QED BY <1>1, <1>6 DEF S
-----------------------------------------------------------------------------
\* The row that word k - 1 of y makes, added to the rows before it.
NextRow(g, k, x, y, m) ==
  LET row == Row(g, k - 1, x, y[k-1], m - k + 1)
  IN  [j \in 0..m-1 |-> IF j < k - 1 THEN g[j] ELSE row[j - k + 1]]

RowAdded(h, g, k, x, y, m) ==
  /\ h \in [0..m-1 -> Word]
  /\ \E t \in Int : Sums(h, m)[m]
                      = Sums(g, m)[m] + Sums(x, m)[m] * y[k-1] * Place(k-1) + t * Place(m)

\* A row of tc_multiply adds the number times a word, modulo the words there are.
LEMMA NextRowIs ==
  ASSUME NEW m \in Nat, NEW x \in [0..m-1 -> Word], NEW y \in [0..m-1 -> Word],
         NEW g \in [0..m-1 -> Word], NEW k \in 1..m
  PROVE  RowAdded(NextRow(g, k, x, y, m), g, k, x, y, m)
<1> DEFINE h == NextRow(g, k, x, y, m)
<1>1. PICK at \in Nat, parts \in Nat \ {0}, u \in Word :
        /\ at = k - 1 /\ parts = m - k + 1 /\ u = y[k-1] /\ at + parts = m /\ at + parts <= m
        /\ at \in 0..m /\ parts \in 0..m
  <2>1. k - 1 \in 0..m-1 /\ m - k + 1 \in 0..m /\ m - k + 1 # 0 /\ (k - 1) + (m - k + 1) = m
    OBVIOUS
  <2>2. y[k-1] \in Word BY <2>1
  <2>3. k - 1 \in Nat /\ m - k + 1 \in Nat \ {0} BY <2>1
  <2> QED BY <2>1, <2>2, <2>3
<1>2. AreWords(x, g, at, parts)
  <2>1. \A j \in 0..parts-1 : j \in 0..m-1 /\ at + j \in 0..m-1 BY <1>1
  <2> QED BY <2>1 DEF AreWords
<1>3. PICK r, c : /\ RowOf(r, c, g, at, x, u, parts)
                  /\ \A j \in 0..parts-1 : Row(g, at, x, u, parts)[j] = r[j]
  <2>1. IsRowOf(Row(g, at, x, u, parts), g, at, x, u, parts) BY <1>2, RowIs
  <2> QED BY <2>1 DEF IsRowOf
<1>4. /\ \A j \in 0..at-1 : h[j] = g[j]
      /\ \A j \in 0..parts-1 : h[at + j] = r[j]
  <2>1. ASSUME NEW j \in 0..at-1 PROVE h[j] = g[j]
    <3>1. j \in 0..m-1 /\ j < k - 1 BY <1>1
    <3> QED BY <3>1 DEF NextRow
  <2>2. ASSUME NEW j \in 0..parts-1 PROVE h[at + j] = r[j]
    <3>1. PICK i \in 0..m-1 : i = at + j /\ ~(i < k - 1) /\ i - k + 1 = j BY <1>1
    <3>2. h[i] = Row(g, k - 1, x, y[k-1], m - k + 1)[i - k + 1] BY <3>1 DEF NextRow
    <3> QED BY <1>1, <1>3, <3>1, <3>2
  <2> QED BY <2>1, <2>2
<1>5. h \in [0..m-1 -> Word]
  <2>1. ASSUME NEW i \in 0..m-1 PROVE h[i] \in Word
    <3>1. CASE i < at
      <4>1. i \in 0..at-1 BY <3>1
      <4> QED BY <1>4, <4>1
    <3>2. CASE i >= at
      <4>1. PICK j \in 0..parts-1 : i = at + j
        <5>1. i - at \in 0..parts-1 /\ i = at + (i - at) BY <1>1, <3>2
        <5> QED BY <5>1
      <4>2. r[j] \in Word BY <1>3 DEF RowOf
      <4> QED BY <1>4, <4>1, <4>2
    <3> QED BY <3>1, <3>2
  <2>2. h = [j \in 0..m-1 |-> h[j]] BY DEF NextRow
  <2> HIDE DEF h
  <2> QED BY <2>1, <2>2
<1> HIDE DEF h
<1>6. Sums(h, m)[at + parts] + c[parts] * Place(at + parts)
        = Sums(g, m)[at + parts] + Sums(x, m)[parts] * u * Place(at)
  <2>1. RowOf(r, c, g, at, x, u, parts) BY <1>3
  <2>2. RowInto(h, g, r, at, parts) BY <1>4 DEF RowInto
  <2>3. RowAdds(h, g, x, u, c, at, parts, m) BY <1>1, <1>5, <2>1, <2>2, RowSums
  <2> QED BY <2>3 DEF RowAdds
<1>7. x \in [0..m-1 -> Int] /\ g \in [0..m-1 -> Int] /\ h \in [0..m-1 -> Int]
  <2>1. \A j \in 0..m-1 : x[j] \in Int /\ g[j] \in Int /\ h[j] \in Int BY <1>5, WordIs
  <2> QED BY <1>5, <2>1
<1>8. PICK e \in Nat : Sums(x, m)[m] = Sums(x, m)[parts] + e * Place(parts) BY <1>1, UpperPart
<1>9. PICK sh \in Int, sg \in Int, sx \in Int, sp \in Int, d \in Int, v \in Int :
        /\ sh = Sums(h, m)[m] /\ sg = Sums(g, m)[m] /\ sx = Sums(x, m)[m]
        /\ sp = Sums(x, m)[parts] /\ d = c[parts] /\ v = u
  <2>1. m \in 0..m OBVIOUS
  <2>2. c[parts] \in Word
    <3>1. parts \in 0..parts OBVIOUS
    <3> QED BY <1>3, <3>1 DEF RowOf
  <2>3. c[parts] \in Int /\ u \in Int BY <2>2, WordIs
  <2>4. Sums(h, m)[m] \in Int /\ Sums(g, m)[m] \in Int /\ Sums(x, m)[m] \in Int BY <1>7, <2>1, SumsInt
  <2>5. Sums(x, m)[parts] \in Int BY <1>1, <1>7, SumsInt
  <2> QED BY <2>3, <2>4, <2>5
<1>10. PICK pa \in Int, pp \in Int, pm \in Int :
         pa = Place(at) /\ pp = Place(parts) /\ pm = Place(m) /\ pm = pa * pp
  <2>1. Place(at) \in Int /\ Place(parts) \in Int BY PlaceIs
  <2>2. Place(m) \in Int BY PlaceIs
  <2>3. Place(at + parts) = Place(at) * Place(parts) BY PlaceSum
  <2> QED BY <1>1, <2>1, <2>2, <2>3
<1>11. sh + d * pm = sg + sp * v * pa BY <1>1, <1>6, <1>9, <1>10
<1>12. sx = sp + e * pp BY <1>8, <1>9, <1>10
<1>13. PICK t \in Int : t = 0 - d - e * v
  <2>1. PICK ev \in Int : ev = e * v
    <3>1. e * v \in Int OBVIOUS
    <3> QED BY <3>1
  <2>2. PICK s \in Int : s = 0 - d - ev
    <3>1. 0 - d - ev \in Int OBVIOUS
    <3> QED BY <3>1
  <2>3. s = 0 - d - e * v BY <2>1, <2>2
  <2> QED BY <2>3
<1>14. sh = sg + sx * v * pa + t * pm
  <2>1. sx * v * pa = sp * v * pa + (e * v) * pm
    <3>1. (sp + e * pp) * v * pa = sp * v * pa + (e * v) * (pa * pp) OBVIOUS
    <3> QED BY <1>10, <1>12, <3>1
  <2>2. t * pm = -(d * pm) - (e * v) * pm BY <1>13
  <2>3. PICK a1 \in Int, a2 \in Int, a3 \in Int :
          a1 = sp * v * pa /\ a2 = (e * v) * pm /\ a3 = d * pm
    OBVIOUS
  <2> QED BY <1>11, <2>1, <2>2, <2>3
<1>15. Sums(h, m)[m] = Sums(g, m)[m] + Sums(x, m)[m] * y[k-1] * Place(k-1) + t * Place(m)
  BY <1>1, <1>9, <1>10, <1>14
<1> QED BY <1>5, <1>15 DEF h, RowAdded

IsRows(f, x, y, m) ==
  f = [i \in 0..m |-> IF i = 0 THEN [j \in 0..m-1 |-> 0]
                      ELSE LET row == Row(f[i-1], i - 1, x, y[i-1], m - i + 1)
                           IN  [j \in 0..m-1 |-> IF j < i - 1 THEN f[i-1][j] ELSE row[j - i + 1]]]

\* midint_mul gives the product modulo 2^n: no partial product is lost.
LEMMA MulExact ==
  ASSUME NEW n \in Nat \ {0}, NEW v \in AInt(n), NEW u \in AInt(n)
  PROVE  Canonical(Mul(v, u), n) /\ Value(Mul(v, u)) = (Value(v) * Value(u)) % 2^n
<1> DEFINE m == NWords(v.n)
           x == v.w
           y == u.w
           rows == CHOOSE f : IsRows(f, x, y, m)
           V == [0..m-1 -> Word]
           zero == [j \in 0..m-1 |-> 0]
           next == [k \in 0+1..m |-> [g \in V |-> NextRow(g, k, x, y, m)]]
<1>1. Mul(v, u) = Masked([v EXCEPT !.w = rows[m]]) BY DEF Mul, Idx, IsRows
<1>2. v.n = n /\ m = NWords(n) /\ m \in Nat /\ m \in 0..m BY IntegerOf
<1>3. /\ x \in V /\ y \in V /\ x \in [0..m-1 -> Int] /\ y \in [0..m-1 -> Int]
      /\ Value(v) = Sums(x, m)[m] /\ Value(u) = Sums(y, m)[m]
  BY <1>2, IntegerOf
<1> HIDE DEF m, x, y
<1>4. zero \in V
  <2>1. Base \in Nat /\ Base >= 2 BY Places_
  <2> QED BY <2>1 DEF Word
<1>5. next \in [0+1..m -> [V -> V]]
  <2>1. ASSUME NEW k \in 0+1..m, NEW g \in V PROVE NextRow(g, k, x, y, m) \in V
    <3>1. k \in 1..m OBVIOUS
    <3> QED BY ZenonT(40), <1>2, <1>3, <3>1, NextRowIs DEF RowAdded
  <2> HIDE DEF V
  <2> QED BY <2>1
<1>6. IsRows(rows, x, y, m)
  <2> HIDE DEF V
  <2>1. PICK f \in [0..m -> V] :
          f = [k \in 0..m |-> IF k = 0 THEN zero ELSE next[k][f[k-1]]]
    <3> HIDE DEF next, zero
    <3>1. 0 \in Int /\ m \in Int BY <1>2
    <3>2. \E f \in [0..m -> V] : Iteration(f, 0, m, zero, next)
      BY <1>4, <1>5, <3>1, Iterates
    <3> QED BY <3>2 DEF Iteration
  <2>2. ASSUME NEW k \in 0..m, k # 0 PROVE next[k][f[k-1]] = NextRow(f[k-1], k, x, y, m)
    <3>1. k \in 0+1..m /\ k - 1 \in 0..m BY <1>2, <2>2
    <3>2. f[k-1] \in V BY <3>1
    <3> QED BY <3>1, <3>2
  <2> DEFINE g == [k \in 0..m |-> IF k = 0 THEN zero ELSE NextRow(f[k-1], k, x, y, m)]
  <2>3. f = g
    <3> HIDE DEF next, zero
    <3>1. ASSUME NEW k \in 0..m PROVE f[k] = g[k] BY <2>1, <2>2
    <3>2. f = [k \in 0..m |-> f[k]] BY <2>1
    <3> QED BY <3>1, <3>2
  <2>4. IsRows(f, x, y, m) BY <2>3 DEF IsRows, NextRow
  <2> HIDE DEF IsRows
  <2> QED BY <2>4
<1> HIDE DEF rows, next
<1>7. rows[0] = zero
  <2>1. 0 \in 0..m BY <1>2
  <2> QED BY <1>6, <2>1 DEF IsRows
<1>8. ASSUME NEW k \in 1..m PROVE rows[k] = NextRow(rows[k-1], k, x, y, m)
  <2>1. k \in 0..m /\ k # 0 BY <1>2
  <2> QED BY <1>6, <2>1 DEF IsRows, NextRow
<1>9. PICK sx \in Int, pm \in Int : sx = Sums(x, m)[m] /\ pm = Place(m)
  BY <1>2, <1>3, PlaceIs, SumsInt
<1> DEFINE Good(i) == /\ rows[i] \in V
                      /\ \E t \in Int : Sums(rows[i], m)[m] = sx * Sums(y, m)[i] + t * pm
           S == {i \in 0..m : Good(i)}
<1>10. 0 \in S
  <2>1. zero \in [0..m-1 -> Int] /\ \A j \in 0..m-1 : zero[j] = 0 OBVIOUS
  <2> HIDE DEF zero
  <2>2. Sums(zero, m)[m] = 0 BY <1>2, <2>1, SumsZero
  <2>3. Sums(y, m)[0] = 0 BY <1>2, <1>3, SumsAre
  <2>4. 0 = sx * 0 + 0 * pm OBVIOUS
  <2>5. 0 \in 0..m BY <1>2
  <2>6. Sums(rows[0], m)[m] = sx * Sums(y, m)[0] + 0 * pm BY <1>7, <2>2, <2>3, <2>4
  <2>7. 0 \in Int /\ rows[0] \in V BY <1>4, <1>7
  <2> HIDE DEF V
  <2> QED BY <2>5, <2>6, <2>7
<1>11. ASSUME NEW i \in 0..m-1, i \in S PROVE i + 1 \in S
  <2>1. PICK k \in 1..m : k = i + 1 /\ k - 1 = i BY <1>2
  <2>2. rows[i] \in V BY <1>11
  <2>3. PICK g \in V : g = rows[i] BY <2>2
  <2>4. rows[k] = NextRow(g, k, x, y, m) BY <1>8, <2>1, <2>3
  <2>5. /\ rows[k] \in V
        /\ \E t \in Int : Sums(rows[k], m)[m]
                            = Sums(g, m)[m] + Sums(x, m)[m] * y[k-1] * Place(k-1) + t * Place(m)
    <3>1. g \in [0..m-1 -> Word] BY <2>3
    <3>2. RowAdded(NextRow(g, k, x, y, m), g, k, x, y, m) BY <1>2, <1>3, <3>1, NextRowIs
    <3> QED BY <2>4, <3>2 DEF RowAdded
  <2>6. PICK t \in Int : Sums(g, m)[m] = sx * Sums(y, m)[i] + t * pm BY <1>11, <2>3
  <2>7. PICK s \in Int : Sums(rows[k], m)[m] = Sums(g, m)[m] + sx * y[i] * Place(i) + s * pm
    BY <1>9, <2>1, <2>5
  <2>8. PICK sy \in Int, yi \in Int, pi \in Int :
          /\ sy = Sums(y, m)[i] /\ yi = y[i] /\ pi = Place(i)
          /\ Sums(y, m)[i+1] = sy + yi * pi
    <3>1. /\ Sums(y, m)[i] \in Int /\ y[i] \in Int /\ Place(i) \in Nat \ {0}
          /\ Sums(y, m)[i+1] = Sums(y, m)[i] + y[i] * Place(i)
      <4>1. m \in Nat /\ y \in [0..m-1 -> Int] BY <1>2, <1>3
      <4>2. y[i] \in Int BY <4>1
      <4> QED BY <4>1, <4>2, SumsStep
    <3> QED BY <3>1
  <2>9. Sums(rows[k], m)[m] = sx * sy + t * pm + sx * yi * pi + s * pm BY <2>6, <2>7, <2>8
  <2>10. PICK z \in Int : z = t + s OBVIOUS
  <2>11. sx * sy + t * pm + sx * yi * pi + s * pm = sx * (sy + yi * pi) + z * pm
    <3>1. sx * (sy + yi * pi) = sx * sy + sx * yi * pi OBVIOUS
    <3>2. z * pm = t * pm + s * pm BY <2>10
    <3>3. PICK a1 \in Int, a2 \in Int, a3 \in Int, a4 \in Int :
            a1 = sx * sy /\ a2 = t * pm /\ a3 = sx * yi * pi /\ a4 = s * pm
      OBVIOUS
    <3> QED BY <3>1, <3>2, <3>3
  <2>12. i + 1 \in 0..m BY <1>2
  <2>13. Sums(rows[i+1], m)[m] = sx * Sums(y, m)[i+1] + z * pm BY <2>1, <2>8, <2>9, <2>11
  <2>14. rows[i+1] \in V BY <2>1, <2>5
  <2> HIDE DEF V
  <2> QED BY <2>12, <2>13, <2>14
<1> HIDE DEF S
<1>12. \A i \in 0..m : i \in S BY <1>2, <1>10, <1>11, Induct
<1>13. m \in S BY <1>2, <1>12
<1>14. PICK t \in Int : rows[m] \in V /\ Sums(rows[m], m)[m] = sx * Sums(y, m)[m] + t * pm
  BY <1>13 DEF S
<1>15. PICK z \in Int : z = sx * Sums(y, m)[m]
  <2>1. PICK sy \in Int : sy = Sums(y, m)[m] BY <1>2, <1>3, SumsInt
  <2>2. sx * sy \in Int OBVIOUS
  <2> QED BY <2>1, <2>2
<1>16. PICK w \in V : w = rows[m] BY <1>14
<1>17. /\ w \in [0..NWords(n)-1 -> Word]
       /\ Sums(w, NWords(n))[NWords(n)] = z + t * Place(NWords(n))
  BY <1>2, <1>9, <1>14, <1>15, <1>16
<1>18. LET r == Masked([v EXCEPT !.w = w])
       IN  Canonical(r, n) /\ Value(r) = z % 2^n
  BY <1>17, ResultIs
<1> QED BY <1>1, <1>3, <1>9, <1>15, <1>16, <1>18
-----------------------------------------------------------------------------
(***************************************************************************)
(* Which of two integers is the greater: the highest words that differ     *)
(* tell.                                                                   *)
(***************************************************************************)
\* w and u differ in word i last, and there w is less.
Below(w, u, i, m) == w[i] < u[i] /\ \A j \in i+1..m-1 : w[j] = u[j]

\* The higher words being the same, the words that are less where they first
\* differ stand for less.
LEMMA SumsLess ==
  ASSUME NEW m \in Nat, NEW w \in [0..m-1 -> Word], NEW u \in [0..m-1 -> Word],
         NEW i \in 0..m-1, Below(w, u, i, m)
  PROVE  Sums(w, m)[m] < Sums(u, m)[m]
<1>0. w \in [0..m-1 -> Int] /\ u \in [0..m-1 -> Int]
  <2>1. \A j \in 0..m-1 : w[j] \in Int /\ u[j] \in Int BY WordIs
  <2> QED BY <2>1
<1> DEFINE d == m - i - 1
           S == {j \in 0..d : Sums(w, m)[i+1+j] < Sums(u, m)[i+1+j]}
<1>1. d \in Nat /\ i + 1 + d = m /\ i \in 0..m /\ i \in Nat OBVIOUS
<1>2. 0 \in S
  <2>1. PICK p \in Nat \ {0}, x \in Int, y \in Int, sw \in Int, su \in Int :
          p = Place(i) /\ x = w[i] /\ y = u[i] /\ sw = Sums(w, m)[i] /\ su = Sums(u, m)[i]
    BY <1>0, SumsStep
  <2>2. sw \in 0..p-1 /\ su \in 0..p-1 BY <1>1, <2>1, SumsBound
  <2>3. x < y BY <2>1 DEF Below
  <2>4. (x + 1) * p <= y * p
    <3>1. PICK e \in Nat : y = x + 1 + e
      <4>1. y - (x + 1) \in Nat /\ y = x + 1 + (y - (x + 1)) BY SMTT(40), <2>1, <2>3
      <4> QED BY <4>1
    <3>2. y * p = (x + 1) * p + e * p /\ e * p \in Nat
      <4>1. PICK f \in Int : f = x + 1 BY <2>1
      <4>2. (f + e) * p = f * p + e * p /\ e * p \in Nat BY SMTT(40), <2>1
      <4> QED BY <3>1, <4>1, <4>2
    <3>3. (x + 1) * p \in Int BY <2>1
    <3> QED BY <3>2, <3>3
  <2>5. (x + 1) * p = x * p + p BY <2>1
  <2>6. sw + x * p < su + y * p
    <3>1. PICK xp \in Int, yp \in Int : xp = x * p /\ yp = y * p BY <2>1
    <3>2. xp + p <= yp BY <2>4, <2>5, <3>1
    <3>3. sw + xp < su + yp BY <2>2, <3>2
    <3> QED BY <3>1, <3>3
  <2>7. Sums(w, m)[i+1] = sw + x * p /\ Sums(u, m)[i+1] = su + y * p BY <1>0, <2>1, SumsStep
  <2>8. i + 1 + 0 = i + 1 /\ 0 \in 0..d BY <1>1
  <2> QED BY <2>6, <2>7, <2>8
<1>3. ASSUME NEW j \in 0..d-1, j \in S PROVE j + 1 \in S
  <2>1. PICK k \in 0..m-1 : k = i + 1 + j /\ k + 1 = i + 1 + (j + 1) /\ k \in i+1..m-1 BY <1>1
  <2>2. PICK p \in Nat \ {0}, x \in Int, sw \in Int, su \in Int :
          p = Place(k) /\ x = w[k] /\ sw = Sums(w, m)[k] /\ su = Sums(u, m)[k]
    BY <1>0, SumsStep
  <2>3. u[k] = x BY <2>1, <2>2 DEF Below
  <2>4. Sums(w, m)[k+1] = sw + x * p /\ Sums(u, m)[k+1] = su + x * p
    <3>1. Sums(w, m)[k+1] = Sums(w, m)[k] + w[k] * Place(k) BY <1>0, <2>1, SumsStep
    <3>2. Sums(u, m)[k+1] = Sums(u, m)[k] + u[k] * Place(k) BY <1>0, <2>1, SumsStep
    <3> QED BY <2>2, <2>3, <3>1, <3>2
  <2>5. sw < su BY <1>3, <2>1, <2>2
  <2>6. PICK xp \in Int : xp = x * p BY <2>2
  <2>7. sw + xp < su + xp BY <2>2, <2>5
  <2>8. j + 1 \in 0..d BY <1>1
  <2> QED BY <2>1, <2>4, <2>6, <2>7, <2>8
<1> HIDE DEF S, d
<1>4. \A j \in 0..d : j \in S BY <1>1, <1>2, <1>3, Induct
<1>5. d \in S BY <1>1, <1>4
<1> QED BY <1>1, <1>5 DEF S

\* Words that are not the same differ somewhere last.
LEMMA LastDiffers ==
  ASSUME NEW m \in Nat, NEW w \in [0..m-1 -> Word], NEW u \in [0..m-1 -> Word], w # u
  PROVE  \E i \in 0..m-1 : Below(w, u, i, m) \/ Below(u, w, i, m)
<1> DEFINE T == {i \in 0..m-1 : w[i] # u[i]}
<1>1. T # {}
  <2>1. SUFFICES ASSUME \A i \in 0..m-1 : w[i] = u[i] PROVE FALSE OBVIOUS
  <2>2. w = [i \in 0..m-1 |-> w[i]] /\ u = [i \in 0..m-1 |-> u[i]] OBVIOUS
  <2> QED BY <2>1, <2>2
<1>2. T \subseteq 0..m OBVIOUS
<1>3. PICK i \in T : \A j \in T : j <= i BY <1>1, <1>2, NatMax
<1>4. i \in 0..m-1 /\ w[i] # u[i] BY <1>3
<1>5. \A j \in i+1..m-1 : w[j] = u[j]
  <2>1. TAKE j \in i+1..m-1
  <2>2. j \in 0..m-1 /\ ~(j <= i) BY <1>4
  <2> QED BY <1>3, <2>2
<1>6. w[i] < u[i] \/ u[i] < w[i]
  <2>1. w[i] \in Int /\ u[i] \in Int BY <1>4, WordIs
  <2> QED BY <1>4, <2>1
<1> QED BY <1>4, <1>5, <1>6 DEF Below

\* Words that stand for the same are the same.
LEMMA SumsTell ==
  ASSUME NEW m \in Nat, NEW w \in [0..m-1 -> Word], NEW u \in [0..m-1 -> Word],
         Sums(w, m)[m] = Sums(u, m)[m]
  PROVE  w = u
<1>1. SUFFICES ASSUME w # u PROVE FALSE OBVIOUS
<1>2. PICK i \in 0..m-1 : Below(w, u, i, m) \/ Below(u, w, i, m) BY <1>1, LastDiffers
<1>3. Sums(w, m)[m] < Sums(u, m)[m] \/ Sums(u, m)[m] < Sums(w, m)[m] BY <1>2, SumsLess
<1>4. Sums(w, m)[m] \in Int
  <2>1. \A j \in 0..m-1 : w[j] \in Int BY WordIs
  <2>2. w \in [0..m-1 -> Int] /\ m \in 0..m BY <2>1
  <2> QED BY <2>2, SumsInt
<1> QED BY <1>3, <1>4

\* An integer stands for a natural number.
LEMMA ValueNat ==
  ASSUME NEW n \in Nat \ {0}, NEW v \in AInt(n) PROVE Value(v) \in Nat
<1>1. PICK m \in Nat : m = NWords(n) BY WidthOf
<1>2. v.w \in [0..m-1 -> Word] /\ Value(v) = Sums(v.w, m)[m] BY <1>1, IntegerOf
<1>3. m \in 0..m /\ Place(m) \in Nat BY <1>1, PlaceIs
<1>4. Sums(v.w, m)[m] \in 0..Place(m)-1 BY <1>2, <1>3, SumsBound
<1> QED BY <1>2, <1>3, <1>4

\* Two integers of n bits are the same number only if they are kept alike.
LEMMA ValueTells ==
  ASSUME NEW n \in Nat \ {0}, NEW v \in AInt(n), NEW u \in AInt(n)
  PROVE  v = u <=> Value(v) = Value(u)
<1>1. PICK m \in Nat : m = NWords(n) BY WidthOf
<1>2. /\ v.w \in [0..m-1 -> Word] /\ Value(v) = Sums(v.w, m)[m] /\ v = [n |-> n, w |-> v.w]
      /\ u.w \in [0..m-1 -> Word] /\ Value(u) = Sums(u.w, m)[m] /\ u = [n |-> n, w |-> u.w]
  BY <1>1, IntegerOf
<1>3. ASSUME Value(v) = Value(u) PROVE v.w = u.w BY <1>2, <1>3, SumsTell
<1> QED BY <1>2, <1>3
-----------------------------------------------------------------------------
(***************************************************************************)
(* The bits of an integer are those of its number.                         *)
(***************************************************************************)
LEMMA GetBitIs ==
  ASSUME NEW n \in Nat \ {0}, NEW v \in AInt(n), NEW k \in 0..n-1
  PROVE  GetBit(v, k) = (Value(v) \div 2^k) % 2 /\ GetBit(v, k) \in 0..1
<1>1. PICK m \in Nat \ {0} : m = NWords(n) BY WidthOf
<1>2. PICK at \in 0..m-1, r \in Nat, c \in Nat \ {0} :
        /\ at = k \div WordBits /\ r = k % WordBits /\ r \in 0..WordBits-1 /\ c = 2^r
        /\ 2^k = Place(at) * c
  BY <1>1, BitAt
<1>3. PICK g \in Nat : Base = c * (2 * g)
  <2>1. PICK w \in Nat : w = WordBits BY WordBitsAssumption
  <2>2. PICK e \in Nat : w = r + (e + 1)
    <3>1. w - r - 1 \in Nat /\ w = r + ((w - r - 1) + 1) BY <1>2, <2>1
    <3> QED BY <3>1
  <2>3. e + 1 \in Nat OBVIOUS
  <2>4. 2^(r + (e + 1)) = 2^r * 2^(e + 1) BY <2>3, PowersOf
  <2>5. 2^(e + 1) = 2 * 2^e /\ 2^e \in Nat BY PowerOfTwo
  <2>6. Base = c * (2 * 2^e) BY <1>2, <2>1, <2>2, <2>4, <2>5 DEF Base
  <2> QED BY <2>5, <2>6
<1>4. v.w \in [0..m-1 -> Word] /\ v.w \in [0..m-1 -> Int] /\ Value(v) = Sums(v.w, m)[m]
  BY <1>1, IntegerOf
<1>5. PICK x \in Int, s \in Int, p \in Nat \ {0} :
        x = v.w[at] /\ s = Sums(v.w, m)[at] /\ p = Place(at) /\ s \in 0..p-1
  <2>1. v.w[at] \in Int /\ Sums(v.w, m)[at] \in Int /\ Place(at) \in Nat \ {0} BY <1>4, SumsStep
  <2>2. at \in 0..m OBVIOUS
  <2>3. Sums(v.w, m)[at] \in 0..Place(at)-1 BY <1>4, <2>2, SumsBound
  <2> QED BY <2>1, <2>3
<1>6. PICK q \in Int, t \in 0..c-1 : x = q * c + t /\ x \div c = q
  <2>1. x = (x \div c) * c + (x % c) /\ x % c \in 0..c-1 /\ x \div c \in Int BY DivModOf
  <2> QED BY <2>1
<1>7. GetBit(v, k) = q % 2 /\ q % 2 \in 0..1
  <2>1. GetBit(v, k) = (v.w[at] \div c) % 2 BY <1>2 DEF GetBit
  <2>2. v.w[at] \div c = q BY <1>5, <1>6
  <2>3. q % 2 \in 0..1 OBVIOUS
  <2> QED BY <2>1, <2>2, <2>3
<1>8. PICK h \in Nat : Value(v) = s + x * p + h * (p * (c * (2 * g)))
  <2>1. PICK j \in 0..m : j = at + 1 OBVIOUS
  <2>2. PICK h \in Nat : Sums(v.w, m)[m] = Sums(v.w, m)[j] + h * Place(j)
    BY <1>4, <2>1, UpperPart
  <2>3. Sums(v.w, m)[at+1] = Sums(v.w, m)[at] + v.w[at] * Place(at)
    <3>1. PICK w \in [0..m-1 -> Int], i \in 0..m-1 : w = v.w /\ i = at BY <1>2, <1>4
    <3>2. Sums(w, m)[i+1] = Sums(w, m)[i] + w[i] * Place(i) BY ZenonT(40), SumsStep
    <3> QED BY <3>1, <3>2
  <2>4. at \in Nat OBVIOUS
  <2>5. Place(at + 1) = Place(at) * Base BY <2>4, PlaceIs
  <2> QED BY <1>3, <1>4, <1>5, <2>1, <2>2, <2>3, <2>5
<1>9. PICK z \in Int, d \in Nat \ {0}, y \in Int, l \in Int :
        z = Value(v) /\ d = p * c /\ y = q + h * (2 * g) /\ l = s + t * p
  <2>1. p * c \in Nat \ {0} OBVIOUS
  <2>2. Value(v) \in Int BY ValueNat
  <2> QED BY <2>1, <2>2
<1>10. z = y * d + l
  <2>1. PICK e1 \in Int, e2 \in Int, e3 \in Int
        : e1 = q * (p * c) /\ e2 = t * p /\ e3 = h * (p * (c * (2 * g)))
    OBVIOUS
  <2>2. (q * c + t) * p = e1 + e2 BY <2>1
  <2>3. (q + h * (2 * g)) * (p * c) = e1 + e3 BY <2>1
  <2>4. z = s + (e1 + e2) + e3 BY <1>6, <1>8, <1>9, <2>1, <2>2
  <2> QED BY <1>9, <2>1, <2>3, <2>4
<1>11. l \in 0..d-1
  <2>1. t * p <= (c - 1) * p /\ t * p >= 0
    <3>1. PICK e \in Nat : c - 1 = t + e
      <4>1. c - 1 - t \in Nat /\ c - 1 = t + (c - 1 - t) OBVIOUS
      <4> QED BY <4>1
    <3>2. (t + e) * p = t * p + e * p /\ e * p \in Nat /\ t * p \in Nat OBVIOUS
    <3> QED BY <3>1, <3>2
  <2>2. (c - 1) * p = p * c - p OBVIOUS
  <2>3. PICK tp \in Int, pc \in Int : tp = t * p /\ pc = p * c OBVIOUS
  <2>4. tp <= pc - p /\ tp >= 0 BY <2>1, <2>2, <2>3
  <2>5. s + tp \in 0..pc-1 BY <1>5, <2>4
  <2> QED BY <1>9, <2>3, <2>5
<1>12. z \div d = y
  <2>1. \A u \in Int : u = y * d + l => u \div d = y BY <1>11, DivMod
  <2> QED BY <1>10, <2>1
<1>13. y % 2 = q % 2
  <2>1. PICK e \in Int : e = h * g OBVIOUS
  <2>2. h * (2 * g) = e * 2 BY <2>1
  <2>3. y = q + e * 2 BY <1>9, <2>2
  <2>4. 2 \in Nat \ {0} OBVIOUS
  <2> QED BY <2>3, <2>4, Congruent
<1> QED BY <1>2, <1>5, <1>7, <1>9, <1>12, <1>13

\* The sign is the last of the n bits: it tells the upper half of the numbers.
LEMMA SignIs ==
  ASSUME NEW n \in Nat \ {0}, NEW v, Canonical(v, n)
  PROVE  /\ Negative(v) <=> Value(v) >= 2^(n-1)
         /\ 2^n = 2 * 2^(n-1) /\ 2^(n-1) \in Nat \ {0}
<1>1. v \in AInt(n) /\ v.n = n BY IntegerOf DEF Canonical
<1>2. n - 1 \in Nat /\ n - 1 \in 0..n-1 /\ n - 1 + 1 = n OBVIOUS
<1>3. 2^(n-1) \in Nat \ {0} /\ 2^(n-1+1) = 2 * 2^(n-1) BY <1>2, PowerOfTwo
<1>4. PICK h \in Nat \ {0}, x \in Nat : h = 2^(n-1) /\ x = Value(v) BY <1>1, <1>3, ValueNat
<1>5. x < h + h
  <2>1. Value(v) \in 0..2^n-1 BY CanonicalValue
  <2>2. 2^n = h + h BY <1>2, <1>3, <1>4
  <2> QED BY <1>4, <2>1, <2>2
<1>6. Negative(v) <=> (x \div h) % 2 = 1 BY <1>1, <1>2, <1>4, GetBitIs DEF Negative
<1>7. CASE x >= h
  <2>1. PICK l \in 0..h-1 : x = 1 * h + l
    <3>1. x - h \in 0..h-1 /\ x = 1 * h + (x - h) BY <1>5, <1>7
    <3> QED BY <3>1
  <2>2. \A u \in Int : u = 1 * h + l => u \div h = 1 BY DivMod
  <2>3. x \div h = 1 BY <2>1, <2>2
  <2> QED BY <1>2, <1>3, <1>4, <1>6, <1>7, <2>3
<1>8. CASE x < h
  <2>1. x \in 0..h-1 /\ x = 0 * h + x BY <1>8
  <2>2. \A u \in Int : u = 0 * h + x => u \div h = 0 BY <2>1, DivMod
  <2>3. x \div h = 0 BY <2>1, <2>2
  <2> QED BY <1>2, <1>3, <1>4, <1>6, <1>8, <2>3
<1> QED BY <1>4, <1>7, <1>8
-----------------------------------------------------------------------------
(***************************************************************************)
(* Shifts.                                                                 *)
(***************************************************************************)
\* Every word of u is c times that of y.
Scaled(u, y, c, m) == \A i \in 0..m-1 : u[i] = y[i] * c

\* All words times c stand for c times as much.
LEMMA SumsScaled ==
  ASSUME NEW m \in Nat, NEW u \in [0..m-1 -> Int], NEW y \in [0..m-1 -> Int], NEW c \in Int,
         Scaled(u, y, c, m)
  PROVE  Sums(u, m)[m] = Sums(y, m)[m] * c
<1> DEFINE S == {i \in 0..m : Sums(u, m)[i] = Sums(y, m)[i] * c}
<1>1. 0 \in S
  <2>1. Sums(u, m)[0] = 0 /\ Sums(y, m)[0] = 0 BY SumsAre
  <2>2. 0 = 0 * c OBVIOUS
  <2> QED BY <2>1, <2>2
<1>2. ASSUME NEW i \in 0..m-1, i \in S PROVE i + 1 \in S
  <2>1. PICK x \in Int, p \in Int, s \in Int : x = y[i] /\ p = Place(i) /\ s = Sums(y, m)[i]
    <3>1. y[i] \in Int /\ Place(i) \in Nat \ {0} /\ Sums(y, m)[i] \in Int BY SumsStep
    <3> QED BY <3>1
  <2>2. u[i] = x * c BY <2>1 DEF Scaled
  <2>3. Sums(y, m)[i+1] = s + x * p BY <2>1, SumsStep
  <2>4. Sums(u, m)[i+1] = Sums(u, m)[i] + u[i] * Place(i) BY SumsStep
  <2>5. Sums(u, m)[i+1] = s * c + (x * c) * p BY <1>2, <2>1, <2>2, <2>4
  <2>6. (s + x * p) * c = s * c + (x * c) * p BY SMTT(40), <2>1
  <2>7. i + 1 \in 0..m OBVIOUS
  <2> QED BY <2>3, <2>5, <2>6, <2>7
<1> HIDE DEF S
<1>3. \A i \in 0..m : i \in S BY <1>1, <1>2, Induct
<1>4. m \in S BY <1>3
<1> QED BY <1>4 DEF S

\* y is x with k words of zero put before it.
Delayed(y, x, k, m) == \A i \in 0..m-1 : y[i] = IF i < k THEN 0 ELSE x[i-k]

\* Words put k words further on stand for Place(k) times as much.
LEMMA SumsDelayed ==
  ASSUME NEW m \in Nat, NEW x \in [0..m-1 -> Int], NEW y \in [0..m-1 -> Int], NEW k \in 0..m,
         Delayed(y, x, k, m)
  PROVE  Sums(y, m)[m] = Sums(x, m)[m-k] * Place(k)
<1> DEFINE d == m - k
           S == {j \in 0..d : Sums(y, m)[k+j] = Sums(x, m)[j] * Place(k)}
<1>1. d \in Nat /\ k + d = m /\ k \in Nat OBVIOUS
<1>2. 0 \in S
  <2>1. Sums(y, m)[k] = 0
    <3> DEFINE z == [j \in 0..k-1 |-> 0]
    <3>1. z \in [0..k-1 -> Int] /\ k <= k /\ k \in Nat OBVIOUS
    <3>2. \A j \in 0..k-1 : y[j] = z[j] BY DEF Delayed
    <3>3. \A j \in 0..k-1 : z[j] = 0 OBVIOUS
    <3> HIDE DEF z
    <3>4. Sums(y, m)[k] = Sums(z, k)[k] BY <3>1, <3>2, SumsSame
    <3> QED BY <3>1, <3>3, <3>4, SumsZero
  <2>2. Sums(x, m)[0] = 0 BY SumsAre
  <2>3. PICK p \in Int : p = Place(k) BY <1>1, PlaceIs
  <2>4. 0 * p = 0 /\ k + 0 = k OBVIOUS
  <2> QED BY <1>1, <2>1, <2>2, <2>3, <2>4
<1>3. ASSUME NEW j \in 0..d-1, j \in S PROVE j + 1 \in S
  <2>1. PICK i \in 0..m-1 : i = k + j /\ i + 1 = k + (j + 1) /\ i - k = j /\ ~(i < k) BY <1>1
  <2>2. j \in 0..m-1 /\ j \in Nat /\ j + 1 \in 0..d BY <1>1
  <2>3. PICK e \in Int, s \in Int, p \in Int, q \in Int :
          e = x[j] /\ s = Sums(x, m)[j] /\ p = Place(k) /\ q = Place(j)
    BY <1>1, <2>2, SumsStep, PlaceIs
  <2>4. y[i] = e BY <2>1, <2>3 DEF Delayed
  <2>5. Place(i) = p * q BY <1>1, <2>1, <2>2, <2>3, PlaceSum
  <2>6. Sums(y, m)[i+1] = Sums(y, m)[i] + y[i] * Place(i) BY SumsStep
  <2>7. Sums(x, m)[j+1] = s + e * q BY <2>2, <2>3, SumsStep
  <2>8. Sums(y, m)[i+1] = s * p + e * (p * q) BY <1>3, <2>1, <2>3, <2>4, <2>5, <2>6
  <2>9. (s + e * q) * p = s * p + e * (p * q) OBVIOUS
  <2> QED BY <2>1, <2>2, <2>3, <2>7, <2>8, <2>9
<1> HIDE DEF S, d
<1>4. \A j \in 0..d : j \in S BY <1>1, <1>2, <1>3, Induct
<1>5. d \in S BY <1>1, <1>4
<1>6. Sums(y, m)[k+d] = Sums(x, m)[d] * Place(k) BY <1>5 DEF S
<1> QED BY <1>1, <1>6 DEF d

\* A word shifted left: what stays in it, and what goes on to the next.
LEMMA WordShl ==
  ASSUME NEW c \in Nat \ {0}, NEW h \in Nat \ {0}, NEW x \in 0..c*h-1
  PROVE  /\ x \div h \in 0..c-1
         /\ \E r \in 0..h-1 : x = (x \div h) * h + r /\ (x * c) % (c * h) = r * c
                                 /\ r * c <= c * h - c
<1>1. PICK q \in Int, r \in 0..h-1 : x = q * h + r /\ x \div h = q
  <2>1. x = (x \div h) * h + (x % h) /\ x % h \in 0..h-1 /\ x \div h \in Int BY DivModOf
  <2> QED BY <2>1
<1>2. q >= 0
  <2>1. SUFFICES ASSUME q <= -1 PROVE FALSE OBVIOUS
  <2>2. PICK e \in Nat : q = -1 - e
    <3>1. -1 - q \in Nat /\ q = -1 - (-1 - q) BY <2>1
    <3> QED BY <3>1
  <2>3. (-1 - e) * h = -h - e * h /\ e * h \in Nat OBVIOUS
  <2> QED BY <1>1, <2>2, <2>3
<1>3. q <= c - 1
  <2>1. SUFFICES ASSUME q >= c PROVE FALSE OBVIOUS
  <2>2. PICK e \in Nat : q = c + e
    <3>1. q - c \in Nat /\ q = c + (q - c) BY <2>1
    <3> QED BY <3>1
  <2>3. (c + e) * h = c * h + e * h /\ e * h \in Nat /\ c * h \in Nat OBVIOUS
  <2>4. PICK ch \in Int : ch = c * h BY <2>3
  <2>5. x < ch BY <2>4
  <2> QED BY <1>1, <2>2, <2>3, <2>4, <2>5
<1>4. r * c <= c * h - c /\ r * c >= 0
  <2>1. PICK e \in Nat : h - 1 = r + e
    <3>1. h - 1 - r \in Nat /\ h - 1 = r + (h - 1 - r) OBVIOUS
    <3> QED BY <3>1
  <2>2. (r + e) * c = r * c + e * c /\ e * c \in Nat /\ r * c \in Nat OBVIOUS
  <2>3. (h - 1) * c = c * h - c OBVIOUS
  <2> QED BY <2>1, <2>2, <2>3
<1>5. (x * c) % (c * h) = r * c
  <2>1. PICK bb \in Nat \ {0}, s \in Int, z \in Int : bb = c * h /\ s = r * c /\ z = x * c OBVIOUS
  <2>2. s \in 0..bb-1 BY <1>4, <2>1
  <2>3. (q * h + r) * c = q * (c * h) + r * c OBVIOUS
  <2>4. z = q * bb + s BY <1>1, <2>1, <2>3
  <2>5. \A u \in Int : u = q * bb + s => u % bb = s BY <2>2, DivMod
  <2> QED BY <2>1, <2>4, <2>5
<1> QED BY SMTT(40), <1>1, <1>2, <1>3, <1>4, <1>5

\* A shift to the left multiplies.
LEMMA ShlExact ==
  ASSUME NEW n \in Nat \ {0}, NEW v, Canonical(v, n), NEW k \in 0..n-1
  PROVE  Canonical(Shl(v, k), n) /\ Value(Shl(v, k)) = (Value(v) * 2^k) % 2^n
<1>1. CASE k = 0
  <2>1. Shl(v, k) = v BY <1>1 DEF Shl
  <2>2. 2^k = 1 BY <1>1
  <2>3. Value(v) \in Int BY ValueNat DEF Canonical
  <2>4. Value(v) * 1 = Value(v) BY <2>3
  <2> QED BY <2>1, <2>2, <2>4, CanonicalValue
<1>2. CASE k # 0
  <2> DEFINE m == NWords(v.n)
             x == v.w
             at == k \div WordBits
             bs == k % WordBits
             c == 2^bs
             h == 2^(WordBits - bs)
             from(i) == IF i < at THEN 0 ELSE x[i - at]
             f == [i \in 0..m-1 |-> from(i)]
             word(i) == ((from(i) * 2^bs) % Base)
                          + (IF i > at THEN from(i-1) \div 2^(WordBits - bs) ELSE 0)
             w == [i \in 0..m-1 |-> word(i)]
             u == [i \in 0..m-1 |-> f[i] * c]
             z == [i \in 0..m-1 |-> 0]
             e == [i \in 0..m |-> IF i = 0 THEN 0 ELSE f[i-1] \div h]
  <2>1. Shl(v, k) = Masked([v EXCEPT !.w = w]) BY <1>2 DEF Shl, Idx
  <2>2. v \in AInt(n) /\ v.n = n /\ m = NWords(n) /\ m \in Nat \ {0}
    BY IntegerOf, WidthOf DEF Canonical
  <2>3. x \in [0..m-1 -> Word] /\ x \in [0..m-1 -> Int] /\ Value(v) = Sums(x, m)[m]
    BY <2>2, IntegerOf
  <2>4. /\ at \in 0..m-1 /\ at \in 0..m /\ c \in Nat \ {0} /\ h \in Nat \ {0} /\ Base = c * h
        /\ 2^k = Place(at) * c
    <3>1. 2^(WordBits - (k % WordBits)) \in Nat /\ 2^(WordBits - (k % WordBits)) >= 2 BY BitAt
    <3>2. h \in Nat \ {0} BY <3>1
    <3>3. at \in 0..m-1 BY <2>2, BitAt
    <3>4. at \in 0..m BY <2>2, <3>3
    <3> QED BY <3>2, <3>3, <3>4, BitAt
  <2> HIDE DEF m, x, at, bs
  <2>5. \A i \in 0..m-1 : w[i] = ((f[i] * c) % Base) + (IF i > at THEN f[i-1] \div h ELSE 0)
    <3>1. TAKE i \in 0..m-1
    <3>2. f[i] = from(i) OBVIOUS
    <3>3. i > at => f[i-1] = from(i-1)
      <4>1. i > at => i - 1 \in 0..m-1 BY <2>2, <2>4
      <4> QED BY <4>1
    <3> HIDE DEF from, f
    <3> QED BY <3>2, <3>3
  <2> HIDE DEF c, h, w
  <2>6. PICK base \in Nat : base = Base /\ base >= 2 BY Places_
  <2>7. ASSUME NEW i \in 0..m-1
        PROVE  f[i] \in Word /\ f[i] \in 0..c*h-1 /\ f[i] \in Int /\ (i < at => f[i] = 0)
    <3>1. CASE i < at
      <4>1. f[i] = 0 BY <3>1
      <4>2. 0 \in 0..base-1 BY <2>6
      <4> QED BY <2>4, <2>6, <4>1, <4>2 DEF Word
    <3>2. CASE ~(i < at)
      <4>1. i - at \in 0..m-1 BY <2>2, <2>4, <3>2
      <4>2. f[i] = x[i - at] BY <3>2
      <4>3. x[i - at] \in Word BY <2>3, <4>1
      <4> QED BY <2>4, <3>2, <4>2, <4>3, WordIs
    <3> QED BY <3>1, <3>2
  <2>8. Delayed(f, x, at, m) BY DEF Delayed
  <2>9. m \in 0..m /\ 0 \in 0..m /\ m \in Nat /\ m - at \in 0..m BY <2>2, <2>4
  <2> HIDE DEF f
  <2>10. ASSUME NEW i \in 0..m-1
         PROVE  /\ f[i] \div h \in 0..c-1 /\ e[i+1] = f[i] \div h
                /\ (IF i > at THEN f[i-1] \div h ELSE 0) = e[i] /\ e[i] \in 0..c-1
    <3>1. \A j \in 0..m-1 : f[j] \div h \in 0..c-1 BY <2>4, <2>7, WordShl
    <3>2. e[i+1] = f[i] \div h
      <4>1. PICK j \in 0..m : j = i + 1 /\ j # 0 /\ j - 1 = i BY <2>9
      <4> QED BY <4>1
    <3>3. CASE i = 0
      <4>1. e[i] = 0 /\ ~(i > at) BY <2>4, <2>9, <3>3
      <4> QED BY <2>4, <3>1, <3>2, <4>1
    <3>4. CASE i # 0
      <4>1. PICK j \in 0..m-1 : j = i - 1
        <5>1. i - 1 \in 0..m-1 BY <2>2, <3>4
        <5> QED BY <5>1
      <4>2. i \in 0..m BY <2>9
      <4>3. e[i] = f[j] \div h BY <3>4, <4>1, <4>2
      <4>4. CASE i > at BY <3>1, <3>2, <4>1, <4>3, <4>4
      <4>5. CASE ~(i > at)
        <5>1. j < at BY <2>4, <4>1, <4>5
        <5>2. f[j] = 0 BY <2>7, <5>1
        <5>3. 0 \div h = 0
          <6>1. 0 \in 0..h-1 /\ 0 = 0 * h + 0 BY <2>4
          <6>2. \A t \in Int : t = 0 * h + 0 => t \div h = 0 BY <2>4, <6>1, DivMod
          <6> QED BY <6>1, <6>2
        <5> QED BY <2>4, <3>1, <3>2, <4>3, <4>5, <5>2, <5>3
      <4> QED BY <4>4, <4>5
    <3> QED BY <3>3, <3>4
  <2> HIDE DEF e
  <2>11. ASSUME NEW i \in 0..m-1
         PROVE  w[i] \in Word /\ w[i] \in Int /\ w[i] + e[i+1] * Base = u[i] + z[i] + e[i]
    <3>1. PICK y \in 0..c*h-1 : y = f[i] BY <2>7
    <3>2. PICK q \in 0..c-1, p \in 0..c-1 : q = e[i+1] /\ p = e[i] /\ q = y \div h BY <2>10, <3>1
    <3>3. PICK r \in 0..h-1 : y = q * h + r /\ (y * c) % (c * h) = r * c /\ r * c <= c * h - c
      <4>1. \E r \in 0..h-1 : y = (y \div h) * h + r /\ (y * c) % (c * h) = r * c
                                 /\ r * c <= c * h - c
        BY <2>4, <3>1, WordShl
      <4> QED BY <3>2, <4>1
    <3>4. w[i] = r * c + p BY <2>4, <2>5, <2>10, <3>1, <3>2, <3>3
    <3>5. PICK rc \in Nat, b1 \in Nat : rc = r * c /\ b1 = c * h BY <2>4
    <3>6. rc + p \in 0..b1-1 BY <2>4, <3>3, <3>5
    <3>7. rc + p + q * b1 = y * c + 0 + p
      <4>1. (q * h + r) * c = q * (c * h) + r * c BY <2>4
      <4>2. PICK qb \in Int : qb = q * b1 BY <3>5
      <4>3. y * c = qb + rc BY <3>3, <3>5, <4>1, <4>2
      <4>4. rc + p + qb = qb + rc + 0 + p OBVIOUS
      <4> QED BY <4>2, <4>3, <4>4
    <3> QED BY <2>4, <3>1, <3>2, <3>4, <3>5, <3>6, <3>7 DEF Word
  <2>12. /\ w \in [0..m-1 -> Word] /\ w \in [0..m-1 -> Int] /\ u \in [0..m-1 -> Int]
         /\ z \in [0..m-1 -> Int] /\ e \in [0..m -> Int] /\ f \in [0..m-1 -> Int]
    <3>1. w = [i \in 0..m-1 |-> w[i]] BY DEF w
    <3>2. f = [i \in 0..m-1 |-> f[i]] BY DEF f
    <3>3. e = [i \in 0..m |-> e[i]] BY DEF e
    <3>4. \A i \in 0..m : e[i] \in Int
      <4>1. TAKE i \in 0..m
      <4>2. CASE i = 0
        <5>1. e[i] = 0 BY <4>2 DEF e
        <5> QED BY <5>1
      <4>3. CASE i # 0
        <5>1. PICK j \in 0..m-1 : i = j + 1
          <6>1. i - 1 \in 0..m-1 /\ i = (i - 1) + 1 BY <2>9, <4>3
          <6> QED BY <6>1
        <5>2. e[j+1] \in 0..c-1 BY <2>10
        <5> QED BY <5>1, <5>2
      <4> QED BY <4>2, <4>3
    <3>5. \A i \in 0..m-1 : f[i] * c \in Int BY <2>4, <2>7
    <3>6. z \in [0..m-1 -> Int] OBVIOUS
    <3>7. u \in [0..m-1 -> Int]
      <4> HIDE DEF f
      <4> QED BY <3>5
    <3> HIDE DEF w, f, e, u, z
    <3>8. w \in [0..m-1 -> Word] /\ w \in [0..m-1 -> Int] BY <2>11, <3>1
    <3>9. e \in [0..m -> Int] BY <3>3, <3>4
    <3>10. f \in [0..m-1 -> Int] BY <2>7, <3>2
    <3> QED BY <3>6, <3>7, <3>8, <3>9, <3>10
  <2>13. Sums(z, m)[m] = 0
    <3>1. \A j \in 0..m-1 : z[j] = 0 OBVIOUS
    <3> HIDE DEF z
    <3> QED BY <2>9, <2>12, <3>1, SumsZero
  <2>14. Scaled(u, f, c, m) BY DEF Scaled
  <2>15. e[0] = 0 BY <2>9 DEF e
  <2> HIDE DEF w, f, e, u, z
  <2> c \in Int BY <2>4
  <2>16. Sums(u, m)[m] = Sums(f, m)[m] * c BY ZenonT(40), <2>4, <2>9, <2>12, <2>14, SumsScaled
  <2>17. Sums(f, m)[m] = Sums(x, m)[m-at] * Place(at) BY ZenonT(40), <2>3, <2>4, <2>8, <2>9, <2>12, SumsDelayed
  <2>18. PICK g \in Nat : Sums(x, m)[m] = Sums(x, m)[m-at] + g * Place(m-at)
    BY <2>3, <2>9, UpperPart
  <2>19. Sums(w, m)[m] + e[m] * Place(m) = Sums(u, m)[m] + Sums(z, m)[m] + e[0]
    <3>1. Chained(w, u, z, e, m) BY <2>11 DEF Chained
    <3>2. m \in Nat /\ w \in [0..m-1 -> Int] /\ u \in [0..m-1 -> Int]
            /\ z \in [0..m-1 -> Int] /\ e \in [0..m -> Int]
      BY <2>9, <2>12
    <3>3. ChainedSums(w, u, z, e, m) BY <3>1, <3>2, Chain
    <3> QED BY <2>9, <3>3 DEF ChainedSums
  <2>20. PICK pa \in Int, pd \in Int, pm \in Int :
           pa = Place(at) /\ pd = Place(m-at) /\ pm = Place(m) /\ pm = pa * pd
    <3>1. at \in Nat /\ m - at \in Nat /\ at + (m - at) = m BY <2>4, <2>9
    <3>2. Place(at + (m - at)) = Place(at) * Place(m - at) BY <3>1, PlaceSum
    <3>3. Place(at) \in Int /\ Place(m-at) \in Int /\ Place(m) \in Int BY <2>9, <3>1, PlaceIs
    <3> QED BY <3>1, <3>2, <3>3
  <2>21. PICK sw \in Int, sx \in Int, sd \in Int, d \in Int :
           /\ sw = Sums(w, m)[m] /\ sx = Sums(x, m)[m] /\ sd = Sums(x, m)[m-at] /\ d = e[m]
    BY <2>3, <2>9, <2>12, SumsInt
  <2>22. PICK t \in Int, j \in Int : t = sx * (pa * c) /\ j = -(g * c) - d
    <3>1. sx * (pa * c) \in Int /\ -(g * c) - d \in Int BY <2>18, <2>20, <2>21
    <3> QED BY <3>1
  <2>23. sw = t + j * pm
    <3>1. sw + d * pm = (sd * pa) * c + 0 + 0
      BY <2>13, <2>15, <2>16, <2>17, <2>19, <2>20, <2>21
    <3>2. sx = sd + g * pd BY <2>18, <2>20, <2>21
    <3>3. PICK dp \in Int, s1 \in Int, s2 \in Int :
            dp = d * pm /\ s1 = (sd * pa) * c /\ s2 = (g * c) * (pa * pd)
      BY <2>4
    <3>4. (sd + g * pd) * (pa * c) = s1 + s2 BY <2>4, <3>3
    <3>5. (-(g * c) - d) * (pa * pd) = -s2 - d * (pa * pd) BY <2>4, <3>3
    <3>6. sw = s1 - dp BY <3>1, <3>3
    <3>7. t = s1 + s2 BY <2>22, <3>2, <3>4
    <3>8. j * pm = -s2 - dp BY <2>20, <2>22, <3>3, <3>5
    <3>9. PICK jp \in Int : jp = j * pm BY <2>20
    <3>10. sw = t + jp BY <3>6, <3>7, <3>8, <3>9
    <3> QED BY <3>9, <3>10
  <2>24. Sums(w, NWords(n))[NWords(n)] = t + j * Place(NWords(n)) BY <2>2, <2>20, <2>21, <2>23
  <2>25. w \in [0..NWords(n)-1 -> Word] BY <2>2, <2>12
  <2>26. Canonical(Shl(v, k), n) /\ Value(Shl(v, k)) = t % 2^n
    <3>1. v \in AInt(n) /\ t \in Int /\ j \in Int BY <2>2, <2>22
    <3>2. LET y == Masked([v EXCEPT !.w = w]) IN Canonical(y, n) /\ Value(y) = t % 2^n
      BY ZenonT(40), <2>24, <2>25, <3>1, ResultIs
    <3> QED BY <2>1, <3>2
  <2> QED BY <2>3, <2>4, <2>20, <2>21, <2>22, <2>26
<1> QED BY <1>1, <1>2
-----------------------------------------------------------------------------
\* y is x without its first k words.
Ahead(y, x, k, m) == \A i \in 0..m-1 : y[i] = IF i + k < m THEN x[i+k] ELSE 0

\* Words taken k words down stand for what is left when the first k are dropped.
LEMMA SumsAhead ==
  ASSUME NEW m \in Nat, NEW x \in [0..m-1 -> Int], NEW y \in [0..m-1 -> Int], NEW k \in 0..m,
         Ahead(y, x, k, m)
  PROVE  Sums(x, m)[m] = Sums(x, m)[k] + Sums(y, m)[m] * Place(k)
<1> DEFINE d == m - k
           S == {j \in 0..d : Sums(x, m)[k+j] = Sums(x, m)[k] + Sums(y, m)[j] * Place(k)}
<1>1. d \in Nat /\ k + d = m /\ k \in Nat /\ d \in 0..m OBVIOUS
<1>2. 0 \in S
  <2>1. Sums(y, m)[0] = 0 BY SumsAre
  <2>2. PICK p \in Int, s \in Int : p = Place(k) /\ s = Sums(x, m)[k] BY <1>1, PlaceIs, SumsInt
  <2>3. s = s + 0 * p /\ k + 0 = k OBVIOUS
  <2> QED BY <1>1, <2>1, <2>2, <2>3
<1>3. ASSUME NEW j \in 0..d-1, j \in S PROVE j + 1 \in S
  <2>1. PICK i \in 0..m-1 : i = k + j /\ i = j + k /\ i + 1 = k + (j + 1) BY <1>1
  <2>2. j \in 0..m-1 /\ j \in Nat /\ j + 1 \in 0..d /\ j + k < m BY <1>1
  <2>3. PICK e \in Int, s \in Int, p \in Int, q \in Int, s0 \in Int :
          /\ e = x[i] /\ s = Sums(y, m)[j] /\ p = Place(k) /\ q = Place(j)
          /\ s0 = Sums(x, m)[k]
    <3>1. x[i] \in Int OBVIOUS
    <3>2. Sums(y, m)[j] \in Int BY <2>2, SumsStep
    <3>3. Place(k) \in Int /\ Place(j) \in Int /\ Sums(x, m)[k] \in Int
      BY <1>1, <2>2, PlaceIs, SumsInt
    <3> QED BY <3>1, <3>2, <3>3
  <2>4. y[j] = e BY <2>1, <2>2, <2>3 DEF Ahead
  <2>5. Place(i) = p * q BY <1>1, <2>1, <2>2, <2>3, PlaceSum
  <2>6. Sums(x, m)[i+1] = Sums(x, m)[i] + x[i] * Place(i) BY SumsStep
  <2>7. Sums(y, m)[j+1] = s + e * q
    <3>1. Sums(y, m)[j+1] = Sums(y, m)[j] + y[j] * Place(j) BY <2>2, SumsStep
    <3> QED BY <2>3, <2>4, <3>1
  <2>8. Sums(x, m)[i] = s0 + s * p BY <1>3, <2>1, <2>3
  <2>9. Sums(x, m)[i+1] = s0 + s * p + e * (p * q) BY <2>3, <2>5, <2>6, <2>8
  <2>10. s0 + (s + e * q) * p = s0 + s * p + e * (p * q)
    <3>1. (s + e * q) * p = s * p + e * (p * q) OBVIOUS
    <3>2. PICK sp \in Int, ep \in Int : sp = s * p /\ ep = e * (p * q) OBVIOUS
    <3> QED BY <3>1, <3>2
  <2> QED BY <2>1, <2>2, <2>3, <2>7, <2>9, <2>10
<1> HIDE DEF S, d
<1>4. \A j \in 0..d : j \in S BY <1>1, <1>2, <1>3, Induct
<1>5. d \in S BY <1>1, <1>4
<1>6. Sums(x, m)[k+d] = Sums(x, m)[k] + Sums(y, m)[d] * Place(k) BY <1>5 DEF S
<1>7. \A i \in d..m-1 : y[i] = 0
  <2>1. TAKE i \in d..m-1
  <2>2. i \in 0..m-1 /\ ~(i + k < m) BY <1>1
  <2> QED BY <2>2 DEF Ahead
<1>8. Sums(y, m)[m] = Sums(y, m)[d] BY <1>1, <1>7, SumsFlat
<1> QED BY <1>1, <1>6, <1>8

\* A shift to the right divides.
LEMMA LshrExact ==
  ASSUME NEW n \in Nat \ {0}, NEW v, Canonical(v, n), NEW k \in 0..n-1
  PROVE  Canonical(Lshr(v, k), n) /\ Value(Lshr(v, k)) = (Value(v) \div 2^k) % 2^n
<1>1. CASE k = 0
  <2>1. Lshr(v, k) = v BY <1>1 DEF Lshr
  <2>2. 2^k = 1 BY <1>1
  <2>3. Value(v) \in Int BY ValueNat DEF Canonical
  <2>4. Value(v) \div 1 = Value(v) BY <2>3
  <2> QED BY <2>1, <2>2, <2>4, CanonicalValue
<1>2. CASE k # 0
  <2> DEFINE m == NWords(v.n)
             x == v.w
             at == k \div WordBits
             bs == k % WordBits
             c == 2^bs
             h == 2^(WordBits - bs)
             last == Top(v) - at
             word(i) == CASE i < last -> Spliced(x, i + at, bs)
                          [] i = last -> x[i + at] \div 2^bs
                          [] OTHER    -> 0
             w == [i \in 0..m-1 |-> word(i)]
             y == [i \in 0..m-1 |-> IF i + at < m THEN x[i + at] ELSE 0]
             u == [i \in 0..m-1 |-> w[i] * c]
             z == [i \in 0..m-1 |-> 0]
             e == [i \in 0..m |-> IF i = m THEN 0 ELSE (y[i] \div c) * c - y[i]]
  <2>1. Lshr(v, k) = Masked([v EXCEPT !.w = w]) BY <1>2 DEF Lshr, Idx
  <2>2. v \in AInt(n) /\ v.n = n /\ m = NWords(n) /\ m \in Nat \ {0} /\ last = m - 1 - at
    BY SMTT(40), IntegerOf, WidthOf DEF Canonical
  <2>3. x \in [0..m-1 -> Word] /\ x \in [0..m-1 -> Int] /\ Value(v) = Sums(x, m)[m]
    BY <2>2, IntegerOf
  <2>4. /\ at \in 0..m-1 /\ at \in 0..m /\ c \in Nat \ {0} /\ h \in Nat \ {0} /\ Base = h * c
        /\ 2^k = Place(at) * c
    <3>1. 2^(WordBits - (k % WordBits)) \in Nat /\ 2^(WordBits - (k % WordBits)) >= 2 BY BitAt
    <3>2. h \in Nat \ {0} BY <3>1
    <3>3. at \in 0..m-1 BY <2>2, BitAt
    <3>4. at \in 0..m BY <2>2, <3>3
    <3>5. Base = c * h /\ c \in Nat \ {0} /\ 2^k = Place(at) * c BY BitAt
    <3>6. PICK c1 \in Nat, h1 \in Nat : c1 = c /\ h1 = h BY <3>2, <3>5
    <3>7. c1 * h1 = h1 * c1 OBVIOUS
    <3> QED BY <3>2, <3>3, <3>4, <3>5, <3>6, <3>7
  <2> HIDE DEF m, x, at, bs, last
  <2>5. ASSUME NEW i \in 0..m-1
        PROVE  /\ i < last => w[i] = (x[i+at] \div c) + ((x[i+at+1] * h) % Base)
               /\ i = last => w[i] = x[i+at] \div c
               /\ i > last => w[i] = 0
    <3>1. w[i] = word(i) OBVIOUS
    <3>2. last \in Int BY <2>2, <2>4
    <3>3. ASSUME i < last PROVE w[i] = (x[i+at] \div c) + ((x[i+at+1] * h) % Base)
      BY <3>1, <3>3 DEF Spliced
    <3>4. ASSUME i = last PROVE w[i] = x[i+at] \div c
      <4>1. ~(i < last) BY <3>2, <3>4
      <4> QED BY <3>1, <3>4, <4>1
    <3>5. ASSUME i > last PROVE w[i] = 0
      <4>1. ~(i < last) /\ ~(i = last) BY <3>2, <3>5
      <4> QED BY <3>1, <4>1
    <3> QED BY <3>3, <3>4, <3>5
  <2> HIDE DEF c, h, w
  <2>6. PICK base \in Nat : base = Base /\ base >= 2 BY Places_
  <2>7. ASSUME NEW i \in 0..m-1
        PROVE  y[i] \in 0..h*c-1 /\ y[i] \in Int
    <3>1. CASE i + at < m
      <4>1. i + at \in 0..m-1 BY <2>2, <2>4, <3>1
      <4>2. y[i] = x[i + at] BY <3>1
      <4>3. x[i + at] \in Word BY <2>3, <4>1
      <4> QED BY <2>4, <4>2, <4>3, WordIs
    <3>2. CASE ~(i + at < m)
      <4>1. y[i] = 0 BY <3>2
      <4>2. 0 \in 0..base-1 BY <2>6
      <4> QED BY <2>4, <2>6, <4>1, <4>2
    <3> QED BY <3>1, <3>2
  <2>8. Ahead(y, x, at, m) BY DEF Ahead
  <2>9. m \in 0..m /\ 0 \in 0..m /\ 0 \in 0..m-1 /\ m \in Nat /\ at \in Nat BY <2>2, <2>4
  \* What is in the places that are shifted out of word i.
  <2> DEFINE Out(i, r) == /\ r \in 0..c-1 /\ y[i] = (y[i] \div c) * c + r /\ y[i] \div c \in 0..h-1
                          /\ (y[i] * h) % Base = r * h /\ r * h <= h * c - h
  <2>10. ASSUME NEW i \in 0..m-1 PROVE \E r \in 0..c-1 : Out(i, r) /\ e[i] = -r
    <3> HIDE DEF y
    <3>1. PICK t \in 0..h*c-1 : t = y[i] BY <2>7
    <3>2. PICK q \in 0..h-1 : q = t \div c BY <2>4, WordShl
    <3>3. PICK r \in 0..c-1 : t = (t \div c) * c + r /\ (t * h) % (h * c) = r * h
                              /\ r * h <= h * c - h
      BY <2>4, WordShl
    <3>4. e[i] = (y[i] \div c) * c - y[i]
      <4>1. i \in 0..m /\ i # m BY <2>9
      <4> QED BY <4>1
    <3>5. e[i] = -r
      <4>1. PICK qc \in Int : qc = q * c BY <2>4
      <4>2. t = qc + r BY <3>2, <3>3, <4>1
      <4>3. e[i] = qc - t BY <3>1, <3>2, <3>4, <4>1
      <4> QED BY <4>2, <4>3
    <3> QED BY <2>4, <3>1, <3>2, <3>3, <3>5
  <2> HIDE DEF Out
  <2>11. e[m] = 0 BY <2>9
  <2> HIDE DEF e
  <2>12. ASSUME NEW i \in 0..m-1
         PROVE  /\ w[i] \in Word /\ w[i] \in Int /\ u[i] \in Int
                /\ u[i] + e[i+1] * Base = y[i] + z[i] + e[i]
    <3>1. PICK r \in 0..c-1 : Out(i, r) /\ e[i] = -r BY <2>10
    <3>2. PICK t \in Int, q \in 0..h-1 : t = y[i] /\ q = y[i] \div c /\ t = q * c + r
      <4>1. y[i] \in Int BY <2>7
      <4>2. y[i] \div c \in 0..h-1 /\ y[i] = (y[i] \div c) * c + r BY <3>1 DEF Out
      <4> QED BY <4>1, <4>2
    <3>3. \E s \in 0..c-1 : e[i+1] = 0 - s /\ w[i] = q + s * h /\ s * h <= h * c - h
      <4>1. CASE i < last
        <5>1. PICK j \in 0..m-1 : j = i + 1 BY <2>2, <2>4, <4>1
        <5>2. PICK s \in 0..c-1 : Out(j, s) /\ e[j] = -s BY <2>10
        <5>3. i + at < m /\ j + at < m /\ j + at = i + at + 1 BY <2>2, <2>4, <4>1, <5>1
        <5>4. y[i] = x[i+at] /\ y[j] = x[i+at+1] BY <5>3
        <5>5. (y[j] * h) % Base = s * h /\ s * h <= h * c - h BY <5>2 DEF Out
        <5> HIDE DEF y
        <5>6. w[i] = q + s * h BY <2>5, <3>2, <4>1, <5>4, <5>5
        <5>7. -s = 0 - s OBVIOUS
        <5> QED BY <5>1, <5>2, <5>5, <5>6, <5>7
      <4>2. CASE i = last
        <5>1. i + at < m BY <2>2, <2>4, <4>2
        <5>2. y[i] = x[i+at] BY <5>1
        <5>3. w[i] = q BY <2>5, <3>2, <4>2, <5>2
        <5>4. e[i+1] = 0
          <6>1. CASE i + 1 = m BY <2>11, <6>1
          <6>2. CASE i + 1 # m
            <7>1. PICK j \in 0..m-1 : j = i + 1 BY <2>9, <6>2
            <7>2. ~(j + at < m) BY <2>2, <2>4, <4>2, <7>1
            <7>3. y[j] = 0 BY <7>2
            <7>4. j \in 0..m /\ j # m BY <2>9
            <7>5. e[j] = (0 \div c) * c - 0 BY <7>3, <7>4 DEF e
            <7>6. 0 \div c = 0
              <8>1. 0 \in 0..c-1 /\ 0 = 0 * c + 0 BY <2>4
              <8>2. \A t1 \in Int : t1 = 0 * c + 0 => t1 \div c = 0 BY <2>4, <8>1, DivMod
              <8> QED BY <8>1, <8>2
            <7>7. 0 * c - 0 = 0 BY <2>4
            <7> QED BY <7>1, <7>5, <7>6, <7>7
          <6> QED BY <6>1, <6>2
        <5>5. 0 \in 0..c-1 /\ 0 = 0 - 0 /\ q = q + 0 * h /\ 0 * h <= h * c - h
          <6>1. PICK c1 \in Nat, h1 \in Nat : c = c1 + 1 /\ h1 = h
            <7>1. c - 1 \in Nat /\ c = (c - 1) + 1 BY <2>4
            <7> QED BY <2>4, <7>1
          <6>2. h1 * (c1 + 1) = h1 * c1 + h1 /\ h1 * c1 \in Nat /\ 0 * h1 = 0 OBVIOUS
          <6>3. PICK hc \in Nat : hc = h1 * c1 BY <6>2
          <6>4. 0 <= (hc + h1) - h1 OBVIOUS
          <6>5. 0 * h <= h * c - h BY <6>1, <6>2, <6>3, <6>4
          <6>6. 0 * h = 0 /\ 0 \in 0..c-1 BY <6>1, <6>2
          <6>7. q \in Int BY <2>4, <3>2
          <6>8. 0 - 0 = 0 /\ q + 0 = q /\ 0 + 0 = 0 BY <6>7
          <6> QED BY <6>5, <6>6, <6>8
        <5> QED BY <5>3, <5>4, <5>5
      <4>3. CASE i > last
        <5>1. ~(i + at < m) BY <2>2, <2>4, <4>3
        <5>2. y[i] = 0 BY <5>1
        <5>3. w[i] = 0 BY <2>5, <4>3
        <5>4. 0 \div c = 0
          <6>1. 0 \in 0..c-1 /\ 0 = 0 * c + 0 BY <2>4
          <6>2. \A t1 \in Int : t1 = 0 * c + 0 => t1 \div c = 0 BY <2>4, <6>1, DivMod
          <6> QED BY <6>1, <6>2
        <5>5. q = 0 BY <3>2, <5>2, <5>4
        <5>6. e[i+1] = 0
          <6>1. CASE i + 1 = m BY <2>11, <6>1
          <6>2. CASE i + 1 # m
            <7>1. PICK j \in 0..m-1 : j = i + 1 BY <2>9, <6>2
            <7>2. ~(j + at < m) BY <2>2, <2>4, <4>3, <7>1
            <7>3. y[j] = 0 BY <7>2
            <7>4. j \in 0..m /\ j # m BY <2>9
            <7>5. e[j] = (0 \div c) * c - 0 BY <7>3, <7>4 DEF e
            <7>6. 0 * c - 0 = 0 BY <2>4
            <7> QED BY <5>4, <7>1, <7>5, <7>6
          <6> QED BY <6>1, <6>2
        <5>7. 0 \in 0..c-1 /\ 0 = 0 - 0 /\ 0 = 0 + 0 * h /\ 0 * h <= h * c - h
          <6>1. PICK c1 \in Nat, h1 \in Nat : c = c1 + 1 /\ h1 = h
            <7>1. c - 1 \in Nat /\ c = (c - 1) + 1 BY <2>4
            <7> QED BY <2>4, <7>1
          <6>2. h1 * (c1 + 1) = h1 * c1 + h1 /\ h1 * c1 \in Nat /\ 0 * h1 = 0 OBVIOUS
          <6>3. PICK hc \in Nat : hc = h1 * c1 BY <6>2
          <6>4. 0 <= (hc + h1) - h1 OBVIOUS
          <6>5. 0 * h <= h * c - h BY <6>1, <6>2, <6>3, <6>4
          <6>6. 0 * h = 0 /\ 0 \in 0..c-1 BY <6>1, <6>2
          <6>7. q \in Int BY <2>4, <3>2
          <6>8. 0 - 0 = 0 /\ q + 0 = q /\ 0 + 0 = 0 BY <6>7
          <6> QED BY <6>5, <6>6, <6>8
        <5> QED BY <5>3, <5>5, <5>6, <5>7
      <4>4. last \in Int BY <2>2, <2>4
      <4> QED BY <4>1, <4>2, <4>3, <4>4
    <3>4. PICK s \in 0..c-1 : e[i+1] = 0 - s /\ w[i] = q + s * h /\ s * h <= h * c - h BY <3>3
    <3>5. PICK sh \in Nat, hc \in Nat : sh = s * h /\ hc = h * c BY <2>4
    <3>6. q + sh \in 0..hc-1 BY <2>4, <3>4, <3>5
    <3>7. w[i] \in Word /\ w[i] \in Int BY <2>4, <3>4, <3>5, <3>6 DEF Word
    <3>8. u[i] = (q + s * h) * c BY <3>4
    <3>9. (q + s * h) * c + (0 - s) * (h * c) = q * c BY <2>4
    <3>10. z[i] = 0 OBVIOUS
    <3>11. PICK qc \in Int : qc = q * c BY <2>4
    <3>12. qc = t + 0 + (-r) BY <3>2, <3>11
    <3>13. (q + s * h) * c \in Int BY <2>4
    <3> HIDE DEF u, y, z
    <3> QED BY <2>4, <3>1, <3>2, <3>4, <3>7, <3>8, <3>9, <3>10, <3>11, <3>12, <3>13
  <2>13. /\ w \in [0..m-1 -> Word] /\ w \in [0..m-1 -> Int] /\ u \in [0..m-1 -> Int]
         /\ z \in [0..m-1 -> Int] /\ e \in [0..m -> Int] /\ y \in [0..m-1 -> Int]
    <3>1. w = [i \in 0..m-1 |-> w[i]] BY DEF w
    <3>2. y = [i \in 0..m-1 |-> y[i]] OBVIOUS
    <3>3. e = [i \in 0..m |-> e[i]] BY DEF e
    <3>4. u = [i \in 0..m-1 |-> u[i]] OBVIOUS
    <3>5. z \in [0..m-1 -> Int] OBVIOUS
    <3> HIDE DEF u, y, z
    <3>6. \A i \in 0..m : e[i] \in Int
      <4>1. TAKE i \in 0..m
      <4>2. CASE i = m BY <2>11, <4>2
      <4>3. CASE i # m
        <5>1. i \in 0..m-1 BY <2>9, <4>3
        <5>2. PICK r \in 0..c-1 : e[i] = -r BY <2>10, <5>1
        <5> QED BY <5>2
      <4> QED BY <4>2, <4>3
    <3>7. w \in [0..m-1 -> Word] /\ w \in [0..m-1 -> Int] BY <2>12, <3>1
    <3>8. e \in [0..m -> Int] BY <3>3, <3>6
    <3>9. y \in [0..m-1 -> Int] BY <2>7, <3>2
    <3>10. u \in [0..m-1 -> Int] BY <2>12, <3>4
    <3> QED BY <3>5, <3>7, <3>8, <3>9, <3>10
  <2>14. Sums(z, m)[m] = 0
    <3>1. \A j \in 0..m-1 : z[j] = 0 OBVIOUS
    <3> HIDE DEF z
    <3> QED BY <2>9, <2>13, <3>1, SumsZero
  <2>15. Scaled(u, w, c, m) BY DEF Scaled
  <2>16. PICK r \in 0..c-1 : e[0] = -r BY <2>9, <2>10
  <2> HIDE DEF y, u, z
  <2> c \in Int BY <2>4
  <2>17. Sums(u, m)[m] = Sums(w, m)[m] * c BY ZenonT(40), <2>9, <2>13, <2>15, SumsScaled
  <2>18. Sums(x, m)[m] = Sums(x, m)[at] + Sums(y, m)[m] * Place(at)
    BY ZenonT(40), <2>3, <2>4, <2>8, <2>9, <2>13, SumsAhead
  <2>19. Sums(u, m)[m] + e[m] * Place(m) = Sums(y, m)[m] + Sums(z, m)[m] + e[0]
    <3>1. Chained(u, y, z, e, m) BY <2>12 DEF Chained
    <3>2. m \in Nat /\ u \in [0..m-1 -> Int] /\ y \in [0..m-1 -> Int]
            /\ z \in [0..m-1 -> Int] /\ e \in [0..m -> Int]
      BY <2>9, <2>13
    <3>3. ChainedSums(u, y, z, e, m) BY <3>1, <3>2, Chain
    <3> QED BY <2>9, <3>3 DEF ChainedSums
  <2>20. PICK pa \in Nat \ {0}, pm \in Int, sw \in Int, sx \in Int, sa \in Int, sy \in Int :
           /\ pa = Place(at) /\ pm = Place(m) /\ sw = Sums(w, m)[m] /\ sx = Sums(x, m)[m]
           /\ sa = Sums(x, m)[at] /\ sy = Sums(y, m)[m] /\ sa \in 0..pa-1
    <3>1. Place(at) \in Nat \ {0} /\ Place(m) \in Int BY <2>9, PlaceIs
    <3>2. Sums(w, m)[m] \in Int /\ Sums(x, m)[m] \in Int /\ Sums(y, m)[m] \in Int
      BY <2>3, <2>9, <2>13, SumsInt
    <3>3. Sums(x, m)[at] \in 0..Place(at)-1 BY <2>3, <2>4, <2>9, SumsBound
    <3>4. Sums(x, m)[at] \in Int BY <2>3, <2>4, <2>9, SumsInt
    <3> QED BY <3>1, <3>2, <3>3, <3>4
  <2>21. sy = sw * c + r
    <3>1. sw * c + 0 * pm = sy + 0 + (-r) BY <2>11, <2>14, <2>16, <2>17, <2>19, <2>20
    <3>2. PICK wc \in Int : wc = sw * c OBVIOUS
    <3>3. wc = sy - r BY <3>1, <3>2
    <3> QED BY <3>2, <3>3
  <2>22. PICK d \in Nat \ {0}, l \in Int : d = pa * c /\ l = r * pa + sa BY <2>4
  <2>23. l \in 0..d-1
    <3>1. PICK f \in Nat : c - 1 = r + f
      <4>1. c - 1 - r \in Nat /\ c - 1 = r + (c - 1 - r) BY <2>4
      <4> QED BY <4>1
    <3>2. (r + f) * pa = r * pa + f * pa /\ f * pa \in Nat /\ r * pa \in Nat OBVIOUS
    <3>3. (c - 1) * pa = pa * c - pa OBVIOUS
    <3>4. PICK rp \in Nat, fp \in Nat : rp = r * pa /\ fp = f * pa BY <3>2
    <3>5. rp + fp = d - pa BY <2>22, <3>1, <3>2, <3>3, <3>4
    <3> QED BY <2>20, <2>22, <3>4, <3>5
  <2>24. sx = sw * d + l
    <3>1. sx = sa + (sw * c + r) * pa BY <2>18, <2>20, <2>21
    <3>2. (sw * c + r) * pa = sw * (pa * c) + r * pa OBVIOUS
    <3>3. PICK f \in Int, g \in Int : f = sw * (pa * c) /\ g = r * pa OBVIOUS
    <3> QED BY <2>22, <3>1, <3>2, <3>3
  <2>25. sx \div d = sw
    <3>1. \A t \in Int : t = sw * d + l => t \div d = sw BY <2>23, DivMod
    <3> QED BY <2>24, <3>1
  <2>26. Sums(w, NWords(n))[NWords(n)] = sw + 0 * Place(NWords(n))
    <3>1. sw = sw + 0 * pm OBVIOUS
    <3> QED BY <2>2, <2>20, <3>1
  <2>27. w \in [0..NWords(n)-1 -> Word] BY <2>2, <2>13
  <2>28. Canonical(Lshr(v, k), n) /\ Value(Lshr(v, k)) = sw % 2^n
    <3>1. v \in AInt(n) /\ 0 \in Int BY <2>2
    <3>2. LET t == Masked([v EXCEPT !.w = w]) IN Canonical(t, n) /\ Value(t) = sw % 2^n
      BY ZenonT(40), <2>26, <2>27, <3>1, ResultIs
    <3> QED BY <2>1, <3>2
  <2> QED BY <2>3, <2>4, <2>20, <2>22, <2>25, <2>28
<1> QED BY <1>1, <1>2
-----------------------------------------------------------------------------
\* Masking an integer that is canonical leaves it as it is.
LEMMA MaskedAgain ==
  ASSUME NEW n \in Nat \ {0}, NEW v, Canonical(v, n)
  PROVE  Canonical(Masked(v), n) /\ Value(Masked(v)) = Value(v)
<1>1. v \in AInt(n) BY DEF Canonical
<1>2. PICK m \in Nat : m = NWords(n) BY WidthOf
<1>3. PICK x \in Int, p \in Int : x = Value(v) /\ p = Place(NWords(n)) BY <1>1, <1>2, ValueNat, PlaceIs
<1>4. x = x + 0 * p OBVIOUS
<1>5. Value(v) = x + 0 * Place(NWords(n)) BY <1>3, <1>4
<1>6. Canonical(Masked(v), n) /\ Value(Masked(v)) = x % 2^n
  <2>1. 0 \in Int OBVIOUS
  <2> QED BY <1>1, <1>3, <1>5, <2>1, MaskedIs
<1> QED BY <1>3, <1>6, CanonicalValue

\* The product of an integer and a word.
LEMMA MulUimmExact ==
  ASSUME NEW n \in Nat \ {0}, NEW v \in AInt(n), NEW imm \in Word
  PROVE  Canonical(MulUimm(v, imm), n) /\ Value(MulUimm(v, imm)) = (Value(v) * imm) % 2^n
<1> DEFINE m == NWords(v.n)
           x == v.w
           zero == [j \in 0..m-1 |-> 0]
           y == [j \in 0..m-1 |-> imm]
           row == Row(zero, 0, x, imm, m)
           w == [j \in 0..m-1 |-> row[j]]
           res == [v EXCEPT !.w = w]
<1>1. NipMulUimm(v, imm) = IF IsBignum(v.n) THEN res ELSE Masked(res) BY DEF NipMulUimm, Idx
<1>2. v.n = n /\ m = NWords(n) /\ m \in Nat \ {0} /\ m \in Nat /\ v = [n |-> n, w |-> x]
  BY IntegerOf, WidthOf
<1>3. x \in [0..m-1 -> Word] /\ x \in [0..m-1 -> Int] /\ Value(v) = Sums(x, m)[m]
  BY <1>2, IntegerOf
<1> HIDE DEF m, x
<1>4. zero \in [0..m-1 -> Word] /\ zero \in [0..m-1 -> Int] /\ y \in [0..m-1 -> Word]
  <2>1. 0 \in Word
    <3>1. Base \in Nat /\ Base >= 2 BY Places_
    <3> QED BY <3>1 DEF Word
  <2> QED BY <2>1
<1>5. Sums(zero, m)[m] = 0
  <2>1. \A j \in 0..m-1 : zero[j] = 0 OBVIOUS
  <2> HIDE DEF zero
  <2> QED BY <1>2, <1>4, <2>1, SumsZero
<1>6. w = NextRow(zero, 1, x, y, m)
  <2>1. 1 - 1 = 0 /\ m - 1 + 1 = m /\ 0 \in 0..m-1 BY <1>2
  <2>2. y[0] = imm BY <2>1
  <2>3. \A j \in 0..m-1 : ~(j < 0) /\ j - 1 + 1 = j BY <1>2
  <2> HIDE DEF y, zero
  <2>4. NextRow(zero, 1, x, y, m) = [j \in 0..m-1 |-> IF j < 0 THEN zero[j] ELSE row[j - 1 + 1]]
    BY <2>1, <2>2 DEF NextRow
  <2>5. \A j \in 0..m-1 : (IF j < 0 THEN zero[j] ELSE row[j - 1 + 1]) = row[j] BY <2>3
  <2> HIDE DEF row
  <2> QED BY <2>4, <2>5
<1>7. 1 \in 1..m BY <1>2
<1>8. RowAdded(w, zero, 1, x, y, m)
  <2> HIDE DEF w, zero, y
  <2> QED BY <1>2, <1>3, <1>4, <1>6, <1>7, NextRowIs
<1>9. y[1 - 1] = imm
  <2>1. 1 - 1 = 0 /\ 0 \in 0..m-1 BY <1>2
  <2> QED BY <2>1
<1> HIDE DEF w, zero, y
<1>10. PICK t \in Int : Sums(w, m)[m] = 0 + Sums(x, m)[m] * imm * Place(1 - 1) + t * Place(m)
  BY <1>5, <1>8, <1>9 DEF RowAdded
<1>11. w \in [0..m-1 -> Word] BY <1>8 DEF RowAdded
<1>12. Place(1 - 1) = 1
  <2>1. 1 - 1 = 0 OBVIOUS
  <2> QED BY <2>1, Places_
<1>13. PICK p \in Int, sx \in Int, i \in Int, s \in Int :
         p = Place(m) /\ sx = Sums(x, m)[m] /\ i = imm /\ s = sx * i
  <2>1. m \in 0..m BY <1>2
  <2>2. Place(m) \in Int /\ Sums(x, m)[m] \in Int /\ imm \in Int
    BY <1>2, <1>3, <2>1, PlaceIs, SumsInt, WordIs
  <2>3. PICK sx \in Int, i \in Int : sx = Sums(x, m)[m] /\ i = imm BY <2>2
  <2>4. sx * i \in Int OBVIOUS
  <2> QED BY <2>2, <2>3, <2>4
<1>14. Sums(w, m)[m] = s + t * p
  <2>1. 0 + sx * i * 1 + t * p = sx * i + t * p OBVIOUS
  <2> QED BY <1>10, <1>12, <1>13, <2>1
<1>15. Sums(w, NWords(n))[NWords(n)] = s + t * Place(NWords(n)) BY <1>2, <1>13, <1>14
<1>16. w \in [0..NWords(n)-1 -> Word] BY <1>2, <1>11
<1>17. Canonical(Masked(res), n) /\ Value(Masked(res)) = s % 2^n BY <1>13, <1>15, <1>16, ResultIs
<1>18. CASE IsBignum(v.n)
  <2>1. MulUimm(v, imm) = Masked(res) BY <1>1, <1>18 DEF MulUimm
  <2> QED BY <1>3, <1>13, <1>17, <2>1
<1>19. CASE ~IsBignum(v.n)
  <2>1. MulUimm(v, imm) = Masked(Masked(res)) BY <1>1, <1>19 DEF MulUimm
  <2> HIDE DEF res
  <2>2. Canonical(Masked(Masked(res)), n) /\ Value(Masked(Masked(res))) = Value(Masked(res))
    BY <1>17, MaskedAgain
  <2> QED BY <1>3, <1>13, <1>17, <2>1, <2>2
<1> QED BY <1>18, <1>19
-----------------------------------------------------------------------------
\* Half of a word is less than it.
LEMMA HalfWord ==
  /\ Base \div 2 \in Nat \ {0} /\ Base = Base \div 2 + Base \div 2 /\ Base \div 2 = 2^(WordBits - 1)
<1>1. PICK w \in Nat : WordBits = w + 1
  <2>1. WordBits - 1 \in Nat /\ WordBits = (WordBits - 1) + 1 BY WordBitsAssumption
  <2> QED BY <2>1
<1>2. 2^w \in Nat \ {0} /\ 2^(w + 1) = 2 * 2^w BY PowerOfTwo
<1>3. PICK h \in Nat \ {0} : h = 2^w BY <1>2
<1>4. Base = 2 * h BY <1>1, <1>2, <1>3 DEF Base
<1>5. Base \div 2 = h
  <2>1. 2 \in Nat \ {0} /\ 0 \in 0..2-1 OBVIOUS
  <2>2. \A u \in Int : u = h * 2 + 0 => u \div 2 = h BY <2>1, DivMod
  <2>3. 2 * h = h * 2 + 0 /\ 2 * h \in Int OBVIOUS
  <2> QED BY <1>4, <2>2, <2>3
<1>6. WordBits - 1 = w BY <1>1
<1> QED BY <1>3, <1>4, <1>5, <1>6

\* A word taken as signed.
SignedWord(word) == IF word >= Base \div 2 THEN word - Base ELSE word

\* An integer that is made of one signed word.
LEMMA Init1Signed ==
  ASSUME NEW n \in Nat \ {0}, NEW word \in Word
  PROVE  /\ Canonical(Init1(n, word, TRUE), n)
         /\ Value(Init1(n, word, TRUE)) = SignedWord(word) % 2^n
<1>1. CASE ~(word >= Base \div 2)
  <2>1. Init1(n, word, TRUE) = Init1(n, word, FALSE) BY <1>1 DEF Init1
  <2> QED BY <1>1, <2>1, Init1Exact DEF SignedWord
<1>2. CASE word >= Base \div 2
  <2>1. PICK m \in Nat \ {0} : m = NWords(n) BY WidthOf
  <2> DEFINE w == [i \in 0..m-1 |-> IF i = 0 THEN word ELSE Base - 1]
             v == [n |-> n, w |-> w]
             y == [i \in 0..m-1 |-> IF i = 0 THEN Base - word ELSE 0]
             z == [i \in 0..m-1 |-> 0]
             c == [i \in 0..m |-> IF i = 0 THEN 0 ELSE 1]
  <2>2. Init1(n, word, TRUE) = Masked(v) BY <1>2, <2>1 DEF Init1, Idx
  <2>3. PICK base \in Nat : base = Base /\ base >= 2 BY Places_
  <2>4. PICK x \in 0..base-1 : x = word BY <2>3, WordIs
  <2>5. ASSUME NEW i \in 0..m-1
        PROVE  /\ w[i] \in Word /\ w[i] \in Int /\ y[i] \in Int
               /\ z[i] + c[i+1] * Base = w[i] + y[i] + c[i]
    <3>1. i \in 0..m /\ i + 1 \in 0..m /\ i + 1 # 0 BY <2>1
    <3>2. c[i+1] = 1 /\ z[i] = 0 BY <3>1
    <3>3. CASE i = 0
      <4>1. w[i] = x /\ y[i] = base - x /\ c[i] = 0 BY <2>3, <2>4, <3>1, <3>3
      <4>2. 0 + 1 * base = x + (base - x) + 0 OBVIOUS
      <4> HIDE DEF w, y, c, z
      <4> QED BY <2>3, <2>4, <3>2, <4>1, <4>2
    <3>4. CASE i # 0
      <4>1. w[i] = base - 1 /\ y[i] = 0 /\ c[i] = 1 BY <2>3, <3>1, <3>4
      <4>2. 0 + 1 * base = base - 1 + 0 + 1 /\ base - 1 \in 0..base-1 BY <2>3
      <4> HIDE DEF w, y, c, z
      <4> QED BY <2>3, <3>2, <4>1, <4>2 DEF Word
    <3> QED BY <3>3, <3>4
  <2>6. /\ w \in [0..m-1 -> Word] /\ w \in [0..m-1 -> Int] /\ y \in [0..m-1 -> Int]
        /\ z \in [0..m-1 -> Int] /\ c \in [0..m -> Int]
    <3>1. w = [i \in 0..m-1 |-> w[i]] /\ y = [i \in 0..m-1 |-> y[i]] OBVIOUS
    <3>2. z \in [0..m-1 -> Int] /\ c \in [0..m -> Int] OBVIOUS
    <3> HIDE DEF w, y, z, c
    <3> QED BY <2>5, <3>1, <3>2
  <2>7. m \in 0..m /\ 0 \in 0..m /\ 0 \in 0..m-1 /\ m \in Nat /\ m # 0 BY <2>1
  <2>8. Sums(z, m)[m] = 0
    <3>1. \A j \in 0..m-1 : z[j] = 0 OBVIOUS
    <3> HIDE DEF z
    <3> QED BY <2>6, <2>7, <3>1, SumsZero
  <2>9. Sums(y, m)[m] = base - x
    <3>1. y[0] = base - x /\ OnlyAt(y, 0, m) BY <2>3, <2>4, <2>7 DEF OnlyAt
    <3> HIDE DEF y
    <3>2. Sums(y, m)[m] = y[0] * Place(0) BY <2>6, <2>7, <3>1, SumsOne
    <3>3. Place(0) = 1 BY Places_
    <3>4. (base - x) * 1 = base - x OBVIOUS
    <3> QED BY <3>1, <3>2, <3>3, <3>4
  <2>10. c[0] = 0 /\ c[m] = 1 BY <2>7
  <2>11. v \in AInt(n)
    <3> HIDE DEF w
    <3> QED BY <2>1, <2>6 DEF AInt, Idx
  <2>12. Value(v) = Sums(w, m)[m] BY <2>1 DEF Value
  <2> HIDE DEF w, y, z, c, v
  <2>13. Sums(z, m)[m] + c[m] * Place(m) = Sums(w, m)[m] + Sums(y, m)[m] + c[0]
    <3>1. Chained(z, w, y, c, m) BY <2>5 DEF Chained
    <3>2. m \in Nat /\ z \in [0..m-1 -> Int] /\ w \in [0..m-1 -> Int]
            /\ y \in [0..m-1 -> Int] /\ c \in [0..m -> Int]
      BY <2>6, <2>7
    <3>3. ChainedSums(z, w, y, c, m) BY <3>1, <3>2, Chain
    <3> QED BY <2>7, <3>3 DEF ChainedSums
  <2>14. PICK p \in Int, sw \in Int, t \in Int : p = Place(m) /\ sw = Sums(w, m)[m] /\ t = x - base
    <3>1. Place(m) \in Int /\ Sums(w, m)[m] \in Int BY <2>6, <2>7, PlaceIs, SumsInt
    <3>2. x - base \in Int OBVIOUS
    <3> QED BY <3>1, <3>2
  <2>15. sw = t + 1 * p
    <3>1. 0 + 1 * p = sw + (base - x) + 0 BY <2>8, <2>9, <2>10, <2>13, <2>14
    <3> QED BY <2>14, <3>1
  <2>16. Canonical(Masked(v), n) /\ Value(Masked(v)) = t % 2^n
    <3>1. Value(v) = t + 1 * Place(NWords(n)) BY <2>1, <2>12, <2>14, <2>15
    <3>2. 1 \in Int OBVIOUS
    <3> QED BY ZenonT(40), <2>11, <2>14, <3>1, <3>2, MaskedIs
  <2> QED BY <1>2, <2>2, <2>3, <2>4, <2>14, <2>16 DEF SignedWord
<1> QED BY <1>1, <1>2
-----------------------------------------------------------------------------
\* A number less than 2^n leaves the bits past the width zero.
LEMMA CanonicalIs ==
  ASSUME NEW n \in Nat \ {0}, NEW v \in AInt(n), Value(v) < 2^n
  PROVE  Canonical(v, n)
<1>1. PICK s \in Nat, t \in Nat, p \in Nat \ {0}, l \in Nat :
        /\ s = Sums(v.w, NWords(n))[NWords(n)-1] /\ t = v.w[NWords(n)-1]
        /\ p = Place(NWords(n)-1) /\ l = 2^LastBits(n)
  <2>1. NWords(n) - 1 \in Nat BY IntegerOf
  <2>2. Place(NWords(n)-1) \in Nat \ {0} BY <2>1, PlaceIs
  <2>3. 2^LastBits(n) \in Nat BY WidthOf
  <2>4. v.w[NWords(n)-1] \in Nat
    <3>1. Top(v) = NWords(n) - 1 /\ v.w[Top(v)] \in 0..Base-1 BY IntegerOf
    <3> QED BY <3>1
  <2>5. Sums(v.w, NWords(n))[NWords(n)-1] \in Nat
    <3>1. Sums(v.w, NWords(n))[NWords(n)-1] \in 0..Place(NWords(n)-1)-1 BY IntegerOf
    <3> QED BY <3>1
  <2> QED BY <2>2, <2>3, <2>4, <2>5
<1>2. Value(v) = s + t * p /\ 2^n = p * l /\ v.n = n /\ Top(v) = NWords(n) - 1
  BY <1>1, IntegerOf, WidthOf
<1>3. t < l
  <2>1. SUFFICES ASSUME t >= l PROVE FALSE OBVIOUS
  <2>2. PICK e \in Nat : t = l + e
    <3>1. t - l \in Nat /\ t = l + (t - l) BY <2>1
    <3> QED BY <3>1
  <2>3. (l + e) * p = p * l + e * p /\ e * p \in Nat /\ p * l \in Nat OBVIOUS
  <2>4. PICK pl \in Nat, ep \in Nat : pl = p * l /\ ep = e * p BY <2>3
  <2>5. Value(v) = s + (pl + ep) BY <1>2, <2>2, <2>3, <2>4
  <2> QED BY <1>2, <2>4, <2>5
<1> QED BY <1>1, <1>2, <1>3 DEF Canonical, IsCanonical

\* Words that differ in one word, by d.
Changed(x, at, d) == [x EXCEPT ![at] = x[at] + d]

\* A change of one word changes what they stand for in its place.
LEMMA SumsChanged ==
  ASSUME NEW m \in Nat, NEW x \in [0..m-1 -> Int], NEW at \in 0..m-1, NEW d \in Int
  PROVE  Sums(Changed(x, at, d), m)[m] = Sums(x, m)[m] + d * Place(at)
<1> DEFINE w == [x EXCEPT ![at] = x[at] + d]
           y == [i \in 0..m-1 |-> IF i = at THEN d ELSE 0]
           c == [i \in 0..m |-> 0]
<1>1. ASSUME NEW i \in 0..m-1
      PROVE  w[i] \in Int /\ w[i] + c[i+1] * Base = x[i] + y[i] + c[i]
  <2>1. i \in 0..m /\ i + 1 \in 0..m OBVIOUS
  <2>2. c[i] = 0 /\ c[i+1] = 0 BY <2>1
  <2>3. PICK base \in Int, e \in Int : base = Base /\ e = x[i] BY Places_
  <2>4. w[i] = e + y[i] /\ y[i] \in Int
    <3>1. CASE i = at BY <2>3, <3>1
    <3>2. CASE i # at
      <4>1. w[i] = e /\ y[i] = 0 /\ e + 0 = e BY <2>3, <3>2
      <4> QED BY <4>1
    <3> QED BY <3>1, <3>2
  <2>5. PICK f \in Int : f = y[i] BY <2>4
  <2>6. e + f + 0 * base = e + f + 0 /\ e + f \in Int OBVIOUS
  <2> HIDE DEF w, y, c
  <2> QED BY <2>2, <2>3, <2>4, <2>5, <2>6
<1>2. w \in [0..m-1 -> Int] /\ y \in [0..m-1 -> Int] /\ c \in [0..m -> Int]
  <2>1. w = [i \in 0..m-1 |-> w[i]] OBVIOUS
  <2>2. y \in [0..m-1 -> Int] /\ c \in [0..m -> Int] OBVIOUS
  <2> HIDE DEF w
  <2> QED BY <1>1, <2>1, <2>2
<1>3. y[at] = d /\ OnlyAt(y, at, m) BY DEF OnlyAt
<1>4. m \in 0..m /\ 0 \in 0..m OBVIOUS
<1>5. c[0] = 0 /\ c[m] = 0 BY <1>4
<1> HIDE DEF w, y, c
<1>6. Sums(y, m)[m] = d * Place(at) BY <1>2, <1>3, SumsOne
<1>7. Sums(w, m)[m] + c[m] * Place(m) = Sums(x, m)[m] + Sums(y, m)[m] + c[0]
  <2>1. Chained(w, x, y, c, m) BY <1>1 DEF Chained
  <2>3. ChainedSums(w, x, y, c, m) BY <1>2, <2>1, Chain
  <2> QED BY <1>4, <2>3 DEF ChainedSums
<1>8. PICK p \in Int, sw \in Int, sx \in Int, sy \in Int :
        p = Place(m) /\ sw = Sums(w, m)[m] /\ sx = Sums(x, m)[m] /\ sy = Sums(y, m)[m]
  <2>1. Sums(w, m)[m] \in Int /\ Sums(x, m)[m] \in Int /\ Sums(y, m)[m] \in Int
    BY <1>2, <1>4, SumsInt
  <2>2. Place(m) \in Int BY PlaceIs
  <2> QED BY <2>1, <2>2
<1>9. sw + 0 * p = sx + sy + 0 BY <1>5, <1>7, <1>8
<1>10. sw = sx + sy BY <1>9
<1> QED BY <1>6, <1>8, <1>10 DEF w, Changed

\* Whether there is room to add a bit to a number, or to take it away.
LEMMA BitRoom ==
  ASSUME NEW c \in Nat \ {0}, NEW g \in Nat, NEW x \in Nat, x < c * (2 * g)
  PROVE  /\ (x \div c) % 2 = 1 => x - c \in Nat /\ x - c < c * (2 * g)
         /\ (x \div c) % 2 # 1 => x + c < c * (2 * g)
<1>1. PICK q \in Int, t \in 0..c-1 : x = q * c + t /\ x \div c = q
  <2>1. x = (x \div c) * c + (x % c) /\ x % c \in 0..c-1 /\ x \div c \in Int BY DivModOf
  <2> QED BY <2>1
<1>2. PICK l \in Nat : l = c * (2 * g) OBVIOUS
<1>3. ASSUME q % 2 = 1 PROVE x - c \in Nat /\ x - c < c * (2 * g)
  <2>1. q >= 1
    <3>1. SUFFICES ASSUME q <= 0 PROVE FALSE OBVIOUS
    <3>2. CASE q = 0 BY <1>3, <3>2
    <3>3. CASE q <= -1
      <4>1. PICK e \in Nat : q = 0 - 1 - e
        <5>1. 0 - 1 - q \in Nat /\ q = 0 - 1 - (0 - 1 - q) BY <3>3
        <5> QED BY <5>1
      <4>2. (0 - 1 - e) * c = 0 - c - e * c /\ e * c \in Nat OBVIOUS
      <4>3. PICK ec \in Nat : ec = e * c BY <4>2
      <4>4. x = 0 - c - ec + t BY <1>1, <4>1, <4>2, <4>3
      <4> QED BY <4>4
    <3> QED BY <3>1, <3>2, <3>3
  <2>2. PICK e \in Nat : q = 1 + e
    <3>1. q - 1 \in Nat /\ q = 1 + (q - 1) BY <2>1
    <3> QED BY <3>1
  <2>3. (1 + e) * c = c + e * c /\ e * c \in Nat OBVIOUS
  <2>4. PICK ec \in Nat : ec = e * c BY <2>3
  <2>5. x = c + ec + t BY <1>1, <2>2, <2>3, <2>4
  <2> QED BY <1>2, <2>5
<1>4. ASSUME q % 2 # 1 PROVE x + c < c * (2 * g)
  <2>1. PICK h \in Int : q = 2 * h
    <3>1. q = (q \div 2) * 2 + (q % 2) /\ q % 2 \in 0..2-1 /\ q \div 2 \in Int
      <4>1. 2 \in Nat \ {0} OBVIOUS
      <4> QED BY <4>1, DivModOf
    <3>2. PICK h \in Int, r \in 0..1 : q = h * 2 + r /\ r = q % 2 /\ h = q \div 2 BY <3>1
    <3>3. r = 0 BY <1>4, <3>2
    <3>4. q = 2 * h BY <3>2, <3>3
    <3> QED BY <3>4
  <2>2. h <= g - 1
    <3>1. SUFFICES ASSUME h >= g PROVE FALSE OBVIOUS
    <3>2. PICK e \in Nat : h = g + e
      <4>1. h - g \in Nat /\ h = g + (h - g) BY <3>1
      <4> QED BY <4>1
    <3>3. (2 * (g + e)) * c = c * (2 * g) + (2 * e) * c /\ (2 * e) * c \in Nat OBVIOUS
    <3>4. PICK ec \in Nat : ec = (2 * e) * c BY <3>3
    <3>5. x = l + ec + t BY <1>1, <1>2, <2>1, <3>2, <3>3, <3>4
    <3> QED BY <1>2, <3>5
  <2>3. PICK e \in Nat : g = h + 1 + e
    <3>1. g - h - 1 \in Nat /\ g = h + 1 + (g - h - 1) BY <2>2
    <3> QED BY <3>1
  <2>4. c * (2 * (h + 1 + e)) = (2 * h) * c + c + c + (2 * e) * c /\ (2 * e) * c \in Nat OBVIOUS
  <2>5. PICK ec \in Nat, hc \in Int : ec = (2 * e) * c /\ hc = (2 * h) * c BY <2>4
  <2>6. l = hc + c + c + ec /\ x = hc + t BY <1>1, <1>2, <2>1, <2>3, <2>4, <2>5
  <2> QED BY <1>2, <2>6
<1> QED BY <1>1, <1>3, <1>4
-----------------------------------------------------------------------------
\* What a power of two leaves to a greater one.
LEMMA PowerSplit ==
  ASSUME NEW n \in Nat, NEW k \in 0..n-1
  PROVE  \E g \in Nat : 2^n = 2^k * (2 * g) /\ 2^k \in Nat \ {0}
<1>1. PICK e \in Nat : n = k + (e + 1)
  <2>1. n - k - 1 \in Nat /\ n = k + ((n - k - 1) + 1) OBVIOUS
  <2> QED BY <2>1
<1>2. k \in Nat /\ e + 1 \in Nat OBVIOUS
<1>3. 2^(k + (e + 1)) = 2^k * 2^(e + 1) /\ 2^k \in Nat \ {0} BY <1>2, PowersOf
<1>4. 2^(e + 1) = 2 * 2^e /\ 2^e \in Nat BY PowerOfTwo
<1> QED BY <1>1, <1>3, <1>4

\* What midint_flip_bit makes of a number.
Flipped(x, c) == IF (x \div c) % 2 = 1 THEN x - c ELSE x + c

\* midint_flip_bit takes away 2^k where the bit is one, and adds it where it is
\* zero.
LEMMA FlipBitExact ==
  ASSUME NEW n \in Nat \ {0}, NEW v, Canonical(v, n), NEW k \in 0..n-1
  PROVE  /\ Canonical(FlipBit(v, k), n)
         /\ Value(FlipBit(v, k)) = Flipped(Value(v), 2^k) % 2^n
<1> DEFINE m == NWords(v.n)
           x == v.w
           at == k \div WordBits
           bit == 2^(k % WordBits)
<1>1. FlipBit(v, k) = [v EXCEPT !.w[at] = IF GetBit(v, k) = 1 THEN x[at] - bit ELSE x[at] + bit]
  BY DEF FlipBit
<1>2. v \in AInt(n) /\ v.n = n /\ m = NWords(n) /\ m \in Nat \ {0} /\ m \in Nat
      /\ v = [n |-> n, w |-> x]
  BY IntegerOf, WidthOf DEF Canonical
<1>3. x \in [0..m-1 -> Word] /\ x \in [0..m-1 -> Int] /\ Value(v) = Sums(x, m)[m]
  BY <1>2, IntegerOf
<1>4. at \in 0..m-1 /\ bit \in Nat \ {0} /\ 2^k = Place(at) * bit BY <1>2, BitAt
<1>5. PICK g \in Nat : Base = bit * (2 * g)
  <2>1. k % WordBits \in 0..WordBits-1 /\ WordBits \in Nat BY BitAt, WordBitsAssumption
  <2>2. PICK w \in Nat : w = WordBits BY <2>1
  <2>4. PICK r \in 0..w-1 : r = k % WordBits BY <2>1, <2>2
  <2>3. \E g \in Nat : 2^w = 2^r * (2 * g) BY PowerSplit
  <2> QED BY <2>2, <2>3, <2>4 DEF Base
<1>6. GetBit(v, k) = (x[at] \div bit) % 2 BY DEF GetBit
<1>7. GetBit(v, k) = (Value(v) \div 2^k) % 2 BY <1>2, GetBitIs
<1> HIDE DEF m, x, at, bit
<1>8. PICK y \in Nat : y = x[at] /\ y < bit * (2 * g) BY <1>3, <1>4, <1>5, WordIs
<1> DEFINE d == IF (y \div bit) % 2 = 1 THEN 0 - bit ELSE bit
           w == [x EXCEPT ![at] = x[at] + d]
           res == [n |-> n, w |-> w]
<1>9. d \in Int BY <1>4
<1>10. x[at] + d \in Word
  <2>1. (y \div bit) % 2 = 1 => y - bit \in Nat /\ y - bit < bit * (2 * g) BY <1>4, <1>8, BitRoom
  <2>2. (y \div bit) % 2 # 1 => y + bit < bit * (2 * g) BY <1>4, <1>8, BitRoom
  <2>3. PICK base \in Nat, c \in Nat : base = Base /\ base = bit * (2 * g) /\ c = bit
    BY <1>4, <1>5, Places_
  <2>4. CASE (y \div bit) % 2 = 1
    <3>1. y + (0 - c) = y - c /\ y - c \in 0..base-1 BY <2>1, <2>3, <2>4
    <3>2. d = 0 - c BY <2>3, <2>4
    <3> HIDE DEF d
    <3> QED BY <1>8, <2>3, <3>1, <3>2 DEF Word
  <2>5. CASE (y \div bit) % 2 # 1
    <3>1. y + c \in 0..base-1 BY <2>2, <2>3, <2>5
    <3>2. d = c BY <2>3, <2>5
    <3> HIDE DEF d
    <3> QED BY <1>8, <2>3, <3>1, <3>2 DEF Word
  <2> QED BY <2>4, <2>5
<1>11. FlipBit(v, k) = res
  <2>1. (IF GetBit(v, k) = 1 THEN x[at] - bit ELSE x[at] + bit) = x[at] + d
    <3>1. PICK c \in Nat : c = bit BY <1>4
    <3>2. y - c = y + (0 - c) OBVIOUS
    <3>3. CASE GetBit(v, k) = 1 BY <1>6, <1>8, <3>1, <3>2, <3>3
    <3>4. CASE GetBit(v, k) # 1 BY <1>6, <1>8, <3>1, <3>4
    <3> QED BY <3>3, <3>4
  <2> HIDE DEF d
  <2>2. FlipBit(v, k) = [v EXCEPT !.w[at] = x[at] + d] BY <1>1, <2>1
  <2>3. [[n |-> n, w |-> x] EXCEPT !.w[at] = x[at] + d] = res OBVIOUS
  <2> QED BY <1>2, <2>2, <2>3
<1> HIDE DEF d
<1>12. w \in [0..m-1 -> Word] BY <1>3, <1>4, <1>10
<1>13. res \in AInt(n)
  <2> HIDE DEF w
  <2> QED BY <1>2, <1>12 DEF AInt, Idx
<1>14. Value(res) = Sums(x, m)[m] + d * Place(at)
  <2>1. Value(res) = Sums(w, m)[m] BY <1>2 DEF Value
  <2>2. Sums(w, m)[m] = Sums(x, m)[m] + d * Place(at)
    <3>1. w = Changed(x, at, d) BY DEF Changed
    <3> HIDE DEF w
    <3>2. Sums(Changed(x, at, d), m)[m] = Sums(x, m)[m] + d * Place(at)
      <4>1. m \in Nat /\ x \in [0..m-1 -> Int] /\ at \in 0..m-1 /\ d \in Int BY <1>2, <1>3, <1>4, <1>9
      <4> QED BY <4>1, SumsChanged
    <3> QED BY <3>1, <3>2
  <2> QED BY <2>1, <2>2
<1> HIDE DEF res
<1>15. PICK z \in Nat, p \in Nat \ {0}, c \in Nat \ {0} :
         z = Value(v) /\ p = Place(at) /\ c = bit
  <2>1. at \in Nat BY <1>2, <1>4
  <2> QED BY <1>2, <1>4, <2>1, ValueNat, PlaceIs
<1>16. PICK k2 \in Nat \ {0} : k2 = 2^k /\ k2 = p * c
  <2>1. p * c \in Nat \ {0} OBVIOUS
  <2> QED BY <1>4, <1>15, <2>1
<1>17. PICK f \in Nat : 2^n = k2 * (2 * f)
  <2>1. \E f \in Nat : 2^n = 2^k * (2 * f) BY ZenonT(40), PowerSplit
  <2> QED BY <1>16, <2>1
<1>18. z < k2 * (2 * f)
  <2>1. Value(v) \in 0..2^n-1 BY CanonicalValue
  <2>2. k2 * (2 * f) \in Nat OBVIOUS
  <2> QED BY <1>15, <1>17, <2>1, <2>2
<1>19. /\ (z \div k2) % 2 = 1 => z - k2 \in Nat /\ z - k2 < k2 * (2 * f)
       /\ (z \div k2) % 2 # 1 => z + k2 < k2 * (2 * f)
  BY <1>18, BitRoom
<1>20. (y \div bit) % 2 = (z \div k2) % 2 BY <1>6, <1>7, <1>8, <1>15, <1>16
<1>21. Value(res) = Flipped(z, k2)
  <2>1. CASE (z \div k2) % 2 = 1
    <3>1. d = 0 - c BY <1>15, <1>20, <2>1 DEF d
    <3>2. (0 - c) * p = 0 - p * c OBVIOUS
    <3>3. z + (0 - k2) = z - k2 OBVIOUS
    <3>4. Value(res) = z - k2 BY <1>3, <1>14, <1>15, <1>16, <3>1, <3>2, <3>3
    <3> QED BY <2>1, <3>4 DEF Flipped
  <2>2. CASE (z \div k2) % 2 # 1
    <3>1. d = c BY <1>15, <1>20, <2>2 DEF d
    <3>2. c * p = p * c OBVIOUS
    <3>4. Value(res) = z + k2 BY <1>3, <1>14, <1>15, <1>16, <3>1, <3>2
    <3> QED BY <2>2, <3>4 DEF Flipped
  <2> QED BY <2>1, <2>2
<1>22. Value(res) < 2^n BY <1>17, <1>19, <1>21 DEF Flipped
<1>23. Canonical(res, n) BY <1>13, <1>22, CanonicalIs
<1>24. Value(res) % 2^n = Value(res) BY <1>23, CanonicalValue
<1> QED BY <1>11, <1>15, <1>16, <1>21, <1>23, <1>24
-----------------------------------------------------------------------------
(***************************************************************************)
(* The greatest and the least.                                             *)
(***************************************************************************)
LEMMA UmaxExact ==
  ASSUME NEW n \in Nat \ {0}
  PROVE  /\ Canonical(Init1(n, Base - 1, TRUE), n)
         /\ Value(Init1(n, Base - 1, TRUE)) = (2^n - 1) % 2^n
<1>1. PICK h \in Nat \ {0}, base \in Nat :
        h = Base \div 2 /\ base = h + h /\ base = Base /\ base >= 2
  BY HalfWord, Places_
<1>2. Base - 1 \in Word /\ SignedWord(Base - 1) = 0 - 1
  <2>1. base - 1 \in 0..base-1 /\ base - 1 >= h /\ base - 1 - base = 0 - 1 BY <1>1
  <2> QED BY <1>1, <2>1 DEF Word, SignedWord
<1>3. /\ Canonical(Init1(n, Base - 1, TRUE), n)
      /\ Value(Init1(n, Base - 1, TRUE)) = SignedWord(Base - 1) % 2^n
  BY <1>2, Init1Signed
<1>4. PICK z \in Nat \ {0} : z = 2^n
  <2>1. 2^n \in Nat /\ 2^n >= 2 BY WidthOf
  <2> QED BY <2>1
<1>5. (0 - 1) % z = (z - 1) % z
  <2>1. PICK x \in Int, y \in Int, k \in Int : x = 0 - 1 /\ y = z - 1 /\ k = 0 - 1 OBVIOUS
  <2>2. k * z = 0 - z BY <2>1
  <2>3. x = y + k * z BY <2>1, <2>2
  <2>4. x % z = y % z BY <2>3, Congruent
  <2> QED BY <2>1, <2>4
<1> QED BY <1>2, <1>3, <1>4, <1>5

\* midint_get_smin gives 2^(n-1).
LEMMA SminExact ==
  ASSUME NEW n \in Nat \ {0}
  PROVE  /\ Canonical(Shl(Init1(n, 1, FALSE), n - 1), n)
         /\ Value(Shl(Init1(n, 1, FALSE), n - 1)) = 2^(n-1)
         /\ 2^(n-1) % 2^n = 2^(n-1)
<1>1. 1 \in Word
  <2>1. PICK base \in Nat : base = Base /\ base >= 2 BY Places_
  <2>2. 1 \in 0..base-1 BY <2>1
  <2> QED BY <2>1, <2>2 DEF Word
<1>2. PICK h \in Nat \ {0}, z \in Nat : h = 2^(n-1) /\ z = 2^n /\ z = h + h /\ z >= 2
  <2>1. n - 1 \in Nat /\ (n - 1) + 1 = n OBVIOUS
  <2>2. 2^(n-1) \in Nat \ {0} /\ 2^((n-1)+1) = 2 * 2^(n-1) BY <2>1, PowerOfTwo
  <2>3. 2^n \in Nat /\ 2^n >= 2 BY WidthOf
  <2> QED BY <2>1, <2>2, <2>3
<1> DEFINE one == Init1(n, 1, FALSE)
<1>3. Canonical(one, n) /\ Value(one) = 1 % 2^n BY <1>1, Init1Exact
<1>4. 1 % z = 1 /\ h % z = h BY <1>2
<1> HIDE DEF one
<1>5. n - 1 \in 0..n-1 OBVIOUS
<1>6. /\ Canonical(Shl(one, n - 1), n)
      /\ Value(Shl(one, n - 1)) = (Value(one) * 2^(n-1)) % 2^n
  BY <1>3, <1>5, ShlExact
<1>7. 1 * h = h OBVIOUS
<1>8. Value(Shl(one, n - 1)) = h BY <1>2, <1>3, <1>4, <1>6, <1>7
<1> QED BY <1>2, <1>4, <1>6, <1>8 DEF one
-----------------------------------------------------------------------------
(***************************************************************************)
(* What is asked of integers.                                              *)
(***************************************************************************)
LEMMA IsZeroExact ==
  ASSUME NEW n \in Nat \ {0}, NEW v \in AInt(n)
  PROVE  (\A i \in Idx(n) : v.w[i] = 0) <=> Value(v) = 0
<1>1. PICK m \in Nat : m = NWords(n) BY WidthOf
<1>2. v.w \in [0..m-1 -> Word] /\ v.w \in [0..m-1 -> Int] /\ Value(v) = Sums(v.w, m)[m]
  BY <1>1, IntegerOf
<1> DEFINE z == [i \in 0..m-1 |-> 0]
<1>3. z \in [0..m-1 -> Word] /\ z \in [0..m-1 -> Int] /\ \A j \in 0..m-1 : z[j] = 0
  <2>1. PICK base \in Nat : base = Base /\ base >= 2 BY Places_
  <2>2. 0 \in 0..base-1 BY <2>1
  <2> QED BY <2>1, <2>2 DEF Word
<1> HIDE DEF z
<1>4. Sums(z, m)[m] = 0 BY <1>3, SumsZero
<1>5. ASSUME Value(v) = 0 PROVE \A i \in 0..m-1 : v.w[i] = 0
  <2>1. v.w = z BY <1>2, <1>3, <1>4, <1>5, SumsTell
  <2> QED BY <1>3, <2>1
<1>6. ASSUME \A i \in 0..m-1 : v.w[i] = 0 PROVE Value(v) = 0
  <2>1. Sums(v.w, m)[m] = 0 BY <1>2, <1>6, SumsZero
  <2> QED BY <1>2, <2>1
<1> QED BY <1>1, <1>5, <1>6 DEF Idx

\* The place of the sign.
LEMMA SignPlace ==
  ASSUME NEW n \in Nat \ {0}
  PROVE  2^(n-1) = 2^(LastBits(n)-1) * Place(NWords(n)-1) /\ 2^(LastBits(n)-1) \in Word
<1>1. PICK m \in Nat \ {0}, w \in Nat, l \in Nat :
        /\ m = NWords(n) /\ w = WordBits /\ l = LastBits(n) /\ l \in 1..w
        /\ n = (m - 1) * w + l
  <2>1. NWords(n) \in Nat \ {0} /\ LastBits(n) \in 1..WordBits /\ WordBits \in Nat
          /\ n = (NWords(n) - 1) * WordBits + LastBits(n)
    BY WidthOf, WordBitsAssumption
  <2>2. PICK m \in Nat \ {0}, w \in Nat : m = NWords(n) /\ w = WordBits BY <2>1
  <2> QED BY <2>1, <2>2
<1>2. (m - 1) * w \in Nat /\ l - 1 \in Nat /\ n - 1 = (m - 1) * w + (l - 1) /\ w - l \in Nat
  <2>1. m - 1 \in Nat BY <1>1
  <2>2. PICK p \in Nat : p = (m - 1) * w BY <2>1
  <2> QED BY <1>1, <2>2
<1>3. 2^((m - 1) * w + (l - 1)) = 2^((m - 1) * w) * 2^(l - 1)
        /\ 2^((m - 1) * w) \in Nat /\ 2^(l - 1) \in Nat \ {0}
  BY <1>2, PowersOf
<1>4. PICK x \in Nat, y \in Nat : x = 2^((m - 1) * w) /\ y = 2^(l - 1) BY <1>3
<1>5. x * y = y * x OBVIOUS
<1>6. 2^(l - 1) \in Word
  <2>1. w - 1 \in Nat /\ l - 1 <= w - 1 BY <1>1
  <2>2. 2^(l - 1) <= 2^(w - 1) BY <1>2, <2>1, PowerMonotone
  <2>3. PICK h \in Nat \ {0}, base \in Nat : h = 2^(w - 1) /\ base = Base /\ base = h + h
    BY <1>1, HalfWord, Places_
  <2>4. y \in 0..base-1 BY <1>4, <2>2, <2>3
  <2> QED BY <1>4, <2>3, <2>4 DEF Word
<1> QED BY <1>1, <1>2, <1>3, <1>4, <1>5, <1>6 DEF Place
-----------------------------------------------------------------------------
(***************************************************************************)
(* Integers of one word: the word is the value.                            *)
(***************************************************************************)
LEMMA WholeSums ==
  ASSUME NEW n \in Nat \ {0}, ~IsBignum(n)
  PROVE  /\ NWords(n) = 1 /\ LastBits(n) = n /\ Idx(n) = {0} /\ 2^n \in Nat \ {0} /\ n \in 1..WordBits
         /\ \E c \in Nat \ {0} : Base = 2^n * c
<1>1. NWords(n) = 1 /\ n = (NWords(n) - 1) * WordBits + LastBits(n) /\ LastBits(n) \in 1..WordBits
      /\ Base = 2^LastBits(n) * 2^(WordBits - LastBits(n)) /\ 2^(WordBits - LastBits(n)) \in Nat \ {0}
      /\ 2^n \in Nat /\ 2^n >= 2
  BY WidthOf
<1>2. LastBits(n) = n
  <2>1. PICK w \in Nat : w = WordBits BY WordBitsAssumption
  <2>3. PICK k \in 1..w : k = LastBits(n) BY <1>1, <2>1
  <2>2. (1 - 1) * w + k = k OBVIOUS
  <2> QED BY <1>1, <2>1, <2>2, <2>3
<1>3. Idx(n) = {0} BY <1>1 DEF Idx
<1> QED BY <1>1, <1>2, <1>3

\* An integer of one word stands for that word.
LEMMA OneWord ==
  ASSUME NEW n \in Nat \ {0}, ~IsBignum(n), NEW v \in AInt(n)
  PROVE  /\ v.n = n /\ v.w \in [{0} -> Word] /\ v.w[0] \in Word /\ Value(v) = v.w[0] /\ Top(v) = 0
         /\ v = [n |-> n, w |-> [i \in {0} |-> v.w[0]]]
         /\ Canonical(v, n) <=> v.w[0] < 2^n
<1>1. NWords(n) = 1 /\ LastBits(n) = n /\ Idx(n) = {0} BY WholeSums
<1>2. v.n = n /\ v.w \in [{0} -> Word] /\ v = [n |-> n, w |-> v.w]
  BY <1>1 DEF AInt
<1>3. v.w \in [0..1-1 -> Int] /\ OnlyAt(v.w, 0, 1)
  <2>1. 0..1-1 = {0} OBVIOUS
  <2>2. v.w[0] \in Int BY <1>2, WordIs
  <2> QED BY <1>2, <2>1, <2>2 DEF OnlyAt
<1>4. Value(v) = Sums(v.w, 1)[1] BY <1>1, <1>2 DEF Value
<1>5. Sums(v.w, 1)[1] = v.w[0] * Place(0)
  <2>1. 1 \in Nat /\ 0 \in 0..1-1 OBVIOUS
  <2> QED BY <1>3, <2>1, SumsOne
<1>6. v.w[0] * Place(0) = v.w[0]
  <2>1. PICK x \in Int : x = v.w[0] BY <1>2, WordIs
  <2>2. x * 1 = x OBVIOUS
  <2> QED BY <2>1, <2>2, Places_
<1>7. Top(v) = 0 BY <1>1, <1>2 DEF Top
<1> QED BY <1>1, <1>2, <1>4, <1>5, <1>6, <1>7 DEF Canonical, IsCanonical

\* A number of no more bits than a word, as an integer of one.
LEMMA FromIntExact ==
  ASSUME NEW n \in Nat \ {0}, ~IsBignum(n), NEW x \in 0..2^n-1
  PROVE  Canonical(FromInt(n, x), n) /\ Value(FromInt(n, x)) = x
<1>1. Idx(n) = {0} /\ 2^n \in Nat \ {0} BY WholeSums
<1>2. PICK c \in Nat \ {0} : Base = 2^n * c BY WholeSums
<1>3. PICK p \in Nat \ {0} : p = 2^n BY <1>1
<1>4. x \in Nat /\ x < p * c
  <2>1. PICK d \in Nat : c = d + 1
    <3>1. c - 1 \in Nat /\ c = (c - 1) + 1 OBVIOUS
    <3> QED BY <3>1
  <2>2. p * (d + 1) = p * d + p /\ p * d \in Nat OBVIOUS
  <2>3. x \in 0..p-1 BY <1>3
  <2> QED BY <2>1, <2>2, <2>3
<1>5. (x \div Place(0)) % Base = x
  <2>1. PICK base \in Nat \ {0} : base = Base /\ x < base BY <1>2, <1>3, <1>4, Places_
  <2>2. x \in 0..base-1 /\ x \in Nat BY <1>4, <2>1
  <2>3. x % base = x BY <2>2, <2>1, WrapsTells
  <2>4. x \div 1 = x BY <2>2
  <2> QED BY <2>1, <2>3, <2>4, Places_
<1>6. x \in Word
  <2>1. PICK base \in Nat : base = Base /\ x < base BY <1>2, <1>3, <1>4, Places_
  <2> QED BY <1>4, <2>1 DEF Word
<1>7. FromInt(n, x) = [n |-> n, w |-> [i \in {0} |-> x]] BY <1>1, <1>5 DEF FromInt
<1>8. FromInt(n, x) \in AInt(n) BY <1>1, <1>6, <1>7 DEF AInt
<1>9. FromInt(n, x).w[0] = x BY <1>7
<1>10. x < 2^n BY <1>3
<1> QED BY <1>8, <1>9, <1>10, OneWord

\* The number none, at any width.
LEMMA FromZero ==
  ASSUME NEW n \in Nat \ {0}
  PROVE  Canonical(FromInt(n, 0), n) /\ Value(FromInt(n, 0)) = 0
<1>1. \A i \in Idx(n) : (0 \div Place(i)) % Base = 0
  <2>1. TAKE i \in Idx(n)
  <2>2. i \in Nat BY WidthOf DEF Idx
  <2>3. PICK p \in Nat \ {0}, base \in Nat \ {0} : p = Place(i) /\ base = Base BY SMTT(40), <2>2, PlaceIs, Places_
  <2>4. 0 \div p = 0 /\ 0 % base = 0 OBVIOUS
  <2> QED BY <2>3, <2>4
<1>2. FromInt(n, 0) = [n |-> n, w |-> [i \in Idx(n) |-> 0]] BY <1>1 DEF FromInt
<1>3. FromInt(n, 0) \in AInt(n)
  <2>1. 0 \in Word
    <3>1. Base \in Nat /\ Base >= 2 BY Places_
    <3> QED BY <3>1 DEF Word
  <2> QED BY <1>2, <2>1 DEF AInt
<1>4. \A i \in Idx(n) : FromInt(n, 0).w[i] = 0 BY <1>2
<1>5. Value(FromInt(n, 0)) = 0 BY <1>3, <1>4, IsZeroExact
<1>6. 0 < 2^n BY WidthOf
<1> QED BY <1>3, <1>5, <1>6, CanonicalIs

\* The first word of an integer is its value modulo a word.
LEMMA FirstWord ==
  ASSUME NEW n \in Nat \ {0}, NEW v \in AInt(n)
  PROVE  v.w[0] \in Word /\ \E h \in Nat : Value(v) = v.w[0] + h * Base
<1>1. PICK m \in Nat \ {0} : m = NWords(n) BY WidthOf
<1>2. v.w \in [0..m-1 -> Word] /\ v.w \in [0..m-1 -> Int] /\ Value(v) = Sums(v.w, m)[m]
  BY <1>1, IntegerOf
<1>3. 0 \in 0..m-1 /\ 1 \in 0..m /\ m \in Nat /\ 0 + 1 = 1 BY <1>1
<1>4. PICK h \in Nat : Sums(v.w, m)[m] = Sums(v.w, m)[1] + h * Place(1) BY <1>2, <1>3, UpperPart
<1>5. Place(1) = Base
  <2>1. Place(0 + 1) = Place(0) * Base /\ Place(0) = 1 BY PlaceIs, Places_
  <2>2. PICK base \in Nat : base = Base BY Places_
  <2>3. 1 * base = base OBVIOUS
  <2> QED BY <2>1, <2>2, <2>3
<1>6. Sums(v.w, m)[1] = v.w[0]
  <2>1. Sums(v.w, m)[0+1] = Sums(v.w, m)[0] + v.w[0] * Place(0) /\ Sums(v.w, m)[0] = 0
    BY SMTT(40), <1>2, <1>3, SumsAre
  <2>2. PICK x \in Int : x = v.w[0] BY <1>2, <1>3, WordIs
  <2>3. 0 + x * 1 = x OBVIOUS
  <2> QED BY <2>1, <2>2, <2>3, Places_
<1> QED BY <1>2, <1>3, <1>4, <1>5, <1>6

\* What is left of an integer in the bits of one word.
LEMMA CutExact ==
  ASSUME NEW n \in Nat \ {0}, ~IsBignum(n), NEW u \in Nat \ {0}, NEW v \in AInt(u)
  PROVE  v.w[0] % 2^n = Value(v) % 2^n
<1>1. PICK h \in Nat, x \in Int : x = v.w[0] /\ Value(v) = x + h * Base BY FirstWord, WordIs
<1>2. PICK p \in Nat \ {0}, c \in Nat \ {0} : p = 2^n /\ Base = p * c BY WholeSums
<1>3. h * (p * c) = (h * c) * p /\ x + (h * c) * p \in Int /\ h * c \in Int OBVIOUS
<1>4. (x + (h * c) * p) % p = x % p BY <1>3, Congruent
<1> QED BY <1>1, <1>2, <1>3, <1>4
-----------------------------------------------------------------------------
(***************************************************************************)
(* Two's complement, and the change of a width.                            *)
(***************************************************************************)
Sgn(x, n) == IF x >= 2^(n-1) THEN x - 2^n ELSE x

\* A number taken as signed, modulo a greater power of two.
LEMMA WordSigned ==
  ASSUME NEW h \in Nat \ {0}, NEW c \in Nat \ {0}, NEW x \in Nat, x < h + h, x >= h
  PROVE  (x - (h + h)) % ((h + h) * c) = x - (h + h) + (h + h) * c
         /\ x - (h + h) + (h + h) * c >= h * c
         /\ x - (h + h) + (h + h) * c < (h + h) * c
<1>1. PICK d \in Nat : c = d + 1
  <2>1. c - 1 \in Nat /\ c = (c - 1) + 1 OBVIOUS
  <2> QED BY <2>1
<1>2. (h + h) * (d + 1) = h * d + h * d + h + h /\ h * (d + 1) = h * d + h /\ h * d \in Nat OBVIOUS
<1>3. PICK e \in Nat : e = h * d BY <1>2
<1>4. PICK b_ \in Nat : b_ = (h + h) * c /\ b_ = e + e + h + h BY <1>1, <1>2, <1>3
<1>5. PICK y \in Int : y = x - (h + h) /\ y < 0 /\ y + b_ >= 0 BY <1>4
<1>6. y % b_ = y + b_
  <2>1. b_ \in Nat \ {0} BY <1>4
  <2> QED BY <1>5, <2>1, WrapsUnder
<1>7. h * c = e + h BY <1>1, <1>2, <1>3
<1>8. y + b_ >= e + h /\ y + b_ < b_ BY <1>4, <1>5
<1> QED BY <1>4, <1>5, <1>6, <1>7, <1>8

\* Filling a word with the sign of fewer bits keeps what they stand for.
LEMMA SignExtExact ==
  ASSUME NEW n \in Nat \ {0}, ~IsBignum(n), NEW x \in 0..2^n-1
  PROVE  SignExtWord(x, n) \in Word /\ SignedWord(SignExtWord(x, n)) = Sgn(x, n)
<1>1. PICK h \in Nat \ {0} : h = 2^(n-1) /\ 2^n = h + h
  <2>1. n - 1 \in Nat /\ (n - 1) + 1 = n OBVIOUS
  <2>2. 2^((n - 1) + 1) = 2 * 2^(n - 1) /\ 2^(n - 1) \in Nat \ {0} BY <2>1, PowerOfTwo
  <2>3. \A h \in Nat : 2 * h = h + h OBVIOUS
  <2> QED BY <2>1, <2>2, <2>3
<1>2. PICK c \in Nat \ {0} : Base = (h + h) * c BY <1>1, WholeSums
<1>3. Base \div 2 = h * c
  <2>1. PICK g \in Nat : g = Base \div 2 /\ Base = g + g BY HalfWord
  <2>2. PICK e \in Nat : e = h * c OBVIOUS
  <2>3. (h + h) * c = h * c + h * c OBVIOUS
  <2>4. g = e BY <1>2, <2>1, <2>2, <2>3
  <2> QED BY <2>1, <2>2, <2>4
<1>4. x \in Nat /\ x < h + h BY <1>1
<1>5. h + h <= (h + h) * c /\ h <= h * c
  <2>1. PICK d \in Nat : c = d + 1
    <3>1. c - 1 \in Nat /\ c = (c - 1) + 1 OBVIOUS
    <3> QED BY <3>1
  <2>2. h * (d + 1) = h * d + h /\ h * d \in Nat /\ (h + h) * (d + 1) = h * d + h * d + h + h OBVIOUS
  <2> QED BY <2>1, <2>2
<1>6. PICK base \in Nat \ {0}, half \in Nat \ {0} :
        /\ base = Base /\ half = Base \div 2 /\ base = half + half
        /\ base = (h + h) * c /\ half = h * c
  BY <1>2, <1>3, Places_, HalfWord
<1>7. CASE x >= h
  <2>1. (x \div h) % 2 = 1
    <3>1. x = 1 * h + (x - h) /\ x - h \in 0..h-1 BY <1>4, <1>7
    <3>2. x \in Int /\ 1 \in Int BY <1>4
    <3>3. x \div h = 1 BY <3>1, <3>2, DivMod
    <3> QED BY <3>3
  <2>2. SignExtWord(x, n) = (x - (h + h)) % base BY <1>1, <1>6, <2>1 DEF SignExtWord
  <2>3. (x - (h + h)) % base = x - (h + h) + base /\ x - (h + h) + base >= half
        /\ x - (h + h) + base < base
    BY <1>4, <1>6, <1>7, WordSigned
  <2>4. PICK y \in Nat : y = x - (h + h) + base /\ y < base /\ y >= half BY <2>3, <1>4, <1>6
  <2>5. y - base = x - (h + h) BY <1>4, <2>4
  <2> QED BY <1>1, <1>6, <1>7, <2>2, <2>3, <2>4, <2>5 DEF SignedWord, Sgn, Word
<1>8. CASE ~(x >= h)
  <2>1. (x \div h) % 2 = 0
    <3>1. x = 0 * h + x /\ x \in 0..h-1 BY <1>4, <1>8
    <3>2. x \in Int /\ 0 \in Int BY <1>4
    <3>3. x \div h = 0 BY <3>1, <3>2, DivMod
    <3> QED BY <3>3
  <2>2. SignExtWord(x, n) = x % base BY <1>1, <1>6, <2>1 DEF SignExtWord
  <2>3. x < half /\ x < base /\ x \in Nat BY <1>4, <1>5, <1>6, <1>8
  <2>4. x % base = x BY <2>3, <1>6, WrapsTells
  <2> QED BY <1>1, <1>6, <1>8, <2>2, <2>3, <2>4 DEF SignedWord, Sgn, Word
<1> QED BY <1>7, <1>8

\* midint_init: the number that is meant has the bits of one word.
LEMMA InitExact ==
  ASSUME NEW n \in Nat \ {0}, NEW word \in Word, NEW sign \in BOOLEAN
  PROVE  /\ Canonical(Init1(n, word, sign), n)
         /\ Value(Init1(n, word, sign)) = (IF sign THEN SignedWord(word) ELSE word) % 2^n
<1>1. CASE sign = TRUE BY <1>1, Init1Signed
<1>2. CASE sign = FALSE BY <1>2, Init1Exact
<1> QED BY <1>1, <1>2
-----------------------------------------------------------------------------
(***************************************************************************)
(* Calls of integers of one word.                                          *)
(***************************************************************************)
LEMMA MaskedOne ==
  ASSUME NEW n \in Nat \ {0}, ~IsBignum(n), NEW v \in AInt(n), NEW x \in Word
  PROVE  LET r == Masked([v EXCEPT !.w = [i \in Idx(n) |-> x]])
         IN  Canonical(r, n) /\ Value(r) = x % 2^n
<1> DEFINE w == [i \in Idx(n) |-> x]
<1>1. Idx(n) = {0} /\ NWords(n) = 1 BY WholeSums
<1>2. [v EXCEPT !.w = w] = [n |-> n, w |-> w] /\ w \in [{0} -> Word]
  <2>1. v = [n |-> n, w |-> v.w] BY IntegerOf
  <2> QED BY <1>1, <2>1
<1> DEFINE u == [n |-> n, w |-> w]
<1>3. u \in AInt(n) /\ u.w[0] = x BY <1>1, <1>2 DEF AInt
<1>4. [v EXCEPT !.w = w] = u BY <1>2
<1> HIDE DEF u, w
<1>5. PICK y \in Int, p \in Int : y = x /\ p = Place(NWords(n)) BY <1>1, PlaceIs, WordIs
<1>6. Value(u) = y + 0 * Place(NWords(n))
  <2>1. y = y + 0 * p OBVIOUS
  <2> QED BY <1>3, <1>5, <2>1, OneWord
<1>7. Canonical(Masked(u), n) /\ Value(Masked(u)) = y % 2^n
  <2>1. 0 \in Int OBVIOUS
  <2> QED BY <1>3, <1>5, <1>6, <2>1, MaskedIs
<1> QED BY <1>4, <1>5, <1>7 DEF w

\* Word arithmetic may be reduced once more.
LEMMA Reduced ==
  ASSUME NEW n \in Nat \ {0}, ~IsBignum(n), NEW x \in Int
  PROVE  x % Base \in Word /\ (x % Base) % 2^n = x % 2^n
<1>1. PICK p \in Nat \ {0}, c \in Nat \ {0} : p = 2^n /\ Base = p * c BY WholeSums
<1>2. PICK base \in Nat \ {0} : base = Base /\ base = p * c BY <1>1, Places_
<1>3. x = (x \div base) * base + (x % base) /\ x % base \in 0..base-1 /\ x \div base \in Int
  BY DivModOf
<1>4. PICK q \in Int, r \in 0..base-1 : q = x \div base /\ r = x % base BY <1>3
<1>5. x = r + (q * c) * p /\ q * c \in Int /\ r \in Int
  <2>1. q * (p * c) + r = r + (q * c) * p /\ q * c \in Int OBVIOUS
  <2> QED BY <1>2, <1>3, <1>4, <2>1
<1>6. x % p = r % p BY <1>5, Congruent
<1> QED BY <1>1, <1>2, <1>4, <1>6 DEF Word

\* midint_sub_uimm of an integer of one word.
LEMMA SubUimmExact ==
  ASSUME NEW n \in Nat \ {0}, ~IsBignum(n), NEW v \in AInt(n), NEW imm \in Word
  PROVE  Canonical(SubUimm(v, imm), n) /\ Value(SubUimm(v, imm)) = (Value(v) - imm) % 2^n
<1>1. v.n = n /\ Idx(n) = {0} /\ v.w[0] \in Word /\ Value(v) = v.w[0] BY OneWord, WholeSums
<1>2. PICK x \in Int, i \in Int : x = v.w[0] /\ i = imm BY <1>1, WordIs
<1> DEFINE low == (v.w[0] - imm) % Base
           borrow == [j \in Idx(v.n) |->
                        IF j = 0 THEN IsBignum(v.n) /\ low > v.w[0]
                        ELSE FALSE]
<1>3. x - i \in Int OBVIOUS
<1>4. low \in Word /\ low % 2^n = (x - i) % 2^n BY <1>2, <1>3, Reduced
<1>5. SubUimm(v, imm) = Masked([v EXCEPT !.w = [j \in Idx(n) |-> low]])
  <2> DEFINE start(j) == IF j = 0 THEN low ELSE v.w[j]
             IsBorrow(f) == f = [j \in Idx(v.n) |->
                IF j = 0 THEN IsBignum(v.n) /\ low > v.w[0]
                ELSE f[j-1] /\ (start(j-1) - Num(f[j-1])) % Base = 0]
             bor == CHOOSE f : IsBorrow(f)
  <2>1. IsBorrow([j \in {0} |-> FALSE])
    <3>1. \A j \in {0} : (IF j = 0 THEN IsBignum(v.n) /\ low > v.w[0]
                ELSE [k \in {0} |-> FALSE][j-1]
                      /\ (start(j-1) - Num([k \in {0} |-> FALSE][j-1])) % Base = 0) = FALSE
      BY <1>1
    <3> QED BY <1>1, <3>1
  <2>2. IsBorrow(bor) BY <2>1
  <2>3. bor[0] = FALSE
    <3> HIDE DEF bor
    <3> QED BY <1>1, <2>2
  <2>4. SubUimm(v, imm) = Masked([v EXCEPT !.w = [j \in Idx(v.n) |-> (start(j) - Num(bor[j])) % Base]])
    BY DEF SubUimm
  <2>5. (start(0) - Num(bor[0])) % Base = low
    <3>1. PICK y \in Nat, base \in Nat : y = low /\ base = Base /\ y < base BY <1>4, WordIs, Places_
    <3>5. base \in Nat \ {0} BY <3>1
    <3>6. y % base = y BY <3>1, <3>5, WrapsTells
    <3>2. y - 0 = y /\ y % base = y BY <3>6
    <3>3. Num(bor[0]) = 0 BY <2>3 DEF Num
    <3>4. start(0) = y BY <3>1
    <3> HIDE DEF bor, start, low
    <3> QED BY <3>1, <3>2, <3>3, <3>4
  <2> HIDE DEF bor, start, low
  <2>6. [j \in Idx(v.n) |-> (start(j) - Num(bor[j])) % Base] = [j \in Idx(n) |-> low]
    BY <1>1, <2>5
  <2> QED BY <2>4, <2>6
<1> HIDE DEF low
<1>6. Canonical(SubUimm(v, imm), n) /\ Value(SubUimm(v, imm)) = low % 2^n
  BY <1>4, <1>5, MaskedOne
<1> QED BY <1>1, <1>2, <1>4, <1>6

\* midint_get_smax of one word gives 2^(n-1) - 1.
LEMMA SmaxExact ==
  ASSUME NEW n \in Nat \ {0}, ~IsBignum(n)
  PROVE  LET r == IF n = 1 THEN FromInt(1, 0) ELSE SubUimm(Shl(Init1(n, 1, FALSE), n - 1), 1)
         IN  Canonical(r, n) /\ Value(r) = (2^(n-1) - 1) % 2^n
<1>1. CASE n = 1
  <2>1. 1 - 1 = 0 /\ 2^0 = 1 /\ 2^1 = 2 /\ (1 - 1) % 2 = 0 /\ 1 \in Nat \ {0} OBVIOUS
  <2>2. Canonical(FromInt(1, 0), 1) /\ Value(FromInt(1, 0)) = 0 BY <2>1, FromZero
  <2> QED BY <1>1, <2>1, <2>2
<1>2. CASE n # 1
  <2> DEFINE s == Shl(Init1(n, 1, FALSE), n - 1)
  <2>1. Canonical(s, n) /\ Value(s) = 2^(n-1) BY SminExact
  <2> HIDE DEF s
  <2>2. s \in AInt(n) BY <2>1 DEF Canonical
  <2>3. 1 \in Word
    <3>1. Base \in Nat /\ Base >= 2 BY Places_
    <3> QED BY <3>1 DEF Word
  <2>4. Canonical(SubUimm(s, 1), n) /\ Value(SubUimm(s, 1)) = (Value(s) - 1) % 2^n
    BY <2>2, <2>3, SubUimmExact
  <2> QED BY <1>2, <2>1, <2>4 DEF s
<1> QED BY <1>1, <1>2

\* midint_is_negative tells whether the signed number is.
LEMMA NegativeExact ==
  ASSUME NEW n \in Nat \ {0}, NEW v, Canonical(v, n)
  PROVE  Negative(v) <=> Sgn(Value(v), n) < 0
<1>1. PICK h \in Nat \ {0} : h = 2^(n-1) /\ 2^n = 2 * h BY SignIs
<1>2. PICK x \in 0..2 * h - 1 : x = Value(v)
  <2>1. Value(v) \in 0..2^n-1 BY CanonicalValue
  <2> QED BY <1>1, <2>1
<1>3. Negative(v) <=> x >= h BY <1>1, <1>2, SignIs
<1>4. CASE x >= h
  <2>1. Sgn(x, n) = x - 2 * h BY <1>1, <1>4 DEF Sgn
  <2> QED BY <1>2, <1>3, <1>4, <2>1
<1>5. CASE ~(x >= h)
  <2>1. Sgn(x, n) = x BY <1>1, <1>5 DEF Sgn
  <2> QED BY <1>2, <1>3, <1>5, <2>1
<1> QED BY <1>4, <1>5
-----------------------------------------------------------------------------
(***************************************************************************)
(* Quotients of natural numbers.                                           *)
(***************************************************************************)
\* The quotient and the remainder of natural numbers.
LEMMA QuotientIs ==
  ASSUME NEW x \in Nat, NEW y \in Nat \ {0}
  PROVE  /\ x \div y \in 0..x /\ x % y \in 0..y-1 /\ x % y <= x
         /\ x = (x \div y) * y + (x % y)
<1>1. x = (x \div y) * y + (x % y) /\ x % y \in 0..y-1 /\ x \div y \in Int BY DivModOf
<1>2. PICK q \in Int, r \in 0..y-1 : q = x \div y /\ r = x % y /\ x = q * y + r BY <1>1
<1>3. q >= 0
  <2>1. SUFFICES ASSUME q < 0 PROVE FALSE OBVIOUS
  <2>2. PICK e \in Nat : q = 0 - 1 - e
    <3>1. 0 - 1 - q \in Nat /\ q = 0 - 1 - (0 - 1 - q) BY <2>1
    <3> QED BY <3>1
  <2>3. (0 - 1 - e) * y = 0 - y - e * y /\ e * y \in Nat OBVIOUS
  <2>4. PICK f \in Nat : f = e * y BY <2>3
  <2>5. x = 0 - y - f + r BY <1>2, <2>2, <2>3, <2>4
  <2> QED BY <2>5
<1>4. q <= x /\ r <= x
  <2>1. PICK d \in Nat : y = d + 1
    <3>1. y - 1 \in Nat /\ y = (y - 1) + 1 OBVIOUS
    <3> QED BY <3>1
  <2>2. q * (d + 1) = q * d + q /\ q * d \in Nat BY <1>3
  <2>3. PICK g \in Nat : g = q * d BY <2>2
  <2>4. x = g + q + r BY <1>2, <2>1, <2>2, <2>3
  <2> QED BY <1>3, <2>4
<1> QED BY <1>1, <1>2, <1>3, <1>4
-----------------------------------------------------------------------------
(***************************************************************************)
(* Numbers as the sets of the places where they have a one.                *)
(***************************************************************************)
Weight(ones, k) == IF k \in ones THEN 2^k ELSE 0

IsBitSums(s, ones, m) ==
  s = [k \in 0..m |-> IF k = 0 THEN 0 ELSE s[k-1] + Weight(ones, k-1)]

BitSums(ones, m) == CHOOSE s : IsBitSums(s, ones, m)

\* A number with ones in given places grows place by place.
LEMMA BitSumsAre ==
  ASSUME NEW m \in Nat, NEW ones
  PROVE  /\ IsBitSums(BitSums(ones, m), ones, m)
         /\ BitSums(ones, m) \in [0..m -> Nat] /\ BitSums(ones, m)[0] = 0
         /\ \A i \in 0..m-1 : /\ BitSums(ones, m)[i+1] = BitSums(ones, m)[i] + Weight(ones, i)
                              /\ Weight(ones, i) \in Nat
<1>1. ASSUME NEW i \in 0..m-1 PROVE Weight(ones, i) \in Nat
  <2>1. i \in Nat OBVIOUS
  <2> QED BY <2>1, PowerOfTwo DEF Weight
<1> DEFINE next == [k \in 0+1..m |-> [x \in Nat |-> x + Weight(ones, k-1)]]
<1>2. next \in [0+1..m -> [Nat -> Nat]]
  <2>1. ASSUME NEW k \in 0+1..m, NEW x \in Nat PROVE x + Weight(ones, k-1) \in Nat
    <3>1. k - 1 \in 0..m-1 OBVIOUS
    <3>2. PICK y \in Nat : y = Weight(ones, k-1) BY <1>1, <3>1
    <3>3. x + y \in Nat OBVIOUS
    <3> QED BY <3>2, <3>3
  <2> QED BY <2>1
<1>3. PICK f \in [0..m -> Nat] : f = [k \in 0..m |-> IF k = 0 THEN 0 ELSE next[k][f[k-1]]]
  <2> HIDE DEF next
  <2>1. \E f \in [0..m -> Nat] : Iteration(f, 0, m, 0, next)
    <3>1. 0 \in Int /\ m \in Int /\ 0 \in Nat OBVIOUS
    <3> QED BY <1>2, <3>1, Iterates
  <2> QED BY <2>1 DEF Iteration
<1>4. ASSUME NEW k \in 0..m, k # 0 PROVE next[k][f[k-1]] = f[k-1] + Weight(ones, k-1)
  <2>1. k - 1 \in 0..m /\ k \in 0+1..m BY <1>4
  <2>2. f[k-1] \in Nat BY <2>1
  <2> QED BY <2>1, <2>2
<1>5. IsBitSums(f, ones, m)
  <2> HIDE DEF next
  <2> QED BY <1>3, <1>4 DEF IsBitSums
<1> DEFINE s == BitSums(ones, m)
<1>6. IsBitSums(s, ones, m) BY <1>5 DEF BitSums
<1> HIDE DEF s
<1>7. s[0] = 0
  <2>1. 0 \in 0..m OBVIOUS
  <2> QED BY <1>6, <2>1 DEF IsBitSums
<1>8. ASSUME NEW i \in 0..m-1 PROVE s[i+1] = s[i] + Weight(ones, i)
  <2>1. PICK k \in 1..m : k = i + 1 OBVIOUS
  <2>2. k \in 0..m /\ k # 0 /\ k - 1 = i BY <2>1
  <2>3. s[k] = s[k-1] + Weight(ones, k-1) BY <1>6, <2>2 DEF IsBitSums
  <2> QED BY <2>1, <2>2, <2>3
<1>9. s \in [0..m -> Nat]
  <2> DEFINE S == {i \in 0..m : s[i] \in Nat}
  <2>1. 0 \in S BY <1>7
  <2>2. ASSUME NEW i \in 0..m-1, i \in S PROVE i + 1 \in S
    <3>1. PICK x \in Nat, y \in Nat : x = s[i] /\ y = Weight(ones, i) BY <1>1, <2>2
    <3>2. x + y \in Nat /\ i + 1 \in 0..m OBVIOUS
    <3> QED BY <1>8, <3>1, <3>2
  <2> HIDE DEF S
  <2>3. \A i \in 0..m : i \in S BY <2>1, <2>2, Induct
  <2>4. \A i \in 0..m : s[i] \in Nat BY <2>3 DEF S
  <2>5. s = [i \in 0..m |-> s[i]] BY <1>6 DEF IsBitSums
  <2> QED BY <2>4, <2>5
<1> QED BY <1>1, <1>6, <1>7, <1>8, <1>9 DEF s

\* Two numbers that have ones in the same places.
LEMMA BitSumsAgree ==
  ASSUME NEW m \in Nat, NEW ones, NEW n \in Nat, NEW others, NEW s, NEW k \in 0..m, k <= n,
         IsBitSums(s, others, n), \A i \in 0..k-1 : i \in ones <=> i \in others
  PROVE  BitSums(ones, m)[k] = s[k]
<1> DEFINE t == BitSums(ones, m)
           S == {i \in 0..k : t[i] = s[i]}
<1>1. t[0] = 0 /\ \A i \in 0..m-1 : t[i+1] = t[i] + Weight(ones, i) BY BitSumsAre
<1> HIDE DEF t
<1>2. s[0] = 0
  <2>1. 0 \in 0..n OBVIOUS
  <2> QED BY <2>1 DEF IsBitSums
<1>3. 0 \in S BY <1>1, <1>2
<1>4. ASSUME NEW i \in 0..k-1, i \in S PROVE i + 1 \in S
  <2>1. i \in 0..m-1 /\ i + 1 \in 0..n /\ i + 1 # 0 /\ i + 1 - 1 = i /\ i + 1 \in 0..k OBVIOUS
  <2>2. PICK j \in 0..n : j = i + 1 /\ j # 0 /\ j - 1 = i BY <2>1
  <2>3. s[j] = s[j-1] + Weight(others, j-1) BY <2>2 DEF IsBitSums
  <2>4. Weight(ones, i) = Weight(others, i) BY DEF Weight
  <2> QED BY <1>1, <1>4, <2>1, <2>2, <2>3, <2>4
<1> HIDE DEF S
<1>5. \A i \in 0..k : i \in S BY <1>3, <1>4, Induct
<1>6. k \in S BY <1>5
<1> QED BY <1>6 DEF S, t

\* It is less than the power of its width, and zero where it has no ones.
LEMMA BitSumsBound ==
  ASSUME NEW m \in Nat, NEW ones
  PROVE  /\ \A i \in 0..m : BitSums(ones, m)[i] \in 0..2^i-1
         /\ (\A i \in 0..m-1 : i \notin ones) => BitSums(ones, m)[m] = 0
         /\ \A i \in 0..m-1 : i \in ones => BitSums(ones, m)[m] # 0
<1> DEFINE t == BitSums(ones, m)
<1>1. t[0] = 0 /\ t \in [0..m -> Nat]
      /\ \A i \in 0..m-1 : t[i+1] = t[i] + Weight(ones, i) /\ Weight(ones, i) \in Nat
  BY BitSumsAre
<1> HIDE DEF t
<1>2. \A i \in 0..m : t[i] \in 0..2^i-1
  <2> DEFINE S == {i \in 0..m : t[i] \in 0..2^i-1}
  <2>1. 0 \in S
    <3>1. 2^0 = 1 OBVIOUS
    <3> QED BY <1>1, <3>1
  <2>2. ASSUME NEW i \in 0..m-1, i \in S PROVE i + 1 \in S
    <3>1. i \in Nat OBVIOUS
    <3>2. PICK p \in Nat, q \in Nat : p = 2^i /\ q = 2^(i+1) /\ q = 2 * p BY <3>1, PowerOfTwo
    <3>3. PICK x \in 0..p-1, y \in Nat : x = t[i] /\ y = Weight(ones, i) /\ y <= p
      <4>1. t[i] \in 0..p-1 BY <2>2, <3>2
      <4>2. Weight(ones, i) = p \/ Weight(ones, i) = 0 BY <3>2 DEF Weight
      <4>3. 0 <= p /\ p <= p OBVIOUS
      <4> QED BY <1>1, <4>1, <4>2, <4>3
    <3>4. x + y \in 0..q-1 /\ i + 1 \in 0..m BY <3>2, <3>3
    <3> QED BY <1>1, <3>2, <3>3, <3>4
  <2> HIDE DEF S
  <2>3. \A i \in 0..m : i \in S BY <2>1, <2>2, Induct
  <2> QED BY <2>3 DEF S
<1>3. ASSUME \A i \in 0..m-1 : i \notin ones PROVE t[m] = 0
  <2> DEFINE S == {i \in 0..m : t[i] = 0}
  <2>1. 0 \in S BY <1>1
  <2>2. ASSUME NEW i \in 0..m-1, i \in S PROVE i + 1 \in S
    <3>1. Weight(ones, i) = 0 BY <1>3 DEF Weight
    <3>2. 0 + 0 = 0 /\ i + 1 \in 0..m OBVIOUS
    <3> QED BY <1>1, <2>2, <3>1, <3>2
  <2> HIDE DEF S
  <2>3. \A i \in 0..m : i \in S BY <2>1, <2>2, Induct
  <2> QED BY <2>3 DEF S
<1>4. ASSUME NEW k \in 0..m-1, k \in ones PROVE t[m] # 0
  <2> DEFINE S == {i \in 0..m : i > k => t[i] > 0}
  <2>1. 0 \in S OBVIOUS
  <2>2. ASSUME NEW i \in 0..m-1, i \in S PROVE i + 1 \in S
    <3>1. PICK x \in Nat, y \in Nat : x = t[i] /\ y = Weight(ones, i) /\ t[i+1] = x + y
      <4> HIDE DEF S
      <4>1. t[i] \in Nat /\ Weight(ones, i) \in Nat /\ t[i+1] = t[i] + Weight(ones, i) BY <1>1
      <4> QED BY <4>1
    <3>2. CASE i = k
      <4>1. y = 2^i /\ i \in Nat BY <1>4, <3>1, <3>2 DEF Weight
      <4>2. y > 0 BY <4>1, PowerOfTwo
      <4>3. x + y > 0 /\ i + 1 \in 0..m BY <4>2
      <4> QED BY <3>1, <4>3
    <3>3. CASE i > k
      <4>1. x > 0 BY <2>2, <3>1, <3>3
      <4>2. x + y > 0 /\ i + 1 \in 0..m BY <4>1
      <4> QED BY <3>1, <4>2
    <3>4. CASE i < k
      <4>1. i + 1 \in 0..m /\ ~(i + 1 > k) BY <3>4
      <4> QED BY <4>1
    <3> QED BY <3>2, <3>3, <3>4
  <2> HIDE DEF S
  <2>3. \A i \in 0..m : i \in S BY <2>1, <2>2, Induct
  <2>4. m \in S /\ m > k BY <2>3
  <2>5. t[m] > 0 BY <2>4 DEF S
  <2> QED BY <2>5
<1> QED BY <1>2, <1>3, <1>4 DEF t

BitIn(z, k) == (z \div 2^k) % 2

OnesOf(pairs, x, y, m) == {k \in 0..m-1 : <<BitIn(x, k), BitIn(y, k)>> \in pairs}

\* What the operators on words make is such a number.
LEMMA BitByBitIs ==
  ASSUME NEW pairs, NEW x, NEW y
  PROVE  BitByBit(pairs, x, y) = BitSums(OnesOf(pairs, x, y, WordBits), WordBits)[WordBits]
<1>1. PICK w \in Nat : w = WordBits BY WordBitsAssumption
<1> DEFINE ones == OnesOf(pairs, x, y, w)
           IsSum_(s) == s = [k \in 0..w |->
             IF k = 0 THEN 0
             ELSE s[k-1] + (IF <<(x \div 2^(k-1)) % 2, (y \div 2^(k-1)) % 2>> \in pairs
                            THEN 2^(k-1) ELSE 0)]
           t == CHOOSE s : IsSum_(s)
<1>2. BitByBit(pairs, x, y) = t[w] BY <1>1 DEF BitByBit
<1>3. ASSUME NEW s PROVE IsSum_(s) <=> IsBitSums(s, ones, w)
  <2>1. ASSUME NEW k \in 0..w, k # 0
        PROVE  (IF <<(x \div 2^(k-1)) % 2, (y \div 2^(k-1)) % 2>> \in pairs THEN 2^(k-1) ELSE 0)
                 = Weight(ones, k-1)
    <3>1. k - 1 \in 0..w-1 BY <2>1
    <3> QED BY <3>1 DEF Weight, OnesOf, BitIn
  <2> HIDE DEF ones
  <2> QED BY <2>1 DEF IsBitSums
<1>4. IsBitSums(BitSums(ones, w), ones, w) BY BitSumsAre
<1>5. IsSum_(BitSums(ones, w)) BY <1>3, <1>4
<1>6. IsSum_(t)
  <2> HIDE DEF ones
  <2> QED BY <1>5
<1>7. IsBitSums(t, ones, w)
  <2> HIDE DEF t
  <2> QED BY <1>3, <1>6
<1> HIDE DEF ones, t, IsSum_
<1>8. BitSums(ones, w)[w] = t[w]
  <2>1. w \in 0..w /\ w <= w /\ \A i \in 0..w-1 : i \in ones <=> i \in ones OBVIOUS
  <2> QED BY <1>7, <2>1, BitSumsAgree
<1> QED BY <1>1, <1>2, <1>8 DEF ones
-----------------------------------------------------------------------------
(***************************************************************************)
(* The words of a number, and its bits.                                    *)
(***************************************************************************)
Part(ones, i) == {k \in 0..WordBits-1 : i * WordBits + k \in ones}

\* The place of bit k of word i.
LEMMA PlaceAfter ==
  ASSUME NEW m \in Nat, NEW i \in 0..m-1, NEW k \in 0..WordBits-1
  PROVE  /\ i * WordBits + k \in 0..m * WordBits - 1 /\ i * WordBits \in 0..m * WordBits
         /\ i * WordBits + k \in Nat /\ m * WordBits \in Nat
         /\ (i + 1) * WordBits = i * WordBits + WordBits
         /\ 2^(i * WordBits + k) = Place(i) * 2^k
<1>1. PICK w \in Nat \ {0} : w = WordBits BY WordBitsAssumption
<1>2. PICK d \in Nat : m = i + 1 + d
  <2>1. m - i - 1 \in Nat /\ m = i + 1 + (m - i - 1) OBVIOUS
  <2> QED BY <2>1
<1>3. (i + 1 + d) * w = i * w + w + d * w /\ i * w \in Nat /\ d * w \in Nat /\ (i + 1) * w = i * w + w
  OBVIOUS
<1>4. PICK x \in Nat, y \in Nat : x = i * w /\ y = d * w BY <1>3
<1>5. m * w = x + w + y BY <1>2, <1>3, <1>4
<1>6. k \in Nat /\ k < w BY <1>1
<1>7. x + k \in 0..x + w + y - 1 /\ x \in 0..x + w + y /\ x + k \in Nat /\ x + w + y \in Nat BY <1>6
<1>8. 2^(x + k) = 2^x * 2^k BY <1>6, PowersOf
<1> QED BY <1>1, <1>3, <1>4, <1>5, <1>7, <1>8 DEF Place

\* Words made of the bits of their places stand for the number made of all bits.
LEMMA WordsFromBits ==
  ASSUME NEW m \in Nat, NEW ones, NEW w \in [0..m-1 -> Int],
         \A i \in 0..m-1 : w[i] = BitSums(Part(ones, i), WordBits)[WordBits]
  PROVE  Sums(w, m)[m] = BitSums(ones, m * WordBits)[m * WordBits]
<1>1. PICK bits \in Nat \ {0} : bits = WordBits BY WordBitsAssumption
<1>2. m * bits \in Nat OBVIOUS
<1> DEFINE t == BitSums(ones, m * bits)
           S == {i \in 0..m : Sums(w, m)[i] = t[i * bits]}
<1>3. /\ t \in [0..m * bits -> Nat] /\ t[0] = 0
      /\ \A i \in 0..m * bits - 1 : t[i+1] = t[i] + Weight(ones, i) /\ Weight(ones, i) \in Nat
  BY <1>2, BitSumsAre
<1> HIDE DEF t
<1>4. 0 \in S
  <2>1. 0 * bits = 0 /\ 0 \in 0..m OBVIOUS
  <2>2. Sums(w, m)[0] = 0 BY SumsAre
  <2> QED BY <1>3, <2>1, <2>2
<1>5. ASSUME NEW i \in 0..m-1, i \in S PROVE i + 1 \in S
  <2> DEFINE part == BitSums(Part(ones, i), bits)
             K == {k \in 0..bits : t[i * bits + k] = Sums(w, m)[i] + part[k] * Place(i)}
  <2>1. /\ part \in [0..bits -> Nat] /\ part[0] = 0
        /\ \A k \in 0..bits-1 : /\ part[k+1] = part[k] + Weight(Part(ones, i), k)
                                /\ Weight(Part(ones, i), k) \in Nat
    BY BitSumsAre
  <2>2. PICK s \in Int, p \in Nat \ {0} : s = Sums(w, m)[i] /\ p = Place(i) BY SumsStep
  <2>3. w[i] = part[bits] BY <1>1
  <2> HIDE DEF part
  <2>4. PICK at \in Nat : at = i * bits /\ (i + 1) * bits = at + bits
    <3>1. i * bits \in Nat /\ (i + 1) * bits = i * bits + bits OBVIOUS
    <3> QED BY <3>1
  <2>5. 0 \in K
    <3>1. s + 0 * p = s /\ at + 0 = at /\ 0 \in 0..bits OBVIOUS
    <3> QED BY <1>5, <2>1, <2>2, <2>4, <3>1
  <2>6. ASSUME NEW k \in 0..bits-1, k \in K PROVE k + 1 \in K
    <3>1. at + k \in 0..m * bits - 1 /\ 2^(at + k) = p * 2^k BY ZenonT(40), <1>1, <2>2, <2>4, PlaceAfter
    <3>2. k \in Nat OBVIOUS
    <3>3. PICK q \in Nat : q = 2^k BY <3>2, PowerOfTwo
    <3>4. PICK y \in Nat, z \in Nat : y = part[k] /\ z = Weight(Part(ones, i), k) /\ part[k+1] = y + z
      <4>1. k \in 0..bits OBVIOUS
      <4>2. part[k] \in Nat BY <2>1, <4>1
      <4>3. Weight(Part(ones, i), k) \in Nat /\ part[k+1] = part[k] + Weight(Part(ones, i), k) BY <2>1
      <4> QED BY <4>2, <4>3
    <3>5. Weight(ones, at + k) = z * p
      <4>1. at + k \in ones <=> k \in Part(ones, i) BY <1>1, <2>4 DEF Part
      <4>2. CASE at + k \in ones
        <5>1. p * q = q * p OBVIOUS
        <5> QED BY <3>1, <3>3, <3>4, <4>1, <4>2, <5>1 DEF Weight
      <4>3. CASE at + k \notin ones
        <5>1. 0 * p = 0 OBVIOUS
        <5> QED BY <3>4, <4>1, <4>3, <5>1 DEF Weight
      <4> QED BY <4>2, <4>3
    <3>6. t[at + k + 1] = s + y * p + z * p
      <4>1. t[(at + k) + 1] = t[at + k] + Weight(ones, at + k) BY <1>3, <3>1
      <4>2. t[at + k] = s + y * p BY <2>2, <2>4, <2>6, <3>4
      <4> QED BY <3>5, <4>1, <4>2
    <3>7. s + y * p + z * p = s + (y + z) * p /\ at + k + 1 = at + (k + 1) /\ k + 1 \in 0..bits
      <4>1. y * p + z * p = (y + z) * p /\ y * p \in Int /\ z * p \in Int OBVIOUS
      <4>2. at + k + 1 = at + (k + 1) /\ k + 1 \in 0..bits OBVIOUS
      <4>3. PICK e \in Int, f \in Int : e = y * p /\ f = z * p BY <4>1
      <4>4. s + e + f = s + (e + f) OBVIOUS
      <4> QED BY <4>1, <4>2, <4>3, <4>4
    <3>8. t[at + (k + 1)] = s + part[k+1] * p BY <3>4, <3>6, <3>7
    <3> QED BY <2>2, <2>4, <3>7, <3>8
  <2> HIDE DEF K
  <2>7. \A k \in 0..bits : k \in K BY <2>5, <2>6, Induct
  <2>8. bits \in K BY <2>7
  <2>9. t[(i + 1) * bits] = Sums(w, m)[i] + w[i] * Place(i) BY <2>3, <2>4, <2>8 DEF K
  <2>10. Sums(w, m)[i+1] = Sums(w, m)[i] + w[i] * Place(i) BY SumsAre
  <2>11. i + 1 \in 0..m OBVIOUS
  <2> QED BY <2>9, <2>10, <2>11
<1> HIDE DEF S
<1>6. \A i \in 0..m : i \in S BY <1>4, <1>5, Induct
<1>7. m \in S BY <1>6
<1> QED BY <1>1, <1>7 DEF S, t

\* The bits of the words of an integer, those past its width included.
LEMMA WordBitIs ==
  ASSUME NEW n \in Nat \ {0}, NEW v \in AInt(n), NEW i \in 0..NWords(n)-1, NEW k \in 0..WordBits-1
  PROVE  BitIn(v.w[i], k) = BitIn(Value(v), i * WordBits + k)
<1>1. PICK bits \in Nat \ {0} : bits = WordBits BY WordBitsAssumption
<1>2. PICK m \in Nat \ {0} : m = NWords(n) BY WidthOf
<1>3. v.w \in [0..m-1 -> Word] /\ Value(v) = Sums(v.w, m)[m] BY <1>2, IntegerOf
<1> DEFINE u == [n |-> m * bits, w |-> v.w]
<1>4. m * bits \in Nat \ {0} OBVIOUS
<1>5. NWords(m * bits) = m
  <2>1. m * bits + bits - 1 = m * bits + (bits - 1) /\ bits - 1 \in 0..bits-1
        /\ m * bits + bits - 1 \in Int
    OBVIOUS
  <2>2. (m * bits + bits - 1) \div bits = m BY SMTT(40), <2>1, DivMod
  <2> QED BY <1>1, <2>2 DEF NWords
<1>6. u \in AInt(m * bits) BY <1>3, <1>5 DEF AInt, Idx
<1>7. Value(u) = Value(v) BY <1>3, <1>5 DEF Value
<1>8. i * bits + k \in 0..m * bits - 1 BY <1>1, <1>2, PlaceAfter
<1>9. u.w = v.w OBVIOUS
<1> HIDE DEF u
<1>10. GetBit(u, i * bits + k) = BitIn(Value(v), i * bits + k)
  <2>4. PICK N \in Nat \ {0} : N = m * bits BY <1>4
  <2>1. PICK j \in 0..N-1 : N = m * bits /\ j = i * bits + k BY <1>8, <2>4
  <2>2. u \in AInt(N) BY <1>6, <2>1
  <2>3. GetBit(u, j) = (Value(u) \div 2^j) % 2 BY <2>2, GetBitIs
  <2> QED BY <1>7, <2>1, <2>3 DEF BitIn
<1>11. (i * bits + k) \div bits = i /\ (i * bits + k) % bits = k
  <2>1. k \in 0..bits-1 /\ i * bits + k \in Int /\ i \in Int BY <1>1
  <2> QED BY <2>1, DivMod
<1>12. GetBit(u, i * bits + k) = BitIn(v.w[i], k) BY <1>1, <1>9, <1>11 DEF GetBit, BitIn
<1> QED BY <1>1, <1>10, <1>12

\* A number has no ones past its width.
LEMMA NoBitsPast ==
  ASSUME NEW n \in Nat, NEW x \in 0..2^n-1, NEW k \in Nat, k >= n
  PROVE  BitIn(x, k) = 0
<1>1. PICK p \in Nat, q \in Nat \ {0} : p = 2^n /\ q = 2^k /\ p <= q BY PowerOfTwo, PowerMonotone
<1>2. x = 0 * q + x /\ x \in 0..q-1 /\ x \in Int /\ 0 \in Int BY <1>1
<1>3. x \div q = 0 BY <1>2, DivMod
<1> QED BY <1>1, <1>3 DEF BitIn

\* midint_and, midint_or, midint_xor: of each bit of the numbers.
LEMMA BitwiseExact ==
  ASSUME NEW n \in Nat \ {0}, NEW v, Canonical(v, n), NEW u, Canonical(u, n), NEW pairs,
         <<0, 0>> \notin pairs
  PROVE  LET r == [v EXCEPT !.w = [i \in Idx(n) |-> BitByBit(pairs, v.w[i], u.w[i])]]
         IN  /\ Canonical(r, n)
             /\ Value(r) = BitSums(OnesOf(pairs, Value(v), Value(u), n), n)[n] % 2^n
<1>1. PICK bits \in Nat \ {0} : bits = WordBits BY WordBitsAssumption
<1>2. PICK m \in Nat \ {0} : m = NWords(n) BY WidthOf
<1>3. /\ v \in AInt(n) /\ u \in AInt(n) /\ v = [n |-> n, w |-> v.w]
      /\ Value(v) \in 0..2^n-1 /\ Value(u) \in 0..2^n-1
  BY IntegerOf, CanonicalValue DEF Canonical
<1> DEFINE w == [i \in 0..m-1 |-> BitByBit(pairs, v.w[i], u.w[i])]
           r == [n |-> n, w |-> w]
           all == OnesOf(pairs, Value(v), Value(u), m * bits)
<1>4. [v EXCEPT !.w = [i \in Idx(n) |-> BitByBit(pairs, v.w[i], u.w[i])]] = r
  <2>1. [i \in Idx(n) |-> BitByBit(pairs, v.w[i], u.w[i])] = w BY <1>2 DEF Idx
  <2> HIDE DEF w
  <2>2. [[n |-> n, w |-> v.w] EXCEPT !.w = w] = r OBVIOUS
  <2> QED BY <1>3, <2>1, <2>2
<1>5. ASSUME NEW i \in 0..m-1 PROVE w[i] = BitSums(Part(all, i), bits)[bits] /\ w[i] \in Word
  <2> DEFINE here == OnesOf(pairs, v.w[i], u.w[i], bits)
  <2>1. w[i] = BitSums(here, bits)[bits] BY <1>1, BitByBitIs
  <2>2. \A k \in 0..bits-1 : k \in here <=> k \in Part(all, i)
    <3>1. TAKE k \in 0..bits-1
    <3>2. BitIn(v.w[i], k) = BitIn(Value(v), i * bits + k)
          /\ BitIn(u.w[i], k) = BitIn(Value(u), i * bits + k)
      BY <1>1, <1>2, <1>3, WordBitIs
    <3>3. i * bits + k \in 0..m * bits - 1 BY <1>1, PlaceAfter
    <3> QED BY <1>1, <3>2, <3>3 DEF OnesOf, Part
  <2> HIDE DEF here, all
  <2>3. BitSums(here, bits)[bits] = BitSums(Part(all, i), bits)[bits]
    <3>1. bits \in 0..bits /\ bits <= bits OBVIOUS
    <3>2. IsBitSums(BitSums(Part(all, i), bits), Part(all, i), bits) BY BitSumsAre
    <3> QED BY <2>2, <3>1, <3>2, BitSumsAgree
  <2>4. BitSums(here, bits)[bits] \in 0..2^bits-1
    <3>1. bits \in 0..bits OBVIOUS
    <3> QED BY <3>1, BitSumsBound
  <2> QED BY <1>1, <2>1, <2>3, <2>4 DEF Word, Base
<1>6. w \in [0..m-1 -> Word] /\ w \in [0..m-1 -> Int]
  <2>1. w = [i \in 0..m-1 |-> w[i]] OBVIOUS
  <2> HIDE DEF w
  <2> QED BY <1>5, <2>1, WordIs
<1>7. r \in AInt(n)
  <2> HIDE DEF w
  <2> QED BY <1>2, <1>6 DEF AInt, Idx
<1>8. Value(r) = Sums(w, m)[m] BY <1>2 DEF Value
<1> HIDE DEF w, r
<1>9. Sums(w, m)[m] = BitSums(all, m * bits)[m * bits]
  <2> HIDE DEF all
  <2>1. \A i \in 0..m-1 : w[i] = BitSums(Part(all, i), WordBits)[WordBits] BY <1>1, <1>5
  <2> QED BY <1>1, <1>6, <2>1, WordsFromBits
<1>10. n \in 0..m * bits /\ m * bits \in Nat
  <2>1. PICK last \in 1..bits : n = (m - 1) * bits + last BY <1>1, <1>2, WidthOf
  <2>2. m * bits = (m - 1) * bits + bits /\ (m - 1) * bits \in Int /\ m * bits \in Nat OBVIOUS
  <2>3. PICK e \in Int : e = (m - 1) * bits BY <2>2
  <2> QED BY <2>1, <2>2, <2>3
<1>11. PICK N \in Nat : N = m * bits /\ n \in 0..N BY <1>10
<1> DEFINE ones == OnesOf(pairs, Value(v), Value(u), n)
<1>12. \A k \in n..N-1 : k \notin all
  <2>1. TAKE k \in n..N-1
  <2>2. k \in Nat /\ k >= n BY <1>11
  <2>3. BitIn(Value(v), k) = 0 /\ BitIn(Value(u), k) = 0 BY <1>3, <2>2, NoBitsPast
  <2> QED BY <2>3 DEF OnesOf
<1>13. \A k \in 0..n-1 : k \in all <=> k \in ones
  <2>1. \A k \in 0..n-1 : k \in 0..N-1 BY <1>11
  <2> QED BY <1>11, <2>1 DEF OnesOf
<1> DEFINE t == BitSums(all, N)
<1>14. /\ t \in [0..N -> Nat] /\ \A i \in 0..N-1 : t[i+1] = t[i] + Weight(all, i)
       /\ IsBitSums(BitSums(ones, n), ones, n)
  BY BitSumsAre
<1>15. t[n] = BitSums(ones, n)[n]
  <2>1. n <= n /\ n \in 0..N /\ n \in Nat BY <1>11
  <2> DEFINE s == BitSums(ones, n)
  <2>2. IsBitSums(s, ones, n) BY <1>14
  <2> HIDE DEF all, ones, s
  <2>3. \A k \in 0..n-1 : k \in all <=> k \in ones BY <1>13
  <2>4. ASSUME NEW A, NEW B, NEW C, IsBitSums(C, B, n), \A k \in 0..n-1 : k \in A <=> k \in B
        PROVE  BitSums(A, N)[n] = C[n]
    <3> HIDE DEF t
    <3> QED BY <2>1, <2>4, BitSumsAgree
  <2>5. BitSums(all, N)[n] = s[n] BY <2>2, <2>3, <2>4
  <2> QED BY <2>5 DEF s
<1>16. t[N] = t[n]
  <2> DEFINE S == {i \in 0..N : i >= n => t[i] = t[n]}
  <2> HIDE DEF t, all
  <2>1. 0 \in S
    <3>1. 0 >= n => 0 = n OBVIOUS
    <3> QED BY <3>1
  <2>2. ASSUME NEW i \in 0..N-1, i \in S PROVE i + 1 \in S
    <3>1. i + 1 \in 0..N OBVIOUS
    <3>2. CASE i >= n
      <4>1. Weight(all, i) = 0
        <5>1. i \in n..N-1 BY <3>2
        <5> QED BY <1>12, <5>1 DEF Weight
      <4>2. PICK x \in Nat : x = t[i] BY <1>14
      <4>3. x + 0 = x OBVIOUS
      <4> QED BY <1>14, <2>2, <3>1, <3>2, <4>1, <4>2, <4>3
    <3>3. CASE ~(i >= n)
      <4>1. i + 1 >= n => i + 1 = n BY <3>3
      <4> QED BY <3>1, <4>1
    <3> QED BY <3>2, <3>3
  <2> HIDE DEF S
  <2>3. \A i \in 0..N : i \in S BY <2>1, <2>2, Induct
  <2>4. N \in S /\ N >= n BY <1>11, <2>3
  <2> QED BY <2>4 DEF S
<1>17. Value(r) = BitSums(ones, n)[n] BY <1>8, <1>9, <1>11, <1>15, <1>16 DEF t
<1>18. BitSums(ones, n)[n] \in 0..2^n-1
  <2>1. n \in 0..n OBVIOUS
  <2> HIDE DEF ones
  <2> QED BY <2>1, BitSumsBound
<1>19. Value(r) < 2^n
  <2>1. 2^n \in Nat BY WidthOf
  <2> QED BY <1>17, <1>18, <2>1
<1>20. Canonical(r, n) BY <1>7, <1>19, CanonicalIs
<1>21. Value(r) % 2^n = Value(r) BY <1>20, CanonicalValue
<1> QED BY <1>4, <1>17, <1>20, <1>21 DEF r
-----------------------------------------------------------------------------
(***************************************************************************)
(* The highest bit of a number.                                            *)
(***************************************************************************)
LEMMA TopBit ==
  ASSUME NEW k \in Nat, NEW x \in Nat, x >= 2^k, x < 2 * 2^k
  PROVE  BitIn(x, k) = 1
<1>1. PICK p \in Nat \ {0} : p = 2^k BY PowerOfTwo
<1>2. x = 1 * p + (x - p) /\ x - p \in 0..p-1 /\ x \in Int /\ 1 \in Int BY <1>1
<1>3. x \div p = 1 BY <1>2, DivMod
<1> QED BY <1>1, <1>3 DEF BitIn
-----------------------------------------------------------------------------
(***************************************************************************)
(* The shift that keeps the sign.  As a signed number, an integer is what  *)
(* its words stand for when the last one is taken as signed.               *)
(***************************************************************************)
SignedWords(v, n) ==
  Changed(v.w, NWords(n) - 1, Sgn(v.w[NWords(n)-1], LastBits(n)) - v.w[NWords(n)-1])

\* The words with the last one signed stand for the signed number.
LEMMA SignedTop ==
  ASSUME NEW n \in Nat \ {0}, NEW v, Canonical(v, n)
  PROVE  LET top == NWords(n) - 1
             t == Sgn(v.w[top], LastBits(n))
         IN  /\ SignedWords(v, n) \in [0..NWords(n)-1 -> Int]
             /\ SignedWords(v, n)[top] = t
             /\ \A i \in 0..top-1 : SignedWords(v, n)[i] = v.w[i]
             /\ Sums(SignedWords(v, n), NWords(n))[NWords(n)] = Sgn(Value(v), n)
             /\ v.w[top] \in 0..2^LastBits(n)-1
             /\ t < 0 <=> Sgn(Value(v), n) < 0
<1>1. PICK m \in Nat \ {0} : m = NWords(n) BY WidthOf
<1>2. PICK top \in 0..m-1 : top = m - 1
  <2>1. m - 1 \in 0..m-1 OBVIOUS
  <2> QED BY <2>1
<1>3. PICK bits \in Nat \ {0} : bits = LastBits(n)
  <2>1. LastBits(n) \in 1..WordBits BY WidthOf
  <2>2. LastBits(n) \in Nat \ {0} BY <2>1, WordBitsAssumption
  <2> QED BY <2>2
<1>4. /\ v \in AInt(n) /\ v.w \in [0..m-1 -> Word] /\ v.w \in [0..m-1 -> Int]
      /\ Value(v) = Sums(v.w, m)[m] /\ Sums(v.w, m)[top] \in 0..Place(top)-1
      /\ Value(v) = Sums(v.w, m)[top] + v.w[top] * Place(top) /\ Top(v) = top
  BY <1>1, <1>2, IntegerOf DEF Canonical
<1>5. PICK p \in Nat \ {0}, g \in Nat \ {0} :
        /\ p = Place(top) /\ g = 2^(bits-1) /\ 2^bits = 2 * g /\ 2^n = p * (2 * g) /\ 2^(n-1) = g * p
  <2>1. 2^n = Place(top) * 2^bits /\ 2^(n-1) = 2^(bits-1) * Place(top)
    BY <1>1, <1>2, <1>3, WidthOf, SignPlace
  <2>2. bits - 1 \in Nat /\ (bits - 1) + 1 = bits /\ top \in Nat OBVIOUS
  <2>3. 2^((bits-1)+1) = 2 * 2^(bits-1) /\ 2^(bits-1) \in Nat \ {0} BY <2>2, PowerOfTwo
  <2>4. Place(top) \in Nat \ {0} BY <2>2, PlaceIs
  <2> QED BY <2>1, <2>2, <2>3, <2>4
<1>6. PICK y \in 0..2*g-1, lo \in 0..p-1 : y = v.w[top] /\ lo = Sums(v.w, m)[top]
  <2>1. v.w[top] < 2^bits BY <1>3, <1>4, IntegerOf DEF Canonical, IsCanonical
  <2>2. v.w[top] \in Nat BY <1>4, WordIs
  <2>3. v.w[top] \in 0..2*g-1 BY <1>5, <2>1, <2>2
  <2> QED BY <1>4, <1>5, <2>3
<1>7. PICK d \in Int : d = (IF y >= g THEN 0 - 2 * g ELSE 0) /\ Sgn(y, bits) = y + d
  <2> DEFINE e == IF y >= g THEN 0 - 2 * g ELSE 0
  <2>1. e \in Int OBVIOUS
  <2>2. y - 2 * g = y + (0 - 2 * g) /\ y = y + 0 OBVIOUS
  <2>3. Sgn(y, bits) = y + e
    <3>1. Sgn(y, bits) = IF y >= g THEN y - 2 * g ELSE y BY <1>5 DEF Sgn
    <3> QED BY <2>2, <3>1
  <2> QED BY <2>1, <2>3
<1>8. SignedWords(v, n) = Changed(v.w, top, d)
  <2>1. (y + d) - y = d OBVIOUS
  <2> QED BY <1>1, <1>2, <1>3, <1>6, <1>7, <2>1 DEF SignedWords
<1>9. SignedWords(v, n) \in [0..m-1 -> Int] /\ SignedWords(v, n)[top] = y + d
      /\ \A i \in 0..top-1 : SignedWords(v, n)[i] = v.w[i]
  <2>1. y + d \in Int OBVIOUS
  <2>2. \A i \in 0..top-1 : i \in 0..m-1 /\ i # top BY <1>2
  <2> QED BY ZenonT(40), <1>4, <1>6, <1>8, <2>1, <2>2 DEF Changed
<1>10. Sums(SignedWords(v, n), m)[m] = Sums(v.w, m)[m] + d * p
  <2>1. m \in Nat OBVIOUS
  <2>2. Sums(Changed(v.w, top, d), m)[m] = Sums(v.w, m)[m] + d * Place(top) BY ZenonT(40), <1>4, <2>1, SumsChanged
  <2> QED BY <1>5, <1>8, <2>2
<1>11. PICK z \in Int : z = Value(v) /\ z = lo + y * p
  <2>1. Value(v) \in Int BY SMTT(40), <1>4, ValueNat
  <2> QED BY <1>4, <1>5, <1>6, <2>1
<1>12. z >= g * p <=> y >= g
  <2>1. ASSUME y >= g PROVE z >= g * p
    <3>1. PICK e \in Nat : y = g + e
      <4>1. y - g \in Nat /\ y = g + (y - g) BY <2>1
      <4> QED BY <4>1
    <3>2. (g + e) * p = g * p + e * p /\ g * p \in Nat /\ e * p \in Nat OBVIOUS
    <3>3. PICK s \in Nat, t \in Nat : s = g * p /\ t = e * p BY <3>2
    <3>4. z = lo + (s + t) BY <1>11, <3>1, <3>2, <3>3
    <3>5. z >= s BY <3>4
    <3> QED BY <3>3, <3>5
  <2>2. ASSUME ~(y >= g) PROVE ~(z >= g * p)
    <3>1. PICK e \in Nat : g = y + 1 + e
      <4>1. g - y - 1 \in Nat /\ g = y + 1 + (g - y - 1) BY <2>2
      <4> QED BY <4>1
    <3>2. (y + 1 + e) * p = y * p + p + e * p /\ y * p \in Nat /\ e * p \in Nat OBVIOUS
    <3>3. PICK s \in Nat, t \in Nat : s = y * p /\ t = e * p BY <3>2
    <3>4. z = lo + s /\ g * p = s + p + t BY <1>11, <3>1, <3>2, <3>3
    <3> QED BY <3>4
  <2> QED BY <2>1, <2>2
<1>13. Sgn(z, n) = z + d * p /\ (z + d * p < 0 <=> y + d < 0)
  <2>1. PICK e \in Nat : e = g * p OBVIOUS
  <2>2. p * (2 * g) = 2 * (g * p) /\ (0 - 2 * g) * p = 0 - 2 * (g * p) /\ 0 * p = 0 OBVIOUS
  <2>3. Sgn(z, n) = IF z >= e THEN z - 2 * e ELSE z BY <1>5, <2>1, <2>2 DEF Sgn
  <2>4. z < 2 * e
    <3>1. Value(v) \in 0..2^n-1 BY CanonicalValue
    <3> QED BY <1>5, <1>11, <2>1, <2>2, <3>1
  <2>5. z >= 0
    <3>1. Value(v) \in Nat BY <1>4, ValueNat
    <3> QED BY <1>11, <3>1
  <2>6. CASE y >= g
    <3>1. d * p = 0 - 2 * e /\ d = 0 - 2 * g BY <1>7, <2>1, <2>2, <2>6
    <3>2. z + (0 - 2 * e) = z - 2 * e /\ z - 2 * e < 0 BY <2>4
    <3>3. y + d < 0 BY <3>1
    <3> QED BY <1>12, <2>1, <2>3, <2>6, <3>1, <3>2, <3>3
  <2>7. CASE ~(y >= g)
    <3>1. d * p = 0 /\ d = 0 BY <1>7, <2>2, <2>7
    <3>2. z + 0 = z /\ ~(z < 0) /\ ~(y + 0 < 0) BY <2>5
    <3> QED BY <1>12, <2>1, <2>3, <2>7, <3>1, <3>2
  <2> QED BY <2>6, <2>7
<1>14. Sums(SignedWords(v, n), m)[m] = Sgn(Value(v), n) BY <1>4, <1>10, <1>11, <1>13
<1>15. v.w[top] \in 0..2^bits-1 BY <1>5, <1>6
<1>16. Sgn(v.w[top], bits) = y + d BY <1>6, <1>7
<1> QED BY <1>1, <1>2, <1>3, <1>9, <1>11, <1>13, <1>14, <1>15, <1>16
-----------------------------------------------------------------------------
\* A signed number is the unsigned one modulo 2^n.
LEMMA SgnMod ==
  ASSUME NEW n \in Nat \ {0}, NEW v, Canonical(v, n)
  PROVE  Sgn(Value(v), n) \in Int /\ Sgn(Value(v), n) % 2^n = Value(v)
<1>1. PICK p \in Nat \ {0} : p = 2^n
  <2>1. 2^n \in Nat \ {0} BY WidthOf
  <2> QED BY <2>1
<1>2. PICK x \in 0..p-1 : x = Value(v) /\ x % p = x
  <2>1. Value(v) \in 0..2^n-1 /\ Value(v) % 2^n = Value(v) BY CanonicalValue
  <2> QED BY <1>1, <2>1
<1>3. Sgn(x, n) = x \/ Sgn(x, n) = x - p BY <1>1 DEF Sgn
<1>4. x = (x - p) + 1 * p /\ x - p \in Int /\ x \in Int /\ 1 \in Int OBVIOUS
<1>5. x % p = (x - p) % p BY <1>4, Congruent
<1> QED BY <1>1, <1>2, <1>3, <1>4, <1>5

\* A quotient of a number that may be negative.
LEMMA ShiftedWord ==
  ASSUME NEW base \in Nat \ {0}, NEW c \in Nat \ {0}, NEW t \in Int, NEW s \in 0..1,
         t + s * base \in 0..base-1
  PROVE  (t \div c) + s * base \in 0..base-1
<1>1. t = (t \div c) * c + (t % c) /\ t % c \in 0..c-1 /\ t \div c \in Int BY DivModOf
<1>2. PICK q \in Int, r \in 0..c-1 : q = t \div c /\ t = q * c + r BY <1>1
<1>3. PICK d \in Nat : c = d + 1
  <2>1. c - 1 \in Nat /\ c = (c - 1) + 1 OBVIOUS
  <2> QED BY <2>1
<1>4. q * (d + 1) = q * d + q OBVIOUS
<1>5. CASE s = 0
  <2>1. t \in 0..base-1
    <3>1. t + 0 * base = t OBVIOUS
    <3> QED BY <1>5, <3>1
  <2>2. t \in Nat BY <2>1
  <2>3. t \div c \in 0..t BY <2>2, QuotientIs
  <2>4. q + 0 * base = q OBVIOUS
  <2> QED BY <1>2, <1>5, <2>1, <2>3, <2>4
<1>6. CASE s = 1
  <2>1. t + base \in 0..base-1
    <3>1. t + 1 * base = t + base OBVIOUS
    <3> QED BY <1>6, <3>1
  <2>2. q < 0
    <3>1. SUFFICES ASSUME q >= 0 PROVE FALSE OBVIOUS
    <3>2. q * c >= 0 /\ q * c \in Int
      <4>1. PICK e \in Nat : e = q BY <3>1
      <4>2. e * c \in Nat OBVIOUS
      <4> QED BY <4>1, <4>2
    <3>3. PICK e \in Int : e = q * c BY <3>2
    <3> QED BY <1>2, <2>1, <3>2, <3>3
  <2>3. q >= t
    <3>1. PICK e \in Nat : q = 0 - 1 - e
      <4>1. 0 - 1 - q \in Nat /\ q = 0 - 1 - (0 - 1 - q) BY <2>2
      <4> QED BY <4>1
    <3>2. q * d = (0 - 1 - e) * d /\ (0 - 1 - e) * d = 0 - d - e * d /\ e * d \in Nat BY <3>1
    <3>3. PICK f \in Nat : f = e * d BY <3>2
    <3>4. t = (0 - d - f) + q + r BY <1>2, <1>3, <1>4, <3>2, <3>3
    <3>5. r <= d BY <1>3
    <3> QED BY <3>4, <3>5
  <2>4. q + 1 * base = q + base OBVIOUS
  <2>5. q + base \in 0..base-1 BY <2>1, <2>2, <2>3
  <2> QED BY <1>2, <1>6, <2>4, <2>5
<1> QED BY <1>5, <1>6

\* The last word that the code fills with the sign, as a word and as a number.
FilledTop(v, n) == SignExtWord(v.w[NWords(n)-1], LastBits(n))

\* The last word, filled with the sign to the end of it.
LEMMA FilledTopIs ==
  ASSUME NEW n \in Nat \ {0}, NEW v, Canonical(v, n)
  PROVE  LET s == IF Negative(v) THEN 1 ELSE 0
             t == SignedWords(v, n)[NWords(n)-1]
         IN  /\ FilledTop(v, n) \in Word /\ FilledTop(v, n) = t + s * Base /\ t \in Int
             /\ FilledTop(v, n) >= Base \div 2 <=> s = 1
             /\ FilledTop(v, n) >= Base \div 2 => FilledTop(v, n) - Base = t
             /\ ~(FilledTop(v, n) >= Base \div 2) => FilledTop(v, n) = t
<1>1. PICK top \in Nat : top = NWords(n) - 1
  <2>1. NWords(n) - 1 \in Nat BY WidthOf
  <2> QED BY <2>1
<1>2. PICK bits \in Nat \ {0} : bits = LastBits(n) /\ ~IsBignum(bits)
  <2>1. LastBits(n) \in 1..WordBits BY WidthOf
  <2>2. LastBits(n) \in Nat \ {0} /\ ~(LastBits(n) > WordBits) BY <2>1, WordBitsAssumption
  <2> QED BY <2>2 DEF IsBignum
<1> DEFINE t == SignedWords(v, n)[top]
           s == IF Negative(v) THEN 1 ELSE 0
           f == FilledTop(v, n)
<1>3. t = Sgn(v.w[top], bits) /\ v.w[top] \in 0..2^bits-1 /\ (t < 0 <=> Sgn(Value(v), n) < 0)
  BY <1>1, <1>2, SignedTop
<1>4. Negative(v) <=> t < 0 BY <1>3, NegativeExact
<1>5. f \in Word /\ SignedWord(f) = t
  <2>1. SignExtWord(v.w[top], bits) \in Word
        /\ SignedWord(SignExtWord(v.w[top], bits)) = Sgn(v.w[top], bits)
    BY <1>2, <1>3, SignExtExact
  <2> QED BY <1>1, <1>2, <1>3, <2>1 DEF FilledTop
<1> HIDE DEF t, f
<1>6. PICK base \in Nat \ {0}, half \in Nat \ {0} :
        base = Base /\ half = Base \div 2 /\ base = half + half
  BY Places_, HalfWord
<1>7. PICK y \in 0..base-1 : y = f BY <1>5, <1>6, WordIs
<1>8. t = IF y >= half THEN y - base ELSE y BY <1>5, <1>6, <1>7 DEF SignedWord
<1>9. CASE y >= half
  <2>1. t = y - base /\ t < 0 BY <1>8, <1>9
  <2>2. s = 1 BY <1>4, <2>1
  <2>3. y = (y - base) + 1 * base /\ y - base \in Int OBVIOUS
  <2> QED BY <1>1, <1>5, <1>6, <1>7, <1>9, <2>1, <2>2, <2>3 DEF t, f
<1>10. CASE ~(y >= half)
  <2>1. t = y /\ ~(t < 0) BY <1>8, <1>10
  <2>2. s = 0 BY <1>4, <2>1
  <2>3. y = y + 0 * base /\ y \in Int OBVIOUS
  <2> QED BY <1>1, <1>5, <1>6, <1>7, <1>10, <2>1, <2>2, <2>3 DEF t, f
<1> QED BY <1>9, <1>10

\* What is left to show of the words that the shift makes.
AshrMakes(w, v, n, k) ==
  LET s == IF Negative(v) THEN 1 ELSE 0
  IN  /\ w \in [0..NWords(n)-1 -> Word]
      /\ Sums(w, NWords(n))[NWords(n)] = (Sgn(Value(v), n) \div 2^k) + s * Place(NWords(n))

\* Words that stand for the shifted number give it, once they are masked.
LEMMA AshrMakesIt ==
  ASSUME NEW n \in Nat \ {0}, NEW v, Canonical(v, n), NEW k \in Nat, NEW w, AshrMakes(w, v, n, k)
  PROVE  LET u == Masked([v EXCEPT !.w = w])
         IN  Canonical(u, n) /\ Value(u) = (Sgn(Value(v), n) \div 2^k) % 2^n
<1>1. v \in AInt(n) BY DEF Canonical
<1>2. PICK s \in Int : s = IF Negative(v) THEN 1 ELSE 0 OBVIOUS
<1>3. PICK x \in Int : x = Sgn(Value(v), n) \div 2^k
  <2>1. PICK y \in Int, c \in Nat \ {0} : y = Sgn(Value(v), n) /\ c = 2^k BY SgnMod, PowerOfTwo
  <2>2. y \div c \in Int BY DivModOf
  <2> QED BY <2>1, <2>2
<1>4. w \in [0..NWords(n)-1 -> Word] /\ Sums(w, NWords(n))[NWords(n)] = x + s * Place(NWords(n))
  BY <1>2, <1>3 DEF AshrMakes
<1>5. LET u == Masked([v EXCEPT !.w = w]) IN Canonical(u, n) /\ Value(u) = x % 2^n
  BY <1>1, <1>4, ResultIs
<1> QED BY <1>3, <1>5
-----------------------------------------------------------------------------
\* The words of midint_ashr_imm before the shift.
FilledWords(v) == [v.w EXCEPT ![Top(v)] = SignExtWord(@, LastBits(v.n))]

\* Only the last word is filled.
LEMMA FilledWordsAre ==
  ASSUME NEW n \in Nat \ {0}, NEW v, Canonical(v, n)
  PROVE  /\ FilledWords(v) \in [0..NWords(n)-1 -> Word]
         /\ FilledWords(v)[NWords(n)-1] = FilledTop(v, n)
         /\ \A i \in 0..NWords(n)-2 : FilledWords(v)[i] = SignedWords(v, n)[i]
<1>1. v \in AInt(n) /\ v.n = n /\ v.w \in [0..NWords(n)-1 -> Word] /\ Top(v) = NWords(n) - 1
      /\ NWords(n) - 1 \in 0..NWords(n)-1
  BY IntegerOf DEF Canonical
<1>2. FilledWords(v) = [v.w EXCEPT ![NWords(n)-1] = FilledTop(v, n)]
  BY <1>1 DEF FilledWords, FilledTop
<1>3. FilledTop(v, n) \in Word BY FilledTopIs
<1>4. PICK top \in Nat : top = NWords(n) - 1
  <2>1. NWords(n) - 1 \in Nat BY WidthOf
  <2> QED BY <2>1
<1>5. \A i \in 0..top-1 : FilledWords(v)[i] = SignedWords(v, n)[i]
  <2>1. TAKE i \in 0..top-1
  <2>2. i \in 0..top /\ i # top BY <1>4
  <2>3. SignedWords(v, n)[i] = v.w[i]
    <3>1. \A j \in 0..top-1 : SignedWords(v, n)[j] = v.w[j] BY <1>4, SignedTop
    <3> QED BY <3>1
  <2> QED BY <1>1, <1>2, <1>4, <2>2, <2>3
<1>6. NWords(n) - 2 = top - 1
  <2>1. PICK m \in Nat : m = NWords(n) BY WidthOf
  <2> QED BY <1>4, <2>1
<1> QED BY <1>1, <1>2, <1>3, <1>4, <1>5, <1>6

\* The same words stand for the same.
LEMMA SumsAgree ==
  ASSUME NEW m \in Nat, NEW x \in [0..m-1 -> Int], NEW w \in [0..m-1 -> Int], NEW k \in 0..m,
         \A i \in 0..k-1 : x[i] = w[i]
  PROVE  Sums(x, m)[k] = Sums(w, m)[k]
<1>1. k <= m OBVIOUS
<1> QED BY <1>1, SumsSame

\* By whole words.
AshrWords(y, v, n, ws) ==
  \A i \in 0..NWords(n)-1 :
    y[i] = IF i + ws < NWords(n) THEN FilledWords(v)[i + ws]
           ELSE IF Negative(v) THEN Base - 1 ELSE 0

\* A shift by whole words.
LEMMA AshrByWords ==
  ASSUME NEW n \in Nat \ {0}, NEW v, Canonical(v, n), NEW ws \in 1..NWords(n)-1,
         NEW y \in [0..NWords(n)-1 -> Word], AshrWords(y, v, n, ws)
  PROVE  AshrMakes(y, v, n, ws * WordBits)
<1>1. PICK m \in Nat \ {0} : m = NWords(n) BY WidthOf
<1>2. PICK top \in 0..m-1 : top = m - 1
  <2>1. m - 1 \in 0..m-1 OBVIOUS
  <2> QED BY <2>1
<1>3. PICK s \in 0..1 : s = IF Negative(v) THEN 1 ELSE 0 OBVIOUS
<1>4. PICK base \in Nat \ {0} : base = Base BY Places_
<1> DEFINE x == SignedWords(v, n)
           w == FilledWords(v)
           S == Sgn(Value(v), n)
           z == [i \in 0..m-1 |-> IF i + ws < m THEN x[i+ws] ELSE 0]
           none == [i \in 0..m-1 |-> 0]
           c == [i \in 0..m |-> IF i + ws <= top THEN 0 ELSE s]
<1>5. x \in [0..m-1 -> Int] /\ Sums(x, m)[m] = S /\ S \in Int /\ x[top] \in Int
  <2>1. x \in [0..NWords(n)-1 -> Int] /\ Sums(x, NWords(n))[NWords(n)] = S BY SignedTop
  <2>2. S \in Int BY SgnMod
  <2> HIDE DEF x, S
  <2> QED BY <1>1, <1>2, <2>1, <2>2
<1>6. w \in [0..m-1 -> Word] /\ w[top] = x[top] + s * base /\ \A i \in 0..top-1 : w[i] = x[i]
  <2>1. m - 2 = top - 1 BY <1>2
  <2> QED BY SMTT(40), <1>1, <1>2, <1>3, <1>4, <2>1, FilledWordsAre, FilledTopIs
<1> HIDE DEF x, w, S
<1>7. y \in [0..m-1 -> Word] /\ y \in [0..m-1 -> Int]
      /\ \A i \in 0..m-1 : y[i] = IF i + ws < m THEN w[i + ws] ELSE s * (base - 1)
  <2>1. 0 * (base - 1) = 0 /\ 1 * (base - 1) = base - 1 OBVIOUS
  <2>2. y \in [0..m-1 -> Int] BY <1>1, WordIs
  <2>3. \A i \in 0..m-1 : y[i] = IF i + ws < m THEN w[i + ws]
           ELSE IF Negative(v) THEN Base - 1 ELSE 0
    BY <1>1 DEF AshrWords, w
  <2>4. (IF Negative(v) THEN Base - 1 ELSE 0) = s * (base - 1) BY <1>3, <1>4, <2>1
  <2> QED BY <1>1, <2>2, <2>3, <2>4
<1>8. z \in [0..m-1 -> Int] /\ none \in [0..m-1 -> Int] /\ c \in [0..m -> Int]
  <2>1. \A i \in 0..m-1 : i + ws < m => i + ws \in 0..m-1 OBVIOUS
  <2> QED BY <1>5, <2>1
<1>9. c[0] = 0 /\ c[m] = s
  <2>1. 0 + ws <= top /\ ~(m + ws <= top) /\ 0 \in 0..m /\ m \in 0..m BY <1>1, <1>2
  <2> QED BY <2>1
<1>10. ASSUME NEW i \in 0..m-1 PROVE z[i] + c[i+1] * base = y[i] + none[i] + c[i]
  <2>1. i \in 0..m /\ i + 1 \in 0..m /\ none[i] = 0 OBVIOUS
  <2>2. CASE i + ws < top
    <3>1. i + ws \in 0..top-1 /\ i + ws < m /\ i + ws <= top /\ i + 1 + ws <= top BY <1>2, <2>2
    <3>2. z[i] = x[i+ws] /\ c[i+1] = 0 /\ c[i] = 0 BY <2>1, <3>1
    <3>3. y[i] = x[i+ws] BY <1>6, <1>7, <3>1
    <3>4. PICK e \in Int : e = x[i+ws]
      <4>1. i + ws \in 0..m-1 BY <3>1
      <4> QED BY <1>5, <4>1
    <3>5. e + 0 * base = e + 0 + 0 OBVIOUS
    <3> QED BY <2>1, <3>2, <3>3, <3>4, <3>5
  <2>3. CASE i + ws = top
    <3>1. i + ws < m /\ i + ws <= top /\ ~(i + 1 + ws <= top) BY <1>2, <2>3
    <3>2. z[i] = x[top] /\ c[i+1] = s /\ c[i] = 0 BY <2>1, <2>3, <3>1
    <3>3. y[i] = x[top] + s * base BY <1>6, <1>7, <2>3, <3>1
    <3>4. PICK e \in Int : e = x[top] BY <1>5
    <3>5. e + s * base = (e + s * base) + 0 + 0 OBVIOUS
    <3> QED BY <2>1, <3>2, <3>3, <3>4, <3>5
  <2>4. CASE i + ws > top
    <3>1. ~(i + ws < m) /\ ~(i + ws <= top) /\ ~(i + 1 + ws <= top) BY <1>2, <2>4
    <3>2. z[i] = 0 /\ c[i+1] = s /\ c[i] = s BY <2>1, <3>1
    <3>3. y[i] = s * (base - 1) BY <1>7, <3>1
    <3>4. 0 + s * base = s * (base - 1) + 0 + s OBVIOUS
    <3> QED BY <2>1, <3>2, <3>3, <3>4
  <2>5. i + ws < top \/ i + ws = top \/ i + ws > top OBVIOUS
  <2> QED BY <2>2, <2>3, <2>4, <2>5
<1>11. Ahead(z, x, ws, m) BY DEF Ahead
<1>12. Sums(none, m)[m] = 0
  <2>1. \A j \in 0..m-1 : none[j] = 0 OBVIOUS
  <2> HIDE DEF none
  <2>2. m \in Nat OBVIOUS
  <2> QED BY <1>8, <2>1, <2>2, SumsZero
<1> HIDE DEF z, none, c
<1>13. Sums(z, m)[m] + s * Place(m) = Sums(y, m)[m] + 0 + 0
  <2>1. Chained(z, y, none, c, m) BY <1>4, <1>10 DEF Chained
  <2>2. m \in Nat /\ m \in 0..m OBVIOUS
  <2>3. ChainedSums(z, y, none, c, m) BY <1>7, <1>8, <2>1, <2>2, Chain
  <2>4. Sums(z, m)[m] + c[m] * Place(m) = Sums(y, m)[m] + Sums(none, m)[m] + c[0]
    BY <2>2, <2>3 DEF ChainedSums
  <2> QED BY <1>9, <1>12, <2>4
<1>14. Sums(x, m)[m] = Sums(x, m)[ws] + Sums(z, m)[m] * Place(ws)
  <2>1. PICK k \in 0..m : k = ws BY <1>1
  <2>2. m \in Nat /\ x \in [0..m-1 -> Int] /\ z \in [0..m-1 -> Int] /\ Ahead(z, x, k, m)
    BY <1>5, <1>8, <1>11, <2>1
  <2>3. Sums(x, m)[m] = Sums(x, m)[k] + Sums(z, m)[m] * Place(k) BY ZenonT(40), <2>2, SumsAhead
  <2> QED BY <2>1, <2>3
<1>15. Sums(x, m)[ws] \in 0..Place(ws)-1
  <2>1. ws \in 0..m /\ ws <= m /\ m \in Nat BY <1>1
  <2>2. \A i \in 0..ws-1 : x[i] = w[i]
    <3>1. \A i \in 0..ws-1 : i \in 0..top-1 BY <1>1, <1>2
    <3> QED BY <1>6, <3>1
  <2>3. w \in [0..m-1 -> Int] BY <1>6, WordIs
  <2>4. Sums(x, m)[ws] = Sums(w, m)[ws]
    <3>1. PICK k \in 0..m : k = ws BY <2>1
    <3>2. \A i \in 0..k-1 : x[i] = w[i] BY <2>2, <3>1
    <3>3. k <= m /\ m \in Nat OBVIOUS
    <3>4. x \in [0..m-1 -> Int] /\ w \in [0..m-1 -> Int] BY <1>5, <2>3
    <3>5. Sums(x, m)[k] = Sums(w, m)[k] BY <3>2, <3>3, <3>4, SumsAgree
    <3> QED BY <3>1, <3>5
  <2>5. Sums(w, m)[ws] \in 0..Place(ws)-1 BY <1>6, <2>1, SumsBound
  <2> QED BY <2>4, <2>5
<1>16. PICK p \in Nat \ {0}, q \in Int : p = Place(ws) /\ q = Sums(z, m)[m]
  <2>1. ws \in Nat /\ m \in Nat /\ m \in 0..m OBVIOUS
  <2> QED BY <1>8, <2>1, PlaceIs, SumsInt
<1>17. PICK lo \in 0..p-1 : lo = Sums(x, m)[ws] BY <1>15, <1>16
<1>18. S \div p = q
  <2>1. lo + q * p = q * p + lo OBVIOUS
  <2>2. S = q * p + lo BY <1>5, <1>14, <1>16, <1>17, <2>1
  <2> QED BY <1>5, <2>2, DivMod
<1>19. 2^(ws * WordBits) = p BY <1>16 DEF Place
<1>20. Sums(y, m)[m] = q + s * Place(m)
  <2>1. PICK e \in Int, f \in Int : e = Sums(y, m)[m] /\ f = s * Place(m)
    <3>1. m \in Nat /\ m \in 0..m OBVIOUS
    <3>2. PICK g \in Int : g = Place(m) BY <3>1, PlaceIs
    <3>3. s * g \in Int OBVIOUS
    <3>4. Sums(y, m)[m] \in Int BY <1>7, <3>1, SumsInt
    <3> QED BY <3>2, <3>3, <3>4
  <2>2. q + f = e + 0 + 0 BY <1>13, <1>16, <2>1
  <2>3. e = q + f BY <2>2
  <2> QED BY <2>1, <2>3
<1> QED BY <1>1, <1>3, <1>7, <1>18, <1>19, <1>20 DEF AshrMakes, S
-----------------------------------------------------------------------------
\* By bits, between neighbours.
AshrBits(y, v, n, k) ==
  LET w == FilledWords(v)
      top == NWords(n) - 1
  IN  /\ \A i \in 0..top-1 : y[i] = Spliced(w, i, k)
      /\ y[top] = ArithRight(w[top], k)

\* A word and the low bits of the next, shifted together: c * h = base, the
\* word x becomes its quotient by c with the bits of z % c above it.
SplicesTo(base, c, h, x, z, t) ==
  /\ (x \div c) + ((z * h) % base) \in 0..base-1
  /\ x + (t % c) * base = c * ((x \div c) + ((z * h) % base)) + (x % c)

\* What two neighbours give a word.
LEMMA SplicedIs ==
  ASSUME NEW c \in Nat \ {0}, NEW h \in Nat \ {0}, NEW base \in Nat \ {0}, base = c * h
  PROVE  \A x, z \in 0..base-1 : \A t \in Int : \A s \in 0..1 :
           z = t + s * base => SplicesTo(base, c, h, x, z, t)
<1> SUFFICES ASSUME NEW x \in 0..base-1, NEW z \in 0..base-1, NEW t \in Int, NEW s \in 0..1,
                    z = t + s * base
             PROVE  SplicesTo(base, c, h, x, z, t)
  OBVIOUS
<1>1. c * h = h * c /\ x \in 0..c*h-1 /\ z \in 0..h*c-1
  <2>1. c * h = h * c OBVIOUS
  <2> QED BY <2>1
<1>2. x = (x \div c) * c + (x % c) /\ x % c \in 0..c-1 /\ x \div c \in Int BY DivModOf
<1>3. x \div c \in 0..h-1
  <2>1. x \in 0..h*c-1 BY <1>1
  <2> QED BY <2>1, WordShl
<1>4. PICK r \in 0..c-1 : z = (z \div c) * c + r /\ (z * h) % (h * c) = r * h /\ r * h <= h * c - h
  BY <1>1, WordShl
<1>5. t % c = r
  <2>1. z = (z \div c) * c + (z % c) /\ z % c \in 0..c-1 /\ z \div c \in Int BY DivModOf
  <2>2. PICK q \in Int : q = z \div c BY <2>1
  <2>3. t = (q - s * h) * c + r
    <3>1. (q - s * h) * c = q * c - s * (c * h) OBVIOUS
    <3>2. PICK e \in Int, f \in Int : e = q * c /\ f = s * (c * h) OBVIOUS
    <3>3. e + r = t + f BY <1>4, <2>2, <3>2
    <3> QED BY <3>1, <3>2, <3>3
  <2>4. q - s * h \in Int OBVIOUS
  <2> QED BY <2>3, <2>4, DivMod
<1>6. PICK q \in 0..h-1, x0 \in 0..c-1 : q = x \div c /\ x0 = x % c /\ x = q * c + x0 BY <1>2, <1>3
<1>7. (z * h) % base = r * h BY <1>1, <1>4
<1>8. PICK e \in Nat : e = r * h /\ e <= base - h
  <2>1. r * h \in Nat OBVIOUS
  <2> QED BY <1>1, <1>4, <2>1
<1>9. q + e \in 0..base-1 BY <1>8
<1>10. x + r * base = c * (q + e) + x0
  <2>1. c * (q + r * h) = q * c + r * (c * h) OBVIOUS
  <2>2. PICK f \in Int, g \in Int : f = q * c /\ g = r * (c * h) OBVIOUS
  <2>3. x = f + x0 /\ c * (q + e) = f + g /\ r * base = g BY <1>6, <1>8, <2>1, <2>2
  <2>4. (f + x0) + g = (f + g) + x0 OBVIOUS
  <2> QED BY <2>3, <2>4
<1>11. (x \div c) + ((z * h) % base) = q + e /\ t % c = r /\ x % c = x0
  BY <1>5, <1>6, <1>7, <1>8
<1> QED BY <1>9, <1>10, <1>11 DEF SplicesTo

\* A shift by less than a word.
LEMMA AshrByBits ==
  ASSUME NEW n \in Nat \ {0}, NEW v, Canonical(v, n), NEW k \in 1..WordBits-1,
         NEW y \in [0..NWords(n)-1 -> Int], AshrBits(y, v, n, k)
  PROVE  AshrMakes(y, v, n, k)
<1>1. PICK m \in Nat \ {0} : m = NWords(n) BY WidthOf
<1>2. PICK top \in 0..m-1 : top = m - 1
  <2>1. m - 1 \in 0..m-1 OBVIOUS
  <2> QED BY <2>1
<1>3. PICK s \in 0..1 : s = IF Negative(v) THEN 1 ELSE 0 OBVIOUS
<1>4. PICK c \in Nat \ {0}, h \in Nat \ {0} : c = 2^k /\ h = 2^(WordBits - k) /\ Base = c * h
  <2>1. PICK w \in Nat : w = WordBits BY WordBitsAssumption
  <2>2. k \in Nat /\ w - k \in Nat /\ k + (w - k) = w BY <2>1
  <2>3. 2^(k + (w - k)) = 2^k * 2^(w - k) /\ 2^k \in Nat \ {0} /\ 2^(w - k) \in Nat \ {0}
    BY <2>2, PowersOf
  <2> QED BY <2>1, <2>2, <2>3 DEF Base
<1>5. PICK base \in Nat \ {0} : base = Base /\ base = c * h BY <1>4, Places_
<1> DEFINE x == SignedWords(v, n)
           w == FilledWords(v)
           S == Sgn(Value(v), n)
           u == [i \in 0..m-1 |-> y[i] * c]
           none == [i \in 0..m-1 |-> 0]
           r == [i \in 0..m |-> IF i = m THEN s * c ELSE x[i] % c]
<1>6. x \in [0..m-1 -> Int] /\ Sums(x, m)[m] = S /\ S \in Int /\ x[top] \in Int
  <2>1. x \in [0..NWords(n)-1 -> Int] /\ Sums(x, NWords(n))[NWords(n)] = S BY SignedTop
  <2>2. S \in Int BY SgnMod
  <2> HIDE DEF x, S
  <2> QED BY <1>1, <1>2, <2>1, <2>2
<1>7. /\ w \in [0..m-1 -> Word] /\ w[top] = x[top] + s * base /\ \A i \in 0..top-1 : w[i] = x[i]
      /\ w[top] >= Base \div 2 <=> s = 1
      /\ w[top] >= Base \div 2 => w[top] - Base = x[top]
      /\ ~(w[top] >= Base \div 2) => w[top] = x[top]
  <2>1. m - 2 = top - 1 BY <1>2
  <2>2. w \in [0..m-1 -> Word] /\ w[top] = FilledTop(v, n) /\ \A i \in 0..top-1 : w[i] = x[i]
    BY SMTT(40), <1>1, <1>2, <2>1, FilledWordsAre
  <2>3. /\ FilledTop(v, n) = x[top] + s * Base
        /\ FilledTop(v, n) >= Base \div 2 <=> s = 1
        /\ FilledTop(v, n) >= Base \div 2 => FilledTop(v, n) - Base = x[top]
        /\ ~(FilledTop(v, n) >= Base \div 2) => FilledTop(v, n) = x[top]
    BY <1>1, <1>2, <1>3, FilledTopIs
  <2> HIDE DEF w, x
  <2> QED BY <1>5, <2>2, <2>3
<1>8. /\ \A i \in 0..top-1 : y[i] = (w[i] \div c) + ((w[i+1] * h) % base)
      /\ y[top] = IF w[top] < Base \div 2 THEN w[top] \div c ELSE ((w[top] - base) \div c) + base
      /\ y \in [0..m-1 -> Int]
  BY <1>1, <1>2, <1>4, <1>5 DEF AshrBits, Spliced, ArithRight
<1> HIDE DEF x, w, S
<1>9. ASSUME NEW i \in 0..m-1
      PROVE  y[i] \in 0..base-1 /\ x[i] + r[i+1] * base = y[i] * c + none[i] + r[i] /\ r[i] \in 0..c-1
  <2>1. i \in 0..m /\ i + 1 \in 0..m /\ i # m /\ none[i] = 0 /\ r[i] = x[i] % c OBVIOUS
  <2>2. PICK e \in Int : e = x[i] BY <1>6
  <2>3. e = (e \div c) * c + (e % c) /\ e % c \in 0..c-1 /\ e \div c \in Int BY DivModOf
  <2>4. CASE i < top
    <3>1. i \in 0..top-1 /\ i + 1 \in 0..m-1 /\ i + 1 # m BY <1>2, <2>4
    <3>2. PICK z \in 0..base-1 : z = w[i+1]
      <4>1. w[i+1] \in Word BY <1>7, <3>1
      <4> QED BY <1>5, <4>1, WordIs
    <3>3. PICK t \in Int : t = x[i+1] BY <1>6, <3>1
    <3>4. PICK g \in 0..1 : z = t + g * base
      <4>1. CASE i + 1 = top BY <1>7, <3>2, <3>3, <4>1
      <4>2. CASE i + 1 # top
        <5>1. i + 1 \in 0..top-1 BY <1>2, <3>1, <4>2
        <5>2. z = t /\ t + 0 * base = t /\ 0 \in 0..1 BY <1>7, <3>2, <3>3, <5>1
        <5> QED BY <5>2
      <4> QED BY <4>1, <4>2
    <3>5. e \in 0..base-1 /\ e = w[i]
      <4>1. w[i] \in Word BY <1>7
      <4>2. w[i] \in 0..base-1 BY <1>5, <4>1, WordIs
      <4>3. w[i] = x[i] BY <1>7, <3>1
      <4> QED BY <2>2, <4>2, <4>3
    <3>6. PICK d \in Int : d = (e \div c) + ((z * h) % base) /\ d \in 0..base-1
             /\ e + (t % c) * base = c * d + (e % c)
      <4>1. PICK e0 \in 0..base-1 : e0 = e BY <3>5
      <4>2. base = c * h /\ z = t + g * base BY <1>5, <3>4
      <4>3. (e0 \div c) + ((z * h) % base) \in 0..base-1
            /\ e0 + (t % c) * base = c * ((e0 \div c) + ((z * h) % base)) + (e0 % c)
        <5>1. \A x0, z0 \in 0..base-1 : \A t0 \in Int : \A s0 \in 0..1 :
                z0 = t0 + s0 * base => SplicesTo(base, c, h, x0, z0, t0)
          BY <4>2, SplicedIs
        <5>2. SplicesTo(base, c, h, e0, z, t) BY <4>2, <5>1
        <5> QED BY <5>2 DEF SplicesTo
      <4> QED BY <4>1, <4>3
    <3>7. y[i] = d BY <1>8, <3>1, <3>2, <3>5, <3>6
    <3>8. r[i+1] = t % c BY <2>1, <3>1, <3>3
    <3>9. c * d = d * c OBVIOUS
    <3>10. PICK f \in Int, rest \in Int : f = d * c /\ rest = e % c BY <2>3
    <3>11. f + rest = f + 0 + rest OBVIOUS
    <3> QED BY <2>1, <2>2, <2>3, <3>6, <3>7, <3>8, <3>9, <3>10, <3>11
  <2>5. CASE i = top
    <3>1. i + 1 = m BY <1>2, <2>5
    <3>2. r[i+1] = s * c BY <2>1, <3>1
    <3>3. y[i] = (e \div c) + s * base
      <4>1. PICK f \in 0..base-1, half \in Nat : f = w[top] /\ half = Base \div 2
        <5>1. w[top] \in Word BY <1>7
        <5> QED BY <1>5, <5>1, WordIs, HalfWord
      <4>2. CASE f >= half
        <5>1. s = 1 /\ f - base = e BY <1>5, <1>7, <2>2, <2>5, <4>1, <4>2
        <5>2. y[top] = ((f - base) \div c) + base
          <6>1. ~(f < half) BY <4>2
          <6> QED BY <1>8, <4>1, <6>1
        <5>3. 1 * base = base OBVIOUS
        <5> QED BY <2>5, <5>1, <5>2, <5>3
      <4>3. CASE ~(f >= half)
        <5>1. s = 0 /\ f = e BY <1>7, <2>2, <2>5, <4>1, <4>3
        <5>2. y[top] = f \div c
          <6>1. f < half BY <4>3
          <6> QED BY <1>8, <4>1, <6>1
        <5>3. PICK g \in Int : g = e \div c BY <2>3
        <5>4. g + 0 * base = g OBVIOUS
        <5> QED BY <2>5, <5>1, <5>2, <5>3, <5>4
      <4> QED BY <4>2, <4>3
    <3>4. e + s * base \in 0..base-1
      <4>1. w[top] \in Word BY <1>7
      <4>2. w[top] \in 0..base-1 BY <1>5, <4>1, WordIs
      <4>3. w[top] = e + s * base BY <1>7, <2>2, <2>5
      <4> QED BY <4>2, <4>3
    <3>5. y[i] \in 0..base-1
      <4>1. (e \div c) + s * base \in 0..base-1 BY <3>4, ShiftedWord
      <4> QED BY <3>3, <4>1
    <3>6. PICK q \in Int, e0 \in 0..c-1 : q = e \div c /\ e0 = e % c /\ e = q * c + e0 BY <2>3
    <3>7. e + (s * c) * base = (q + s * base) * c + 0 + e0
      <4>1. (q + s * base) * c = q * c + (s * c) * base OBVIOUS
      <4>2. PICK f \in Int, g \in Int : f = q * c /\ g = (s * c) * base OBVIOUS
      <4>3. f + e0 + g = (f + g) + 0 + e0 OBVIOUS
      <4> QED BY <3>6, <4>1, <4>2, <4>3
    <3> QED BY <2>1, <2>2, <3>2, <3>3, <3>5, <3>6, <3>7
  <2> QED BY <1>2, <2>4, <2>5
<1>10. /\ u \in [0..m-1 -> Int] /\ none \in [0..m-1 -> Int] /\ r \in [0..m -> Int]
       /\ y \in [0..m-1 -> Word]
  <2>1. \A i \in 0..m-1 : y[i] * c \in Int
    <3>1. \A i \in 0..m-1 : y[i] \in Int BY <1>8
    <3> QED BY <3>1
  <2>2. r \in [0..m -> Int]
    <3>1. \A i \in 0..m : i # m => i \in 0..m-1 OBVIOUS
    <3>2. \A i \in 0..m-1 : x[i] % c \in Int
      <4>1. TAKE i \in 0..m-1
      <4>2. PICK e \in Int : e = x[i] BY <1>6
      <4>3. e % c \in Int BY DivModOf
      <4> QED BY <4>2, <4>3
    <3>3. s * c \in Int OBVIOUS
    <3> QED BY <3>1, <3>2, <3>3
  <2>3. \A i \in 0..m-1 : y[i] \in Word BY <1>5, <1>9 DEF Word
  <2>4. u \in [0..m-1 -> Int] BY <2>1
  <2>5. none \in [0..m-1 -> Int] OBVIOUS
  <2> HIDE DEF u, none, r
  <2> QED BY <1>8, <2>2, <2>3, <2>4, <2>5
<1>11. r[m] = s * c /\ r[0] \in 0..c-1
  <2>1. m \in 0..m /\ 0 \in 0..m-1 OBVIOUS
  <2> QED BY <1>9, <2>1
<1>12. Sums(none, m)[m] = 0
  <2>1. \A j \in 0..m-1 : none[j] = 0 OBVIOUS
  <2> HIDE DEF none
  <2>2. m \in Nat OBVIOUS
  <2> QED BY <1>10, <2>1, <2>2, SumsZero
<1>13. Scaled(u, y, c, m) BY DEF Scaled
<1>14. \A i \in 0..m-1 : u[i] = y[i] * c OBVIOUS
<1> HIDE DEF u, none, r
<1>15. Sums(x, m)[m] + (s * c) * Place(m) = Sums(u, m)[m] + 0 + r[0]
  <2>1. Chained(x, u, none, r, m) BY <1>5, <1>9, <1>14 DEF Chained
  <2>2. m \in Nat /\ m \in 0..m OBVIOUS
  <2>3. ChainedSums(x, u, none, r, m) BY <1>6, <1>10, <2>1, <2>2, Chain
  <2>4. Sums(x, m)[m] + r[m] * Place(m) = Sums(u, m)[m] + Sums(none, m)[m] + r[0]
    BY <2>2, <2>3 DEF ChainedSums
  <2> QED BY <1>11, <1>12, <2>4
<1>16. Sums(u, m)[m] = Sums(y, m)[m] * c
  <2>1. u \in [0..m-1 -> Int] /\ y \in [0..m-1 -> Int] BY <1>8, <1>10
  <2>2. m \in Nat /\ c \in Int OBVIOUS
  <2> QED BY <1>13, <2>1, <2>2, SumsScaled
<1>17. PICK p \in Nat \ {0}, z \in Int, lo \in 0..c-1, t \in Int :
         p = Place(m) /\ z = Sums(y, m)[m] /\ lo = r[0] /\ t = S
  <2>1. m \in Nat /\ m \in 0..m OBVIOUS
  <2>2. Place(m) \in Nat \ {0} /\ Sums(y, m)[m] \in Int BY <1>8, <2>1, PlaceIs, SumsInt
  <2> QED BY <1>6, <1>11, <2>2
<1>18. t + (s * c) * p = z * c + 0 + lo BY <1>6, <1>15, <1>16, <1>17
<1>19. t = (z - s * p) * c + lo
  <2>1. (z - s * p) * c = z * c - (s * c) * p OBVIOUS
  <2>2. PICK e \in Int, f \in Int : e = z * c /\ f = (s * c) * p OBVIOUS
  <2>3. t + f = e + 0 + lo BY <1>18, <2>2
  <2> QED BY <2>1, <2>2, <2>3
<1>20. t \div c = z - s * p
  <2>1. PICK q \in Int : q = z - s * p
    <3>1. z - s * p \in Int OBVIOUS
    <3> QED BY <3>1
  <2>2. t = q * c + lo BY <1>19, <2>1
  <2>3. t \div c = q BY <2>2, DivMod
  <2> QED BY <2>1, <2>3
<1>21. z = (z - s * p) + s * p OBVIOUS
<1>22. Sums(y, m)[m] = (S \div c) + s * Place(m) BY <1>17, <1>20, <1>21
<1> QED BY <1>1, <1>3, <1>4, <1>10, <1>22 DEF AshrMakes, S

\* A shift to the right that keeps the sign rounds down.
LEMMA AshrExact ==
  ASSUME NEW n \in Nat \ {0}, NEW v, Canonical(v, n), NEW k \in 0..n-1,
         k <= WordBits \/ k % WordBits = 0
  PROVE  Canonical(Ashr(v, k), n) /\ Value(Ashr(v, k)) = (Sgn(Value(v), n) \div 2^k) % 2^n
<1>1. PICK bits \in Nat \ {0} : bits = WordBits /\ bits >= 2 BY WordBitsAssumption, Places_
<1>2. PICK m \in Nat \ {0} : m = NWords(n) BY WidthOf
<1>3. PICK top \in 0..m-1 : top = m - 1
  <2>1. m - 1 \in 0..m-1 OBVIOUS
  <2> QED BY <2>1
<1>4. v.n = n /\ Top(v) = top /\ v = [n |-> n, w |-> v.w] BY <1>2, <1>3, IntegerOf DEF Canonical
<1>5. FilledWords(v) \in [0..m-1 -> Word] BY <1>2, FilledWordsAre
<1> DEFINE ws == k \div bits
           bs == k % bits
           w == FilledWords(v)
           y == [i \in 0..m-1 |->
                  CASE i < top - ws -> Spliced(w, i + ws, bs)
                    [] i = top - ws -> IF bs = 0 THEN w[i + ws] ELSE ArithRight(w[i], bs)
                    [] OTHER -> IF Negative(v) THEN Base - 1 ELSE 0]
<1>6. k # 0 => Ashr(v, k) = Masked([v EXCEPT !.w = y])
  BY <1>1, <1>2, <1>4 DEF Ashr, FilledWords, Idx
<1>7. k = ws * bits + bs /\ bs \in 0..bits-1 /\ ws \in 0..m-1
  <2>1. k \div WordBits \in 0..NWords(n)-1 BY BitAt
  <2>2. k \in Int OBVIOUS
  <2> QED BY <1>1, <1>2, <2>1, <2>2, DivModOf
<1> HIDE DEF w, ws, bs
<1>8. CASE k = 0
  <2>1. Ashr(v, k) = v BY <1>8 DEF Ashr
  <2>2. 2^k = 1 BY <1>8
  <2>3. PICK t \in Int : t = Sgn(Value(v), n) /\ t % 2^n = Value(v) BY SgnMod
  <2>4. t \div 1 = t
    <3>1. t = t * 1 + 0 /\ 0 \in 0..1-1 /\ 1 \in Nat \ {0} OBVIOUS
    <3> QED BY <3>1, DivMod
  <2> QED BY <2>1, <2>2, <2>3, <2>4
<1>9. ASSUME k # 0, AshrMakes(y, v, n, k)
      PROVE  Canonical(Ashr(v, k), n) /\ Value(Ashr(v, k)) = (Sgn(Value(v), n) \div 2^k) % 2^n
  <2> HIDE DEF y
  <2>1. k \in Nat OBVIOUS
  <2> QED BY <1>6, <1>9, <2>1, AshrMakesIt
<1>10. CASE k # 0 /\ bs = 0
  <2>1. k = ws * bits /\ ws # 0
    <3>1. PICK i \in Int : i = ws BY <1>7
    <3>2. PICK e \in Int : e = i * bits OBVIOUS
    <3>3. k = e + 0 BY <1>7, <1>10, <3>1, <3>2
    <3>4. i = 0 => e = 0
      <4>1. 0 * bits = 0 OBVIOUS
      <4> QED BY <3>2, <4>1
    <3> QED BY <1>10, <3>1, <3>2, <3>3, <3>4
  <2>2. \A i \in 0..m-1 : i < top - ws => Spliced(w, i + ws, 0) = w[i + ws]
    <3>1. TAKE i \in 0..m-1
    <3>2. HAVE i < top - ws
    <3>3. i + ws \in 0..m-1 /\ i + ws + 1 \in 0..m-1 BY <1>3, <1>7, <3>2
    <3>4. PICK e \in Nat, f \in Nat : e = w[i + ws] /\ f = w[i + ws + 1]
      <4>1. w[i + ws] \in Word /\ w[i + ws + 1] \in Word BY <1>5, <3>3 DEF w
      <4> QED BY <4>1, WordIs
    <3>5. PICK base \in Nat \ {0} : base = Base /\ base = 2^WordBits BY Places_ DEF Base
    <3>6. e \div 1 = e
      <4>1. e = e * 1 + 0 /\ 0 \in 0..1-1 /\ 1 \in Nat \ {0} /\ e \in Int OBVIOUS
      <4> QED BY <4>1, DivMod
    <3>7. (f * base) % base = 0
      <4>1. f * base = f * base + 0 /\ 0 \in 0..base-1 /\ f \in Int /\ f * base \in Int OBVIOUS
      <4> QED BY <4>1, DivMod
    <3>8. 2^0 = 1 /\ WordBits - 0 = WordBits /\ e + 0 = e
      <4>1. bits - 0 = bits /\ 2^0 = 1 /\ e + 0 = e OBVIOUS
      <4> QED BY <1>1, <4>1
    <3> QED BY <3>4, <3>5, <3>6, <3>7, <3>8 DEF Spliced
  <2>3. AshrWords(y, v, n, ws)
    <3>1. ASSUME NEW i \in 0..m-1
          PROVE  y[i] = IF i + ws < m THEN w[i + ws] ELSE IF Negative(v) THEN Base - 1 ELSE 0
      <4>1. CASE i < top - ws
        <5>1. i + ws < m BY <1>3, <1>7, <4>1
        <5>2. y[i] = Spliced(w, i + ws, bs) BY <4>1
        <5> QED BY <1>10, <2>2, <4>1, <5>1, <5>2
      <4>2. CASE i = top - ws
        <5>1. i + ws < m /\ ~(i < top - ws) BY <1>3, <1>7, <4>2
        <5>2. y[i] = IF bs = 0 THEN w[i + ws] ELSE ArithRight(w[i], bs) BY <4>2, <5>1
        <5> QED BY <1>10, <5>1, <5>2
      <4>3. CASE i > top - ws
        <5>1. ~(i + ws < m) /\ ~(i < top - ws) /\ i # top - ws BY <1>3, <1>7, <4>3
        <5>2. y[i] = IF Negative(v) THEN Base - 1 ELSE 0 BY <5>1
        <5> QED BY <5>1, <5>2
      <4>4. i < top - ws \/ i = top - ws \/ i > top - ws BY <1>7
      <4> QED BY <4>1, <4>2, <4>3, <4>4
    <3> HIDE DEF y
    <3> QED BY <1>2, <3>1 DEF AshrWords, w
  <2>4. y \in [0..m-1 -> Word]
    <3>1. \A i \in 0..m-1 : y[i] \in Word
      <4>1. TAKE i \in 0..m-1
      <4>2. y[i] = IF i + ws < m THEN w[i + ws] ELSE IF Negative(v) THEN Base - 1 ELSE 0
        <5> HIDE DEF y
        <5> QED BY <1>2, <2>3 DEF AshrWords, w
      <4>3. i + ws < m => i + ws \in 0..m-1 BY <1>7
      <4>4. i + ws < m => w[i + ws] \in Word BY <1>5, <4>3 DEF w
      <4>5. Base - 1 \in Word /\ 0 \in Word
        <5>1. PICK base \in Nat \ {0} : base = Base BY Places_
        <5>2. base - 1 \in 0..base-1 /\ 0 \in 0..base-1 OBVIOUS
        <5> QED BY <5>1, <5>2 DEF Word
      <4> HIDE DEF y
      <4> QED BY <4>2, <4>4, <4>5
    <3>2. y = [i \in 0..m-1 |-> y[i]] OBVIOUS
    <3> HIDE DEF y
    <3> QED BY <3>1, <3>2
  <2> HIDE DEF y
  <2>5. ws \in 1..NWords(n)-1 BY <1>2, <1>7, <2>1
  <2>6. AshrMakes(y, v, n, ws * WordBits) BY <1>2, <2>3, <2>4, <2>5, AshrByWords
  <2> QED BY <1>1, <1>9, <1>10, <2>1, <2>6
<1>11. CASE k # 0 /\ bs # 0
  <2>1. k < bits
    <3>1. k <= bits
      <4>1. k % WordBits = bs BY <1>1 DEF bs
      <4> QED BY <1>1, <1>11, <4>1
    <3>2. k # bits
      <4>1. bits % bits = 0 OBVIOUS
      <4> QED BY <1>11, <4>1 DEF bs
    <3> QED BY <3>1, <3>2
  <2>2. ws = 0 /\ bs = k
    <3>1. k = 0 * bits + k /\ k \in 0..bits-1 /\ k \in Int /\ 0 \in Int BY <2>1
    <3> QED BY <3>1, DivMod DEF ws, bs
  <2>3. AshrBits(y, v, n, k) /\ y \in [0..m-1 -> Int]
    <3>1. \A i \in 0..top-1 : y[i] = Spliced(w, i, k)
      <4>1. TAKE i \in 0..top-1
      <4>2. i \in 0..m-1 /\ i < top - 0 /\ i + 0 = i BY <1>3
      <4>3. y[i] = Spliced(w, i + ws, bs) BY <2>2, <4>2
      <4> QED BY <2>2, <4>2, <4>3
    <3>2. y[top] = ArithRight(w[top], k)
      <4>1. ~(top < top - 0) /\ top = top - 0 OBVIOUS
      <4>2. y[top] = IF bs = 0 THEN w[top + ws] ELSE ArithRight(w[top], bs) BY <2>2, <4>1
      <4> QED BY <1>11, <2>2, <4>2
    <3>3. \A i \in 0..m-1 : y[i] \in Int
      <4>1. TAKE i \in 0..m-1
      <4>2. PICK c \in Nat \ {0}, h \in Nat : c = 2^k /\ h = 2^(WordBits - k)
        <5>1. k \in Nat /\ WordBits - k \in Nat BY <1>1, <2>1
        <5> QED BY <5>1, PowersOf
      <4>3. PICK base \in Nat \ {0}, half \in Nat : base = Base /\ half = Base \div 2
        BY Places_, HalfWord
      <4>4. \A e \in Int : e \div c \in Int BY DivModOf
      <4>5. CASE i < top
        <5>1. i \in 0..top-1 /\ i + 1 \in 0..m-1 BY <1>3, <4>5
        <5>2. PICK e \in Int, f \in Int : e = w[i] /\ f = w[i+1] BY <1>5, <5>1, WordIs DEF w
        <5>3. y[i] = (e \div c) + ((f * h) % base)
          <6>1. y[i] = Spliced(w, i, k) BY <3>1, <5>1
          <6> QED BY <4>2, <4>3, <5>2, <6>1 DEF Spliced
        <5>4. f * h \in Int OBVIOUS
        <5>5. (f * h) % base \in Int BY <5>4, DivModOf
        <5> HIDE DEF y
        <5> QED BY <4>4, <5>2, <5>3, <5>5
      <4>6. CASE i = top
        <5>1. PICK e \in Int : e = w[top] BY <1>5, WordIs DEF w
        <5>2. y[top] = IF e < half THEN e \div c ELSE ((e - base) \div c) + base
          <6> HIDE DEF y
          <6> QED BY <3>2, <4>2, <4>3, <5>1 DEF ArithRight
        <5>3. e - base \in Int OBVIOUS
        <5> HIDE DEF y
        <5> QED BY <4>4, <4>6, <5>2, <5>3
      <4> QED BY <1>3, <4>5, <4>6
    <3>4. y = [i \in 0..m-1 |-> y[i]] OBVIOUS
    <3> HIDE DEF y
    <3> QED BY <1>2, <1>3, <3>1, <3>2, <3>3, <3>4 DEF AshrBits, w
  <2> HIDE DEF y
  <2>4. k \in 1..WordBits-1 BY <1>1, <1>11, <2>1
  <2>5. AshrMakes(y, v, n, k) BY <1>2, <2>3, <2>4, AshrByBits
  <2> QED BY <1>9, <1>11, <2>5
<1> QED BY <1>8, <1>10, <1>11
-----------------------------------------------------------------------------
(***************************************************************************)
(* Digits, two to a word, divided one after the other by one digit.        *)
(***************************************************************************)
Digit == 0..Half-1

\* A digit of the quotient and what is left, from what was left before.
LEMMA DigitStep ==
  ASSUME NEW d \in 1..Half-1, NEW r \in 0..d-1, NEW x \in Digit
  PROVE  LET p == r * Half + x
         IN  /\ p \in Nat /\ p \div d \in Digit /\ (p \div d) % Half = p \div d
             /\ p % d \in 0..d-1 /\ p = (p \div d) * d + (p % d)
<1>1. PICK h \in Nat \ {0} : h = Half
  <2>1. Half \in Nat /\ Half >= 2 BY Places_
  <2> QED BY <2>1
<1>2. PICK c \in Nat \ {0} : c = d BY <1>1
<1>3. PICK y \in 0..h-1 : y = x BY <1>1 DEF Digit
<1>4. PICK p \in 0..h*c-1 : p = r * h + y
  <2>1. PICK e \in Nat : c = r + 1 + e
    <3>1. c - 1 - r \in Nat /\ c = r + 1 + (c - 1 - r) BY <1>2
    <3> QED BY <3>1
  <2>2. r \in Nat BY <1>2
  <2>3. h * (r + 1 + e) = r * h + h + e * h /\ r * h \in Nat /\ e * h \in Nat BY <2>2
  <2>4. PICK f \in Nat, g \in Nat : f = r * h /\ g = e * h BY <2>3
  <2>5. h * c = f + h + g BY <2>1, <2>3, <2>4
  <2>6. f + y \in 0..h*c-1
    <3>1. PICK z \in Int : z = h * c OBVIOUS
    <3> QED BY <2>5, <3>1
  <2> QED BY <2>4, <2>6
<1>5. p \div c \in 0..h-1 BY WordShl
<1>6. p = (p \div c) * c + (p % c) /\ p % c \in 0..c-1
  <2>1. p \in Int OBVIOUS
  <2> QED BY <2>1, DivModOf
<1>7. (p \div c) % h = p \div c
  <2>1. PICK q \in 0..h-1 : q = p \div c BY <1>5
  <2> QED BY <2>1
<1>8. p \in Nat OBVIOUS
<1> QED BY <1>1, <1>2, <1>3, <1>4, <1>5, <1>6, <1>7, <1>8 DEF Digit

Partial(st, u, i) == st.rem * Half + u[i]

ShortTurn(st, u, d, i) ==
  [rem |-> Partial(st, u, i) % d,
   q |-> [st.q EXCEPT ![i] = (Partial(st, u, i) \div d) % Half]]

IsShort(f, u, d, q, m) ==
  f = [k \in 0..m+1 |->
         IF k = 0 THEN [rem |-> 0, q |-> q] ELSE ShortTurn(f[k-1], u, d, m + 1 - k)]

ShortTurns(u, d, q, m) == CHOOSE f : IsShort(f, u, d, q, m)

\* The turns of the loop of a short division, from the last digit down.
States(d, max) == [rem : 0..d-1, q : [0..max-1 -> Digit]]

\* One turn writes one digit of the quotient and leaves the others.
LEMMA ShortTurnIs ==
  ASSUME NEW d \in 1..Half-1, NEW max \in Nat, NEW st \in States(d, max),
         NEW u \in [0..max -> Digit], NEW i \in 0..max-1
  PROVE  LET next == ShortTurn(st, u, d, i)
         IN  /\ next \in States(d, max)
             /\ next.rem = (st.rem * Half + u[i]) % d
             /\ next.q[i] = (st.rem * Half + u[i]) \div d
             /\ \A j \in 0..max-1 : j # i => next.q[j] = st.q[j]
<1>1. st.rem \in 0..d-1 /\ u[i] \in Digit /\ st.q \in [0..max-1 -> Digit] BY DEF States
<1> DEFINE p == st.rem * Half + u[i]
           y == [st.q EXCEPT ![i] = p \div d]
<1>2. p \div d \in Digit /\ (p \div d) % Half = p \div d /\ p % d \in 0..d-1 BY <1>1, DigitStep
<1>3. ShortTurn(st, u, d, i) = [rem |-> p % d, q |-> y] BY <1>2 DEF ShortTurn, Partial
<1> HIDE DEF p
<1>4. y \in [0..max-1 -> Digit] /\ y[i] = p \div d /\ \A j \in 0..max-1 : j # i => y[j] = st.q[j]
  BY <1>1, <1>2
<1> HIDE DEF y
<1>5. [rem |-> p % d, q |-> y] \in States(d, max) BY <1>2, <1>4 DEF States
<1> QED BY <1>3, <1>4, <1>5 DEF p

AreTurns(f, u, d, q, m, max) ==
  /\ \A k \in 0..m+1 : f[k] \in States(d, max)
  /\ f[0] = [rem |-> 0, q |-> q]
  /\ \A k \in 1..m+1 : f[k] = ShortTurn(f[k-1], u, d, m + 1 - k)

\* The turns, from the highest digit down.
LEMMA ShortTurnsAre ==
  ASSUME NEW d \in 1..Half-1, NEW max \in Nat, NEW u \in [0..max -> Digit],
         NEW q \in [0..max-1 -> Digit], NEW m \in 0..max-1
  PROVE  AreTurns(ShortTurns(u, d, q, m), u, d, q, m, max)
<1> DEFINE V == States(d, max)
           zero == [rem |-> 0, q |-> q]
           next == [k \in 0+1..m+1 |-> [g \in V |-> ShortTurn(g, u, d, m + 1 - k)]]
           turns == ShortTurns(u, d, q, m)
<1>1. zero \in V
  <2>1. 0 \in 0..d-1
    <3>1. Half \in Nat BY Places_
    <3> QED BY <3>1
  <2> QED BY <2>1 DEF States
<1>2. next \in [0+1..m+1 -> [V -> V]]
  <2>1. ASSUME NEW k \in 0+1..m+1, NEW g \in V PROVE ShortTurn(g, u, d, m + 1 - k) \in V
    <3>1. m + 1 - k \in 0..max-1 OBVIOUS
    <3> QED BY <3>1, ShortTurnIs
  <2> HIDE DEF V
  <2> QED BY <2>1
<1> HIDE DEF V
<1>3. PICK f \in [0..m+1 -> V] :
        f = [k \in 0..m+1 |-> IF k = 0 THEN zero ELSE next[k][f[k-1]]]
  <2> HIDE DEF next, zero
  <2>1. 0 \in Int /\ m + 1 \in Int OBVIOUS
  <2>2. \E f \in [0..m+1 -> V] : Iteration(f, 0, m+1, zero, next)
    BY <1>1, <1>2, <2>1, Iterates
  <2> QED BY <2>2 DEF Iteration
<1>4. ASSUME NEW k \in 0..m+1, k # 0
      PROVE  next[k][f[k-1]] = ShortTurn(f[k-1], u, d, m + 1 - k)
  <2>1. k \in 0+1..m+1 /\ k - 1 \in 0..m+1 BY <1>4
  <2>2. f[k-1] \in V BY <1>3, <2>1
  <2> QED BY <2>1, <2>2
<1> DEFINE g == [k \in 0..m+1 |-> IF k = 0 THEN zero ELSE ShortTurn(f[k-1], u, d, m + 1 - k)]
<1>5. f = g
  <2> HIDE DEF next, zero
  <2>1. ASSUME NEW k \in 0..m+1 PROVE f[k] = g[k] BY <1>3, <1>4
  <2>2. f = [k \in 0..m+1 |-> f[k]] BY <1>3
  <2> QED BY <2>1, <2>2
<1>6. IsShort(f, u, d, q, m) BY <1>5 DEF IsShort
<1>7. IsShort(turns, u, d, q, m)
  <2> HIDE DEF IsShort
  <2> QED BY <1>6 DEF ShortTurns
<1> HIDE DEF turns, next, g
<1>8. turns[0] = zero
  <2>1. 0 \in 0..m+1 OBVIOUS
  <2> QED BY <1>7, <2>1 DEF IsShort
<1>9. ASSUME NEW k \in 1..m+1 PROVE turns[k] = ShortTurn(turns[k-1], u, d, m + 1 - k)
  <2>1. k \in 0..m+1 /\ k # 0 OBVIOUS
  <2> QED BY <1>7, <2>1 DEF IsShort
<1> DEFINE S == {k \in 0..m+1 : turns[k] \in V}
<1>10. 0 \in S
  <2> HIDE DEF zero
  <2> QED BY <1>1, <1>8
<1>11. ASSUME NEW k \in 0..m+1-1, k \in S PROVE k + 1 \in S
  <2>1. k + 1 \in 1..m+1 /\ (k + 1) - 1 = k /\ m + 1 - (k + 1) \in 0..max-1 OBVIOUS
  <2>2. turns[k] \in States(d, max) BY <1>11 DEF V
  <2>3. ShortTurn(turns[k], u, d, m + 1 - (k + 1)) \in States(d, max) BY <2>1, <2>2, ShortTurnIs
  <2>4. turns[k+1] = ShortTurn(turns[k], u, d, m + 1 - (k + 1)) BY <1>9, <2>1
  <2> QED BY <2>1, <2>3, <2>4 DEF V
<1> HIDE DEF S
<1>12. \A k \in 0..m+1 : k \in S
  <2>1. PICK last \in Nat : last = m + 1 OBVIOUS
  <2>2. \A k \in 0..last-1 : k \in S => k + 1 \in S
    <3>1. \A k \in 0..last-1 : k \in 0..m+1-1 BY <2>1
    <3> QED BY <1>11, <3>1
  <2>3. \A k \in 0..last : k \in S BY <1>10, <2>2, Induct
  <2> QED BY <2>1, <2>3
<1> QED BY <1>8, <1>9, <1>12 DEF S, V, turns, AreTurns
-----------------------------------------------------------------------------
\* A word has two digits.
LEMMA TwoDigits ==
  /\ \A x \in Word : x % Half \in Digit /\ x \div Half \in Digit
                     /\ x = (x % Half) + (x \div Half) * Half
  /\ \A lo, hi \in Digit : lo + hi * Half \in Word
  /\ \A x \in Digit : x % Half = x /\ x \div Half = 0 /\ x \in Word
  /\ 0 \in Digit
<1>1. PICK h \in Nat \ {0}, base \in Nat \ {0} : h = Half /\ base = Base /\ base = h * h BY Places_
<1>2. ASSUME NEW x \in Word
      PROVE  x % Half \in Digit /\ x \div Half \in Digit /\ x = (x % Half) + (x \div Half) * Half
  <2>1. PICK y \in 0..h*h-1 : y = x BY <1>1, WordIs
  <2>2. y \div h \in 0..h-1 BY WordShl
  <2>3. y = (y \div h) * h + (y % h) /\ y % h \in 0..h-1 BY DivModOf
  <2>4. PICK q \in 0..h-1, r \in 0..h-1 : q = y \div h /\ r = y % h BY <2>2, <2>3
  <2>5. PICK e \in Int : e = q * h OBVIOUS
  <2>6. y = r + e BY <2>3, <2>4, <2>5
  <2> QED BY <1>1, <2>1, <2>4, <2>5, <2>6 DEF Digit
<1>3. ASSUME NEW lo \in Digit, NEW hi \in Digit PROVE lo + hi * Half \in Word
  <2>1. PICK r \in 0..h-1, q \in 0..h-1 : r = lo /\ q = hi BY <1>1 DEF Digit
  <2>2. r + q * h \in 0..h*h-1
    <3>1. PICK d \in Nat : h = q + 1 + d
      <4>1. h - 1 - q \in Nat /\ h = q + 1 + (h - 1 - q) OBVIOUS
      <4> QED BY <4>1
    <3>2. h * (q + 1 + d) = q * h + h + d * h /\ d * h \in Nat /\ q * h \in Nat OBVIOUS
    <3>3. PICK e \in Nat, f \in Nat : e = q * h /\ f = d * h BY <3>2
    <3>4. h * h = e + h + f BY <3>1, <3>2, <3>3
    <3>5. PICK g \in Int : g = h * h OBVIOUS
    <3> QED BY <3>3, <3>4, <3>5
  <2> QED BY <1>1, <2>1, <2>2 DEF Word
<1>4. ASSUME NEW x \in Digit PROVE x % Half = x /\ x \div Half = 0 /\ x \in Word
  <2>1. PICK y \in 0..h-1 : y = x BY <1>1 DEF Digit
  <2>2. y = 0 * h + y OBVIOUS
  <2>3. y % h = y /\ y \div h = 0
    <3>1. y \in Int /\ 0 \in Int OBVIOUS
    <3> QED BY <2>2, <3>1, DivMod
  <2>4. y + 0 * h = y OBVIOUS
  <2>5. 0 \in Digit BY <1>1 DEF Digit
  <2>6. y + 0 * Half \in Word BY <1>3, <2>1, <2>5
  <2> QED BY <1>1, <2>1, <2>3, <2>4, <2>6
<1>5. 0 \in Digit BY <1>1 DEF Digit
<1> QED BY <1>2, <1>3, <1>4, <1>5
-----------------------------------------------------------------------------
\* What the division of the first k words of x by the word y gives: the words
\* of the quotient and, for each, what is left of x from there up.
WordsDivided(res, left, x, y, k) ==
  /\ res.quot \in [0..k-1 -> Word] /\ res.rem = [i \in 0..0 |-> left[0]]
  /\ left \in [0..k -> 0..y-1] /\ left[k] = 0
  /\ \A i \in 0..k-1 : x[i] + left[i+1] * Base = res.quot[i] * y + left[i]
-----------------------------------------------------------------------------
(***************************************************************************)
(* The whole product, in twice as many words.                              *)
(***************************************************************************)
FullRow(g, k, x, y, m) ==
  LET row == Row(g, k - 1, y, x[k-1], m)
  IN  [j \in 0..2*m-1 |-> IF j < k - 1 \/ j > k - 1 + m THEN g[j] ELSE row[j - k + 1]]

\* The first rows are all zeros from the words on that they do not reach.
Reaches(g, k, m) == g \in [0..2*m-1 -> Word] /\ \A j \in 0..2*m-1 : j >= k => g[j] = 0

\* What the first words of a longer sequence stand for.
LEMMA SumsPrefix ==
  ASSUME NEW max \in Nat, NEW k \in 0..max, NEW z \in [0..max-1 -> Int],
         NEW y \in [0..k-1 -> Int], \A i \in 0..k-1 : z[i] = y[i]
  PROVE  Sums(z, max)[k] = Sums(y, k)[k]
<1>1. k <= k /\ k \in Nat OBVIOUS
<1> QED BY <1>1, SumsSame

FullRowAdded(h, g, k, x, y, m) ==
  /\ Reaches(h, k + m, m)
  /\ Sums(h, 2*m)[2*m] = Sums(g, 2*m)[2*m] + Sums(y, m)[m] * x[k-1] * Place(k-1)

\* A row of tc_full_multiply adds the number times a word, and loses no carry.
LEMMA FullRowIs ==
  ASSUME NEW m \in Nat \ {0}, NEW x \in [0..m-1 -> Word], NEW y \in [0..m-1 -> Word],
         NEW k \in 1..m, NEW g, Reaches(g, (k - 1) + m, m)
  PROVE  FullRowAdded(FullRow(g, k, x, y, m), g, k, x, y, m)
<1> DEFINE h == FullRow(g, k, x, y, m)
           src == [j \in 0..2*m-1 |-> IF j < m THEN y[j] ELSE 0]
<1>1. PICK at \in 0..m-1, u \in Word : at = k - 1 /\ u = x[k-1]
  <2>1. k - 1 \in 0..m-1 OBVIOUS
  <2> QED BY <2>1
<1>2. PICK max \in Nat : max = 2 * m /\ at \in Nat /\ m \in Nat /\ at + m \in 0..max-1 /\ at + m <= max
                        /\ m \in 0..max /\ m <= max
  <2>1. 2 * m \in Nat OBVIOUS
  <2> QED BY <2>1
<1>3. g \in [0..max-1 -> Word] /\ \A j \in 0..max-1 : j >= at + m => g[j] = 0
  BY <1>1, <1>2 DEF Reaches
<1>4. src \in [0..max-1 -> Word] /\ \A j \in 0..m-1 : src[j] = y[j]
  <2>1. 0 \in Word BY TwoDigits
  <2>2. \A j \in 0..2*m-1 : j < m => j \in 0..m-1 OBVIOUS
  <2>3. src \in [0..max-1 -> Word] BY <1>2, <2>1, <2>2
  <2>4. \A j \in 0..m-1 : j \in 0..2*m-1 /\ j < m OBVIOUS
  <2> QED BY <2>3, <2>4
<1> HIDE DEF src
<1>5. PICK r, c : /\ RowOf(r, c, g, at, y, u, m)
                  /\ \A j \in 0..m-1 : Row(g, at, y, u, m)[j] = r[j]
                  /\ Row(g, at, y, u, m)[m] = c[m]
  <2>1. \A j \in 0..m-1 : at + j \in 0..max-1 BY <1>2
  <2>2. AreWords(y, g, at, m) BY <1>3, <2>1 DEF AreWords
  <2>3. IsRowOf(Row(g, at, y, u, m), g, at, y, u, m) BY <1>2, <2>2, RowIs
  <2> QED BY <2>3 DEF IsRowOf
<1>6. /\ r \in [0..m-1 -> Word] /\ c \in [0..m -> Word] /\ c[0] = 0
      /\ \A j \in 0..m-1 : r[j] + c[j+1] * Base = y[j] * u + g[at + j] + c[j]
  BY <1>5 DEF RowOf
<1>7. RowOf(r, c, g, at, src, u, m) BY <1>4, <1>6 DEF RowOf
<1>8. h = [j \in 0..max-1 |-> IF j < at \/ j > at + m THEN g[j] ELSE Row(g, at, y, u, m)[j - k + 1]]
  BY <1>1, <1>2 DEF FullRow
<1> HIDE DEF h
<1>9. /\ \A j \in 0..at-1 : h[j] = g[j]
      /\ \A j \in 0..m-1 : h[at + j] = r[j]
      /\ h[at + m] = c[m]
      /\ \A j \in 0..max-1 : j >= at + m + 1 => h[j] = 0
  <2>1. \A j \in 0..at-1 : h[j] = g[j]
    <3>1. \A j \in 0..at-1 : j \in 0..max-1 /\ j < at BY <1>2
    <3> QED BY <1>8, <3>1
  <2>2. ASSUME NEW j \in 0..m PROVE h[at + j] = Row(g, at, y, u, m)[j]
    <3>1. PICK i \in 0..max-1 : i = at + j /\ ~(i < at) /\ ~(i > at + m) /\ i - k + 1 = j
      BY <1>1, <1>2
    <3> QED BY <1>8, <3>1
  <2>3. \A j \in 0..m-1 : h[at + j] = r[j]
    <3>1. \A j \in 0..m-1 : j \in 0..m OBVIOUS
    <3> QED BY <1>5, <2>2, <3>1
  <2>4. h[at + m] = c[m]
    <3>1. m \in 0..m OBVIOUS
    <3> QED BY <1>5, <2>2, <3>1
  <2>5. ASSUME NEW j \in 0..max-1, j >= at + m + 1 PROVE h[j] = 0
    <3>1. j > at + m /\ j >= at + m BY <2>5
    <3> QED BY <1>3, <1>8, <3>1
  <2> QED BY <2>1, <2>3, <2>4, <2>5
<1>10. h \in [0..max-1 -> Word]
  <2>1. ASSUME NEW i \in 0..max-1 PROVE h[i] \in Word
    <3>1. CASE i < at
      <4>1. i \in 0..at-1 BY <3>1
      <4> QED BY <1>3, <1>9, <4>1
    <3>2. CASE i >= at /\ i < at + m
      <4>1. PICK j \in 0..m-1 : i = at + j
        <5>1. i - at \in 0..m-1 /\ i = at + (i - at) BY <3>2
        <5> QED BY <5>1
      <4>2. r[j] \in Word BY <1>6
      <4>3. h[at + j] = r[j] BY <1>9
      <4> QED BY <4>1, <4>2, <4>3
    <3>3. CASE i = at + m
      <4>1. m \in 0..m OBVIOUS
      <4> QED BY <1>6, <1>9, <3>3, <4>1
    <3>4. CASE i > at + m
      <4>1. i >= at + m + 1 BY <3>4
      <4>2. 0 \in Word BY TwoDigits
      <4> QED BY <1>9, <4>1, <4>2
    <3> QED BY <3>1, <3>2, <3>3, <3>4
  <2> QED BY <1>8, <2>1
<1>11. Sums(h, max)[at + m] + c[m] * Place(at + m)
         = Sums(g, max)[at + m] + Sums(src, max)[m] * u * Place(at)
  <2>1. RowInto(h, g, r, at, m) BY <1>9 DEF RowInto
  <2>2. RowAdds(h, g, src, u, c, at, m, max) BY <1>2, <1>3, <1>4, <1>7, <1>10, <2>1, RowSums
  <2> QED BY <2>2 DEF RowAdds
<1>12. \A z \in [0..max-1 -> Word] : z \in [0..max-1 -> Int] BY WordIs
<1>13. g \in [0..max-1 -> Int] /\ h \in [0..max-1 -> Int] /\ src \in [0..max-1 -> Int]
       /\ y \in [0..m-1 -> Int]
  <2>1. y \in [0..m-1 -> Int] BY WordIs
  <2> QED BY <1>3, <1>4, <1>10, <1>12, <2>1
<1>14. Sums(src, max)[m] = Sums(y, m)[m]
  <2>1. m \in 0..max BY <1>2
  <2> QED BY ZenonT(40), <1>2, <1>4, <1>13, <2>1, SumsPrefix
<1>15. PICK l \in 0..max : l = at + m + 1
  <2>1. at + m + 1 \in 0..max BY <1>2
  <2> QED BY <2>1
<1>16. Sums(h, max)[max] = Sums(h, max)[at + m] + c[m] * Place(at + m)
  <2>1. \A j \in l..max-1 : h[j] = 0
    <3>1. \A j \in l..max-1 : j \in 0..max-1 /\ j >= at + m + 1 BY <1>15
    <3> QED BY <1>9, <3>1
  <2>2. Sums(h, max)[max] = Sums(h, max)[l] BY <1>2, <1>13, <2>1, SumsFlat
  <2>3. PICK i \in 0..max-1 : i = at + m /\ i + 1 = l BY <1>2, <1>15
  <2>4. Sums(h, max)[i+1] = Sums(h, max)[i] + h[i] * Place(i) BY ZenonT(40), <1>2, <1>13, SumsStep
  <2> QED BY <1>9, <2>2, <2>3, <2>4
<1>17. Sums(g, max)[max] = Sums(g, max)[at + m]
  <2>1. PICK i \in 0..max : i = at + m BY <1>2
  <2>2. \A j \in i..max-1 : g[j] = 0
    <3>1. \A j \in i..max-1 : j \in 0..max-1 /\ j >= at + m BY <2>1
    <3> QED BY <1>3, <3>1
  <2>3. Sums(g, max)[max] = Sums(g, max)[i] BY <1>2, <1>13, <2>2, SumsFlat
  <2> QED BY <2>1, <2>3
<1>18. Sums(h, max)[max] = Sums(g, max)[max] + Sums(y, m)[m] * u * Place(at)
  BY <1>11, <1>14, <1>16, <1>17
<1>19. Reaches(h, k + m, m)
  <2>1. k + m = at + m + 1 BY <1>1
  <2> QED BY <1>2, <1>9, <1>10, <2>1 DEF Reaches
<1> QED BY <1>1, <1>2, <1>18, <1>19 DEF FullRowAdded, h

AreFullRows(f, x, y, m) ==
  f = [i \in 0..m |-> IF i = 0 THEN [j \in 0..2*m-1 |-> 0] ELSE FullRow(f[i-1], i, x, y, m)]

FullRows(x, y, m) == CHOOSE f : AreFullRows(f, x, y, m)
-----------------------------------------------------------------------------
\* A row is made of words.
LEMMA FullRowWords ==
  ASSUME NEW m \in Nat \ {0}, NEW x \in [0..m-1 -> Word], NEW y \in [0..m-1 -> Word],
         NEW k \in 1..m, NEW g \in [0..2*m-1 -> Word]
  PROVE  FullRow(g, k, x, y, m) \in [0..2*m-1 -> Word]
<1>1. PICK at \in 0..m-1, u \in Word : at = k - 1 /\ u = x[k-1] /\ at \in Nat
  <2>1. k - 1 \in 0..m-1 OBVIOUS
  <2> QED BY <2>1
<1>2. PICK r, c : /\ RowOf(r, c, g, at, y, u, m)
                  /\ \A j \in 0..m-1 : Row(g, at, y, u, m)[j] = r[j]
                  /\ Row(g, at, y, u, m)[m] = c[m]
  <2>1. \A j \in 0..m-1 : at + j \in 0..2*m-1 OBVIOUS
  <2>2. AreWords(y, g, at, m) BY <2>1 DEF AreWords
  <2>3. IsRowOf(Row(g, at, y, u, m), g, at, y, u, m) BY <1>1, <2>2, RowIs
  <2> QED BY <2>3 DEF IsRowOf
<1>3. \A j \in 0..m : Row(g, at, y, u, m)[j] \in Word
  <2>1. \A j \in 0..m-1 : r[j] \in Word BY <1>2 DEF RowOf
  <2>2. c[m] \in Word
    <3>1. m \in 0..m OBVIOUS
    <3> QED BY <1>2, <3>1 DEF RowOf
  <2>3. \A j \in 0..m : j \in 0..m-1 \/ j = m OBVIOUS
  <2> QED BY <1>2, <2>1, <2>2, <2>3
<1>4. FullRow(g, k, x, y, m)
        = [j \in 0..2*m-1 |-> IF j < at \/ j > at + m THEN g[j] ELSE Row(g, at, y, u, m)[j - k + 1]]
  BY <1>1 DEF FullRow
<1>5. \A j \in 0..2*m-1 : ~(j < at \/ j > at + m) => j - k + 1 \in 0..m BY <1>1
<1> QED BY <1>3, <1>4, <1>5

\* The rows that the product is made of.
LEMMA FullRowsAre ==
  ASSUME NEW m \in Nat \ {0}, NEW x \in [0..m-1 -> Word], NEW y \in [0..m-1 -> Word]
  PROVE  LET f == FullRows(x, y, m)
         IN  /\ f[0] = [j \in 0..2*m-1 |-> 0]
             /\ \A k \in 1..m : f[k] = FullRow(f[k-1], k, x, y, m)
<1> DEFINE V == [0..2*m-1 -> Word]
           zero == [j \in 0..2*m-1 |-> 0]
           next == [k \in 0+1..m |-> [g \in V |-> FullRow(g, k, x, y, m)]]
           rows == FullRows(x, y, m)
<1>1. zero \in V
  <2>1. 0 \in Word BY TwoDigits
  <2> QED BY <2>1
<1>2. next \in [0+1..m -> [V -> V]]
  <2>1. ASSUME NEW k \in 0+1..m, NEW g \in V PROVE FullRow(g, k, x, y, m) \in V
    <3>1. k \in 1..m OBVIOUS
    <3> QED BY <3>1, FullRowWords
  <2> HIDE DEF V
  <2> QED BY <2>1
<1> HIDE DEF V
<1>3. PICK f \in [0..m -> V] :
        f = [k \in 0..m |-> IF k = 0 THEN zero ELSE next[k][f[k-1]]]
  <2> HIDE DEF next, zero
  <2>1. 0 \in Int /\ m \in Int OBVIOUS
  <2>2. \E f \in [0..m -> V] : Iteration(f, 0, m, zero, next)
    BY <1>1, <1>2, <2>1, Iterates
  <2> QED BY <2>2 DEF Iteration
<1>4. ASSUME NEW k \in 0..m, k # 0
      PROVE  next[k][f[k-1]] = FullRow(f[k-1], k, x, y, m)
  <2>1. k \in 0+1..m /\ k - 1 \in 0..m BY <1>4
  <2>2. f[k-1] \in V BY <1>3, <2>1
  <2> QED BY <2>1, <2>2
<1> DEFINE g == [k \in 0..m |-> IF k = 0 THEN zero ELSE FullRow(f[k-1], k, x, y, m)]
<1>5. f = g
  <2> HIDE DEF next, zero
  <2>1. ASSUME NEW k \in 0..m PROVE f[k] = g[k] BY <1>3, <1>4
  <2>2. f = [k \in 0..m |-> f[k]] BY <1>3
  <2> QED BY <2>1, <2>2
<1>6. AreFullRows(f, x, y, m) BY <1>5 DEF AreFullRows
<1>7. AreFullRows(rows, x, y, m)
  <2> HIDE DEF AreFullRows
  <2> QED BY <1>6 DEF FullRows
<1> HIDE DEF rows, next, g
<1>8. rows[0] = zero
  <2>1. 0 \in 0..m OBVIOUS
  <2> QED BY <1>7, <2>1 DEF AreFullRows
<1>9. ASSUME NEW k \in 1..m PROVE rows[k] = FullRow(rows[k-1], k, x, y, m)
  <2>1. k \in 0..m /\ k # 0 OBVIOUS
  <2> QED BY <1>7, <2>1 DEF AreFullRows
<1> QED BY <1>8, <1>9 DEF rows

\* tc_full_multiply gives the product.
LEMMA FullProductIs ==
  ASSUME NEW n \in Nat \ {0}, NEW v \in AInt(n), NEW u \in AInt(n)
  PROVE  LET max == 2 * NWords(n)
             w == FullProduct(v, u)
         IN  w \in [0..max-1 -> Word] /\ Sums(w, max)[max] = Value(v) * Value(u)
<1>1. PICK m \in Nat \ {0} : m = NWords(n) BY WidthOf
<1>2. PICK x \in [0..m-1 -> Word], y \in [0..m-1 -> Word] :
        /\ x = v.w /\ y = u.w /\ Value(v) = Sums(x, m)[m] /\ Value(u) = Sums(y, m)[m]
  BY <1>1, IntegerOf
<1>3. \A z \in [0..m-1 -> Word] : z \in [0..m-1 -> Int] BY WordIs
<1>4. x \in [0..m-1 -> Int] /\ y \in [0..m-1 -> Int] BY <1>3
<1> DEFINE rows == FullRows(x, y, m)
<1>5. FullProduct(v, u) = rows[m]
  <2>1. v.n = n BY IntegerOf
  <2> QED BY <1>1, <1>2, <2>1 DEF FullProduct, FullRows, AreFullRows, FullRow
<1>6. rows[0] = [j \in 0..2*m-1 |-> 0] /\ \A k \in 1..m : rows[k] = FullRow(rows[k-1], k, x, y, m)
  BY FullRowsAre
<1> HIDE DEF rows
<1>7. PICK sy \in Int : sy = Sums(y, m)[m]
  <2>1. m \in Nat /\ m \in 0..m OBVIOUS
  <2> QED BY <1>4, <2>1, SumsInt
<1> DEFINE S == {i \in 0..m : Reaches(rows[i], i + m, m)
                              /\ Sums(rows[i], 2*m)[2*m] = sy * Sums(x, m)[i]}
<1>8. 0 \in S
  <2>1. rows[0] \in [0..2*m-1 -> Word]
    <3>1. 0 \in Word BY TwoDigits
    <3> QED BY <1>6, <3>1
  <2>2. \A j \in 0..2*m-1 : rows[0][j] = 0 BY <1>6
  <2>3. Reaches(rows[0], 0 + m, m) BY <2>1, <2>2 DEF Reaches
  <2>4. Sums(rows[0], 2*m)[2*m] = 0
    <3>1. PICK z : z = rows[0] OBVIOUS
    <3>2. PICK max \in Nat : max = 2 * m
      <4>1. 2 * m \in Nat OBVIOUS
      <4> QED BY <4>1
    <3>3. z \in [0..max-1 -> Int]
      <4>1. 0 \in Int OBVIOUS
      <4> QED BY <1>6, <3>1, <3>2, <4>1
    <3>4. \A j \in 0..max-1 : z[j] = 0 BY <2>2, <3>1, <3>2
    <3>5. Sums(z, max)[max] = 0 BY <3>3, <3>4, SumsZero
    <3> QED BY <3>1, <3>2, <3>5
  <2>5. Sums(x, m)[0] = 0
    <3>1. m \in Nat OBVIOUS
    <3> QED BY <1>4, <3>1, SumsAre
  <2>6. sy * 0 = 0 /\ 0 \in 0..m OBVIOUS
  <2> QED BY <2>3, <2>4, <2>5, <2>6
<1>9. ASSUME NEW i \in 0..m-1, i \in S PROVE i + 1 \in S
  <2>1. PICK k \in 1..m : k = i + 1 /\ k - 1 = i
    <3>1. i + 1 \in 1..m /\ (i + 1) - 1 = i OBVIOUS
    <3> QED BY <3>1
  <2>2. PICK g : g = rows[i] OBVIOUS
  <2>3. Reaches(g, (k - 1) + m, m) BY <1>9, <2>1, <2>2
  <2>4. FullRowAdded(FullRow(g, k, x, y, m), g, k, x, y, m) BY <2>3, FullRowIs
  <2>5. rows[k] = FullRow(g, k, x, y, m) BY <1>6, <2>1, <2>2
  <2>6. /\ Reaches(rows[k], k + m, m)
        /\ Sums(rows[k], 2*m)[2*m] = Sums(g, 2*m)[2*m] + Sums(y, m)[m] * x[k-1] * Place(k-1)
    BY <2>4, <2>5 DEF FullRowAdded
  <2>7. PICK sx \in Int, xi \in Int, pi \in Int :
          /\ sx = Sums(x, m)[i] /\ xi = x[i] /\ pi = Place(i) /\ Sums(x, m)[i+1] = sx + xi * pi
    <3>1. m \in Nat OBVIOUS
    <3>2. /\ Sums(x, m)[i] \in Int /\ x[i] \in Int /\ Place(i) \in Nat \ {0}
          /\ Sums(x, m)[i+1] = Sums(x, m)[i] + x[i] * Place(i)
      BY <1>4, <3>1, SumsStep
    <3> QED BY <3>2
  <2>8. Sums(rows[k], 2*m)[2*m] = sy * sx + sy * xi * pi BY <1>7, <1>9, <2>1, <2>2, <2>6, <2>7
  <2>9. sy * (sx + xi * pi) = sy * sx + sy * xi * pi OBVIOUS
  <2>10. k \in 0..m OBVIOUS
  <2> QED BY <2>1, <2>6, <2>7, <2>8, <2>9, <2>10
<1> HIDE DEF S
<1>10. \A i \in 0..m : i \in S
  <2>1. m \in Nat OBVIOUS
  <2> QED BY <1>8, <1>9, <2>1, Induct
<1>11. Reaches(rows[m], m + m, m) /\ Sums(rows[m], 2*m)[2*m] = sy * Sums(x, m)[m]
  <2>1. m \in 0..m OBVIOUS
  <2>2. m \in S BY <1>10, <2>1
  <2> QED BY <2>2 DEF S
<1>12. PICK sx \in Int : sx = Sums(x, m)[m]
  <2>1. m \in Nat /\ m \in 0..m OBVIOUS
  <2> QED BY <1>4, <2>1, SumsInt
<1>13. sy * sx = sx * sy OBVIOUS
<1> QED BY <1>1, <1>2, <1>5, <1>7, <1>11, <1>12, <1>13 DEF Reaches

\* midint_ufullmul loses nothing.
LEMMA FullMulExact ==
  ASSUME NEW n \in Nat \ {0}, FullMulFits(n), NEW v, Canonical(v, n), NEW u, Canonical(u, n)
  PROVE  Canonical(FullMul(v, u), 2 * n) /\ Value(FullMul(v, u)) = Value(v) * Value(u)
<1>1. v \in AInt(n) /\ u \in AInt(n) /\ v.n = n BY IntegerOf DEF Canonical
<1>2. PICK m \in Nat \ {0} : m = NWords(n) BY WidthOf
<1>3. PICK d \in Nat \ {0} : d = 2 * n
  <2>1. 2 * n \in Nat \ {0} OBVIOUS
  <2> QED BY <2>1
<1>4. PICK l \in Nat \ {0} : l = NWords(d) BY WidthOf
<1>5. PICK max \in Nat : max = 2 * m
  <2>1. 2 * m \in Nat OBVIOUS
  <2> QED BY <2>1
<1>6. PICK w \in [0..max-1 -> Word] : w = FullProduct(v, u) /\ Sums(w, max)[max] = Value(v) * Value(u)
  BY <1>1, <1>2, <1>5, FullProductIs
<1>7. PICK x \in Nat, y \in Nat, p \in Nat \ {0} :
        x = Value(v) /\ y = Value(u) /\ p = 2^n /\ x < p /\ y < p /\ 2^d = p * p
  <2>1. PICK p \in Nat \ {0} : p = 2^n BY WidthOf
  <2>2. Value(v) \in 0..p-1 /\ Value(u) \in 0..p-1 BY <2>1, CanonicalValue
  <2>3. 2^(n + n) = 2^n * 2^n
    <3>1. n \in Nat OBVIOUS
    <3> QED BY <3>1, PowersOf
  <2>4. d = n + n BY <1>3
  <2> QED BY <2>1, <2>2, <2>3, <2>4
<1>8. PICK z \in Nat : z = x * y /\ z < p * p
  <2>1. x * y \in Nat OBVIOUS
  <2>2. PICK e \in Nat, f \in Nat : p = x + 1 + e /\ p = y + 1 + f
    <3>1. p - 1 - x \in Nat /\ p = x + 1 + (p - 1 - x) /\ p - 1 - y \in Nat /\ p = y + 1 + (p - 1 - y)
      BY <1>7
    <3> QED BY <3>1
  <2>3. (x + 1 + e) * (y + 1 + f) = x * y + x + x * f + y + 1 + f + e * y + e + e * f
        /\ x * f \in Nat /\ e * y \in Nat /\ e * f \in Nat
    OBVIOUS
  <2>4. PICK a1 \in Nat, a2 \in Nat, a3 \in Nat, a4 \in Nat :
          a1 = x * y /\ a2 = x * f /\ a3 = e * y /\ a4 = e * f
    BY <2>1, <2>3
  <2>5. p * p = a1 + x + a2 + y + 1 + f + a3 + e + a4 BY <2>2, <2>3, <2>4
  <2>6. PICK q \in Nat : q = p * p OBVIOUS
  <2> QED BY <2>4, <2>5, <2>6
<1>9. l <= max /\ (l # max => m = 1 /\ l = 1)
  <2>1. CASE IsBignum(n)
    <3>1. l = max BY <1>2, <1>3, <1>4, <1>5, <2>1 DEF FullMulFits
    <3> QED BY <3>1
  <2>2. CASE ~IsBignum(n)
    <3>1. m = 1 BY <1>2, <2>2, WidthOf
    <3>2. PICK bits \in Nat \ {0} : bits = WordBits /\ n <= bits
      BY <2>2, WordBitsAssumption DEF IsBignum
    <3>3. PICK last \in 1..bits : d = (l - 1) * bits + last BY <1>4, <3>2, WidthOf
    <3>4. l <= 2
      <4>1. SUFFICES ASSUME l > 2 PROVE FALSE OBVIOUS
      <4>2. PICK e \in Nat : l - 1 = 2 + e
        <5>1. l - 3 \in Nat /\ l - 1 = 2 + (l - 3) BY <4>1
        <5> QED BY <5>1
      <4>3. (2 + e) * bits = bits + bits + e * bits /\ e * bits \in Nat OBVIOUS
      <4>4. PICK f \in Nat : f = e * bits BY <4>3
      <4>5. d = bits + bits + f + last BY <3>3, <4>2, <4>3, <4>4
      <4> QED BY <1>3, <3>2, <4>5
    <3> QED BY <1>5, <3>1, <3>4
  <2> QED BY <2>1, <2>2
<1>10. w \in [0..max-1 -> Int] BY WordIs
<1> DEFINE r == [i \in 0..l-1 |-> w[i]]
<1>11. FullMul(v, u) = [n |-> d, w |-> r] BY <1>1, <1>3, <1>4, <1>6 DEF FullMul, Idx
<1>12. r \in [0..l-1 -> Word] /\ r \in [0..l-1 -> Int] /\ \A i \in 0..l-1 : w[i] = r[i]
  <2>1. \A i \in 0..l-1 : i \in 0..max-1 BY <1>9
  <2>2. r \in [0..l-1 -> Word] BY <2>1
  <2>3. \A g \in [0..l-1 -> Word] : g \in [0..l-1 -> Int] BY WordIs
  <2>4. \A i \in 0..l-1 : w[i] = r[i] OBVIOUS
  <2> HIDE DEF r
  <2> QED BY <2>2, <2>3, <2>4
<1> HIDE DEF r
<1>13. Sums(r, l)[l] = Sums(w, max)[l]
  <2>1. l \in 0..max BY <1>9
  <2> QED BY ZenonT(40), <1>10, <1>12, <2>1, SumsPrefix
<1>14. Sums(w, max)[l] = z
  <2>1. Sums(w, max)[max] = z BY <1>6, <1>7, <1>8
  <2>2. CASE l = max BY <2>1, <2>2
  <2>3. CASE l # max
    <3>1. l = 1 /\ max = 2 BY <1>5, <1>9, <2>3
    <3>2. PICK h \in Nat : Sums(w, max)[max] = Sums(w, max)[1] + h * Place(1)
      <4>1. 1 \in 0..max BY <3>1
      <4> QED BY <4>1, UpperPart
    <3>3. PICK base \in Nat \ {0} : base = Base /\ Place(1) = base
      <4>1. Place(0 + 1) = Place(0) * Base /\ Place(0) = 1 /\ Base \in Nat \ {0} BY Places_
      <4>2. 0 + 1 = 1 OBVIOUS
      <4> QED BY <4>1, <4>2
    <3>4. z < base
      <4>1. NWords(d) = 1 BY <1>4, <3>1
      <4>2. ~IsBignum(d) BY <4>1, WidthOf
      <4>3. PICK q \in Nat \ {0}, c \in Nat \ {0} : q = 2^d /\ base = q * c BY ZenonT(40), <3>3, <4>2, WholeSums
      <4>4. q <= base
        <5>1. PICK e \in Nat : c = e + 1
          <6>1. c - 1 \in Nat /\ c = (c - 1) + 1 OBVIOUS
          <6> QED BY <6>1
        <5>2. q * (e + 1) = q * e + q /\ q * e \in Nat OBVIOUS
        <5>3. PICK f \in Nat : f = q * e BY <5>2
        <5> QED BY <4>3, <5>1, <5>2, <5>3
      <4>5. z < q BY <1>7, <1>8, <4>3
      <4> QED BY <4>4, <4>5
    <3>5. PICK s \in Nat : s = Sums(w, max)[1]
      <4>1. 1 \in 0..max BY <3>1
      <4>2. Sums(w, max)[1] \in 0..Place(1)-1 BY <4>1, SumsBound
      <4> QED BY <3>3, <4>2
    <3>6. z = s + h * base BY <2>1, <3>2, <3>3, <3>5
    <3>7. h = 0
      <4>1. SUFFICES ASSUME h # 0 PROVE FALSE OBVIOUS
      <4>2. PICK e \in Nat : h = e + 1
        <5>1. h - 1 \in Nat /\ h = (h - 1) + 1 BY <4>1
        <5> QED BY <5>1
      <4>3. (e + 1) * base = e * base + base /\ e * base \in Nat OBVIOUS
      <4>4. PICK f \in Nat : f = e * base BY <4>3
      <4>5. z = s + (f + base) BY <3>6, <4>2, <4>3, <4>4
      <4> QED BY <3>4, <4>5
    <3>8. 0 * base = 0 OBVIOUS
    <3>9. z = s BY <3>6, <3>7, <3>8
    <3> QED BY <3>1, <3>5, <3>9
  <2> QED BY <2>2, <2>3
<1>15. PICK res : res = [n |-> d, w |-> r] OBVIOUS
<1>16. res \in AInt(d) /\ res.w = r BY <1>4, <1>12, <1>15 DEF AInt, Idx
<1>17. Value(res) = z BY <1>4, <1>13, <1>14, <1>16, IntegerOf
<1>18. Canonical(res, d)
  <2>1. Value(res) < 2^d BY <1>7, <1>8, <1>17
  <2> QED BY <1>16, <2>1, CanonicalIs
<1> QED BY <1>3, <1>7, <1>8, <1>11, <1>15, <1>17, <1>18
=============================================================================
