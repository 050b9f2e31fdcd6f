----------------------------- MODULE APInt_proofs -----------------------------
(***************************************************************************)
(* Of a client of src/apint.c that makes no broken call: its integers stay *)
(* canonical (APIntTypes), and every call does to the numbers they stand   *)
(* for what include/apint.h says (APIntImplements).  The division comes    *)
(* first, then what the calls ask, then the calls one by one.              *)
(***************************************************************************)
EXTENDS APInt, Words_proofs
-----------------------------------------------------------------------------
(***************************************************************************)
(* What is asked of integers.                                              *)
(***************************************************************************)
\* midint_is_signed_min tells whether the integer is 2^(n-1).
LEMMA IsSignedMinExact ==
  ASSUME NEW n \in Nat \ {0}, NEW v \in AInt(n)
  PROVE  IsSignedMin(v) <=> Value(v) = 2^(n-1)
<1>1. PICK m \in Nat \ {0} : m = NWords(n) BY WidthOf
<1>2. /\ v.w \in [0..m-1 -> Word] /\ v.w \in [0..m-1 -> Int] /\ Value(v) = Sums(v.w, m)[m]
      /\ v.n = n /\ Top(v) = m - 1
  BY <1>1, IntegerOf
<1> DEFINE top == 2^(LastBits(n)-1)
           z == [i \in 0..m-1 |-> IF i = m - 1 THEN top ELSE 0]
<1>3. top \in Word /\ 2^(n-1) = top * Place(m-1) BY <1>1, SignPlace
<1> HIDE DEF top
<1>4. /\ z \in [0..m-1 -> Word] /\ z \in [0..m-1 -> Int] /\ z[m-1] = top
      /\ \A j \in 0..m-2 : z[j] = 0
  <2>1. PICK base \in Nat : base = Base /\ base >= 2 BY Places_
  <2>2. 0 \in 0..base-1 BY <2>1
  <2>3. 0 \in Word BY <2>1, <2>2 DEF Word
  <2>4. m - 1 \in 0..m-1 BY <1>1
  <2>5. z[m-1] = top BY <2>4
  <2>6. z \in [0..m-1 -> Word] BY <1>3, <2>3
  <2>7. \A j \in 0..m-2 : z[j] = 0
    <3>1. TAKE j \in 0..m-2
    <3>2. j \in 0..m-1 /\ j # m - 1 BY <1>1
    <3> QED BY <3>2
  <2>8. z \in [0..m-1 -> Int] BY <1>3, WordIs
  <2> QED BY <2>5, <2>6, <2>7, <2>8
<1>5. m - 1 \in 0..m-1 /\ m \in Nat /\ m - 1 - 1 = m - 2 BY <1>1
<1>6. Sums(z, m)[m] = top * Place(m-1)
  <2>1. OnlyAt(z, m - 1, m) BY DEF OnlyAt
  <2> HIDE DEF z
  <2>2. Sums(z, m)[m] = z[m-1] * Place(m-1) BY <1>4, <1>5, <2>1, SumsOne
  <2> QED BY <1>4, <2>2
<1> HIDE DEF z
<1>7. IsSignedMin(v) <=> v.w[m-1] = top /\ \A i \in 0..m-2 : v.w[i] = 0
  BY <1>2, <1>5 DEF IsSignedMin, top
<1>8. ASSUME Value(v) = 2^(n-1) PROVE v.w[m-1] = top /\ \A i \in 0..m-2 : v.w[i] = 0
  <2>1. v.w = z BY <1>2, <1>3, <1>4, <1>5, <1>6, <1>8, SumsTell
  <2> QED BY <1>4, <2>1
<1>9. ASSUME v.w[m-1] = top, \A i \in 0..m-2 : v.w[i] = 0 PROVE Value(v) = 2^(n-1)
  <2>1. \A i \in 0..m-1 : i # m - 1 => v.w[i] = 0
    <3>1. TAKE i \in 0..m-1
    <3>2. i # m - 1 => i \in 0..m-2 BY <1>1
    <3> QED BY <1>9, <3>2
  <2>2. OnlyAt(v.w, m - 1, m) BY <2>1 DEF OnlyAt
  <2>3. Sums(v.w, m)[m] = v.w[m-1] * Place(m-1) BY <1>2, <1>5, <2>2, SumsOne
  <2> QED BY <1>2, <1>3, <1>9, <2>3
<1> QED BY <1>7, <1>8, <1>9

\* cmp_bignums orders two integers of a width as their numbers are.
LEMMA CmpBignumsExact ==
  ASSUME NEW n \in Nat \ {0}, NEW v \in AInt(n), NEW u \in AInt(n)
  PROVE  CmpBignums(v, u) = Cmp(Value(v), Value(u))
<1>1. PICK m \in Nat \ {0} : m = NWords(n) BY WidthOf
<1>2. /\ v.w \in [0..m-1 -> Word] /\ Value(v) = Sums(v.w, m)[m] /\ Top(v) = m - 1
      /\ u.w \in [0..m-1 -> Word] /\ Value(u) = Sums(u.w, m)[m] /\ Top(u) = m - 1
  BY <1>1, IntegerOf
<1>3. PICK p \in Nat, q \in Nat : p = Value(v) /\ q = Value(u) BY ValueNat
<1> DEFINE at(i) == <<Top(v) - i, Top(u) - i>>
           word(z, i) == IF i \in DOMAIN z.w THEN z.w[i] ELSE 0
           differ == {i \in 0..Top(u) : word(v, at(i)[1]) # word(u, at(i)[2])}
           D == {i \in 0..m-1 : v.w[m-1-i] # u.w[m-1-i]}
<1>4. ASSUME NEW i \in 0..m-1
      PROVE  word(v, at(i)[1]) = v.w[m-1-i] /\ word(u, at(i)[2]) = u.w[m-1-i]
  <2>1. m - 1 - i \in 0..m-1 BY <1>1
  <2>2. DOMAIN v.w = 0..m-1 /\ DOMAIN u.w = 0..m-1 BY <1>2
  <2>3. at(i)[1] = m - 1 - i /\ at(i)[2] = m - 1 - i BY <1>2
  <2> HIDE DEF at
  <2> QED BY <2>1, <2>2, <2>3
<1>5. differ = D
  <2> HIDE DEF word, at
  <2> QED BY <1>2, <1>4
<1>6. CmpBignums(v, u) = IF differ = {} THEN 0
                         ELSE Cmp(word(v, at(Min(differ))[1]), word(u, at(Min(differ))[2]))
  BY DEF CmpBignums
<1> HIDE DEF word, at, differ
<1>7. CASE v.w = u.w
  <2>1. D = {} BY <1>7
  <2>2. CmpBignums(v, u) = 0 BY <1>5, <1>6, <2>1
  <2>3. p = q BY <1>2, <1>3, <1>7
  <2>4. Cmp(p, q) = 0 BY <2>3 DEF Cmp
  <2> QED BY <1>3, <2>2, <2>4
<1>8. CASE v.w # u.w
  <2>1. PICK i \in 0..m-1 : Below(v.w, u.w, i, m) \/ Below(u.w, v.w, i, m)
    BY <1>1, <1>2, <1>8, LastDiffers
  <2>2. PICK x \in Nat, y \in Nat : x = v.w[i] /\ y = u.w[i] BY <1>2, WordIs
  <2>3. x # y /\ \A j \in i+1..m-1 : v.w[j] = u.w[j] BY <2>1, <2>2 DEF Below
  <2>4. PICK t \in 0..m-1 : t = m - 1 - i /\ i = m - 1 - t
    <3>1. m - 1 - i \in 0..m-1 /\ i = m - 1 - (m - 1 - i) BY <1>1
    <3> QED BY <3>1
  <2>5. t \in D BY <2>2, <2>3, <2>4
  <2>6. ASSUME NEW s \in D PROVE t <= s
    <3>1. SUFFICES ASSUME s < t PROVE FALSE BY <2>4
    <3>2. m - 1 - s \in i+1..m-1 BY <2>4, <3>1
    <3> QED BY <2>3, <3>2
  <2>7. Min(D) = t
    <3>1. \A s \in D : s \in Int OBVIOUS
    <3>2. t \in D /\ (\A s \in D : t <= s) /\ t \in Int BY <2>5, <2>6
    <3> HIDE DEF D
    <3>3. PICK z : z = Min(D) OBVIOUS
    <3>4. z \in D /\ \A s \in D : z <= s BY <3>2, <3>3 DEF Min
    <3>5. z <= t /\ t <= z /\ z \in Int BY <3>1, <3>2, <3>4
    <3> QED BY <3>2, <3>3, <3>5
  <2>8. D # {} BY <2>5
  <2>9. CmpBignums(v, u) = Cmp(x, y)
    <3> HIDE DEF D
    <3> QED BY <1>4, <1>5, <1>6, <2>2, <2>4, <2>7, <2>8
  <2>10. x < y <=> p < q
    <3>1. Below(v.w, u.w, i, m) => x < y /\ p < q BY ZenonT(40), <1>1, <1>2, <1>3, <2>2, SumsLess DEF Below
    <3>2. Below(u.w, v.w, i, m) => y < x /\ q < p BY ZenonT(40), <1>1, <1>2, <1>3, <2>2, SumsLess DEF Below
    <3> QED BY <2>1, <3>1, <3>2
  <2>11. y < x <=> q < p
    <3>1. Below(v.w, u.w, i, m) => x < y /\ p < q BY <1>1, <1>2, <1>3, <2>2, SumsLess DEF Below
    <3>2. Below(u.w, v.w, i, m) => y < x /\ q < p BY <1>1, <1>2, <1>3, <2>2, SumsLess DEF Below
    <3> QED BY <2>1, <3>1, <3>2
  <2>12. Cmp(x, y) = Cmp(p, q) BY <2>10, <2>11 DEF Cmp
  <2> QED BY <1>3, <2>9, <2>12
<1> QED BY <1>7, <1>8
-----------------------------------------------------------------------------
(***************************************************************************)
(* Two's complement, and the change of a width.                            *)
(***************************************************************************)
\* An integer put into more bits, and one of several words put into less
\* than a word.
LEMMA ZextExact ==
  ASSUME NEW u \in Nat \ {0}, NEW v, Canonical(v, u), NEW n \in Nat \ {0}, n >= u \/ ~IsBignum(n),
         NEW r \in Ext(v, n, FALSE)
  PROVE  Canonical(r, n) /\ Value(r) = Value(v) % 2^n
<1>1. v \in AInt(u) /\ v.n = u BY IntegerOf DEF Canonical
<1>2. CASE IsBignum(u) /\ IsBignum(n)
  <2> DEFINE i == NWords(u)
             m == NWords(n)
             x == v.w
             y == [j \in 0..m-1 |-> IF j \in 0..i-1 THEN x[j] ELSE 0]
  <2>1. i \in Nat \ {0} /\ i \in Nat /\ m \in Nat \ {0} /\ m \in Nat BY WidthOf
  <2>2. x \in [0..i-1 -> Word] /\ x \in [0..i-1 -> Int] /\ Value(v) = Sums(x, i)[i] /\ DOMAIN x = 0..i-1
    BY <1>1, IntegerOf
  <2>3. r = [n |-> n, w |-> y]
    <3>1. n >= v.n BY <1>1, <1>2
    <3>2. r \in ExtInBignum(v, n, FALSE) BY <1>1, <1>2 DEF Ext
    <3>3. ExtInBignum(v, n, FALSE)
            = {[n |-> n, w |-> [j \in Idx(n) |-> IF j \in DOMAIN v.w THEN v.w[j] ELSE 0]]}
      BY <3>1 DEF ExtInBignum
    <3>4. [j \in Idx(n) |-> IF j \in DOMAIN v.w THEN v.w[j] ELSE 0] = y
      <4>1. \A j \in 0..m-1 : (IF j \in DOMAIN v.w THEN v.w[j] ELSE 0) = y[j] BY <2>2
      <4>2. y = [j \in 0..m-1 |-> y[j]] OBVIOUS
      <4> HIDE DEF y
      <4> QED BY <4>1, <4>2 DEF Idx
    <3> HIDE DEF y
    <3> QED BY <3>2, <3>3, <3>4
  <2> HIDE DEF x
  <2>4. y \in [0..m-1 -> Word] /\ y \in [0..m-1 -> Int]
    <3>1. \A j \in 0..m-1 : y[j] \in Word /\ y[j] \in Int
      <4>1. 0 \in Word
        <5>1. Base \in Nat /\ Base >= 2 BY Places_
        <5> QED BY <5>1 DEF Word
      <4>2. 0 \in Int OBVIOUS
      <4> QED BY <2>2, <4>1, <4>2
    <3>2. y = [j \in 0..m-1 |-> y[j]] OBVIOUS
    <3> HIDE DEF y
    <3> QED BY <3>1, <3>2
  <2>5. i <= m
    <3>1. n >= u BY <1>2
    <3>2. PICK w \in Nat \ {0} : w = WordBits BY WordBitsAssumption
    <3>3. i = (u + w - 1) \div w /\ m = (n + w - 1) \div w BY <3>2 DEF NWords
    <3>4. PICK p \in Int, q \in Int : p = u + w - 1 /\ q = n + w - 1 /\ p <= q BY <3>1
    <3>5. p = (p \div w) * w + (p % w) /\ p % w \in 0..w-1 /\ p \div w \in Int BY DivModOf
    <3>6. q = (q \div w) * w + (q % w) /\ q % w \in 0..w-1 /\ q \div w \in Int BY DivModOf
    <3>7. PICK d \in Int, e \in Int : d = p \div w /\ e = q \div w BY <3>5, <3>6
    <3>8. PICK s \in 0..w-1 : p = d * w + s BY <3>5, <3>7
    <3>9. PICK t \in 0..w-1 : q = e * w + t BY <3>6, <3>7
    <3>10. d <= e
      <4>1. SUFFICES ASSUME e < d PROVE FALSE OBVIOUS
      <4>2. PICK f \in Nat : d = e + 1 + f
        <5>1. d - e - 1 \in Nat /\ d = e + 1 + (d - e - 1) BY <4>1
        <5> QED BY <5>1
      <4>3. (e + 1 + f) * w = e * w + w + f * w /\ f * w \in Nat /\ e * w \in Int OBVIOUS
      <4>4. PICK g \in Nat, k \in Int : g = f * w /\ k = e * w BY <4>3
      <4>5. p = k + w + g + s BY <3>8, <4>2, <4>3, <4>4
      <4>6. q = k + t BY <3>9, <4>4
      <4> QED BY <3>4, <4>5, <4>6
    <3> QED BY <3>3, <3>4, <3>7, <3>10
  <2>6. \A j \in i..m-1 : y[j] = 0
    <3>1. \A j \in i..m-1 : j \in 0..m-1 /\ j \notin 0..i-1 BY <2>1
    <3> QED BY <3>1
  <2>7. \A j \in 0..i-1 : x[j] = y[j]
    <3>1. \A j \in 0..i-1 : j \in 0..m-1 BY <2>1, <2>5
    <3> QED BY <3>1
  <2>8. r \in AInt(n)
    <3> HIDE DEF y
    <3> QED BY <2>3, <2>4 DEF AInt, Idx
  <2>9. Value(r) = Sums(y, m)[m]
    <3> HIDE DEF y
    <3> QED BY <2>3 DEF Value
  <2> HIDE DEF y, i, m
  <2>10. i \in 0..m /\ i \in 0..i BY <2>1, <2>5
  <2>11. Sums(y, m)[m] = Sums(y, m)[i] BY <2>1, <2>4, <2>6, <2>10, SumsFlat
  <2>12. Sums(x, i)[i] = Sums(y, m)[i]
    <3>1. i <= m BY <2>5
    <3> QED BY ZenonT(40), <2>1, <2>2, <2>4, <2>7, <2>10, <3>1, SumsSame
  <2>13. Value(r) = Value(v) BY <2>2, <2>9, <2>11, <2>12
  <2>14. Value(v) < 2^n
    <3>1. Value(v) \in 0..2^u-1 BY CanonicalValue
    <3>2. 2^u <= 2^n
      <4>1. u <= n /\ u \in Nat /\ n \in Nat BY <1>2
      <4> QED BY <4>1, PowerMonotone
    <3>3. PICK p \in Nat, q \in Nat : p = 2^u /\ q = 2^n BY WidthOf
    <3> QED BY <3>1, <3>2, <3>3
  <2>15. Canonical(r, n) BY <2>8, <2>13, <2>14, CanonicalIs
  <2> QED BY <2>13, <2>15, CanonicalValue
<1>3. CASE ~IsBignum(u) /\ IsBignum(n)
  <2>1. r = Init1(n, v.w[0], FALSE) BY <1>1, <1>3 DEF Ext
  <2>2. v.w[0] \in Word /\ Value(v) = v.w[0] BY <1>1, <1>3, OneWord
  <2> QED BY <2>1, <2>2, Init1Exact
<1>4. CASE ~IsBignum(n)
  <2>1. r = FromInt(n, v.w[0] % 2^n) BY <1>1, <1>4 DEF Ext
  <2>2. v.w[0] % 2^n = Value(v) % 2^n BY <1>1, <1>4, CutExact
  <2>3. Value(v) % 2^n \in 0..2^n-1
    <3>1. PICK x \in Int, p \in Nat \ {0} : x = Value(v) /\ p = 2^n BY <1>1, ValueNat, WidthOf
    <3>2. x % p \in 0..p-1 BY DivModOf
    <3> QED BY <3>1, <3>2
  <2> QED BY <1>4, <2>1, <2>2, <2>3, FromIntExact
<1> QED BY <1>2, <1>3, <1>4

\* An integer of one word that keeps its sign in more bits.
LEMMA SextExact ==
  ASSUME NEW u \in Nat \ {0}, ~IsBignum(u), NEW v, Canonical(v, u), NEW n \in Nat \ {0}, n >= u,
         NEW r \in Ext(v, n, TRUE)
  PROVE  Canonical(r, n) /\ Value(r) = Sgn(Value(v), u) % 2^n
<1>1. v \in AInt(u) /\ v.n = u BY IntegerOf DEF Canonical
<1>2. PICK x \in 0..2^u-1 : x = v.w[0] /\ x = Value(v) BY <1>1, OneWord, CanonicalValue
<1>3. SignExtWord(x, u) \in Word /\ SignedWord(SignExtWord(x, u)) = Sgn(x, u) BY SignExtExact
<1>4. CASE IsBignum(n)
  <2>1. r = Init1(n, SignExtWord(x, u), TRUE) BY <1>1, <1>2, <1>4 DEF Ext
  <2> QED BY <1>2, <1>3, <2>1, Init1Signed
<1>5. CASE ~IsBignum(n) /\ n # u
  <2>1. r = FromInt(n, SignExtWord(x, u) % 2^n) BY <1>1, <1>2, <1>5 DEF Ext
  <2>2. PICK y \in Int : y = SignExtWord(x, u) BY <1>3, WordIs
  <2>3. PICK p \in Nat \ {0}, c \in Nat \ {0} : p = 2^n /\ Base = p * c BY <1>5, WholeSums
  <2>4. PICK z \in Int : z = Sgn(x, u) /\ (y = z + 0 * p \/ y = z + c * p)
    <3>1. PICK base \in Int : base = Base /\ base = p * c /\ base = c * p
      <4>1. p * c \in Int /\ p * c = c * p OBVIOUS
      <4> QED BY <2>3, <4>1
    <3>2. Sgn(x, u) = IF y >= Base \div 2 THEN y - base ELSE y BY <1>3, <2>2, <3>1 DEF SignedWord
    <3>3. \A s \in Int : s = y \/ s = y - base => y = s + 0 * p \/ y = s + base OBVIOUS
    <3>4. Sgn(x, u) \in Int /\ (Sgn(x, u) = y \/ Sgn(x, u) = y - base) BY <3>2
    <3> QED BY <3>1, <3>3, <3>4
  <2>5. y % p = z % p
    <3>1. 0 \in Int /\ c \in Int OBVIOUS
    <3>2. CASE y = z + 0 * p BY <2>2, <2>4, <3>1, <3>2, Congruent
    <3>3. CASE y = z + c * p BY ZenonT(40), <2>2, <2>4, <3>1, <3>3, Congruent
    <3> QED BY <2>4, <3>2, <3>3
  <2>6. y % p \in 0..p-1 BY DivModOf
  <2>7. Canonical(r, n) /\ Value(r) = y % p BY <1>5, <2>1, <2>2, <2>3, <2>6, FromIntExact
  <2> QED BY <1>2, <2>3, <2>4, <2>5, <2>7
<1>6. CASE ~IsBignum(n) /\ n = u
  <2>1. r = FromInt(n, x % 2^n) BY <1>1, <1>2, <1>6 DEF Ext
  <2>2. PICK p \in Nat \ {0}, h \in Int : p = 2^n /\ h = 2^(n-1) BY <1>6, SignIs, WidthOf
  <2>3. x % p = Sgn(x, u) % p
    <3>1. CASE x >= h
      <4>1. Sgn(x, u) = x - p BY <1>6, <2>2, <3>1 DEF Sgn
      <4>2. x = (x - p) + 1 * p /\ x - p \in Int /\ x \in Int /\ 1 \in Int OBVIOUS
      <4>3. x % p = (x - p) % p BY <4>2, Congruent
      <4> QED BY <4>1, <4>3
    <3>2. CASE ~(x >= h) BY <1>6, <2>2, <3>2 DEF Sgn
    <3> QED BY <3>1, <3>2
  <2>4. x % p \in 0..p-1 BY DivModOf
  <2> QED BY <1>2, <1>6, <2>1, <2>2, <2>3, <2>4, FromIntExact
<1> QED BY <1>4, <1>5, <1>6
-----------------------------------------------------------------------------
(***************************************************************************)
(* Calls of integers of one word.                                          *)
(***************************************************************************)
\* midint_is_all_ones and midint_is_smin, of one word.
LEMMA AllOnesExact ==
  ASSUME NEW n \in Nat \ {0}, ~IsBignum(n), NEW v \in AInt(n)
  PROVE  /\ IsAllOnes(v) <=> Value(v) = 2^n - 1
         /\ IsSmin(v) <=> Value(v) = 2^(n-1)
<1>1. v.n = n /\ Top(v) = 0 /\ Value(v) = v.w[0] /\ LastBits(n) = n BY OneWord, WholeSums
<1>2. LowWords(v) = {} BY <1>1 DEF LowWords
<1> QED BY <1>1, <1>2 DEF IsAllOnes, IsSmin

\* midint_to_sint, of one word.
LEMMA ToSintExact ==
  ASSUME NEW n \in Nat \ {0}, ~IsBignum(n), NEW v, Canonical(v, n)
  PROVE  ToSint(v) = Sgn(Value(v), n)
<1>1. v \in AInt(n) BY DEF Canonical
<1>2. v.n = n /\ Value(v) = v.w[0] BY <1>1, OneWord
<1>3. v.w[0] \in 0..2^n-1 BY <1>2, CanonicalValue
<1>4. SignExtWord(v.w[0], n) \in Word /\ SignedWord(SignExtWord(v.w[0], n)) = Sgn(v.w[0], n)
  BY <1>3, SignExtExact
<1>5. PICK s \in Nat, h \in Nat, base \in Nat
      : s = SignExtWord(v.w[0], n) /\ h = Base \div 2 /\ base = Base
  BY <1>4, WordIs, HalfWord, Places_
<1>6. ToSint(v) = IF s < h THEN s ELSE s - base BY <1>2, <1>5 DEF ToSint
<1>7. SignedWord(s) = IF s >= h THEN s - base ELSE s BY <1>5 DEF SignedWord
<1> QED BY <1>2, <1>4, <1>5, <1>6, <1>7

\* Two's complement keeps the order of integers of the same sign.
LEMMA SignedCmpExact ==
  ASSUME NEW n \in Nat \ {0}, IsBignum(n), NEW v, Canonical(v, n), NEW u, Canonical(u, n)
  PROVE  SignedCmp(v, u) = Cmp(Sgn(Value(v), n), Sgn(Value(u), n))
<1>1. v \in AInt(n) /\ u \in AInt(n) /\ v.n = n BY IntegerOf DEF Canonical
<1>2. PICK h \in Nat \ {0} : h = 2^(n-1) /\ 2^n = 2 * h BY SignIs
<1>3. PICK x \in 0..2*h-1, y \in 0..2*h-1 : x = Value(v) /\ y = Value(u)
  <2>1. Value(v) \in 0..2^n-1 /\ Value(u) \in 0..2^n-1 BY CanonicalValue
  <2> QED BY <1>2, <2>1
<1>4. (Negative(v) <=> x >= h) /\ (Negative(u) <=> y >= h) BY <1>2, <1>3, SignIs
<1>5. Sgn(x, n) = (IF x >= h THEN x - 2 * h ELSE x) /\ Sgn(y, n) = (IF y >= h THEN y - 2 * h ELSE y)
  BY <1>2 DEF Sgn
<1>6. SignedCmp(v, u) = IF Negative(v) # Negative(u) THEN IF Negative(v) THEN -1 ELSE 1
                        ELSE Cmp(x, y)
  BY <1>1, <1>3, CmpBignumsExact DEF SignedCmp
<1>7. CASE x >= h /\ y >= h
  <2>1. Negative(v) = Negative(u) BY <1>4, <1>7 DEF Negative
  <2>2. SignedCmp(v, u) = Cmp(x, y) BY <1>6, <2>1
  <2>3. Cmp(x, y) = Cmp(x - 2 * h, y - 2 * h)
    <3>1. (x < y <=> x - 2 * h < y - 2 * h) /\ (x > y <=> x - 2 * h > y - 2 * h) OBVIOUS
    <3> QED BY <3>1 DEF Cmp
  <2> QED BY <1>3, <1>5, <1>7, <2>2, <2>3
<1>8. CASE ~(x >= h) /\ ~(y >= h)
  <2>1. Negative(v) = Negative(u) BY <1>4, <1>8 DEF Negative
  <2> QED BY <1>3, <1>5, <1>6, <1>8, <2>1
<1>9. CASE x >= h /\ ~(y >= h)
  <2>1. x - 2 * h < y BY <1>9
  <2>2. Cmp(x - 2 * h, y) = -1 BY <2>1 DEF Cmp
  <2>3. SignedCmp(v, u) = -1 BY <1>4, <1>6, <1>9 DEF Negative
  <2> QED BY <1>3, <1>5, <1>9, <2>2, <2>3
<1>10. CASE ~(x >= h) /\ y >= h
  <2>1. x > y - 2 * h BY <1>10
  <2>2. Cmp(x, y - 2 * h) = 1 BY <2>1 DEF Cmp
  <2>3. SignedCmp(v, u) = 1 BY <1>4, <1>6, <1>10 DEF Negative
  <2> QED BY <1>3, <1>5, <1>10, <2>2, <2>3
<1> QED BY <1>7, <1>8, <1>9, <1>10
-----------------------------------------------------------------------------
(***************************************************************************)
(* The significant bits.                                                   *)
(***************************************************************************)
LEMMA WordSigBitsIs ==
  ASSUME NEW x \in Word
  PROVE  /\ WordSigBits(x) \in 1..WordBits /\ x < 2^WordSigBits(x)
         /\ WordSigBits(x) = 1 \/ x >= 2^(WordSigBits(x) - 1)
<1>1. PICK w \in Nat \ {0} : w = WordBits BY WordBitsAssumption
<1>2. PICK y \in Nat : y = x /\ y < 2^w BY <1>1, WordIs DEF Base
<1> DEFINE T == {k \in Nat : k >= 1 /\ y < 2^k}
<1>3. w \in T BY <1>1, <1>2
<1>4. PICK k \in T : \A j \in T : k <= j BY <1>3, NatMin
<1>5. k \in 1..w BY <1>1, <1>3, <1>4
<1>6. k = 1 \/ y >= 2^(k-1)
  <2>1. SUFFICES ASSUME k # 1, ~(y >= 2^(k-1)) PROVE FALSE OBVIOUS
  <2>2. k - 1 \in Nat /\ k - 1 >= 1 BY <1>4, <2>1
  <2>3. PICK p \in Nat : p = 2^(k-1) BY <2>2, PowerOfTwo
  <2>4. k - 1 \in T BY <2>1, <2>2, <2>3
  <2> QED BY <1>4, <2>4
<1>7. \E i \in 1..WordBits : x < 2^i /\ (i = 1 \/ x >= 2^(i-1)) BY <1>1, <1>2, <1>4, <1>5, <1>6
<1> QED BY <1>7 DEF WordSigBits

\* The significant places: the last is not zero, and all past it are.
LEMMA PlacesIs ==
  ASSUME NEW m \in Nat, NEW f \in [0..m-1 -> Int]
  PROVE  /\ Places(f) \in 0..m
         /\ \A i \in 0..m-1 : i >= Places(f) => f[i] = 0
         /\ Places(f) # 0 => f[Places(f) - 1] # 0
<1> DEFINE T == {i + 1 : i \in {i \in DOMAIN f : f[i] # 0}} \cup {0}
<1>1. DOMAIN f = 0..m-1 OBVIOUS
<1>2. T \subseteq 0..m /\ 0 \in T BY <1>1
<1>3. PICK k \in T : \A j \in T : j <= k BY <1>2, NatMax
<1>4. k \in T /\ \A j \in T : k >= j BY <1>2, <1>3
<1>5. Places(f) \in T /\ \A j \in T : Places(f) >= j BY <1>4 DEF Places, Max
<1>6. PICK p \in 0..m : p = Places(f) BY <1>2, <1>5
<1>7. ASSUME NEW i \in 0..m-1, i >= p, f[i] # 0 PROVE FALSE
  <2>1. i + 1 \in T BY <1>1, <1>7
  <2>2. p >= i + 1 BY <1>5, <1>6, <2>1
  <2> QED BY <1>7, <2>2
<1>8. ASSUME p # 0 PROVE f[p - 1] # 0
  <2>1. PICK i \in {i \in DOMAIN f : f[i] # 0} : p = i + 1 BY <1>5, <1>6, <1>8
  <2>2. p - 1 = i BY <1>1, <2>1
  <2> QED BY <2>1, <2>2
<1> QED BY <1>6, <1>7, <1>8

\* midint_unsigned_sig_bits tells whether the value fits in one word.
LEMMA SigBitsTell ==
  ASSUME NEW n \in Nat \ {0}, NEW v \in AInt(n)
  PROVE  /\ UnsignedSigBits(v) <= WordBits => Value(v) = v.w[0]
         /\ UnsignedSigBits(v) > WordBits => Value(v) >= Base
         /\ UnsignedSigBits(v) \in Nat
<1>1. PICK w \in Nat \ {0} : w = WordBits BY WordBitsAssumption
<1>2. CASE ~IsBignum(n)
  <2>1. Value(v) = v.w[0] /\ v.w[0] \in Word /\ v.n = n BY <1>2, OneWord
  <2>2. UnsignedSigBits(v) = WordSigBits(v.w[0]) BY <1>2, <2>1 DEF UnsignedSigBits
  <2>3. WordSigBits(v.w[0]) \in 1..w BY <1>1, <2>1, WordSigBitsIs
  <2> QED BY <1>1, <2>1, <2>2, <2>3
<1>3. CASE IsBignum(n)
  <2>1. PICK m \in Nat \ {0} : m = NWords(n) BY WidthOf
  <2>2. /\ v.w \in [0..m-1 -> Word] /\ v.w \in [0..m-1 -> Int] /\ Value(v) = Sums(v.w, m)[m] /\ v.n = n
    BY <2>1, IntegerOf
  <2> DEFINE x == v.w
             k == Places(x)
  <2>3. UnsignedSigBits(v) = IF k = 0 THEN 0 ELSE WordSigBits(x[k-1]) + (k-1) * WordBits
    BY <1>3, <2>2 DEF UnsignedSigBits
  <2> HIDE DEF x, k
  <2>4. k \in 0..m /\ (\A i \in 0..m-1 : i >= k => x[i] = 0) /\ (k # 0 => x[k-1] # 0)
    <3>1. m \in Nat /\ x \in [0..m-1 -> Int] BY <2>1, <2>2 DEF x
    <3> QED BY <3>1, PlacesIs DEF k
  <2>5. x \in [0..m-1 -> Word] /\ x \in [0..m-1 -> Int] /\ m \in Nat BY <2>1, <2>2 DEF x
  <2>6. CASE k <= 1
    <3>1. UnsignedSigBits(v) <= WordBits /\ UnsignedSigBits(v) \in Nat
      <4>1. CASE k = 0 BY <1>1, <2>3, <4>1
      <4>2. CASE k = 1
        <5>1. k - 1 = 0 /\ 0 \in 0..m-1 BY <2>1, <4>2
        <5>2. x[0] \in Word BY <2>5, <5>1
        <5>3. PICK s \in 1..w : s = WordSigBits(x[0]) BY <1>1, <5>2, WordSigBitsIs
        <5>4. s + 0 * w = s OBVIOUS
        <5> QED BY <1>1, <2>3, <4>2, <5>1, <5>3, <5>4
      <4> QED BY <2>4, <2>6, <4>1, <4>2
    <3>2. OnlyAt(x, 0, m)
      <4>1. \A j \in 0..m-1 : j # 0 => j >= k BY <2>1, <2>4, <2>6
      <4> QED BY <2>4, <4>1 DEF OnlyAt
    <3>3. 0 \in 0..m-1 BY <2>1
    <3>4. Sums(x, m)[m] = x[0] * Place(0) BY <2>5, <3>2, <3>3, SumsOne
    <3>5. PICK y \in Int : y = x[0] BY <2>5, <3>3
    <3>6. y * 1 = y OBVIOUS
    <3>7. Value(v) = v.w[0] BY <2>2, <3>4, <3>5, <3>6, Places_ DEF x
    <3>8. ~(UnsignedSigBits(v) > WordBits) BY <1>1, <3>1
    <3> QED BY <3>1, <3>7, <3>8
  <2>7. CASE ~(k <= 1)
    <3>1. PICK e \in Nat : k - 1 = e + 1 /\ k - 1 \in 0..m-1 /\ k # 0
      <4>1. k - 2 \in Nat /\ k - 1 = (k - 2) + 1 /\ k - 1 \in 0..m-1 /\ k # 0 BY <2>1, <2>4, <2>7
      <4> QED BY <4>1
    <3>2. x[k-1] \in Word /\ x[k-1] # 0 BY <2>4, <2>5, <3>1
    <3>3. PICK s \in 1..w : s = WordSigBits(x[k-1]) BY <1>1, <3>2, WordSigBitsIs
    <3>4. s + (e + 1) * w > w /\ s + (e + 1) * w \in Nat
      <4>1. (e + 1) * w = e * w + w /\ e * w \in Nat OBVIOUS
      <4> QED BY <4>1
    <3>5. UnsignedSigBits(v) = s + (e + 1) * w BY <1>1, <2>3, <3>1, <3>3
    <3>6. Value(v) >= Base
      <4>1. k - 1 \in 0..m /\ k \in 0..m /\ (k - 1) + 1 = k BY <2>1, <2>4, <3>1
      <4>2. Sums(x, m)[m] = Sums(x, m)[k]
        <5>1. \A j \in k..m-1 : x[j] = 0
          <6>1. \A j \in k..m-1 : j \in 0..m-1 /\ j >= k BY <2>1, <2>4
          <6> QED BY <2>4, <6>1
        <5> QED BY <2>5, <4>1, <5>1, SumsFlat
      <4>3. Sums(x, m)[(k-1)+1] = Sums(x, m)[k-1] + x[k-1] * Place(k-1) BY <2>5, <3>1, SumsAre
      <4>4. Sums(x, m)[k-1] \in 0..Place(k-1)-1 BY <2>5, <4>1, SumsBound
      <4>5. PICK p \in Nat \ {0}, base \in Nat \ {0} :
              /\ p = Place(e) /\ base = Base /\ Place(k-1) = p * base
        <5>1. Place(e) \in Nat \ {0} /\ Place(e + 1) = Place(e) * Base BY PlaceIs
        <5> QED BY SMTT(40), <3>1, <5>1, Places_
      <4>6. PICK q \in Nat, y \in Nat \ {0} : q = p * base /\ y = x[k-1]
        <5>1. p * base \in Nat OBVIOUS
        <5>2. x[k-1] \in Nat \ {0} BY <3>2, WordIs
        <5> QED BY <5>1, <5>2
      <4>7. PICK lo \in Nat : lo = Sums(x, m)[k-1] BY <4>4, <4>5, <4>6
      <4>8. q >= base
        <5>1. PICK d \in Nat : p = d + 1
          <6>1. p - 1 \in Nat /\ p = (p - 1) + 1 OBVIOUS
          <6> QED BY <6>1
        <5>2. (d + 1) * base = d * base + base /\ d * base \in Nat OBVIOUS
        <5> QED BY <4>6, <5>1, <5>2
      <4>9. y * q >= q
        <5>1. PICK d \in Nat : y = d + 1
          <6>1. y - 1 \in Nat /\ y = (y - 1) + 1 OBVIOUS
          <6> QED BY <6>1
        <5>2. (d + 1) * q = d * q + q /\ d * q \in Nat OBVIOUS
        <5> QED BY <5>1, <5>2
      <4>10. y * q \in Nat OBVIOUS
      <4>11. Value(v) = lo + y * q BY <2>2, <4>1, <4>2, <4>3, <4>5, <4>6, <4>7 DEF x
      <4>12. PICK z \in Nat : z = y * q BY <4>10
      <4>13. lo + z >= base BY <4>8, <4>9, <4>12
      <4> QED BY <4>5, <4>11, <4>12, <4>13
    <3>7. ~(UnsignedSigBits(v) <= WordBits) BY <1>1, <3>4, <3>5
    <3> QED BY <3>4, <3>5, <3>6, <3>7
  <2>8. k <= 1 \/ ~(k <= 1) OBVIOUS
  <2> QED BY <2>6, <2>7, <2>8
<1> QED BY <1>2, <1>3

\* midint_unsigned_cmp_imm orders the integer and the word.
LEMMA CmpImmExact ==
  ASSUME NEW n \in Nat \ {0}, NEW v \in AInt(n), NEW k \in Word
  PROVE  (IF UnsignedSigBits(v) > WordBits THEN 1 ELSE Cmp(v.w[0], k)) = Cmp(Value(v), k)
<1>1. PICK w \in Nat, s \in Nat : w = WordBits /\ s = UnsignedSigBits(v)
  BY WordBitsAssumption, SigBitsTell
<1>2. CASE s > w
  <2>1. Value(v) >= Base BY <1>1, <1>2, SigBitsTell
  <2>2. PICK x \in Nat, base \in Nat, i \in Nat : x = Value(v) /\ base = Base /\ i = k /\ i < base
    BY ValueNat, Places_, WordIs
  <2>3. x > i /\ ~(x < i) BY <2>1, <2>2
  <2> QED BY <1>1, <1>2, <2>2, <2>3 DEF Cmp
<1>3. CASE ~(s > w)
  <2>1. s <= w BY <1>3
  <2>2. Value(v) = v.w[0] BY <1>1, <2>1, SigBitsTell
  <2> QED BY <1>1, <1>3, <2>2
<1> QED BY <1>2, <1>3

\* An integer of one word with one of any width.
LEMMA CmpDiffSizesExact ==
  ASSUME NEW n \in Nat \ {0}, ~IsBignum(n), NEW v \in AInt(n), NEW m \in Nat \ {0}, NEW u \in AInt(m)
  PROVE  CmpDiffSizes(v, u) = Cmp(Value(v), Value(u))
<1>1. PICK w \in Nat, s \in Nat : w = WordBits /\ s = UnsignedSigBits(u)
  BY WordBitsAssumption, SigBitsTell
<1>2. v.n = n /\ Value(v) = v.w[0] /\ v.w[0] \in Word /\ u.n = m BY OneWord, IntegerOf
<1>3. CASE IsBignum(m) /\ s > w
  <2>1. CmpDiffSizes(v, u) = -1 BY <1>1, <1>2, <1>3 DEF CmpDiffSizes
  <2>2. Value(u) >= Base BY <1>1, <1>3, SigBitsTell
  <2>3. PICK x \in Nat, y \in Nat, base \in Nat : x = Value(v) /\ y = Value(u) /\ base = Base /\ x < base
    BY <1>2, ValueNat, Places_, WordIs
  <2>4. x < y BY <2>2, <2>3
  <2>5. Cmp(x, y) = -1 BY <2>4 DEF Cmp
  <2> QED BY <2>1, <2>3, <2>5
<1>4. CASE ~(IsBignum(m) /\ s > w)
  <2>1. CmpDiffSizes(v, u) = Cmp(v.w[0], u.w[0]) BY <1>1, <1>2, <1>4 DEF CmpDiffSizes
  <2>2. Value(u) = u.w[0]
    <3>1. CASE IsBignum(m)
      <4>1. s <= w BY <1>4, <3>1
      <4> QED BY <1>1, <4>1, SigBitsTell
    <3>2. CASE ~IsBignum(m) BY <3>2, OneWord
    <3> QED BY <3>1, <3>2
  <2> QED BY <1>2, <2>1, <2>2
<1> QED BY <1>3, <1>4
-----------------------------------------------------------------------------
(***************************************************************************)
(* Signed division, from unsigned division of what is left without signs.  *)
(***************************************************************************)
DividesTo(n, v, u) ==
  /\ Canonical(Udiv(v, u), n) /\ Value(Udiv(v, u)) = (Value(v) \div Value(u)) % 2^n
  /\ Canonical(Urem(v, u), n) /\ Value(Urem(v, u)) = (Value(v) % Value(u)) % 2^n

AbsOf(x) == IF x < 0 THEN -x ELSE x

Quot(p, q) == IF (p < 0) = (q < 0) THEN AbsOf(p) \div AbsOf(q) ELSE -(AbsOf(p) \div AbsOf(q))

\* midint_udiv and midint_urem, of one word.
LEMMA DivideOne ==
  ASSUME NEW n \in Nat \ {0}, ~IsBignum(n), NEW v \in AInt(n), NEW u \in AInt(n), Value(u) # 0
  PROVE  DividesTo(n, v, u)
<1>1. v.n = n /\ Value(v) = v.w[0] /\ Value(u) = u.w[0] /\ v.w[0] \in Word /\ u.w[0] \in Word BY OneWord
<1>2. PICK base \in Nat : base = Base BY Places_
<1>3. PICK x \in 0..base-1, y \in 0..base-1 : x = v.w[0] /\ y = u.w[0] /\ y # 0 BY <1>1, <1>2, WordIs
<1>4. x \in Nat /\ y \in Nat \ {0} BY <1>3
<1>5. x \div y \in 0..x /\ x % y <= x /\ x % y \in 0..y-1 BY <1>4, QuotientIs
<1>6. x \div y \in Word /\ x % y \in Word
  <2>1. PICK q \in 0..x, r \in 0..y-1 : q = x \div y /\ r = x % y BY <1>5
  <2>2. q \in 0..base-1 /\ r \in 0..base-1 BY <1>3
  <2> QED BY <1>2, <2>1, <2>2 DEF Word
<1>7. Udiv(v, u) = Init1(n, x \div y, FALSE) BY <1>1, <1>3 DEF Udiv
<1>8. Urem(v, u) = Init1(n, x % y, FALSE) BY <1>1, <1>3 DEF Urem
<1> QED BY <1>1, <1>3, <1>6, <1>7, <1>8, Init1Exact DEF DividesTo

\* What midint_sdiv makes of its operands: their magnitude, the greatest one
\* included.
LEMMA MagnitudeIs ==
  ASSUME NEW n \in Nat \ {0}, NWords(n) <= 2, NEW v, Canonical(v, n)
  PROVE  /\ Canonical(Magnitude(v), n) /\ Value(Magnitude(v)) = AbsOf(Sgn(Value(v), n))
         /\ Value(v) # 0 => Value(Magnitude(v)) # 0
<1>1. v \in AInt(n) BY DEF Canonical
<1>2. PICK h \in Nat \ {0} : h = 2^(n-1) /\ 2^n = 2 * h BY SignIs
<1>3. PICK x \in 0..2*h-1 : x = Value(v)
  <2>1. Value(v) \in 0..2^n-1 BY CanonicalValue
  <2> QED BY <1>2, <2>1
<1>4. Negative(v) <=> x >= h BY <1>2, <1>3, SignIs
<1>5. CASE x >= h
  <2>1. Magnitude(v) = Negate(v) BY <1>4, <1>5 DEF Magnitude, NegatedIf
  <2>2. Canonical(Negate(v), n) /\ Value(Negate(v)) = (-x) % (2 * h) BY <1>1, <1>2, <1>3, NegateExact
  <2>3. PICK b_ \in Nat \ {0} : b_ = 2 * h OBVIOUS
  <2>4. (-x) % b_ = (-x) + b_
    <3>1. -x \in Int /\ -x < 0 /\ (-x) + b_ >= 0 BY <1>5, <2>3
    <3> QED BY <3>1, WrapsUnder
  <2>5. Sgn(x, n) = x - b_ /\ x - b_ < 0 /\ -(x - b_) = (-x) + b_ BY <1>2, <1>5, <2>3 DEF Sgn
  <2>6. AbsOf(Sgn(x, n)) = (-x) + b_ BY <2>5 DEF AbsOf
  <2>7. (-x) + b_ # 0 BY <2>3
  <2> QED BY <1>3, <2>1, <2>2, <2>3, <2>4, <2>6, <2>7
<1>6. CASE ~(x >= h)
  <2>1. Magnitude(v) = v BY <1>4, <1>6 DEF Magnitude, NegatedIf
  <2>2. Sgn(x, n) = x BY <1>2, <1>6 DEF Sgn
  <2>3. AbsOf(x) = x BY DEF AbsOf
  <2> QED BY <1>3, <2>1, <2>2, <2>3
<1> QED BY <1>5, <1>6

\* The negation of a number modulo a power of two.
LEMMA NegatedMod ==
  ASSUME NEW m \in Nat \ {0}, NEW x \in Int
  PROVE  (-(x % m)) % m = (-x) % m
<1>1. x = (x \div m) * m + (x % m) /\ x % m \in 0..m-1 /\ x \div m \in Int BY DivModOf
<1>2. PICK q \in Int, r \in 0..m-1 : q = x \div m /\ r = x % m BY <1>1
<1>3. -r = -x + q * m /\ q * m \in Int
  <2>1. PICK s \in Int : s = q * m OBVIOUS
  <2>2. x = s + r BY <1>1, <1>2, <2>1
  <2> QED BY <2>1, <2>2
<1>4. (-r) % m = (-x) % m
  <2>1. -r \in Int /\ -x \in Int OBVIOUS
  <2> QED BY <1>3, <2>1, Congruent
<1> QED BY <1>2, <1>4

\* Negating a result that is known modulo 2^n.
LEMMA NegatedIfIs ==
  ASSUME NEW n \in Nat \ {0}, NWords(n) <= 2, NEW v, Canonical(v, n), NEW x \in Int,
         Value(v) = x % 2^n, NEW c \in BOOLEAN
  PROVE  /\ Canonical(NegatedIf(c, v), n)
         /\ Value(NegatedIf(c, v)) = (IF c THEN -x ELSE x) % 2^n
<1>1. CASE c = TRUE
  <2>1. v \in AInt(n) BY DEF Canonical
  <2>2. Canonical(Negate(v), n) /\ Value(Negate(v)) = (-(x % 2^n)) % 2^n BY <2>1, NegateExact
  <2>3. (-(x % 2^n)) % 2^n = (-x) % 2^n
    <3>1. 2^n \in Nat \ {0} BY WidthOf
    <3> QED BY <3>1, NegatedMod
  <2> QED BY <1>1, <2>2, <2>3 DEF NegatedIf
<1>2. CASE c = FALSE BY <1>2 DEF NegatedIf
<1> QED BY <1>1, <1>2

\* The remainder, with the sign of the dividend, is what the quotient leaves.
LEMMA SignedParts ==
  ASSUME NEW p \in Int, NEW q \in Int, q # 0
  PROVE  p - q * Quot(p, q) = IF p < 0 THEN -(AbsOf(p) % AbsOf(q)) ELSE AbsOf(p) % AbsOf(q)
<1>1. PICK x \in Nat, y \in Nat \ {0}
      : x = AbsOf(p) /\ y = AbsOf(q) /\ (p = x \/ p = -x) /\ (q = y \/ q = -y)
             /\ (p < 0 <=> p # x) /\ (q < 0 <=> q # y)
  <2>1. AbsOf(p) \in Nat /\ AbsOf(q) \in Nat \ {0} /\ (p = AbsOf(p) \/ p = -AbsOf(p))
        /\ (q = AbsOf(q) \/ q = -AbsOf(q)) /\ (p < 0 <=> p # AbsOf(p)) /\ (q < 0 <=> q # AbsOf(q))
    BY DEF AbsOf
  <2> QED BY <2>1
<1>2. x = (x \div y) * y + (x % y) /\ x % y \in 0..y-1 /\ x \div y \in Int BY DivModOf
<1>3. PICK t \in Int, r \in Int : t = x \div y /\ r = x % y /\ x = t * y + r BY <1>2
<1>4. PICK s \in Int : s = t * y /\ x = s + r
  <2>1. t * y \in Int OBVIOUS
  <2> QED BY <1>3, <2>1
<1>5. y * t = s /\ (-y) * t = -s /\ y * (-t) = -s /\ (-y) * (-t) = s
  <2>1. y * t = t * y /\ (-y) * t = -(t * y) /\ y * (-t) = -(t * y) /\ (-y) * (-t) = t * y
    BY SMTT(40)
  <2> QED BY <1>4, <2>1
<1>6. CASE p < 0 /\ q < 0
  <2>1. p = -x /\ q = -y /\ (p < 0) = (q < 0) BY <1>1, <1>6
  <2>2. Quot(p, q) = t BY <1>1, <1>3, <2>1 DEF Quot
  <2>3. -x - (-s) = -r BY <1>4
  <2> QED BY <1>1, <1>3, <1>5, <1>6, <2>1, <2>2, <2>3
<1>7. CASE p < 0 /\ ~(q < 0)
  <2>1. p = -x /\ q = y /\ ~((p < 0) = (q < 0)) BY <1>1, <1>7
  <2>2. Quot(p, q) = -t BY SMTT(40), <1>1, <1>3, <2>1 DEF Quot
  <2>3. -x - (-s) = -r BY <1>4
  <2> QED BY <1>1, <1>3, <1>5, <1>7, <2>1, <2>2, <2>3
<1>8. CASE ~(p < 0) /\ q < 0
  <2>1. p = x /\ q = -y /\ ~((p < 0) = (q < 0)) BY <1>1, <1>8
  <2>2. Quot(p, q) = -t BY <1>1, <1>3, <2>1 DEF Quot
  <2>3. x - s = r BY <1>4
  <2> QED BY <1>1, <1>3, <1>5, <1>8, <2>1, <2>2, <2>3
<1>9. CASE ~(p < 0) /\ ~(q < 0)
  <2>1. p = x /\ q = y /\ (p < 0) = (q < 0) BY <1>1, <1>9
  <2>2. Quot(p, q) = t BY <1>1, <1>3, <2>1 DEF Quot
  <2>3. x - s = r BY <1>4
  <2> QED BY <1>1, <1>3, <1>5, <1>9, <2>1, <2>2, <2>3
<1> QED BY <1>6, <1>7, <1>8, <1>9

\* What is left to the signed division once the signs are taken off.
LEMMA SignedDivision ==
  ASSUME NEW n \in Nat \ {0}, NWords(n) <= 2, NEW v, Canonical(v, n), NEW u, Canonical(u, n),
         Value(u) # 0, DividesTo(n, Magnitude(v), Magnitude(u))
  PROVE  LET p == Sgn(Value(v), n)
             q == Sgn(Value(u), n)
         IN  /\ Canonical(Sdiv(v, u), n) /\ Value(Sdiv(v, u)) = Quot(p, q) % 2^n
             /\ Canonical(Srem(v, u), n) /\ Value(Srem(v, u)) = (p - q * Quot(p, q)) % 2^n
<1> DEFINE p == Sgn(Value(v), n)
           q == Sgn(Value(u), n)
<1>1. Value(Magnitude(v)) = AbsOf(p) /\ Value(Magnitude(u)) = AbsOf(q) /\ AbsOf(q) # 0
  BY MagnitudeIs
<1>2. p \in Int /\ q \in Int
  <2>1. v \in AInt(n) /\ u \in AInt(n) BY DEF Canonical
  <2>2. Value(v) \in Int /\ Value(u) \in Int /\ 2^n \in Int BY <2>1, ValueNat, WidthOf
  <2> QED BY <2>2 DEF Sgn
<1>3. (Negative(v) <=> p < 0) /\ (Negative(u) <=> q < 0) BY NegativeExact
<1>4. (Negative(v) # Negative(u)) = ~((p < 0) = (q < 0)) /\ Negative(v) = (p < 0)
  BY <1>3 DEF Negative
<1> HIDE DEF p, q
<1>5. PICK x \in Nat, y \in Nat \ {0} : x = AbsOf(p) /\ y = AbsOf(q)
  <2>1. AbsOf(p) \in Nat /\ AbsOf(q) \in Nat BY <1>2 DEF AbsOf
  <2> QED BY <1>1, <2>1
<1>6. q # 0 BY <1>1, <1>2 DEF AbsOf
<1>7. x \div y \in Int /\ x % y \in Int BY QuotientIs
<1>8. /\ Canonical(Udiv(Magnitude(v), Magnitude(u)), n)
      /\ Value(Udiv(Magnitude(v), Magnitude(u))) = (x \div y) % 2^n
      /\ Canonical(Urem(Magnitude(v), Magnitude(u)), n)
      /\ Value(Urem(Magnitude(v), Magnitude(u))) = (x % y) % 2^n
  BY <1>1, <1>5 DEF DividesTo
<1>9. Canonical(Sdiv(v, u), n) /\ Value(Sdiv(v, u)) = Quot(p, q) % 2^n
  <2> DEFINE c == Negative(v) # Negative(u)
  <2>1. c \in BOOLEAN OBVIOUS
  <2>2. Quot(p, q) = IF c THEN -(x \div y) ELSE x \div y BY <1>4, <1>5 DEF Quot
  <2>3. Sdiv(v, u) = NegatedIf(c, Udiv(Magnitude(v), Magnitude(u))) BY DEF Sdiv
  <2> DEFINE z == Udiv(Magnitude(v), Magnitude(u))
  <2>4. PICK t \in Int : t = x \div y BY <1>7
  <2>5. Canonical(z, n) /\ Value(z) = t % 2^n BY <1>8, <2>4
  <2> HIDE DEF c, z
  <2>6. Canonical(NegatedIf(c, z), n) /\ Value(NegatedIf(c, z)) = (IF c THEN -t ELSE t) % 2^n
    BY <2>1, <2>5, NegatedIfIs
  <2> QED BY <2>2, <2>3, <2>4, <2>6 DEF z
<1>10. Canonical(Srem(v, u), n) /\ Value(Srem(v, u)) = (p - q * Quot(p, q)) % 2^n
  <2> DEFINE c == Negative(v)
  <2>1. c \in BOOLEAN BY <1>4
  <2>2. p - q * Quot(p, q) = IF c THEN -(x % y) ELSE x % y BY <1>2, <1>4, <1>5, <1>6, SignedParts
  <2>3. Srem(v, u) = NegatedIf(c, Urem(Magnitude(v), Magnitude(u))) BY DEF Srem
  <2> DEFINE z == Urem(Magnitude(v), Magnitude(u))
  <2>4. PICK t \in Int : t = x % y BY <1>7
  <2>5. Canonical(z, n) /\ Value(z) = t % 2^n BY <1>8, <2>4
  <2> HIDE DEF c, z
  <2>6. Canonical(NegatedIf(c, z), n) /\ Value(NegatedIf(c, z)) = (IF c THEN -t ELSE t) % 2^n
    BY <2>1, <2>5, NegatedIfIs
  <2> QED BY <2>2, <2>3, <2>4, <2>6 DEF z
<1> QED BY <1>9, <1>10 DEF p, q
-----------------------------------------------------------------------------
(***************************************************************************)
(* Powers of two.                                                          *)
(***************************************************************************)
\* The test of a word: with one less it has no bit in common.
LEMMA WordPow2Is ==
  ASSUME NEW x \in Word
  PROVE  IsWordPow2(x) <=> \E k \in 0..WordBits-1 : x = 2^k
<1>1. PICK bits \in Nat \ {0} : bits = WordBits BY WordBitsAssumption
<1>2. PICK y \in Nat : y = x BY WordIs
<1> DEFINE ones == OnesOf(BothBits, y, y - 1, bits)
<1>3. IsWordPow2(x) <=> y # 0 /\ \A i \in 0..bits-1 : i \notin ones
  <2>1. BitByBit(BothBits, y, y - 1) = BitSums(ones, bits)[bits] BY <1>1, BitByBitIs
  <2> HIDE DEF ones
  <2>2. BitSums(ones, bits)[bits] = 0 <=> \A i \in 0..bits-1 : i \notin ones BY BitSumsBound
  <2> QED BY <1>2, <2>1, <2>2 DEF IsWordPow2
<1>4. \A i \in 0..bits-1 : i \in ones <=> BitIn(y, i) = 1 /\ BitIn(y - 1, i) = 1
  BY DEF OnesOf, BothBits
<1> HIDE DEF ones
<1>5. ASSUME y # 0, \A i \in 0..bits-1 : i \notin ones
      PROVE  \E k \in 0..bits-1 : y = 2^k
  <2>1. PICK s \in 1..bits : s = WordSigBits(x) /\ y < 2^s /\ (s = 1 \/ y >= 2^(s-1))
    <3>1. WordSigBits(x) \in 1..bits /\ x < 2^WordSigBits(x)
          /\ (WordSigBits(x) = 1 \/ x >= 2^(WordSigBits(x) - 1))
      BY <1>1, WordSigBitsIs
    <3> QED BY <1>2, <3>1
  <2>2. PICK k \in 0..bits-1 : s = k + 1 /\ s - 1 = k
    <3>1. s - 1 \in 0..bits-1 /\ s = (s - 1) + 1 OBVIOUS
    <3> QED BY <3>1
  <2>3. k \in Nat OBVIOUS
  <2>4. PICK p \in Nat \ {0} : p = 2^k /\ 2^s = 2 * p BY <2>2, <2>3, PowerOfTwo
  <2>5. y >= p
    <3>1. CASE s = 1
      <4>1. p = 1
        <5>1. k = 0 /\ 2^0 = 1 BY <2>2, <3>1
        <5> QED BY <2>4, <5>1
      <4> QED BY <1>5, <4>1
    <3>2. CASE s # 1 BY <2>1, <2>2, <2>4, <3>2
    <3> QED BY <3>1, <3>2
  <2>6. y = p
    <3>1. SUFFICES ASSUME y # p PROVE FALSE OBVIOUS
    <3>2. y < 2 * p /\ y - 1 \in Nat /\ y - 1 >= p /\ y - 1 < 2 * p BY <2>1, <2>4, <2>5, <3>1
    <3>3. BitIn(y, k) = 1 BY <2>3, <2>4, <2>5, <3>2, TopBit
    <3>4. BitIn(y - 1, k) = 1
      <4>1. PICK z \in Nat : z = y - 1 /\ z >= p /\ z < 2 * p BY <3>2
      <4>2. BitIn(z, k) = 1 BY <2>3, <2>4, <4>1, TopBit
      <4> QED BY <4>1, <4>2
    <3> QED BY <1>4, <1>5, <3>3, <3>4
  <2> QED BY <2>4, <2>6
<1>6. ASSUME NEW k \in 0..bits-1, y = 2^k
      PROVE  y # 0 /\ \A i \in 0..bits-1 : i \notin ones
  <2>1. k \in Nat OBVIOUS
  <2>2. y # 0 BY <1>6, <2>1, PowerOfTwo
  <2>3. ASSUME NEW i \in 0..bits-1, i \in ones PROVE FALSE
    <3>1. BitIn(y, i) = 1 /\ BitIn(y - 1, i) = 1 BY <1>4, <2>3
    <3>2. CASE i = k
      <4>1. y - 1 \in 0..2^k-1 /\ k >= k BY <1>6, <2>2
      <4>2. BitIn(y - 1, k) = 0
        <5>1. PICK z \in 0..2^k-1 : z = y - 1 BY <4>1
        <5>2. BitIn(z, k) = 0 BY <2>1, <4>1, NoBitsPast
        <5> QED BY <5>1, <5>2
      <4> QED BY <3>1, <3>2, <4>2
    <3>3. CASE i > k
      <4>1. i \in Nat /\ k + 1 <= i /\ k + 1 \in Nat BY <3>3
      <4>2. 2^(k+1) = 2 * 2^k BY <2>1, PowerOfTwo
      <4>3. 2^(k+1) <= 2^i BY <4>1, PowerMonotone
      <4>4. PICK q \in Nat : q = 2^i BY <4>1, PowerOfTwo
      <4>5. 2 * y <= q BY <1>6, <4>2, <4>3, <4>4
      <4>6. y \in 0..q-1 BY <2>2, <4>5
      <4>7. i >= i BY <4>1
      <4>8. BitIn(y, i) = 0 BY <4>1, <4>4, <4>6, <4>7, NoBitsPast
      <4> QED BY <3>1, <4>8
    <3>4. CASE i < k
      <4>1. i \in 0..k-1 BY <3>4
      <4>2. PICK g \in Nat : 2^k = 2^i * (2 * g) /\ 2^i \in Nat \ {0} BY <2>1, <4>1, PowerSplit
      <4>3. PICK c \in Nat \ {0} : c = 2^i BY <4>2
      <4>4. y = (2 * g) * c + 0 /\ 0 \in 0..c-1 /\ 2 * g \in Int /\ y \in Int
        <5>1. c * (2 * g) = (2 * g) * c + 0 OBVIOUS
        <5>2. 0 \in 0..c-1 /\ 2 * g \in Int OBVIOUS
        <5> QED BY <1>6, <4>2, <4>3, <5>1, <5>2
      <4>5. y \div c = 2 * g BY <4>4, DivMod
      <4>6. (2 * g) % 2 = 0
        <5>1. 2 * g = g * 2 + 0 /\ 0 \in 0..2-1 /\ 2 \in Nat \ {0} /\ 2 * g \in Int OBVIOUS
        <5> QED BY <5>1, DivMod
      <4>7. BitIn(y, i) = 0 BY <4>3, <4>5, <4>6 DEF BitIn
      <4> QED BY <3>1, <4>7
    <3> QED BY <3>2, <3>3, <3>4
  <2> QED BY <2>2, <2>3
<1> QED BY <1>1, <1>2, <1>3, <1>5, <1>6

\* midint_is_pow2 tells the powers of two.
LEMMA Pow2Exact ==
  ASSUME NEW n \in Nat \ {0}, NEW v, Canonical(v, n)
  PROVE  IsPow2(v) <=> \E k \in 0..n-1 : Value(v) = 2^k
<1>1. PICK bits \in Nat \ {0} : bits = WordBits BY WordBitsAssumption
<1>2. PICK m \in Nat \ {0} : m = NWords(n) BY WidthOf
<1>3. /\ v \in AInt(n) /\ v.n = n /\ v = [n |-> n, w |-> v.w] /\ Value(v) \in 0..2^n-1
      /\ v.w \in [0..m-1 -> Word] /\ v.w \in [0..m-1 -> Int] /\ Value(v) = Sums(v.w, m)[m]
  BY <1>2, IntegerOf, CanonicalValue DEF Canonical
<1>4. IsPow2(v) <=> \E i \in 0..m-1 : IsWordPow2(v.w[i]) /\ \A j \in (0..m-1) \ {i} : v.w[j] = 0
  BY <1>2, <1>3 DEF IsPow2, Idx
<1>5. ASSUME NEW i \in 0..m-1, IsWordPow2(v.w[i]), \A j \in (0..m-1) \ {i} : v.w[j] = 0
      PROVE  \E k \in 0..n-1 : Value(v) = 2^k
  <2>1. v.w[i] \in Word BY <1>3
  <2>2. PICK k \in 0..bits-1 : v.w[i] = 2^k BY <1>1, <1>5, <2>1, WordPow2Is
  <2>3. OnlyAt(v.w, i, m) BY <1>5 DEF OnlyAt
  <2>4. Sums(v.w, m)[m] = v.w[i] * Place(i)
    <3>1. m \in Nat OBVIOUS
    <3> QED BY <1>3, <2>3, <3>1, SumsOne
  <2>5. 2^(i * bits + k) = Place(i) * 2^k /\ i * bits + k \in Nat
    <3>1. m \in Nat OBVIOUS
    <3> QED BY <1>1, <3>1, PlaceAfter
  <2>6. PICK e \in Nat : e = i * bits + k BY <2>5
  <2>7. Value(v) = 2^e
    <3>1. k \in Nat /\ i \in Nat OBVIOUS
    <3>2. PICK p \in Nat, q \in Nat : p = Place(i) /\ q = 2^k BY <3>1, PlaceIs, PowerOfTwo
    <3>3. q * p = p * q OBVIOUS
    <3> QED BY <1>3, <2>2, <2>4, <2>5, <2>6, <3>2, <3>3
  <2>8. e < n
    <3>1. SUFFICES ASSUME n <= e PROVE FALSE OBVIOUS
    <3>2. 2^n <= 2^e BY <3>1, PowerMonotone
    <3>3. PICK p \in Nat, q \in Nat : p = 2^n /\ q = 2^e BY PowerOfTwo
    <3> QED BY <1>3, <2>7, <3>2, <3>3
  <2> QED BY <2>7, <2>8
<1>6. ASSUME NEW k \in 0..n-1, Value(v) = 2^k
      PROVE  \E i \in 0..m-1 : IsWordPow2(v.w[i]) /\ \A j \in (0..m-1) \ {i} : v.w[j] = 0
  <2>1. PICK at \in 0..m-1 : at = k \div bits BY <1>1, <1>2, BitAt
  <2>2. PICK r \in 0..bits-1 : r = k % bits BY <1>1, BitAt
  <2>3. 2^k = Place(at) * 2^r BY <1>1, <2>1, <2>2, BitAt
  <2>4. 2^r \in Word
    <3>1. r \in Nat /\ r + 1 <= bits /\ r + 1 \in Nat OBVIOUS
    <3>2. 2^(r+1) = 2 * 2^r /\ 2^r \in Nat \ {0} BY <3>1, PowerOfTwo
    <3>3. 2^(r+1) <= 2^bits BY <3>1, PowerMonotone
    <3>4. PICK c \in Nat \ {0}, base \in Nat : c = 2^r /\ base = 2^bits BY <3>2, PowerOfTwo
    <3>5. 2 * c <= base BY <3>2, <3>3, <3>4
    <3>6. c \in 0..base-1 BY <3>5
    <3> QED BY <1>1, <3>4, <3>6 DEF Word, Base
  <2> DEFINE w == [j \in 0..m-1 |-> IF j = at THEN 2^r ELSE 0]
             u == [n |-> n, w |-> w]
  <2>5. w \in [0..m-1 -> Word] /\ w \in [0..m-1 -> Int]
    <3>1. 0 \in Word
      <4>1. Base \in Nat /\ Base >= 2 BY Places_
      <4> QED BY <4>1 DEF Word
    <3>2. 0 \in Int /\ 2^r \in Int BY <2>4, WordIs
    <3> QED BY <2>4, <3>1, <3>2
  <2>6. w[at] = 2^r /\ OnlyAt(w, at, m) BY DEF OnlyAt
  <2> HIDE DEF w
  <2>7. u \in AInt(n) BY <1>2, <2>5 DEF AInt, Idx
  <2>8. Value(u) = Sums(w, m)[m] BY <1>2 DEF Value
  <2>9. Sums(w, m)[m] = w[at] * Place(at)
    <3>1. m \in Nat OBVIOUS
    <3> QED BY <2>5, <2>6, <3>1, SumsOne
  <2>10. Value(u) = Value(v)
    <3>1. at \in Nat OBVIOUS
    <3>2. PICK p \in Nat, q \in Nat : p = Place(at) /\ q = 2^r BY <2>4, <3>1, PlaceIs, WordIs
    <3>3. q * p = p * q OBVIOUS
    <3> QED BY <1>6, <2>3, <2>6, <2>8, <2>9, <3>2, <3>3
  <2>11. v.w = w
    <3>1. v = u BY SMTT(40), <1>3, <2>7, <2>10, ValueTells
    <3> QED BY <3>1
  <2>12. IsWordPow2(v.w[at]) BY <1>1, <2>4, <2>6, <2>11, WordPow2Is
  <2>13. \A j \in (0..m-1) \ {at} : v.w[j] = 0 BY <2>6, <2>11 DEF OnlyAt
  <2> QED BY <2>12, <2>13
<1> QED BY <1>4, <1>5, <1>6
-----------------------------------------------------------------------------
(***************************************************************************)
(* Division by a single digit.                                             *)
(***************************************************************************)
\* The loop of the division by a digit, as turns.
LEMMA ShortBy ==
  ASSUME NEW u, NEW d, NEW q, NEW m
  PROVE  Short(u, d, q, m) = [q |-> ShortTurns(u, d, q, m)[m+1].q,
                              rem |-> ShortTurns(u, d, q, m)[m+1].rem]
BY DEF Short, ShortTurns, IsShort, ShortTurn, Partial
-----------------------------------------------------------------------------
\* left[i] is what is left when the digits from i up have been divided.
ShortLeaves(left, u, d, q, m, max) ==
  LET res == Short(u, d, q, m)
  IN  /\ left \in [0..max -> 0..d-1] /\ left[max] = 0 /\ left[0] = res.rem
      /\ res.q \in [0..max-1 -> Digit]
      /\ \A i \in 0..max-1 : left[i+1] * Half + u[i] = res.q[i] * d + left[i]

\* When the loop is done, every digit has been divided with what was left above
\* it.
LEMMA ShortIs ==
  ASSUME NEW d \in 1..Half-1, NEW max \in Nat, NEW u \in [0..max -> Digit],
         NEW q \in [0..max-1 -> Digit], NEW m \in 0..max-1,
         \A i \in 0..max-1 : q[i] = 0, \A i \in m+1..max : u[i] = 0
  PROVE  \E left : ShortLeaves(left, u, d, q, m, max)
<1> DEFINE f == ShortTurns(u, d, q, m)
<1>1. /\ \A k \in 0..m+1 : f[k] \in States(d, max)
      /\ f[0] = [rem |-> 0, q |-> q]
      /\ \A k \in 1..m+1 : f[k] = ShortTurn(f[k-1], u, d, m + 1 - k)
  <2>1. AreTurns(f, u, d, q, m, max)
    <3>1. AreTurns(ShortTurns(u, d, q, m), u, d, q, m, max) BY ShortTurnsAre
    <3> QED BY <3>1
  <2> HIDE DEF f
  <2> QED BY <2>1 DEF AreTurns
<1>2. Short(u, d, q, m) = [q |-> f[m+1].q, rem |-> f[m+1].rem] BY ShortBy
<1> HIDE DEF f
<1>3. \A k \in 0..m+1 : f[k].rem \in 0..d-1 /\ f[k].q \in [0..max-1 -> Digit] BY <1>1 DEF States
<1>4. ASSUME NEW k \in 1..m+1
      PROVE  LET i == m + 1 - k
             IN  /\ f[k].rem = (f[k-1].rem * Half + u[i]) % d
                 /\ f[k].q[i] = (f[k-1].rem * Half + u[i]) \div d
                 /\ \A j \in 0..max-1 : j # i => f[k].q[j] = f[k-1].q[j]
  <2>1. PICK i \in 0..max-1 : i = m + 1 - k
    <3>1. m + 1 - k \in 0..max-1 OBVIOUS
    <3> QED BY <3>1
  <2>2. k - 1 \in 0..m+1 OBVIOUS
  <2>3. PICK st \in States(d, max) : st = f[k-1] BY <1>1, <2>2
  <2>4. f[k] = ShortTurn(st, u, d, i) BY <1>1, <2>1, <2>3
  <2>5. /\ ShortTurn(st, u, d, i).rem = (st.rem * Half + u[i]) % d
        /\ ShortTurn(st, u, d, i).q[i] = (st.rem * Half + u[i]) \div d
        /\ \A j \in 0..max-1 : j # i => ShortTurn(st, u, d, i).q[j] = st.q[j]
    BY ZenonT(40), ShortTurnIs
  <2> QED BY <2>1, <2>3, <2>4, <2>5
\* The digits of the quotient that are done stay as they are.
<1>5. ASSUME NEW j \in 0..max-1
      PROVE  \A k \in 0..m+1 : f[k].q[j] = IF j \in m+1-k..m
                                           THEN (f[m-j].rem * Half + u[j]) \div d ELSE 0
  <2> DEFINE made == (f[m-j].rem * Half + u[j]) \div d
             S == {k \in 0..m+1 : f[k].q[j] = IF j \in m+1-k..m THEN made ELSE 0}
  <2>1. 0 \in S
    <3>1. ~(j \in m+1-0..m) /\ 0 \in 0..m+1 OBVIOUS
    <3>2. f[0].q[j] = 0 BY <1>1
    <3> QED BY <3>1, <3>2
  <2>2. ASSUME NEW k \in 0..m, k \in S PROVE k + 1 \in S
    <3>1. k + 1 \in 1..m+1 /\ k + 1 \in 0..m+1 /\ (k + 1) - 1 = k /\ m + 1 - (k + 1) = m - k OBVIOUS
    <3>2. /\ f[k+1].q[m-k] = (f[k].rem * Half + u[m-k]) \div d
          /\ j # m - k => f[k+1].q[j] = f[k].q[j]
      BY <1>4, <3>1
    <3>3. CASE j = m - k
      <4>1. m - j = k /\ j \in m+1-(k+1)..m BY <3>3
      <4>2. f[k+1].q[j] = made BY <3>2, <3>3, <4>1
      <4> HIDE DEF made
      <4> QED BY <3>1, <4>1, <4>2
    <3>4. CASE j # m - k
      <4>1. j \in m+1-(k+1)..m <=> j \in m+1-k..m BY <3>4
      <4>2. f[k+1].q[j] = f[k].q[j] BY <3>2, <3>4
      <4>3. f[k].q[j] = IF j \in m+1-k..m THEN made ELSE 0 BY <2>2
      <4> HIDE DEF made
      <4> QED BY <3>1, <4>1, <4>2, <4>3
    <3> QED BY <3>3, <3>4
  <2> HIDE DEF S
  <2>3. \A k \in 0..m+1 : k \in S
    <3>1. PICK last \in Nat : last = m + 1 OBVIOUS
    <3>2. \A k \in 0..last-1 : k \in S => k + 1 \in S
      <4>1. \A k \in 0..last-1 : k \in 0..m BY <3>1
      <4> QED BY <2>2, <4>1
    <3>3. \A k \in 0..last : k \in S BY <2>1, <3>2, Induct
    <3> QED BY <3>1, <3>3
  <2> QED BY <2>3 DEF S
<1> DEFINE left == [i \in 0..max |-> IF i <= m + 1 THEN f[m+1-i].rem ELSE 0]
           res == Short(u, d, q, m)
<1>6. 0 \in 0..d-1
  <2>1. Half \in Nat BY Places_
  <2> QED BY <2>1
<1>7. left \in [0..max -> 0..d-1]
  <2>1. \A i \in 0..max : i <= m + 1 => m + 1 - i \in 0..m+1 OBVIOUS
  <2> QED BY <1>3, <1>6, <2>1
<1>8. left[max] = 0
  <2>1. max \in 0..max OBVIOUS
  <2>2. CASE max = m + 1
    <3>1. left[max] = f[0].rem BY <2>1, <2>2
    <3> QED BY <1>1, <3>1
  <2>3. CASE max # m + 1
    <3>1. ~(max <= m + 1) BY <2>3
    <3> QED BY <2>1, <3>1
  <2> QED BY <2>2, <2>3
<1>9. res.q = f[m+1].q /\ res.rem = f[m+1].rem BY <1>2
<1>10. left[0] = res.rem
  <2>1. 0 \in 0..max /\ 0 <= m + 1 /\ m + 1 - 0 = m + 1 OBVIOUS
  <2> HIDE DEF res
  <2> QED BY <1>9, <2>1
<1>11. res.q \in [0..max-1 -> Digit]
  <2>1. m + 1 \in 0..m+1 OBVIOUS
  <2> HIDE DEF res
  <2> QED BY <1>3, <1>9, <2>1
<1> HIDE DEF res
<1>12. ASSUME NEW i \in 0..max-1
       PROVE  left[i+1] * Half + u[i] = res.q[i] * d + left[i]
  <2>1. i \in 0..max /\ i + 1 \in 0..max /\ m + 1 \in 0..m+1 OBVIOUS
  <2>2. res.q[i] = IF i \in m+1-(m+1)..m THEN (f[m-i].rem * Half + u[i]) \div d ELSE 0
    BY <1>5, <1>9, <2>1
  <2>3. CASE i <= m
    <3>1. i \in m+1-(m+1)..m /\ i <= m + 1 /\ i + 1 <= m + 1 /\ m + 1 - (i + 1) = m - i
          /\ m - i \in 0..m+1 /\ m + 1 - i \in 1..m+1 /\ (m + 1 - i) - 1 = m - i
          /\ m + 1 - (m + 1 - i) = i
      BY <2>3
    <3>2. left[i+1] = f[m-i].rem /\ left[i] = f[m+1-i].rem BY <2>1, <3>1
    <3>3. PICK r \in 0..d-1, x \in Digit : r = f[m-i].rem /\ x = u[i] BY <1>3, <2>1, <3>1
    <3>4. f[m+1-i].rem = (r * Half + x) % d BY <1>4, <3>1, <3>3
    <3>5. res.q[i] = (r * Half + x) \div d BY <2>2, <3>1, <3>3
    <3>6. r * Half + x = ((r * Half + x) \div d) * d + ((r * Half + x) % d) BY DigitStep
    <3> HIDE DEF left
    <3> QED BY <3>2, <3>3, <3>4, <3>5, <3>6
  <2>4. CASE ~(i <= m)
    <3>1. ~(i \in m+1-(m+1)..m) /\ i \in m+1..max BY <2>4
    <3>2. left[i] = 0
      <4>1. CASE i = m + 1
        <5>1. left[i] = f[0].rem BY SMTT(40), <2>1, <4>1
        <5> QED BY <1>1, <5>1
      <4>2. CASE i # m + 1
        <5>1. ~(i <= m + 1) BY <2>4, <4>2
        <5> QED BY <2>1, <5>1
      <4> QED BY <4>1, <4>2
    <3>3. left[i+1] = 0
      <4>1. ~(i + 1 <= m + 1) BY <2>4
      <4> QED BY <2>1, <4>1
    <3>4. u[i] = 0 /\ res.q[i] = 0 BY <2>2, <3>1
    <3>5. PICK h \in Nat : h = Half BY Places_
    <3>6. 0 * h + 0 = 0 * d + 0 OBVIOUS
    <3> HIDE DEF left
    <3> QED BY <3>2, <3>3, <3>4, <3>5, <3>6
  <2> QED BY <2>3, <2>4
<1> HIDE DEF left
<1> QED BY <1>7, <1>8, <1>10, <1>11, <1>12 DEF ShortLeaves, res

\* The digits 2i and 2i + 1 are those of word i.
LEMMA DigitAt ==
  ASSUME NEW i \in Int
  PROVE  /\ (2 * i) % 2 = 0 /\ (2 * i) \div 2 = i
         /\ (2 * i + 1) % 2 = 1 /\ (2 * i + 1) \div 2 = i
<1>1. 2 * i = i * 2 + 0 /\ 2 * i + 1 = i * 2 + 1 /\ 0 \in 0..2-1 /\ 1 \in 0..2-1 /\ 2 \in Nat \ {0}
      /\ 2 * i \in Int /\ 2 * i + 1 \in Int
  OBVIOUS
<1> QED BY <1>1, DivMod

\* The digits that convert_to_u32_digits makes of the words.
LEMMA DigitsAre ==
  ASSUME NEW k \in Nat, NEW x, \A i \in 0..k-1 : x[i] \in Word
  PROVE  /\ Digits(x, k) \in [0..2*k-1 -> Digit]
         /\ \A i \in 0..k-1 : x[i] = Digits(x, k)[2*i] + Digits(x, k)[2*i+1] * Half
<1>1. ASSUME NEW j \in 0..2*k-1
      PROVE  (IF j % 2 = 0 THEN x[j \div 2] % Half ELSE x[j \div 2] \div Half) \in Digit
  <2>1. j = (j \div 2) * 2 + (j % 2) /\ j % 2 \in 0..2-1 /\ j \div 2 \in Int
    <3>1. 2 \in Nat \ {0} /\ j \in Int OBVIOUS
    <3> QED BY <3>1, DivModOf
  <2>2. j \div 2 \in 0..k-1 BY <2>1
  <2>3. x[j \div 2] \in Word BY <2>2
  <2> QED BY <2>3, TwoDigits
<1>2. Digits(x, k) = [j \in 0..2*k-1 |-> IF j % 2 = 0 THEN x[j \div 2] % Half ELSE x[j \div 2] \div Half]
  BY DEF Digits
<1>3. Digits(x, k) \in [0..2*k-1 -> Digit] BY <1>1, <1>2
<1>4. ASSUME NEW i \in 0..k-1
      PROVE  x[i] = Digits(x, k)[2*i] + Digits(x, k)[2*i+1] * Half
  <2>1. 2 * i \in 0..2*k-1 /\ 2 * i + 1 \in 0..2*k-1 /\ i \in Int OBVIOUS
  <2>2. (2 * i) % 2 = 0 /\ (2 * i) \div 2 = i /\ (2 * i + 1) % 2 = 1 /\ (2 * i + 1) \div 2 = i
    BY <2>1, DigitAt
  <2>3. Digits(x, k)[2*i] = x[i] % Half /\ Digits(x, k)[2*i+1] = x[i] \div Half
    BY <1>2, <2>1, <2>2
  <2> QED BY <2>3, TwoDigits
<1> QED BY <1>3, <1>4
-----------------------------------------------------------------------------
\* A word of the quotient, from its two digits.
TurnOf(r, x, q, s, d) == r * Half + x = q * d + s

WordOf(lo, hi) == lo + hi * Half

\* Two digits divided one after the other are a word divided.
LEMMA TwoTurns ==
  ASSUME NEW d \in Nat, NEW r0 \in Nat, NEW r1 \in Nat, NEW r2 \in Nat,
         NEW lo \in Digit, NEW hi \in Digit, NEW q0 \in Digit, NEW q1 \in Digit,
         TurnOf(r2, hi, q1, r1, d), TurnOf(r1, lo, q0, r0, d)
  PROVE  WordOf(lo, hi) + r2 * Base = WordOf(q0, q1) * d + r0
<1>1. PICK h \in Nat, base \in Nat : h = Half /\ base = Base /\ base = h * h BY Places_
<1>2. PICK x0 \in Int, x1 \in Int, y0 \in Int, y1 \in Int : x0 = lo /\ x1 = hi /\ y0 = q0 /\ y1 = q1
  BY <1>1 DEF Digit
<1>3. r2 * h + x1 = y1 * d + r1 /\ r1 * h + x0 = y0 * d + r0 BY <1>1, <1>2 DEF TurnOf
<1>4. (r2 * h + x1) * h = (y1 * d + r1) * h BY <1>3
<1>5. (r2 * h + x1) * h = r2 * (h * h) + x1 * h /\ (y1 * d + r1) * h = y1 * h * d + r1 * h OBVIOUS
<1>6. (y0 + y1 * h) * d = y0 * d + y1 * h * d OBVIOUS
<1>7. PICK a1 \in Int, a2 \in Int, a3 \in Int, a4 \in Int, a5 \in Int :
        a1 = r2 * (h * h) /\ a2 = x1 * h /\ a3 = y1 * h * d /\ a4 = r1 * h /\ a5 = y0 * d
  OBVIOUS
<1>8. a1 + a2 = a3 + a4 /\ a4 + x0 = a5 + r0 BY <1>3, <1>4, <1>5, <1>7
<1>9. (x0 + a2) + a1 = (a5 + a3) + r0 BY <1>8
<1>10. r2 * base = a1 BY <1>1, <1>7
<1> QED BY <1>1, <1>2, <1>6, <1>7, <1>9, <1>10 DEF WordOf

\* bignum_div by one digit divides word by word.
LEMMA ShortWords ==
  ASSUME NEW k \in Nat \ {0}, NEW x, \A i \in 0..k-1 : x[i] \in Word, x[k-1] # 0,
         NEW z, NEW y \in 1..Half-1, z[0] = y
  PROVE  \E left : WordsDivided(BignumDiv(x, k, z, 1), left, x, y, k)
<1> DEFINE max == 2 * k
           u == [i \in 0..2*k |-> IF i = 2*k THEN 0 ELSE Digits(x, k)[i]]
           v == Digits(z, 1)
           q == [i \in 0..2*k-1 |-> 0]
           n == Places(v)
           m == Places(u) - n
           res == Short(u, v[0], q, m)
<1>1. PICK h \in Nat \ {0} : h = Half /\ y \in Digit /\ y \in Nat /\ y \in Word
  <2>1. Half \in Nat /\ Half >= 2 BY Places_
  <2>2. y \in Digit BY <2>1 DEF Digit
  <2> QED BY <2>1, <2>2, TwoDigits
<1>2. v \in [0..1 -> Digit] /\ v[0] = y /\ v[1] = 0
  <2>1. v = [i \in 0..1 |-> IF i % 2 = 0 THEN z[i \div 2] % Half ELSE z[i \div 2] \div Half]
    BY DEF Digits
  <2>2. 0 % 2 = 0 /\ 0 \div 2 = 0 /\ 1 % 2 = 1 /\ 1 \div 2 = 0 OBVIOUS
  <2>3. y % Half = y /\ y \div Half = 0 /\ 0 \in Digit BY <1>1, TwoDigits
  <2> HIDE DEF v
  <2>4. v[0] = y /\ v[1] = 0 BY <2>1, <2>2, <2>3
  <2>5. \A i \in 0..1 : v[i] \in Digit
    <3>1. \A i \in 0..1 : i = 0 \/ i = 1 OBVIOUS
    <3> QED BY <1>1, <2>3, <2>4, <3>1
  <2> QED BY <2>1, <2>4, <2>5
<1>3. n = 1
  <2>1. Digit \subseteq Int BY <1>1 DEF Digit
  <2>2. v \in [0..2-1 -> Int] /\ 2 \in Nat BY <1>2, <2>1
  <2> HIDE DEF v
  <2>3. /\ Places(v) \in 0..2 /\ \A i \in 0..2-1 : i >= Places(v) => v[i] = 0
        /\ Places(v) # 0 => v[Places(v) - 1] # 0
    BY <2>2, PlacesIs
  <2>4. PICK p \in 0..2 : p = Places(v) BY <2>3
  <2>5. p # 0
    <3>1. 0 >= 0 /\ 0 \in 0..2-1 OBVIOUS
    <3>2. v[0] # 0 BY <1>2
    <3> QED BY <2>3, <2>4, <3>1, <3>2
  <2>6. p # 2
    <3>1. SUFFICES ASSUME p = 2 PROVE FALSE OBVIOUS
    <3>2. p - 1 = 1 /\ p # 0 BY <3>1
    <3> QED BY <1>2, <2>3, <2>4, <3>2
  <2> QED BY <2>4, <2>5, <2>6
<1>4. /\ Digits(x, k) \in [0..2*k-1 -> Digit]
      /\ \A i \in 0..k-1 : x[i] = Digits(x, k)[2*i] + Digits(x, k)[2*i+1] * Half
  <2>1. k \in Nat OBVIOUS
  <2> QED BY <2>1, DigitsAre
<1>5. u \in [0..max -> Digit] /\ u[max] = 0
      /\ \A i \in 0..k-1 : x[i] = u[2*i] + u[2*i+1] * Half
  <2>1. \A i \in 0..2*k : i # 2*k => i \in 0..2*k-1 OBVIOUS
  <2>2. 0 \in Digit BY TwoDigits
  <2>3. u \in [0..max -> Digit] BY <1>4, <2>1, <2>2
  <2>4. u[max] = 0
    <3>1. max \in 0..2*k OBVIOUS
    <3> QED BY <3>1
  <2>5. \A i \in 0..k-1 : u[2*i] = Digits(x, k)[2*i] /\ u[2*i+1] = Digits(x, k)[2*i+1]
    <3>1. \A i \in 0..k-1 : 2*i \in 0..2*k /\ 2*i+1 \in 0..2*k /\ 2*i # 2*k /\ 2*i+1 # 2*k OBVIOUS
    <3> QED BY <3>1
  <2> HIDE DEF u
  <2> QED BY <1>4, <2>3, <2>4, <2>5
<1> HIDE DEF u, v, n
<1>6. m \in 0..max-1 /\ \A i \in m+1..max : u[i] = 0
  <2>1. Digit \subseteq Int BY <1>1 DEF Digit
  <2>2. max + 1 \in Nat /\ (max + 1) - 1 = max OBVIOUS
  <2>3. u \in [0..(max+1)-1 -> Int] BY <1>5, <2>1, <2>2
  <2>4. PICK l \in Nat : l = max + 1 BY <2>2
  <2>5. /\ Places(u) \in 0..l /\ \A i \in 0..l-1 : i >= Places(u) => u[i] = 0
        /\ Places(u) # 0 => u[Places(u) - 1] # 0
    BY <2>3, <2>4, PlacesIs
  <2>6. PICK p \in 0..l : p = Places(u) BY <2>5
  <2>7. p # l
    <3>1. SUFFICES ASSUME p = l PROVE FALSE OBVIOUS
    <3>2. p - 1 = max /\ p # 0 BY <2>4, <3>1
    <3> QED BY <1>5, <2>5, <2>6, <3>2
  <2>8. p # 0
    <3>1. SUFFICES ASSUME p = 0 PROVE FALSE OBVIOUS
    <3>2. k - 1 \in 0..k-1 /\ 2*(k-1) \in 0..l-1 /\ 2*(k-1)+1 \in 0..l-1
          /\ 2*(k-1) >= p /\ 2*(k-1)+1 >= p
      BY <2>4, <3>1
    <3>3. u[2*(k-1)] = 0 /\ u[2*(k-1)+1] = 0 BY <2>5, <2>6, <3>2
    <3>4. x[k-1] = 0 + 0 * h BY <1>1, <1>5, <3>2, <3>3
    <3>5. 0 + 0 * h = 0 OBVIOUS
    <3> QED BY <3>4, <3>5
  <2>9. m = p - 1 BY <1>3, <2>6
  <2>10. m \in 0..max-1 BY <2>4, <2>7, <2>8, <2>9
  <2>11. \A i \in m+1..max : i \in 0..l-1 /\ i >= p BY <2>4, <2>7, <2>8, <2>9
  <2> QED BY <2>5, <2>6, <2>10, <2>11
<1>7. PICK left : ShortLeaves(left, u, y, q, m, max)
  <2>1. max \in Nat OBVIOUS
  <2>2. q \in [0..max-1 -> Digit] /\ \A i \in 0..max-1 : q[i] = 0
    <3>1. 0 \in Digit BY TwoDigits
    <3> QED BY <3>1
  <2> HIDE DEF q, m, max
  <2> QED BY <1>5, <1>6, <2>1, <2>2, ShortIs
<1>8. BignumDiv(x, k, z, 1) = InWords(ByDigit(res, v), k, 1)
  <2>1. n = 1 => BignumDiv(x, k, z, 1) = InWords(ByDigit(res, v), k, 1)
    BY DEF BignumDiv, u, v, n
  <2> QED BY <1>3, <2>1
<1>9. res = Short(u, y, q, m) BY <1>2
<1> HIDE DEF q, m, res
<1>10. /\ left \in [0..max -> 0..y-1] /\ left[max] = 0 /\ left[0] = res.rem
       /\ res.q \in [0..max-1 -> Digit]
       /\ \A i \in 0..max-1 : left[i+1] * Half + u[i] = res.q[i] * y + left[i]
  BY <1>7, <1>9 DEF ShortLeaves
<1> DEFINE c == [i \in 0..k |-> left[2*i]]
           r == BignumDiv(x, k, z, 1)
<1>11. c \in [0..k -> 0..y-1] /\ c[k] = 0 /\ c[0] = left[0]
       /\ \A i \in 0..k-1 : c[i] = left[2*i] /\ c[i+1] = left[2*i+2]
  <2>1. \A i \in 0..k : 2*i \in 0..max OBVIOUS
  <2>2. c \in [0..k -> 0..y-1] BY <1>10, <2>1
  <2>3. c[k] = 0 /\ c[0] = left[0]
    <3>1. k \in 0..k /\ 0 \in 0..k /\ 2*k = max /\ 2*0 = 0 OBVIOUS
    <3> QED BY <1>10, <3>1
  <2>4. \A i \in 0..k-1 : c[i] = left[2*i] /\ c[i+1] = left[2*i+2]
    <3>1. \A i \in 0..k-1 : i \in 0..k /\ i+1 \in 0..k /\ 2*(i+1) = 2*i+2 OBVIOUS
    <3> QED BY <3>1
  <2> HIDE DEF c
  <2> QED BY <2>2, <2>3, <2>4
<1>12. r.quot = [i \in 0..k-1 |-> res.q[2*i] + res.q[2*i+1] * Half]
  BY <1>8 DEF InWords, FromDigits, ByDigit
<1>13. r.rem = [i \in 0..0 |-> left[0]]
  <2>1. r.rem = [i \in 0..1-1 |-> ByDigit(res, v).r[2*i] + ByDigit(res, v).r[2*i+1] * Half]
    BY <1>8 DEF InWords, FromDigits
  <2>2. DOMAIN v = 0..1 BY <1>2
  <2>3. ByDigit(res, v).r[0] = left[0] /\ ByDigit(res, v).r[1] = 0
    <3>1. ByDigit(res, v).r = [i \in 0..1 |-> IF i = 0 THEN res.rem ELSE 0] BY <2>2 DEF ByDigit
    <3> QED BY <1>10, <3>1
  <2>4. PICK e \in Nat : e = left[0]
    <3>1. 0 \in 0..max OBVIOUS
    <3> QED BY <1>1, <1>10, <3>1
  <2>5. e + 0 * h = e /\ 2*0 = 0 /\ 2*0+1 = 1 /\ 0..1-1 = 0..0 OBVIOUS
  <2>6. \A i \in 0..0 : i = 0 OBVIOUS
  <2>7. \A i \in 0..0 : ByDigit(res, v).r[2*i] + ByDigit(res, v).r[2*i+1] * Half = left[0]
    BY <1>1, <2>3, <2>4, <2>5, <2>6
  <2> HIDE DEF r
  <2> QED BY <2>1, <2>5, <2>7
<1> HIDE DEF r, c
<1>14. ASSUME NEW i \in 0..k-1
       PROVE  r.quot[i] \in Word /\ x[i] + c[i+1] * Base = r.quot[i] * y + c[i]
  <2>1. 2*i \in 0..max-1 /\ 2*i+1 \in 0..max-1 /\ 2*i+2 \in 0..max /\ 2*i \in 0..max /\ 2*i+1 \in 0..max
        /\ (2*i+1)+1 = 2*i+2
    OBVIOUS
  <2>2. PICK lo \in Digit, hi \in Digit, q0 \in Digit, q1 \in Digit :
          lo = u[2*i] /\ hi = u[2*i+1] /\ q0 = res.q[2*i] /\ q1 = res.q[2*i+1]
    BY <1>5, <1>10, <2>1
  <2>3. PICK r0 \in Nat, r1 \in Nat, r2 \in Nat :
          r0 = left[2*i] /\ r1 = left[2*i+1] /\ r2 = left[2*i+2]
    <3>1. \A e \in 0..y-1 : e \in Nat BY <1>1
    <3>2. \A j \in 0..max : left[j] \in 0..y-1 BY <1>10
    <3> QED BY <2>1, <3>1, <3>2
  <2>4. r2 * Half + hi = q1 * y + r1 /\ r1 * Half + lo = q0 * y + r0
    BY <1>10, <2>1, <2>2, <2>3
  <2>5. (lo + hi * Half) + r2 * Base = (q0 + q1 * Half) * y + r0
    <3>1. TurnOf(r2, hi, q1, r1, y) /\ TurnOf(r1, lo, q0, r0, y) BY <2>4 DEF TurnOf
    <3>2. y \in Nat BY <1>1
    <3>3. WordOf(lo, hi) + r2 * Base = WordOf(q0, q1) * y + r0 BY SMTT(40), <3>1, <3>2, TwoTurns
    <3> QED BY <3>3 DEF WordOf
  <2>6. r.quot[i] = q0 + q1 * Half BY <1>12, <2>2
  <2>7. x[i] = lo + hi * Half BY <1>5, <2>2
  <2>8. q0 + q1 * Half \in Word BY TwoDigits
  <2> QED BY <1>11, <2>3, <2>5, <2>6, <2>7, <2>8
<1>15. r.quot \in [0..k-1 -> Word] BY <1>12, <1>14
<1>16. WordsDivided(r, c, x, y, k) BY <1>11, <1>13, <1>14, <1>15 DEF WordsDivided
<1> QED BY <1>16 DEF r
-----------------------------------------------------------------------------
\* The significant words, of which the code counts the bits first.
LEMMA SigWords ==
  ASSUME NEW n \in Nat \ {0}, IsBignum(n), NEW v \in AInt(n)
  PROVE  /\ NWords(UnsignedSigBits(v)) = Places(v.w)
         /\ UnsignedSigBits(v) = 1 => Value(v) < 2
         /\ Value(v) # 0 /\ Value(v) < Base => Places(v.w) = 1 /\ v.w[0] = Value(v)
<1>1. PICK m \in Nat \ {0} : m = NWords(n) BY WidthOf
<1>2. PICK bits \in Nat \ {0} : bits = WordBits BY WordBitsAssumption
<1>3. v.n = n /\ v.w \in [0..m-1 -> Word] /\ v.w \in [0..m-1 -> Int] BY <1>1, IntegerOf
<1>4. PICK k \in 0..m : /\ k = Places(v.w) /\ \A i \in 0..m-1 : i >= k => v.w[i] = 0
                        /\ k # 0 => v.w[k-1] # 0
  <2>1. m \in Nat OBVIOUS
  <2>2. /\ Places(v.w) \in 0..m /\ \A i \in 0..m-1 : i >= Places(v.w) => v.w[i] = 0
        /\ Places(v.w) # 0 => v.w[Places(v.w) - 1] # 0
    BY <1>3, <2>1, PlacesIs
  <2> QED BY <2>2
<1>5. UnsignedSigBits(v) = IF k = 0 THEN 0 ELSE WordSigBits(v.w[k-1]) + (k - 1) * WordBits
  BY <1>3, <1>4 DEF UnsignedSigBits
<1>6. CASE k = 0
  <2>1. UnsignedSigBits(v) = 0 BY <1>5, <1>6
  <2>2. (0 + bits - 1) \div bits = 0
    <3>1. 0 + bits - 1 = 0 * bits + (bits - 1) /\ bits - 1 \in 0..bits-1 /\ 0 + bits - 1 \in Int OBVIOUS
    <3> QED BY <3>1, DivMod
  <2>3. NWords(0) = 0 BY <1>2, <2>2 DEF NWords
  <2>4. Value(v) = v.w[0]
    <3>1. UnsignedSigBits(v) <= WordBits BY <1>2, <2>1
    <3> QED BY <3>1, SigBitsTell
  <2>5. v.w[0] = 0
    <3>1. 0 \in 0..m-1 /\ 0 >= 0 OBVIOUS
    <3> QED BY <1>4, <1>6, <3>1
  <2> QED BY <1>4, <1>6, <2>1, <2>3, <2>4, <2>5
<1>7. CASE k # 0
  <2>1. k - 1 \in 0..m-1 /\ k - 1 \in Nat BY <1>7
  <2>2. v.w[k-1] \in Word BY <1>3, <2>1
  <2>3. PICK s \in 1..bits : s = WordSigBits(v.w[k-1]) /\ v.w[k-1] < 2^s
    BY <1>2, <2>2, WordSigBitsIs
  <2>4. PICK e \in Nat : e = (k - 1) * bits
    <3>1. (k - 1) * bits \in Nat BY <2>1
    <3> QED BY <3>1
  <2>5. UnsignedSigBits(v) = s + e BY <1>2, <1>5, <1>7, <2>3, <2>4
  <2>6. (s + e + bits - 1) \div bits = k
    <3>1. k * bits = (k - 1) * bits + bits OBVIOUS
    <3>2. PICK f \in Int : f = k * bits OBVIOUS
    <3>3. s + e + bits - 1 = f + (s - 1) BY <2>4, <3>1, <3>2
    <3>4. s - 1 \in 0..bits-1 /\ s + e + bits - 1 \in Int OBVIOUS
    <3> QED BY <3>2, <3>3, <3>4, DivMod
  <2>7. NWords(UnsignedSigBits(v)) = k BY <1>2, <2>5, <2>6 DEF NWords
  <2>8. k >= 2 => e >= bits
    <3>1. SUFFICES ASSUME k >= 2 PROVE e >= bits OBVIOUS
    <3>2. PICK d \in Nat : k - 1 = d + 1
      <4>1. k - 2 \in Nat /\ k - 1 = (k - 2) + 1 BY <3>1
      <4> QED BY <4>1
    <3>3. (d + 1) * bits = d * bits + bits /\ d * bits \in Nat OBVIOUS
    <3>4. PICK f \in Nat : f = d * bits BY <3>3
    <3> QED BY <2>4, <3>2, <3>3, <3>4
  <2>9. UnsignedSigBits(v) = 1 => Value(v) < 2
    <3>1. SUFFICES ASSUME UnsignedSigBits(v) = 1 PROVE Value(v) < 2 OBVIOUS
    <3>2. s = 1 /\ e = 0 BY <2>5, <3>1
    <3>3. k = 1 BY <1>7, <2>8, <3>2
    <3>4. 2^1 = 2 OBVIOUS
    <3>5. v.w[0] < 2 BY <2>3, <3>2, <3>3, <3>4
    <3>6. UnsignedSigBits(v) <= WordBits BY <1>2, <3>1
    <3>7. Value(v) = v.w[0] BY <3>6, SigBitsTell
    <3> QED BY <3>5, <3>7
  <2>10. Value(v) # 0 /\ Value(v) < Base => k = 1 /\ v.w[0] = Value(v)
    <3>1. SUFFICES ASSUME Value(v) < Base PROVE k = 1 /\ v.w[0] = Value(v) OBVIOUS
    <3>2. Value(v) \in Nat /\ Base \in Nat BY ValueNat, Places_
    <3>3. ~(UnsignedSigBits(v) > WordBits)
      <4>1. PICK val \in Nat, base \in Nat : val = Value(v) /\ base = Base BY <3>2
      <4>2. ~(val >= base) BY <3>1, <4>1
      <4> QED BY <4>1, <4>2, SigBitsTell
    <3>4. s + e <= bits BY <1>2, <2>5, <3>3
    <3>5. k = 1 BY <1>7, <2>8, <3>4
    <3>6. UnsignedSigBits(v) <= WordBits BY <1>2, <2>5, <3>4
    <3> QED BY <3>5, <3>6, SigBitsTell
  <2> QED BY <1>4, <2>7, <2>9, <2>10
<1> QED BY <1>6, <1>7
-----------------------------------------------------------------------------
\* The words of the quotient by a digit, and what is left.
LEMMA PaddedOne ==
  ASSUME NEW n \in Nat \ {0}, NEW r \in Word, r < 2^n
  PROVE  LET z == Padded(n, [i \in 0..0 |-> r])
         IN  Canonical(z, n) /\ Value(z) = r
<1>1. PICK m \in Nat \ {0} : m = NWords(n) BY WidthOf
<1> DEFINE w == [i \in 0..m-1 |-> IF i \in 0..0 THEN r ELSE 0]
<1>2. Padded(n, [i \in 0..0 |-> r]) = [n |-> n, w |-> w]
  <2>1. \A i \in 0..0 : [j \in 0..0 |-> r][i] = r OBVIOUS
  <2>2. DOMAIN [j \in 0..0 |-> r] = 0..0 OBVIOUS
  <2> QED BY <1>1, <2>1, <2>2 DEF Padded, Idx
<1>3. w \in [0..m-1 -> Word] /\ OnlyAt(w, 0, m) /\ w[0] = r
  <2>1. 0 \in Word BY TwoDigits
  <2>2. w \in [0..m-1 -> Word] BY <2>1
  <2>3. 0 \in 0..m-1 /\ 0 \in 0..0 OBVIOUS
  <2>4. \A j \in 0..m-1 : j # 0 => ~(j \in 0..0) OBVIOUS
  <2> QED BY <2>2, <2>3, <2>4 DEF OnlyAt
<1> HIDE DEF w
<1>4. PICK z : z = [n |-> n, w |-> w] OBVIOUS
<1>5. z \in AInt(n) /\ z.w = w BY <1>1, <1>3, <1>4 DEF AInt, Idx
<1>6. Value(z) = r
  <2>1. m \in Nat /\ 0 \in 0..m-1 /\ w \in [0..m-1 -> Int]
    <3>1. m \in Nat /\ 0 \in 0..m-1 OBVIOUS
    <3>2. w \in [0..m-1 -> Int]
      <4>1. \A e \in Word : e \in Int BY WordIs
      <4>2. \A g \in [0..m-1 -> Word] : g \in [0..m-1 -> Int] BY <4>1
      <4> QED BY <1>3, <4>2
    <3> QED BY <3>1, <3>2
  <2>2. Sums(w, m)[m] = w[0] * Place(0) BY <1>3, <2>1, SumsOne
  <2>3. Place(0) = 1 BY Places_
  <2>4. PICK e \in Nat : e = r BY WordIs
  <2>5. e * 1 = e OBVIOUS
  <2>6. Value(z) = Sums(w, m)[m] BY <1>1, <1>5, IntegerOf
  <2> QED BY <1>3, <2>2, <2>3, <2>4, <2>5, <2>6
<1>7. Value(z) < 2^n BY <1>6
<1> QED BY <1>2, <1>4, <1>5, <1>6, <1>7, CanonicalIs
-----------------------------------------------------------------------------
\* The result of bignum_div on a divisor of one digit.
DigitDivides(n, v, z, y, k) ==
  LET res == BignumDiv(v.w, k, z, 1)
      q == Padded(n, res.quot)
      r == Padded(n, res.rem)
  IN  /\ Canonical(q, n) /\ Value(q) = Value(v) \div y
      /\ Canonical(r, n) /\ Value(r) = Value(v) % y

\* It gives the quotient and the remainder.
LEMMA DivideDigit ==
  ASSUME NEW n \in Nat \ {0}, NEW v, Canonical(v, n), NEW z, NEW y \in 1..Half-1, z[0] = y,
         NEW k \in Nat \ {0}, k = Places(v.w)
  PROVE  DigitDivides(n, v, z, y, k)
<1>1. PICK m \in Nat \ {0} : m = NWords(n) BY WidthOf
<1>2. v \in AInt(n) BY DEF Canonical
<1>3. PICK x : x = v.w OBVIOUS
<1>4. x \in [0..m-1 -> Word] /\ x \in [0..m-1 -> Int] /\ Value(v) = Sums(x, m)[m]
  BY <1>1, <1>2, <1>3, IntegerOf
<1>5. /\ k \in 0..m /\ \A i \in 0..m-1 : i >= k => x[i] = 0
      /\ x[k-1] # 0
  <2>1. m \in Nat OBVIOUS
  <2>2. /\ Places(x) \in 0..m /\ \A i \in 0..m-1 : i >= Places(x) => x[i] = 0
        /\ Places(x) # 0 => x[Places(x) - 1] # 0
    BY <1>4, <2>1, PlacesIs
  <2> QED BY <1>3, <2>2
<1>6. y \in Nat \ {0} /\ y \in Word
  <2>1. PICK h \in Nat : h = Half BY Places_
  <2>2. y \in Digit BY <2>1 DEF Digit
  <2> QED BY <2>1, <2>2, TwoDigits
<1> DEFINE res == BignumDiv(x, k, z, 1)
<1>7. PICK left : WordsDivided(res, left, x, y, k)
  <2>1. \A i \in 0..k-1 : x[i] \in Word
    <3>1. \A i \in 0..k-1 : i \in 0..m-1 BY <1>5
    <3> QED BY <1>4, <3>1
  <2> HIDE DEF res
  <2>2. \E l : WordsDivided(BignumDiv(x, k, z, 1), l, x, y, k) BY <1>5, <2>1, ShortWords
  <2> QED BY <2>2 DEF res
<1> HIDE DEF res
<1>8. /\ res.quot \in [0..k-1 -> Word] /\ res.rem = [i \in 0..0 |-> left[0]]
      /\ left \in [0..k -> 0..y-1] /\ left[k] = 0
      /\ \A i \in 0..k-1 : x[i] + left[i+1] * Base = res.quot[i] * y + left[i]
  BY <1>7 DEF WordsDivided
<1> DEFINE w == [i \in 0..m-1 |-> IF i \in 0..k-1 THEN res.quot[i] ELSE 0]
           u == [i \in 0..m-1 |-> w[i] * y]
           none == [i \in 0..m-1 |-> 0]
           c == [i \in 0..m |-> IF i <= k THEN left[i] ELSE 0]
<1>9. Padded(n, res.quot) = [n |-> n, w |-> w]
  <2>1. DOMAIN res.quot = 0..k-1 BY <1>8
  <2> QED BY <1>1, <2>1 DEF Padded, Idx
<1>10. w \in [0..m-1 -> Word] /\ w \in [0..m-1 -> Int]
  <2>1. 0 \in Word BY TwoDigits
  <2>2. w \in [0..m-1 -> Word] BY <1>8, <2>1
  <2>3. \A g \in [0..m-1 -> Word] : g \in [0..m-1 -> Int] BY WordIs
  <2> HIDE DEF w
  <2> QED BY <2>2, <2>3
<1>11. \A i \in 0..m-1 : w[i] = IF i \in 0..k-1 THEN res.quot[i] ELSE 0 OBVIOUS
<1> HIDE DEF w
<1>12. u \in [0..m-1 -> Int] /\ none \in [0..m-1 -> Int]
  <2>1. \A i \in 0..m-1 : w[i] * y \in Int
    <3>1. TAKE i \in 0..m-1
    <3>2. PICK e \in Int : e = w[i] BY <1>10
    <3>3. e * y \in Int BY <1>6
    <3> QED BY <3>2, <3>3
  <2> QED BY <2>1
<1>13. c \in [0..m -> 0..y-1] /\ c \in [0..m -> Int] /\ c[m] = 0 /\ c[0] = left[0]
  <2>1. 0 \in 0..y-1 BY <1>6
  <2>2. \A i \in 0..m : i <= k => i \in 0..k OBVIOUS
  <2>3. c \in [0..m -> 0..y-1] BY <1>8, <2>1, <2>2
  <2>4. \A g \in [0..m -> 0..y-1] : g \in [0..m -> Int] BY <1>6
  <2>5. c[m] = 0
    <3>1. m \in 0..m OBVIOUS
    <3>2. c[m] = IF m <= k THEN left[m] ELSE 0 BY <3>1
    <3>3. m <= k => m = k BY <1>5
    <3> QED BY <1>8, <3>2, <3>3
  <2>6. c[0] = left[0]
    <3>1. 0 \in 0..m /\ 0 <= k OBVIOUS
    <3> QED BY <3>1
  <2> HIDE DEF c
  <2> QED BY <2>3, <2>4, <2>5, <2>6
<1>14. ASSUME NEW i \in 0..m-1 PROVE x[i] + c[i+1] * Base = u[i] + none[i] + c[i]
  <2>1. i \in 0..m /\ i + 1 \in 0..m OBVIOUS
  <2>2. PICK base \in Nat, e \in Int : base = Base /\ e = x[i] BY <1>4, Places_
  <2>3. CASE i \in 0..k-1
    <3>1. i <= k /\ i + 1 <= k /\ i \in 0..k /\ i + 1 \in 0..k BY <2>3
    <3>2. c[i] = left[i] /\ c[i+1] = left[i+1] BY <2>1, <3>1
    <3>3. u[i] = res.quot[i] * y /\ none[i] = 0 BY <1>11, <2>3
    <3>4. PICK q \in Int : q = res.quot[i] BY <1>8, <2>3, WordIs
    <3>5. PICK r \in Int : r = left[i]
      <4>1. left[i] \in 0..y-1 BY <1>8, <3>1
      <4>2. \A g \in 0..y-1 : g \in Int BY <1>6
      <4> QED BY <4>1, <4>2
    <3>6. PICK f \in Int : f = q * y BY <1>6
    <3>7. x[i] + left[i+1] * Base = f + r BY <1>8, <2>3, <3>4, <3>5, <3>6
    <3>8. f + r = f + 0 + r OBVIOUS
    <3> QED BY <3>2, <3>3, <3>4, <3>5, <3>6, <3>7, <3>8
  <2>4. CASE ~(i \in 0..k-1)
    <3>1. i >= k /\ ~(i + 1 <= k) BY <2>4
    <3>2. x[i] = 0 /\ c[i+1] = 0 BY <1>5, <2>1, <3>1
    <3>3. c[i] = 0
      <4>1. c[i] = IF i <= k THEN left[i] ELSE 0 BY <2>1
      <4>2. i <= k => i = k BY <3>1
      <4> QED BY <1>8, <4>1, <4>2
    <3>4. u[i] = 0 * y /\ none[i] = 0 BY <1>11, <2>4
    <3>5. 0 * y = 0 /\ 0 + 0 * base = 0 + 0 + 0 BY <1>6
    <3> QED BY <2>2, <3>2, <3>3, <3>4, <3>5
  <2> QED BY <2>3, <2>4
<1>15. Scaled(u, w, y, m) BY DEF Scaled
<1>16. Sums(none, m)[m] = 0
  <2>1. \A j \in 0..m-1 : none[j] = 0 OBVIOUS
  <2> HIDE DEF none
  <2>2. m \in Nat OBVIOUS
  <2> QED BY <1>12, <2>1, <2>2, SumsZero
<1> HIDE DEF u, none, c
<1>17. Sums(x, m)[m] + 0 * Place(m) = Sums(u, m)[m] + 0 + left[0]
  <2>1. Chained(x, u, none, c, m) BY <1>14 DEF Chained
  <2>2. m \in Nat /\ m \in 0..m OBVIOUS
  <2>3. ChainedSums(x, u, none, c, m) BY <1>4, <1>12, <1>13, <2>1, <2>2, Chain
  <2>4. Sums(x, m)[m] + c[m] * Place(m) = Sums(u, m)[m] + Sums(none, m)[m] + c[0]
    BY <2>2, <2>3 DEF ChainedSums
  <2> QED BY <1>13, <1>16, <2>4
<1>18. Sums(u, m)[m] = Sums(w, m)[m] * y
  <2>1. m \in Nat /\ y \in Int BY <1>6
  <2> QED BY ZenonT(40), <1>10, <1>12, <1>15, <2>1, SumsScaled
<1>19. PICK val \in Nat, q \in Nat, r \in 0..y-1 :
         val = Value(v) /\ q = Sums(w, m)[m] /\ r = left[0]
  <2>1. Value(v) \in Nat BY <1>2, ValueNat
  <2>2. Sums(w, m)[m] \in Nat
    <3>1. m \in Nat /\ m \in 0..m OBVIOUS
    <3>2. Sums(w, m)[m] \in 0..Place(m)-1 BY <1>10, <3>1, SumsBound
    <3>3. PICK p \in Nat : p = Place(m) BY <3>1, PlaceIs
    <3> QED BY <3>2, <3>3
  <2>3. left[0] \in 0..y-1 BY <1>8
  <2> QED BY <2>1, <2>2, <2>3
<1>20. val = q * y + r
  <2>1. PICK p \in Int : p = Place(m) BY PlaceIs
  <2>2. 0 * p = 0 OBVIOUS
  <2>3. PICK e \in Nat : e = q * y BY <1>6
  <2>4. val + 0 = e + 0 + r BY <1>4, <1>17, <1>18, <1>19, <2>1, <2>2, <2>3
  <2>5. r \in Nat BY <1>6
  <2> QED BY <2>3, <2>4, <2>5
<1>21. val \div y = q /\ val % y = r
  <2>1. val \in Int /\ q \in Int OBVIOUS
  <2> QED BY SMTT(40), <1>6, <1>20, <2>1, DivMod
<1>22. q <= val /\ r <= val
  <2>1. val \div y \in 0..val /\ val % y <= val BY <1>6, QuotientIs
  <2> QED BY <1>21, <2>1
<1>23. PICK p \in Nat : p = 2^n /\ val < p
  <2>1. Value(v) \in 0..2^n-1 BY CanonicalValue
  <2>2. PICK p \in Nat : p = 2^n BY WidthOf
  <2> QED BY <1>19, <2>1, <2>2
<1>24. PICK quot : quot = [n |-> n, w |-> w] OBVIOUS
<1>25. quot \in AInt(n) /\ quot.w = w BY <1>1, <1>10, <1>24 DEF AInt, Idx
<1>26. Value(quot) = q BY <1>1, <1>19, <1>25, IntegerOf
<1>27. Canonical(quot, n)
  <2>1. Value(quot) < 2^n BY <1>22, <1>23, <1>26
  <2> QED BY <1>25, <2>1, CanonicalIs
<1>28. Canonical(Padded(n, res.rem), n) /\ Value(Padded(n, res.rem)) = r
  <2>1. r \in Word
    <3>1. PICK e \in Nat : e = Base BY Places_
    <3>2. y < e /\ r \in Nat /\ r < y BY <1>6, <3>1, WordIs
    <3> QED BY <3>1, <3>2 DEF Word
  <2>2. r < 2^n BY <1>6, <1>22, <1>23
  <2>3. res.rem = [i \in 0..0 |-> r] BY <1>8, <1>19
  <2> QED BY <2>1, <2>2, <2>3, PaddedOne
<1> QED BY <1>3, <1>9, <1>19, <1>21, <1>24, <1>26, <1>27, <1>28 DEF res, DigitDivides
-----------------------------------------------------------------------------
\* The cases that the code tells apart before it divides.
LEMMA EasyQuotients ==
  /\ \A y \in Nat \ {0} : 0 \div y = 0 /\ 0 % y = 0
  /\ \A x \in Nat : x \div 1 = x /\ x % 1 = 0
  /\ \A y \in Nat \ {0} : \A x \in 0..y-1 : x \div y = 0 /\ x % y = x
  /\ \A y \in Nat \ {0} : y \div y = 1 /\ y % y = 0
<1>1. ASSUME NEW y \in Nat \ {0}, NEW x \in 0..y-1 PROVE x \div y = 0 /\ x % y = x
  <2>1. x = 0 * y + x /\ x \in Int /\ 0 \in Int OBVIOUS
  <2> QED BY <2>1, DivMod
<1>2. \A y \in Nat \ {0} : 0 \div y = 0 /\ 0 % y = 0
  <2>1. \A y \in Nat \ {0} : 0 \in 0..y-1 OBVIOUS
  <2> QED BY <1>1, <2>1
<1>3. ASSUME NEW x \in Nat PROVE x \div 1 = x /\ x % 1 = 0
  <2>1. x = x * 1 + 0 /\ x \in Int /\ 0 \in 0..1-1 /\ 1 \in Nat \ {0} OBVIOUS
  <2> QED BY <2>1, DivMod
<1>4. ASSUME NEW y \in Nat \ {0} PROVE y \div y = 1 /\ y % y = 0
  <2>1. y = 1 * y + 0 /\ y \in Int /\ 0 \in 0..y-1 /\ 1 \in Int OBVIOUS
  <2> QED BY <2>1, DivMod
<1> QED BY <1>1, <1>2, <1>3, <1>4

\* Division by a number of one digit, whatever the width.
LEMMA DivideShort ==
  ASSUME NEW n \in Nat \ {0}, IsBignum(n), NEW v, Canonical(v, n), NEW u, Canonical(u, n),
         Value(u) # 0, Value(u) < Half
  PROVE  DividesTo(n, v, u)
<1>1. v \in AInt(n) /\ u \in AInt(n) /\ v.n = n BY IntegerOf DEF Canonical
<1>2. PICK x \in Nat, h \in Nat, y \in Nat \ {0}, base \in Nat :
        x = Value(v) /\ h = Half /\ y = Value(u) /\ base = Base /\ h <= base /\ y \in 1..h-1
  <2>1. Value(v) \in Nat /\ Value(u) \in Nat BY <1>1, ValueNat
  <2>2. PICK h \in Nat, base \in Nat : h = Half /\ h >= 2 /\ base = Base /\ base = h * h BY Places_
  <2>3. h <= base
    <3>1. PICK d \in Nat : h = d + 1
      <4>1. h - 1 \in Nat /\ h = (h - 1) + 1 BY <2>2
      <4> QED BY <4>1
    <3>2. h * (d + 1) = h * d + h /\ h * d \in Nat OBVIOUS
    <3>3. PICK e \in Nat : e = h * d BY <3>2
    <3> QED BY <2>2, <3>1, <3>2, <3>3
  <2> QED BY <2>1, <2>2, <2>3
<1>3. NWords(UnsignedSigBits(v)) = Places(v.w) /\ NWords(UnsignedSigBits(u)) = Places(u.w)
  BY <1>1, SigWords
<1>4. Places(u.w) = 1 /\ u.w[0] = y BY <1>1, <1>2, SigWords
<1>5. PICK k \in Nat : k = Places(v.w) /\ k = NWords(UnsignedSigBits(v))
  <2>1. PICK m \in Nat : m = NWords(n) BY WidthOf
  <2>2. v.w \in [0..m-1 -> Int] BY <1>1, <2>1, IntegerOf
  <2>3. Places(v.w) \in 0..m BY <2>2, PlacesIs
  <2> QED BY <1>3, <2>3
<1>6. PICK p \in Nat \ {0} : p = 2^n /\ x % p = x
  <2>1. 2^n \in Nat \ {0} BY WidthOf
  <2> QED BY <1>2, <2>1, CanonicalValue
<1>7. x \div y \in 0..x /\ x % y \in 0..y-1 /\ x % y <= x
  BY <1>2, QuotientIs
<1>8. 0 \in Word /\ 1 \in Word /\ y \in Word
  <2>1. h >= 2 /\ 0 \in Digit /\ 1 \in Digit /\ y \in Digit BY <1>2, Places_ DEF Digit
  <2> QED BY <2>1, TwoDigits
<1>9. \A d \in Word : Canonical(Init1(n, d, FALSE), n) /\ Value(Init1(n, d, FALSE)) = d % 2^n
  BY Init1Exact
<1>10. CASE k = 0
  <2>1. Udiv(v, u) = Init1(n, 0, FALSE) /\ Urem(v, u) = Init1(n, 0, FALSE)
    BY <1>1, <1>5, <1>10 DEF Udiv, Urem
  <2>2. x = 0
    <3>1. x < base
      <4>1. ~(UnsignedSigBits(v) > WordBits)
        <5>1. PICK s \in Nat, bits \in Nat \ {0} : s = UnsignedSigBits(v) /\ bits = WordBits
          BY <1>1, SigBitsTell, WordBitsAssumption
        <5>2. (s + bits - 1) \div bits = 0 BY <1>5, <1>10, <5>1 DEF NWords
        <5>3. s < bits
          <6>1. PICK r \in 0..bits-1 : s + bits - 1 = 0 * bits + r
            <7>1. s + bits - 1 \in Int OBVIOUS
            <7> QED BY <5>2, <7>1, DivModOf
          <6>2. 0 * bits = 0 OBVIOUS
          <6> QED BY <6>1, <6>2
        <5> QED BY <5>1, <5>3
      <4>2. UnsignedSigBits(v) <= WordBits
        <5>1. PICK s \in Nat, bits \in Nat : s = UnsignedSigBits(v) /\ bits = WordBits
          BY <1>1, SigBitsTell, WordBitsAssumption
        <5> QED BY <4>1, <5>1
      <4>3. Value(v) = v.w[0] /\ v.w[0] \in Word BY <1>1, <4>2, SigBitsTell, FirstWord
      <4> QED BY <1>2, <4>3, WordIs
    <3>2. x # 0 => k = 1 BY <1>1, <1>2, <1>5, <3>1, SigWords
    <3> QED BY <1>10, <3>2
  <2>3. 0 \div y = 0 /\ 0 % y = 0 BY <1>2, EasyQuotients
  <2> QED BY ZenonT(40), <1>2, <1>8, <1>9, <2>1, <2>2, <2>3 DEF DividesTo
<1>11. CASE k # 0 /\ UnsignedSigBits(u) = 1
  <2>1. Udiv(v, u) = v /\ Urem(v, u) = Init1(n, 0, FALSE)
    BY <1>1, <1>5, <1>11 DEF Udiv, Urem
  <2>2. y = 1
    <3>1. Value(u) < 2 BY <1>1, <1>11, SigWords
    <3> QED BY <1>2, <3>1
  <2>3. x \div 1 = x /\ x % 1 = 0 BY EasyQuotients
  <2> QED BY ZenonT(40), <1>2, <1>6, <1>8, <1>9, <2>1, <2>2, <2>3 DEF DividesTo
<1>12. CASE k # 0 /\ UnsignedSigBits(u) # 1 /\ x < y
  <2>1. Udiv(v, u) = Init1(n, 0, FALSE) /\ Urem(v, u) = v
    BY <1>1, <1>2, <1>5, <1>12 DEF Udiv, Urem
  <2>2. x \div y = 0 /\ x % y = x
    <3>1. x \in 0..y-1 BY <1>2, <1>12
    <3> QED BY <1>2, <3>1, EasyQuotients
  <2> QED BY ZenonT(40), <1>2, <1>6, <1>8, <1>9, <2>1, <2>2 DEF DividesTo
<1>13. CASE k # 0 /\ UnsignedSigBits(u) # 1 /\ ~(x < y) /\ v = u
  <2>1. Udiv(v, u) = Init1(n, 1, FALSE) /\ Urem(v, u) = Init1(n, 0, FALSE)
    <3>1. ~(Value(v) < Value(u)) BY <1>2, <1>13
    <3> QED BY <1>1, <1>5, <1>13, <3>1 DEF Udiv, Urem
  <2>2. x = y BY <1>2, <1>13
  <2>3. y \div y = 1 /\ y % y = 0 BY <1>2, EasyQuotients
  <2>4. Value(v) \div Value(u) = 1 /\ Value(v) % Value(u) = 0 BY <1>2, <2>2, <2>3
  <2>5. /\ Canonical(Udiv(v, u), n) /\ Value(Udiv(v, u)) = 1 % 2^n
        /\ Canonical(Urem(v, u), n) /\ Value(Urem(v, u)) = 0 % 2^n
    BY <1>8, <1>9, <2>1
  <2> QED BY <2>4, <2>5 DEF DividesTo
<1>14. CASE k = 1 /\ UnsignedSigBits(u) # 1 /\ ~(x < y) /\ v # u
  <2>1. Udiv(v, u) = Init1(n, v.w[0] \div u.w[0], FALSE)
        /\ Urem(v, u) = Init1(n, v.w[0] % u.w[0], FALSE)
    <3>1. ~(Value(v) < Value(u)) /\ k # 0 BY <1>2, <1>14
    <3> QED BY <1>1, <1>5, <1>14, <3>1 DEF Udiv, Urem
  <2>2. v.w[0] = x
    <3>1. UnsignedSigBits(v) <= WordBits
      <4>1. PICK s \in Nat, bits \in Nat \ {0} : s = UnsignedSigBits(v) /\ bits = WordBits
        BY <1>1, SigBitsTell, WordBitsAssumption
      <4>2. (s + bits - 1) \div bits = 1 BY <1>5, <1>14, <4>1 DEF NWords
      <4>3. PICK r \in 0..bits-1 : s + bits - 1 = 1 * bits + r
        <5>1. s + bits - 1 \in Int OBVIOUS
        <5> QED BY <4>2, <5>1, DivModOf
      <4>4. 1 * bits = bits OBVIOUS
      <4> QED BY <4>1, <4>3, <4>4
    <3> QED BY <1>1, <1>2, <3>1, SigBitsTell
  <2>3. x \in Word BY <1>1, <2>2, FirstWord
  <2>4. x \div y \in Word /\ x % y \in Word
    <3>1. x < base BY <1>2, <2>3, WordIs
    <3>2. x \div y < base /\ x % y < base /\ x \div y \in Nat /\ x % y \in Nat
      <4>1. PICK q \in 0..x, r \in 0..y-1 : q = x \div y /\ r = x % y /\ r <= x BY <1>7
      <4> QED BY <1>2, <3>1, <4>1
    <3> QED BY <1>2, <3>2 DEF Word
  <2> QED BY <1>2, <1>4, <1>9, <2>1, <2>2, <2>4 DEF DividesTo
<1>15. CASE k # 0 /\ k # 1 /\ UnsignedSigBits(u) # 1 /\ ~(x < y) /\ v # u
  <2>1. /\ Udiv(v, u) = Padded(n, BignumDiv(v.w, k, u.w, 1).quot)
        /\ Urem(v, u) = Padded(n, BignumDiv(v.w, k, u.w, 1).rem)
    <3>1. ~(Value(v) < Value(u)) BY <1>2, <1>15
    <3> QED BY <1>1, <1>3, <1>4, <1>5, <1>15, <3>1 DEF Udiv, Urem
  <2>2. y \in 1..Half-1 /\ k \in Nat \ {0} BY <1>2, <1>15
  <2>3. LET res == BignumDiv(v.w, k, u.w, 1)
            q == Padded(n, res.quot)
            r == Padded(n, res.rem)
        IN  /\ Canonical(q, n) /\ Value(q) = Value(v) \div y
            /\ Canonical(r, n) /\ Value(r) = Value(v) % y
    <3>1. DigitDivides(n, v, u.w, y, k)
      <4>1. u.w[0] = y /\ k = Places(v.w) BY <1>4, <1>5
      <4> QED BY <2>2, <4>1, DivideDigit
    <3> QED BY <3>1 DEF DigitDivides
  <2>4. (x \div y) % p = x \div y /\ (x % y) % p = x % y
    <3>1. PICK q \in 0..x, r \in Nat : q = x \div y /\ r = x % y /\ r <= x BY <1>7
    <3>2. x < p
      <4>1. Value(v) \in 0..2^n-1 BY CanonicalValue
      <4> QED BY <1>2, <1>6, <4>1
    <3>3. q \in 0..p-1 /\ r \in 0..p-1 BY <3>1, <3>2
    <3> QED BY <3>1, <3>3
  <2> QED BY <1>2, <1>6, <2>1, <2>3, <2>4 DEF DividesTo
<1> QED BY <1>10, <1>11, <1>12, <1>13, <1>14, <1>15

\* Division that does not go through knuth_bignum_div.
LEMMA UnsignedDivision ==
  ASSUME NEW n \in Nat \ {0}, NEW v, Canonical(v, n), NEW u, Canonical(u, n),
         Value(u) # 0, ~Long(u)
  PROVE  DividesTo(n, v, u)
<1>1. v \in AInt(n) /\ u \in AInt(n) /\ u.n = n BY IntegerOf DEF Canonical
<1>2. CASE ~IsBignum(n) BY <1>1, <1>2, DivideOne
<1>3. CASE IsBignum(n)
  <2>1. ~(Value(u) >= Half) BY <1>1, <1>3 DEF Long
  <2>2. Value(u) \in Nat /\ Half \in Nat BY <1>1, ValueNat, Places_
  <2>3. Value(u) < Half BY <2>1, <2>2
  <2> QED BY <1>3, <2>3, DivideShort
<1> QED BY <1>2, <1>3
-----------------------------------------------------------------------------
(***************************************************************************)
(* The whole product, in twice as many words.                              *)
(***************************************************************************)
\* The words with the copies of the sign taken away, which SignedSigBits counts.
Unsigned(v, n) == [i \in 0..NWords(n)-1 |-> IF Negative(v) THEN Base - 1 - v.w[i] ELSE v.w[i]]

\* An integer of whole words that midint_signed_sig_bits says fits in one word has
\* nothing but copies of its sign in the words after the first, and one in front of it.
LEMMA SignedSigBitsTell ==
  ASSUME NEW n \in Nat \ {0}, IsBignum(n), n % WordBits = 0, NEW v \in AInt(n),
         SignedSigBits(v) <= WordBits
  PROVE  /\ Unsigned(v, n)[0] \in Nat /\ Unsigned(v, n)[0] < Base \div 2
         /\ OnlyAt(Unsigned(v, n), 0, NWords(n))
<1>1. PICK w \in Nat \ {0} : w = WordBits BY WordBitsAssumption
<1>2. PICK m \in Nat \ {0} : m = NWords(n) BY WidthOf
<1>3. PICK top \in Nat : m = top + 1
  <2>1. m - 1 \in Nat /\ m = (m - 1) + 1 OBVIOUS
  <2> QED BY <2>1
<1>4. n = m * w
  <2>1. PICK l \in 1..w : l = LastBits(n) /\ n = top * w + l
    <3>1. LastBits(n) \in 1..w /\ n = (m - 1) * w + LastBits(n) BY <1>1, <1>2, WidthOf
    <3>2. m - 1 = top BY <1>3
    <3> QED BY <3>1, <3>2
  <2>2. PICK q \in Int : n = q * w
    <3>1. n = (n \div w) * w + (n % w) /\ n \div w \in Int BY <1>1, DivModOf
    <3>2. n % w = 0 BY <1>1
    <3>3. (n \div w) * w \in Int BY <3>1
    <3> QED BY <3>1, <3>2, <3>3
  <2>3. (q - top) * w = l
    <3>1. (q - top) * w = q * w - top * w /\ q * w \in Int /\ top * w \in Int OBVIOUS
    <3>2. PICK qw \in Int, tw \in Int : qw = q * w /\ tw = top * w BY <3>1
    <3>3. qw = tw + l BY <2>1, <2>2, <3>2
    <3>4. (q - top) * w = qw - tw BY <3>1, <3>2
    <3>5. qw - tw = l BY <3>3
    <3> QED BY <3>4, <3>5
  <2>4. q - top = 1
    <3>1. PICK d \in Int : d = q - top OBVIOUS
    <3>2. d * w = l BY <2>3, <3>1
    <3>3. CASE d <= 0
      <4>1. PICK e \in Nat : d = 0 - e
        <5>1. 0 - d \in Nat /\ d = 0 - (0 - d) BY <3>3
        <5> QED BY <5>1
      <4>2. (0 - e) * w = 0 - e * w /\ e * w \in Nat OBVIOUS
      <4> QED BY <3>2, <4>1, <4>2
    <3>4. CASE d >= 2
      <4>1. PICK e \in Nat : d = e + 2
        <5>1. d - 2 \in Nat /\ d = (d - 2) + 2 BY <3>4
        <5> QED BY <5>1
      <4>2. (e + 2) * w = e * w + w + w /\ e * w \in Nat OBVIOUS
      <4> QED BY <3>2, <4>1, <4>2
    <3> QED BY <3>1, <3>3, <3>4
  <2>5. q = m BY <1>3, <2>4
  <2> QED BY <2>2, <2>5
<1>5. v.n = n /\ v.w \in [0..m-1 -> Word] /\ Top(v) = top
  <2>1. v.n = n /\ v.w \in [0..m-1 -> Word] /\ Top(v) = m - 1 BY <1>2, IntegerOf
  <2> QED BY <1>3, <2>1
<1> DEFINE f == Unsigned(v, n)
           sign == IF Negative(v) THEN Base - 1 ELSE 0
           inner == {i \in DOMAIN v.w : v.w[i] # sign}
<1>6. PICK base \in Nat, half \in Nat \ {0} : base = Base /\ half = Base \div 2 /\ base = half + half
                                               /\ half = 2^(w-1)
  BY <1>1, HalfWord, Places_
<1>7. ASSUME NEW i \in 0..m-1
      PROVE  /\ f[i] \in Word /\ f[i] \in Nat /\ (f[i] = 0 <=> i \notin inner)
             /\ f[i] = (IF sign = 0 THEN v.w[i] ELSE Base - 1 - v.w[i])
  <2>1. v.w[i] \in Word /\ i \in DOMAIN v.w BY <1>5
  <2>2. PICK x \in 0..base-1 : x = v.w[i] BY <1>6, <2>1 DEF Word
  <2>3. f[i] = IF Negative(v) THEN base - 1 - x ELSE x BY <1>2, <1>6, <2>2 DEF Unsigned
  <2>4. sign = IF Negative(v) THEN base - 1 ELSE 0 BY <1>6
  <2>5. i \in inner <=> x # sign BY <2>1, <2>2
  <2> HIDE DEF f, sign, inner
  <2>6. f[i] \in 0..base-1 /\ (f[i] = 0 <=> x = sign)
    <3>1. CASE Negative(v)
      <4>1. f[i] = base - 1 - x /\ sign = base - 1 BY <2>3, <2>4, <3>1
      <4>2. base - 1 - x \in 0..base-1 /\ (base - 1 - x = 0 <=> x = base - 1) BY <1>6
      <4> QED BY <4>1, <4>2
    <3>2. CASE ~Negative(v)
      <4>1. f[i] = x /\ sign = 0 BY <2>3, <2>4, <3>2
      <4> QED BY <4>1
    <3> QED BY <3>1, <3>2
  <2>7. f[i] = (IF sign = 0 THEN x ELSE base - 1 - x) BY <1>6, <2>3, <2>4
  <2> QED BY <1>6, <2>2, <2>5, <2>6, <2>7 DEF Word
<1>8. CASE inner = {}
  <2>1. \A i \in 0..m-1 : f[i] = 0 BY <1>7, <1>8
  <2>2. 0 \in 0..m-1 OBVIOUS
  <2> QED BY <1>2, <1>6, <2>1, <2>2 DEF OnlyAt
<1>9. CASE inner # {}
  <2> DEFINE j == Max(inner)
  <2>1. j \in inner /\ \A i \in inner : j >= i
    <3>1. inner \subseteq 0..top BY <1>3, <1>5
    <3> HIDE DEF inner
    <3>2. \E k \in inner : \A i \in inner : i <= k BY <1>9, <3>1, NatMax
    <3>3. PICK k \in inner : \A i \in inner : i <= k BY <3>2
    <3>4. \A i \in inner : k >= i
      <4>1. \A i \in inner : i \in Nat BY <3>1
      <4> QED BY <3>3, <4>1
    <3> QED BY <3>3, <3>4 DEF Max
  <2>2. j \in 0..m-1 BY <1>5, <2>1
  <2>3. f[j] = (IF sign = 0 THEN v.w[j] ELSE Base - 1 - v.w[j]) /\ f[j] \in Word BY <1>7, <2>2
  <2>4. SignedSigBits(v) = n - ((top - j) * w + (w - WordSigBits(f[j]))) + 1
    <3>1. SignedSigBits(v)
            = v.n - ((Top(v) - j) * WordBits
                       + (WordBits - WordSigBits(IF sign = 0 THEN v.w[j] ELSE Base - 1 - v.w[j]))) + 1
      BY <1>9 DEF SignedSigBits
    <3> HIDE DEF sign, inner, f
    <3> QED BY <1>1, <1>5, <2>3, <3>1
  <2> HIDE DEF f, sign, j
  <2>5. PICK k \in 1..w : k = WordSigBits(f[j]) /\ f[j] < 2^k BY <1>1, <2>3, WordSigBitsIs
  <2>6. PICK l \in 0..top : l = j BY <1>3, <2>2
  <2>7. n - ((top - l) * w + (w - k)) + 1 = l * w + k + 1
    <3>1. (top - l) * w = top * w - l * w /\ (top + 1) * w = top * w + w /\ top * w \in Int
            /\ l * w \in Int
      OBVIOUS
    <3>2. m * w = top * w + w BY <1>3, <3>1
    <3> QED BY <1>4, <3>1, <3>2
  <2>8. l * w + k + 1 <= w BY <1>1, <2>4, <2>5, <2>6, <2>7
  <2>9. l = 0 /\ k <= w - 1
    <3>1. l * w \in Nat OBVIOUS
    <3>2. l = 0
      <4>1. SUFFICES ASSUME l # 0 PROVE FALSE OBVIOUS
      <4>2. PICK e \in Nat : l = e + 1
        <5>1. l - 1 \in Nat /\ l = (l - 1) + 1 BY <4>1
        <5> QED BY <5>1
      <4>3. (e + 1) * w = e * w + w /\ e * w \in Nat OBVIOUS
      <4> QED BY <2>8, <4>2, <4>3
    <3> QED BY <2>8, <3>1, <3>2
  <2>10. f[0] < half /\ f[0] \in Nat
    <3>1. k \in Nat /\ w - 1 \in Nat /\ k <= w - 1 BY <2>9
    <3>2. 2^k <= 2^(w-1) /\ 2^k \in Nat BY <3>1, PowerMonotone, PowerOfTwo
    <3>3. f[0] \in Nat /\ f[0] < 2^k BY <1>7, <2>2, <2>5, <2>6, <2>9
    <3> QED BY <1>6, <3>2, <3>3
  <2>11. \A i \in 0..m-1 : i # 0 => f[i] = 0
    <3>1. \A i \in 0..m-1 : i # 0 => i \notin inner
      <4> HIDE DEF inner
      <4> QED BY <2>1, <2>6, <2>9
    <3> HIDE DEF inner
    <3> QED BY <1>7, <3>1
  <2> QED BY <1>2, <1>6, <2>10, <2>11 DEF OnlyAt, f
<1> QED BY <1>8, <1>9

\* midint_to_sint of several whole words returns the signed integer, of a value
\* that midint_signed_sig_bits says fits.
LEMMA ToSintWhole ==
  ASSUME NEW n \in Nat \ {0}, IsBignum(n), n % WordBits = 0, NEW v, Canonical(v, n),
         SignedSigBits(v) <= WordBits
  PROVE  ToSint(v) = Sgn(Value(v), n)
<1>1. v \in AInt(n) BY DEF Canonical
<1>2. PICK m \in Nat \ {0} : m = NWords(n) BY WidthOf
<1>3. v.n = n /\ v.w \in [0..m-1 -> Word] /\ v.w \in [0..m-1 -> Int] /\ Value(v) = Sums(v.w, m)[m]
  BY <1>1, <1>2, IntegerOf
<1> DEFINE f == Unsigned(v, n)
<1>4. f[0] \in Nat /\ f[0] < Base \div 2 /\ OnlyAt(f, 0, m) BY <1>1, <1>2, SignedSigBitsTell
<1>5. f = [i \in 0..m-1 |-> IF Negative(v) THEN Base - 1 - v.w[i] ELSE v.w[i]] BY <1>2 DEF Unsigned
<1>6. \A i \in 0..m-1 : v.w[i] \in Int /\ Base - 1 - v.w[i] \in Int
  <2>1. Base \in Int BY Places_
  <2>2. \A i \in 0..m-1 : v.w[i] \in Int BY <1>3
  <2> QED BY <2>1, <2>2
<1>7. f \in [0..m-1 -> Int] BY <1>5, <1>6
<1> HIDE DEF f
<1>8. PICK base \in Nat, half \in Nat \ {0}, g \in Nat :
        base = Base /\ half = Base \div 2 /\ base = half + half /\ g = f[0] /\ g < half
  BY <1>4, HalfWord, Places_
<1>9. Sums(f, m)[m] = g
  <2>1. 0 \in 0..m-1 /\ m \in Nat OBVIOUS
  <2>2. Sums(f, m)[m] = f[0] * Place(0) BY <1>4, <1>7, <2>1, SumsOne
  <2>3. g * 1 = g OBVIOUS
  <2> QED BY <1>8, <2>2, <2>3, Places_
<1>10. 0 \in 0..m-1 /\ v.w[0] \in Int BY <1>6
<1>11. PICK p \in Nat, h \in Nat \ {0} :
         p = 2^n /\ h = 2^(n-1) /\ (Negative(v) <=> Value(v) >= h)
  BY SignIs, WidthOf
<1>12. ToSint(v) = IF v.w[0] < half THEN v.w[0] ELSE v.w[0] - base BY <1>3, <1>8 DEF ToSint
<1>13. Sgn(Value(v), n) = IF Value(v) >= h THEN Value(v) - p ELSE Value(v) BY <1>11 DEF Sgn
<1>14. CASE ~Negative(v)
  <2>1. \A i \in 0..m-1 : f[i] = v.w[i] BY <1>5, <1>14
  <2>2. Sums(v.w, m)[m] = Sums(f, m)[m]
    <3>1. m \in Nat /\ m \in 0..m OBVIOUS
    <3> QED BY <1>3, <1>7, <2>1, <3>1, SumsAgree
  <2>3. v.w[0] = g /\ Value(v) = g BY <1>3, <1>8, <1>9, <1>10, <2>1, <2>2
  <2> QED BY <1>8, <1>11, <1>12, <1>13, <1>14, <2>3
<1>15. CASE Negative(v)
  <2> DEFINE z == [i \in 0..m-1 |-> 0]
             c == [i \in 0..m |-> 1]
  <2>1. ASSUME NEW i \in 0..m-1 PROVE z[i] + c[i+1] * Base = v.w[i] + f[i] + c[i]
    <3>1. PICK x \in Int : x = v.w[i] BY <1>6
    <3>2. f[i] = base - 1 - x BY <1>5, <1>8, <1>15, <3>1
    <3>3. i \in 0..m /\ i + 1 \in 0..m OBVIOUS
    <3>4. 0 + 1 * base = x + (base - 1 - x) + 1 OBVIOUS
    <3>5. z[i] = 0 /\ c[i+1] = 1 /\ c[i] = 1 BY <3>3
    <3> HIDE DEF z, c
    <3> QED BY <1>8, <3>1, <3>2, <3>4, <3>5
  <2>2. z \in [0..m-1 -> Int] /\ c \in [0..m -> Int] /\ m \in Nat OBVIOUS
  <2>3. m \in 0..m /\ 0 \in 0..m /\ c[m] = 1 /\ c[0] = 1 OBVIOUS
  <2>4. \A j \in 0..m-1 : z[j] = 0 OBVIOUS
  <2> HIDE DEF z, c
  <2>5. Sums(z, m)[m] = 0 BY <2>2, <2>4, SumsZero
  <2>6. ChainedSums(z, v.w, f, c, m)
    <3>1. Chained(z, v.w, f, c, m) BY <2>1 DEF Chained
    <3> QED BY <1>3, <1>7, <2>2, <3>1, Chain
  <2>7. Sums(z, m)[m] + c[m] * Place(m) = Sums(v.w, m)[m] + Sums(f, m)[m] + c[0]
    BY <2>3, <2>6 DEF ChainedSums
  <2>8. Place(m) = p
    <3>1. LastBits(n) = WordBits
      <4>1. PICK w \in Nat \ {0} : w = WordBits BY WordBitsAssumption
      <4>2. PICK q \in Int : n = q * w
        <5>1. n \in Int OBVIOUS
        <5>2. n = (n \div w) * w + (n % w) /\ n \div w \in Int BY <4>1, <5>1, DivModOf
        <5>3. PICK q \in Int : q = n \div w BY <5>2
        <5>4. n % w = 0 BY <4>1
        <5>5. q * w \in Int /\ q * w + 0 = q * w OBVIOUS
        <5> QED BY <5>2, <5>3, <5>4, <5>5
      <4>3. n - 1 = (q - 1) * w + (w - 1)
        <5>1. (q - 1) * w = q * w - w /\ q * w \in Int OBVIOUS
        <5> QED BY <4>2, <5>1
      <4>4. PICK r \in Nat, d \in Int, x \in Int : r = w - 1 /\ d = q - 1 /\ x = n - 1
        <5>1. w - 1 \in Nat OBVIOUS
        <5> QED BY <5>1
      <4>5. (n - 1) % w = w - 1
        <5>1. r \in 0..w-1 /\ x = d * w + r BY <4>3, <4>4
        <5>2. x % w = r BY <5>1, DivMod
        <5> QED BY <4>4, <5>2
      <4> QED BY <4>1, <4>5 DEF LastBits
    <3>2. 2^n = Place(m - 1) * Base BY <1>2, <3>1, WidthOf DEF Base
    <3>3. m - 1 \in Nat /\ (m - 1) + 1 = m OBVIOUS
    <3>4. Place((m - 1) + 1) = Place(m - 1) * Base BY <3>3, PlaceIs
    <3> QED BY <1>11, <3>2, <3>3, <3>4
  <2>9. PICK x \in Int : x = Value(v) BY <1>3, <2>3, SumsInt
  <2>10. 0 + 1 * p = x + g + 1 BY <1>3, <1>9, <2>3, <2>5, <2>7, <2>8, <2>9
  <2>11. g = base - 1 - v.w[0] BY <1>5, <1>8, <1>10, <1>15
  <2>12. PICK w0 \in Int : w0 = v.w[0] BY <1>10
  <2>13. w0 = base - 1 - g BY <2>11, <2>12
  <2>14. ToSint(v) = 0 - 1 - g
    <3>1. ~(w0 < half) BY <1>8, <2>13
    <3>2. ToSint(v) = w0 - base BY <1>12, <2>12, <3>1
    <3> QED BY <2>13, <3>2
  <2>15. Sgn(Value(v), n) = 0 - 1 - g
    <3>1. Sgn(Value(v), n) = x - p BY <1>11, <1>13, <1>15, <2>9
    <3> QED BY <2>10, <3>1
  <2> QED BY <2>14, <2>15
<1> QED BY <1>14, <1>15
-----------------------------------------------------------------------------
(***************************************************************************)
(* From the words to the calls: what one call does to a and b is a step of *)
(* FixedInt on the numbers they stand for.                                 *)
(***************************************************************************)
\* The client makes no call that is broken at the width it is made at.
Sound == \A n \in Widths : Ops[n] \subseteq AllOps \ Broken(n)

\* TypeOK says that a and b are canonical integers.
LEMMA TypeMeans ==
  TypeOK <=> a.n \in Widths /\ b.n \in Widths /\ Canonical(a, a.n) /\ Canonical(b, b.n)
BY DEF TypeOK, Canonical

\* A call that is made is not broken.
LEMMA CallsAreSound ==
  ASSUME TypeOK, Sound, NEW op, NEW k, NEW n, Called(op, k, n)
  PROVE  op \notin Broken(a.n) /\ n \in Widths
BY TypeMeans DEF Sound, Called

\* The calls that are broken, by the number of words.
LEMMA BrokenAre ==
  ASSUME NEW n \in Nat \ {0}
  PROVE  /\ ~IsBignum(n) => "signed_cmp" \in Broken(n)
         /\ IsBignum(n) => /\ {"sext", "trunc_in_bignum", "sub_uimm", "get_smax",
                               "is_all_ones", "is_smin"} \subseteq Broken(n)
                           /\ {"udiv_long", "urem_long", "sdiv_long", "srem_long", "udivrem",
                               "udivrem_long", "sdivrem", "sdivrem_long"} \subseteq Broken(n)
                           /\ {"unsigned_cmp_diff_sizes", "ashr_far"} \subseteq Broken(n)
                           /\ n % WordBits # 0 => "to_sint" \in Broken(n)
         /\ ~(NWords(n) <= 2) => {"add_uimm", "negate", "sdiv", "srem"} \subseteq Broken(n)
<1>1. PICK m \in Nat \ {0} : m = NWords(n) /\ (m = 1 <=> ~IsBignum(n)) BY WidthOf
<1>2. ~IsBignum(n) => m = 1 BY <1>1
<1>3. IsBignum(n) => m > 1 BY <1>1
<1>4. ~(NWords(n) <= 2) => m > 2 BY <1>1
<1> QED BY <1>1, <1>2, <1>3, <1>4 DEF Broken

\* What a and b stand for, before a step and after it.
LEMMA Primes ==
  /\ Value(a)' = Value(a') /\ Value(b)' = Value(b') /\ (a.n)' = a'.n /\ (b.n)' = b'.n
BY DEF Value, Sums, NWords, Place

\* What makes TypeOK true after a step.
LEMMA TypeMeansNext ==
  ASSUME NEW n \in Widths, NEW m \in Widths, Canonical(a', n), Canonical(b', m)
  PROVE  TypeOK'
<1>1. a'.n = n /\ b'.n = m BY DEF Canonical, AInt
<1> QED BY <1>1 DEF TypeOK, Canonical, AInt, IsCanonical, Idx, NWords, LastBits, Top, Word, Base

\* The calls that Compute says something of.
Computing(op) == op \notin Integers_!Answers \cup {"copy", "ufullmul", "udivrem", "udivrem_long",
                                                   "sdivrem", "sdivrem_long"}

\* A call that puts an integer into a, which stands for the Result of the call.
LEMMA Computed ==
  ASSUME TypeOK, NEW op, NEW k, NEW new, NEW n \in Widths, NEW x,
         Becomes(op, k, new), Canonical(new, n), Value(new) = x % 2^n,
         Computing(op), x = Integers_!Result([op |-> op, k |-> k, n |-> n])
  PROVE  TypeOK' /\ Integers_!Next
<1>1. new.n = n BY DEF Canonical, AInt
<1>2. a' = new /\ b' = b /\ out' = out /\ call' = [op |-> op, k |-> k, n |-> n]
  BY <1>1 DEF Becomes, Called
<1>3. TypeOK' BY <1>2, TypeMeans, TypeMeansNext
<1>4. Integers_!Compute
  <2>1. call'.op = op /\ call'.n = n BY <1>2
  <2>2. a'.n = n /\ Value(a') = Integers_!Result(call') % 2^n BY <1>1, <1>2
  <2>3. Value(b)' = Value(b) /\ (b.n)' = b.n /\ Value(a)' = Value(a') /\ (a.n)' = a'.n
    BY <1>2, Primes
  <2> QED BY <1>2, <2>1, <2>2, <2>3 DEF Integers_!Compute, Computing
<1> QED BY <1>3, <1>4 DEF Integers_!Next

\* A call that returns the Answer to it.
LEMMA Answered ==
  ASSUME TypeOK, NEW op \in Integers_!Answers, NEW k, NEW answer,
         Returns(op, k, answer), answer = Integers_!Answer([op |-> op, k |-> k, n |-> a.n])
  PROVE  TypeOK' /\ Integers_!Next
<1>1. a' = a /\ b' = b /\ out' = answer /\ call' = [op |-> op, k |-> k, n |-> a.n]
  BY DEF Returns, Called
<1>2. TypeOK' BY <1>1, TypeMeans, TypeMeansNext
<1>3. Integers_!Ask
  <2>1. Value(b)' = Value(b) /\ (b.n)' = b.n /\ Value(a)' = Value(a) /\ (a.n)' = a.n
    BY <1>1, Primes
  <2>2. call'.op = op BY <1>1
  <2> QED BY <1>1, <2>1, <2>2 DEF Integers_!Ask
<1> QED BY <1>2, <1>3 DEF Integers_!Next
-----------------------------------------------------------------------------
\* a and b are integers of their widths.
LEMMA Operands ==
  ASSUME TypeOK
  PROVE  /\ a.n \in Nat \ {0} /\ a.n \in Widths /\ Canonical(a, a.n) /\ a \in AInt(a.n)
         /\ b.n \in Nat \ {0} /\ b.n \in Widths /\ Canonical(b, b.n) /\ b \in AInt(b.n)
         /\ Value(a) \in Nat /\ Value(b) \in Nat
<1>1. /\ a.n \in Nat \ {0} /\ a.n \in Widths /\ Canonical(a, a.n) /\ a \in AInt(a.n)
      /\ b.n \in Nat \ {0} /\ b.n \in Widths /\ Canonical(b, b.n) /\ b \in AInt(b.n)
  BY TypeMeans, APIntAssumption DEF Canonical
<1> QED BY <1>1, ValueNat

\* Sgn is how FixedInt reads a signed integer.
LEMMA SignedIs == \A x, n : Integers_!Signed(x, n) = Sgn(x, n)
BY DEF Integers_!Signed, Sgn

\* What FixedInt says of every call, one by one.
LEMMA MovesTo ==
  ASSUME NEW c
  PROVE  /\ c.op = "init" => Integers_!Result(c) = c.k
         /\ c.op = "assign" => Integers_!Result(c) = Value(b)
         /\ c.op = "assign_uimm" => Integers_!Result(c) = c.k
         /\ c.op = "zext" => Integers_!Result(c) = Value(a)
         /\ c.op = "trunc" => Integers_!Result(c) = Value(a)
         /\ c.op = "sext" => Integers_!Result(c) = Sgn(Value(a), a.n)
<1>1. c.op = "init" => Integers_!Result(c) = c.k BY DEF Integers_!Result
<1>2. c.op = "assign" => Integers_!Result(c) = Value(b) BY DEF Integers_!Result
<1>3. c.op = "assign_uimm" => Integers_!Result(c) = c.k BY DEF Integers_!Result
<1>4. c.op = "zext" => Integers_!Result(c) = Value(a) BY DEF Integers_!Result
<1>5. c.op = "trunc" => Integers_!Result(c) = Value(a) BY DEF Integers_!Result
<1>6. c.op = "sext" => Integers_!Result(c) = Sgn(Value(a), a.n) BY SignedIs DEF Integers_!Result
<1> QED BY <1>1, <1>2, <1>3, <1>4, <1>5, <1>6

\* The calls that add and multiply.
LEMMA SumsTo ==
  ASSUME NEW c
  PROVE  /\ c.op = "add" => Integers_!Result(c) = Value(a) + Value(b)
         /\ c.op = "sub" => Integers_!Result(c) = Value(a) - Value(b)
         /\ c.op = "mul" => Integers_!Result(c) = Value(a) * Value(b)
         /\ c.op = "add_uimm" => Integers_!Result(c) = Value(a) + c.k
         /\ c.op = "sub_uimm" => Integers_!Result(c) = Value(a) - c.k
         /\ c.op = "mul_uimm" => Integers_!Result(c) = Value(a) * c.k
         /\ c.op = "not" => Integers_!Result(c) = -Value(a) - 1
         /\ c.op = "negate" => Integers_!Result(c) = -Value(a)
<1>1. c.op = "add" => Integers_!Result(c) = Value(a) + Value(b) BY DEF Integers_!Result
<1>2. c.op = "sub" => Integers_!Result(c) = Value(a) - Value(b) BY DEF Integers_!Result
<1>3. c.op = "mul" => Integers_!Result(c) = Value(a) * Value(b) BY DEF Integers_!Result
<1>4. c.op = "add_uimm" => Integers_!Result(c) = Value(a) + c.k BY DEF Integers_!Result
<1>5. c.op = "sub_uimm" => Integers_!Result(c) = Value(a) - c.k BY DEF Integers_!Result
<1>6. c.op = "mul_uimm" => Integers_!Result(c) = Value(a) * c.k BY DEF Integers_!Result
<1>7. c.op = "not" => Integers_!Result(c) = -Value(a) - 1 BY DEF Integers_!Result
<1>8. c.op = "negate" => Integers_!Result(c) = -Value(a) BY DEF Integers_!Result
<1> QED BY <1>1, <1>2, <1>3, <1>4, <1>5, <1>6, <1>7, <1>8

\* midint_add, midint_sub and midint_mul do what they say.
LEMMA SumSteps ==
  ASSUME TypeOK, midint_add \/ midint_sub \/ midint_mul
  PROVE  TypeOK' /\ Integers_!Next
<1>1. PICK n \in Nat \ {0} : n = a.n /\ n \in Widths /\ a \in AInt(n) BY Operands
<1>2. b.n = n /\ b \in AInt(n) BY <1>1, Operands DEF midint_add, midint_sub, midint_mul, SameWidth
<1>3. CASE midint_add
  <2>1. Becomes("add", 0, Add(a, b)) BY <1>3 DEF midint_add
  <2>2. Canonical(Add(a, b), n) /\ Value(Add(a, b)) = (Value(a) + Value(b)) % 2^n
    BY <1>1, <1>2, AddExact
  <2>3. Integers_!Result([op |-> "add", k |-> 0, n |-> n]) = Value(a) + Value(b) BY SumsTo
  <2>4. Computing("add") BY DEF Computing, Integers_!Answers
  <2> QED BY <1>1, <2>1, <2>2, <2>3, <2>4, Computed
<1>4. CASE midint_sub
  <2>1. Becomes("sub", 0, Sub(a, b)) BY <1>4 DEF midint_sub
  <2>2. Canonical(Sub(a, b), n) /\ Value(Sub(a, b)) = (Value(a) - Value(b)) % 2^n
    BY <1>1, <1>2, SubExact
  <2>3. Integers_!Result([op |-> "sub", k |-> 0, n |-> n]) = Value(a) - Value(b) BY SumsTo
  <2>4. Computing("sub") BY DEF Computing, Integers_!Answers
  <2> QED BY <1>1, <2>1, <2>2, <2>3, <2>4, Computed
<1>5. CASE midint_mul
  <2>1. Becomes("mul", 0, Mul(a, b)) BY <1>5 DEF midint_mul
  <2>2. Canonical(Mul(a, b), n) /\ Value(Mul(a, b)) = (Value(a) * Value(b)) % 2^n
    BY <1>1, <1>2, MulExact
  <2>3. Integers_!Result([op |-> "mul", k |-> 0, n |-> n]) = Value(a) * Value(b) BY SumsTo
  <2>4. Computing("mul") BY DEF Computing, Integers_!Answers
  <2> QED BY <1>1, <2>1, <2>2, <2>3, <2>4, Computed
<1> QED BY <1>3, <1>4, <1>5
-----------------------------------------------------------------------------
\* midint_add_uimm, midint_sub_uimm and midint_mul_uimm do, where they are not broken.
LEMMA ImmSteps ==
  ASSUME TypeOK, Sound, midint_add_uimm \/ midint_sub_uimm \/ midint_mul_uimm
  PROVE  TypeOK' /\ Integers_!Next
<1>1. PICK n \in Nat \ {0} : n = a.n /\ n \in Widths /\ a \in AInt(n) BY Operands
<1>2. CASE midint_add_uimm
  <2>1. PICK k \in Word : Becomes("add_uimm", k, AddUimm(a, k))
    BY <1>2, APIntAssumption DEF midint_add_uimm
  <2>2. "add_uimm" \notin Broken(n) BY <1>1, <2>1, CallsAreSound DEF Becomes
  <2>3. NWords(n) <= 2 BY <2>2, BrokenAre
  <2>4. Canonical(AddUimm(a, k), n) /\ Value(AddUimm(a, k)) = (Value(a) + k) % 2^n
    BY <1>1, <2>3, AddUimmExact
  <2>5. Integers_!Result([op |-> "add_uimm", k |-> k, n |-> n]) = Value(a) + k BY SumsTo
  <2>6. Computing("add_uimm") BY DEF Computing, Integers_!Answers
  <2> QED BY <1>1, <2>1, <2>4, <2>5, <2>6, Computed
<1>3. CASE midint_sub_uimm
  <2>1. PICK k \in Word : Becomes("sub_uimm", k, SubUimm(a, k))
    BY <1>3, APIntAssumption DEF midint_sub_uimm
  <2>2. "sub_uimm" \notin Broken(n) BY <1>1, <2>1, CallsAreSound DEF Becomes
  <2>3. ~IsBignum(n) BY <2>2, BrokenAre
  <2>4. Canonical(SubUimm(a, k), n) /\ Value(SubUimm(a, k)) = (Value(a) - k) % 2^n
    BY <1>1, <2>3, SubUimmExact
  <2>5. Integers_!Result([op |-> "sub_uimm", k |-> k, n |-> n]) = Value(a) - k BY SumsTo
  <2>6. Computing("sub_uimm") BY DEF Computing, Integers_!Answers
  <2> QED BY <1>1, <2>1, <2>4, <2>5, <2>6, Computed
<1>4. CASE midint_mul_uimm
  <2>1. PICK k \in Word : Becomes("mul_uimm", k, MulUimm(a, k))
    BY <1>4, APIntAssumption DEF midint_mul_uimm
  <2>2. Canonical(MulUimm(a, k), n) /\ Value(MulUimm(a, k)) = (Value(a) * k) % 2^n
    BY <1>1, MulUimmExact
  <2>3. Integers_!Result([op |-> "mul_uimm", k |-> k, n |-> n]) = Value(a) * k BY SumsTo
  <2>4. Computing("mul_uimm") BY DEF Computing, Integers_!Answers
  <2> QED BY <1>1, <2>1, <2>2, <2>3, <2>4, Computed
<1> QED BY <1>2, <1>3, <1>4

\* midint_not and midint_negate do.
LEMMA NegationSteps ==
  ASSUME TypeOK, Sound, midint_not \/ midint_negate
  PROVE  TypeOK' /\ Integers_!Next
<1>1. PICK n \in Nat \ {0} : n = a.n /\ n \in Widths /\ a \in AInt(n) BY Operands
<1>2. CASE midint_not
  <2>1. Becomes("not", 0, Complement(a)) BY <1>2 DEF midint_not
  <2>2. Canonical(Complement(a), n) /\ Value(Complement(a)) = (-Value(a) - 1) % 2^n
    BY <1>1, ComplementExact
  <2>3. Integers_!Result([op |-> "not", k |-> 0, n |-> n]) = -Value(a) - 1 BY SumsTo
  <2>4. Computing("not") BY DEF Computing, Integers_!Answers
  <2> QED BY <1>1, <2>1, <2>2, <2>3, <2>4, Computed
<1>3. CASE midint_negate
  <2>1. Becomes("negate", 0, Negate(a)) BY <1>3 DEF midint_negate
  <2>2. "negate" \notin Broken(n) BY <1>1, <2>1, CallsAreSound DEF Becomes
  <2>3. NWords(n) <= 2 BY <2>2, BrokenAre
  <2>4. Canonical(Negate(a), n) /\ Value(Negate(a)) = (-Value(a)) % 2^n
    BY <1>1, <2>3, NegateExact
  <2>5. Integers_!Result([op |-> "negate", k |-> 0, n |-> n]) = -Value(a) BY SumsTo
  <2>6. Computing("negate") BY DEF Computing, Integers_!Answers
  <2> QED BY <1>1, <2>1, <2>4, <2>5, <2>6, Computed
<1> QED BY <1>2, <1>3

\* midint_init, which is given what it is to hold as a word.
LEMMA InitStep ==
  ASSUME TypeOK, midint_init
  PROVE  TypeOK' /\ Integers_!Next
<1> DEFINE Given(word, sign) ==
             IF sign THEN (IF word < Base \div 2 THEN word ELSE word - Base) ELSE word
<1>1. PICK n \in Widths, word \in Imms, sign \in BOOLEAN :
        Becomes("init", Given(word, sign), Init1(n, word, sign))
  BY DEF midint_init
<1>2. n \in Nat \ {0} /\ word \in Word BY APIntAssumption
<1>3. Given(word, sign) = IF sign THEN SignedWord(word) ELSE word
  <2>1. word \in Int /\ Base \div 2 \in Int BY <1>2, WordIs, HalfWord
  <2> QED BY <2>1 DEF SignedWord
<1>4. PICK x : x = Given(word, sign) OBVIOUS
<1> HIDE DEF Given
<1>5. Canonical(Init1(n, word, sign), n) /\ Value(Init1(n, word, sign)) = x % 2^n
  <2>1. CASE sign = TRUE BY <1>2, <1>3, <1>4, <2>1, Init1Signed
  <2>2. CASE sign = FALSE BY <1>2, <1>3, <1>4, <2>2, Init1Exact
  <2> QED BY <2>1, <2>2
<1>6. Integers_!Result([op |-> "init", k |-> x, n |-> n]) = x BY MovesTo
<1>7. Computing("init") BY DEF Computing, Integers_!Answers
<1>8. Becomes("init", x, Init1(n, word, sign)) BY <1>1, <1>4
<1> QED BY <1>5, <1>6, <1>7, <1>8, Computed

\* midint_assign and midint_assign_uimm.
LEMMA AssignSteps ==
  ASSUME TypeOK, midint_assign \/ midint_assign_uimm
  PROVE  TypeOK' /\ Integers_!Next
<1>1. PICK n \in Nat \ {0} : n = a.n /\ n \in Widths BY Operands
<1>2. CASE midint_assign
  <2>1. Becomes("assign", 0, b) /\ b.n = n BY <1>1, <1>2 DEF midint_assign, SameWidth
  <2>2. Canonical(b, n) /\ Value(b) = Value(b) % 2^n
    <3>1. Canonical(b, n) BY <2>1, Operands
    <3> QED BY <3>1, CanonicalValue
  <2>3. Integers_!Result([op |-> "assign", k |-> 0, n |-> n]) = Value(b) BY MovesTo
  <2>4. Computing("assign") BY DEF Computing, Integers_!Answers
  <2> QED BY <1>1, <2>1, <2>2, <2>3, <2>4, Computed
<1>3. CASE midint_assign_uimm
  <2>1. PICK k \in Word : Becomes("assign_uimm", k, Init1(n, k, FALSE))
    BY <1>1, <1>3, APIntAssumption DEF midint_assign_uimm
  <2>2. Canonical(Init1(n, k, FALSE), n) /\ Value(Init1(n, k, FALSE)) = k % 2^n BY Init1Exact
  <2>3. Integers_!Result([op |-> "assign_uimm", k |-> k, n |-> n]) = k BY MovesTo
  <2>4. Computing("assign_uimm") BY DEF Computing, Integers_!Answers
  <2> QED BY <1>1, <2>1, <2>2, <2>3, <2>4, Computed
<1> QED BY <1>2, <1>3
-----------------------------------------------------------------------------
\* midint_ext to a narrower integer of one word does not look at the sign.
LEMMA TruncUnsigned ==
  ASSUME NEW u, NEW v \in AInt(u), NEW n, ~IsBignum(n), ~(n > u)
  PROVE  Ext(v, n, TRUE) = Ext(v, n, FALSE)
<1>1. v.n = u BY DEF AInt
<1>2. \A sign \in BOOLEAN : Ext(v, n, sign) = {FromInt(n, v.w[0] % 2^n)}
  BY <1>1 DEF Ext
<1> QED BY <1>2

\* midint_ext gives what it was given modulo the new width, signed or not as asked.
LEMMA ExtStep ==
  ASSUME TypeOK, Sound, midint_ext
  PROVE  TypeOK' /\ Integers_!Next
<1>1. PICK u \in Nat \ {0} : u = a.n /\ u \in Widths /\ Canonical(a, u) /\ a \in AInt(u) BY Operands
<1>20. PICK n \in Widths, sign \in BOOLEAN :
         \E v \in Ext(a, n, sign) : Becomes(ExtName(n, sign), 0, v)
  BY DEF midint_ext
<1>2. PICK v \in Ext(a, n, sign) : Becomes(ExtName(n, sign), 0, v) BY <1>20
<1>3. n \in Nat \ {0} BY APIntAssumption
<1>4. ExtName(n, sign) \notin Broken(u) BY <1>1, <1>2, CallsAreSound DEF Becomes
<1>5. CASE n >= u /\ sign = TRUE
  <2>1. ExtName(n, sign) = "sext" BY <1>1, <1>5 DEF ExtName
  <2>2. ~IsBignum(u) BY <1>4, <2>1, BrokenAre
  <2>3. Canonical(v, n) /\ Value(v) = Sgn(Value(a), u) % 2^n BY ZenonT(40), <1>1, <1>2, <1>3, <1>5, <2>2, SextExact
  <2>4. Integers_!Result([op |-> "sext", k |-> 0, n |-> n]) = Sgn(Value(a), u) BY <1>1, MovesTo
  <2>5. Computing("sext") BY DEF Computing, Integers_!Answers
  <2> QED BY <1>2, <2>1, <2>3, <2>4, <2>5, Computed
<1>6. CASE n >= u /\ sign = FALSE
  <2>1. ExtName(n, sign) = "zext" BY <1>1, <1>6 DEF ExtName
  <2>2. Canonical(v, n) /\ Value(v) = Value(a) % 2^n BY <1>1, <1>2, <1>3, <1>6, ZextExact
  <2>3. Integers_!Result([op |-> "zext", k |-> 0, n |-> n]) = Value(a) BY MovesTo
  <2>4. Computing("zext") BY DEF Computing, Integers_!Answers
  <2> QED BY <1>2, <2>1, <2>2, <2>3, <2>4, Computed
<1>7. CASE ~(n >= u)
  <2>1. ~IsBignum(n)
    <3>1. SUFFICES ASSUME IsBignum(n) PROVE FALSE OBVIOUS
    <3>2. IsBignum(u) BY <1>3, <1>7, <3>1, WordBitsAssumption DEF IsBignum
    <3>3. ExtName(n, sign) = "trunc_in_bignum" BY <1>1, <1>7, <3>1 DEF ExtName
    <3> QED BY <1>4, <3>2, <3>3, BrokenAre
  <2>2. ExtName(n, sign) = "trunc" BY <1>1, <1>7, <2>1 DEF ExtName
  <2>3. v \in Ext(a, n, FALSE)
    <3>1. ~(n > u) BY <1>3, <1>7
    <3>2. Ext(a, n, TRUE) = Ext(a, n, FALSE) BY <1>1, <2>1, <3>1, TruncUnsigned
    <3> QED BY <1>2, <3>2
  <2>4. Canonical(v, n) /\ Value(v) = Value(a) % 2^n BY <1>1, <1>3, <2>1, <2>3, ZextExact
  <2>5. Integers_!Result([op |-> "trunc", k |-> 0, n |-> n]) = Value(a) BY MovesTo
  <2>6. Computing("trunc") BY DEF Computing, Integers_!Answers
  <2> QED BY <1>2, <2>2, <2>4, <2>5, <2>6, Computed
<1> QED BY <1>5, <1>6, <1>7

\* midint_copy makes b the integer a is.
LEMMA CopyStep ==
  ASSUME TypeOK, midint_copy
  PROVE  TypeOK' /\ Integers_!Next
<1>1. a' = a /\ b' = a /\ out' = out /\ call'.op = "copy" BY DEF midint_copy, Called
<1>2. TypeOK' BY <1>1, Operands, TypeMeansNext
<1>3. Integers_!Copy BY <1>1, Primes DEF Integers_!Copy
<1> QED BY <1>2, <1>3 DEF Integers_!Next

\* midint_ufullmul gives all bits of the product.
LEMMA FullMulStep ==
  ASSUME TypeOK, midint_ufullmul
  PROVE  TypeOK' /\ Integers_!Next
<1>1. PICK n \in Nat \ {0} : n = a.n /\ n \in Widths /\ Canonical(a, n) BY Operands
<1>2. Canonical(b, n) /\ b.n = n BY <1>1, Operands DEF midint_ufullmul, SameWidth
<1>3. Canonical(FullMul(a, b), 2 * n) /\ Value(FullMul(a, b)) = Value(a) * Value(b)
  BY <1>1, <1>2, FullMulExact DEF midint_ufullmul
<1>4. a' = FullMul(a, b) /\ b' = b /\ out' = out /\ call'.op = "ufullmul" /\ 2 * n \in Widths
  BY <1>1 DEF midint_ufullmul, Becomes, Called
<1>5. TypeOK' BY <1>1, <1>2, <1>3, <1>4, TypeMeansNext
<1>6. Integers_!FullMul
  <2>1. a'.n = 2 * a.n BY <1>4 DEF FullMul
  <2> QED BY <1>3, <1>4, <2>1, Primes DEF Integers_!FullMul
<1> QED BY <1>5, <1>6 DEF Integers_!Next
-----------------------------------------------------------------------------
\* How FixedInt makes a number of its bits.
LEMMA FromBitsIs ==
  ASSUME NEW n, NEW ones PROVE Integers_!FromBits(n, ones) = BitSums(ones, n)[n]
BY DEF Integers_!FromBits, BitSums, IsBitSums, Weight

\* The calls that shift, and change single bits.
LEMMA BitsTo ==
  ASSUME NEW c
  PROVE  /\ c.op = "shl" => Integers_!Result(c) = Value(a) * 2^c.k
         /\ c.op = "lshr" => Integers_!Result(c) = Value(a) \div 2^c.k
         /\ c.op = "ashr" => Integers_!Result(c) = Sgn(Value(a), a.n) \div 2^c.k
         /\ c.op = "inc_bit" => Integers_!Result(c) = Value(a) + 2^c.k
         /\ c.op = "flip_bit" => Integers_!Result(c) = Flipped(Value(a), 2^c.k)
         /\ c.op = "get_umax" => Integers_!Result(c) = 2^a.n - 1
         /\ c.op = "get_smax" => Integers_!Result(c) = 2^(a.n - 1) - 1
         /\ c.op = "get_smin" => Integers_!Result(c) = 2^(a.n - 1)
<1>1. c.op = "shl" => Integers_!Result(c) = Value(a) * 2^c.k BY DEF Integers_!Result
<1>2. c.op = "lshr" => Integers_!Result(c) = Value(a) \div 2^c.k BY DEF Integers_!Result
<1>3. c.op = "ashr" => Integers_!Result(c) = Sgn(Value(a), a.n) \div 2^c.k
  BY SignedIs DEF Integers_!Result
<1>4. c.op = "inc_bit" => Integers_!Result(c) = Value(a) + 2^c.k BY DEF Integers_!Result
<1>5. c.op = "flip_bit" => Integers_!Result(c) = Flipped(Value(a), 2^c.k)
  BY DEF Integers_!Result, Integers_!Bit, Flipped
<1>6. c.op = "get_umax" => Integers_!Result(c) = 2^a.n - 1 BY DEF Integers_!Result
<1>7. c.op = "get_smax" => Integers_!Result(c) = 2^(a.n - 1) - 1 BY DEF Integers_!Result
<1>8. c.op = "get_smin" => Integers_!Result(c) = 2^(a.n - 1) BY DEF Integers_!Result
<1> QED BY <1>1, <1>2, <1>3, <1>4, <1>5, <1>6, <1>7, <1>8

\* The shifts do, the arithmetic one where it is not broken.
LEMMA ShiftSteps ==
  ASSUME TypeOK, Sound, midint_shl_imm \/ midint_lshr_imm \/ midint_ashr_imm
  PROVE  TypeOK' /\ Integers_!Next
<1>1. PICK n \in Nat \ {0} : n = a.n /\ n \in Widths /\ Canonical(a, n) BY Operands
<1>2. CASE midint_shl_imm
  <2>1. PICK k \in 0..n-1 : Becomes("shl", k, Shl(a, k)) BY <1>1, <1>2 DEF midint_shl_imm, BitsOf
  <2>2. Canonical(Shl(a, k), n) /\ Value(Shl(a, k)) = (Value(a) * 2^k) % 2^n BY <1>1, ShlExact
  <2>3. Integers_!Result([op |-> "shl", k |-> k, n |-> n]) = Value(a) * 2^k BY BitsTo
  <2>4. Computing("shl") BY DEF Computing, Integers_!Answers
  <2> QED BY <1>1, <2>1, <2>2, <2>3, <2>4, Computed
<1>3. CASE midint_lshr_imm
  <2>1. PICK k \in 0..n-1 : Becomes("lshr", k, Lshr(a, k)) BY <1>1, <1>3 DEF midint_lshr_imm, BitsOf
  <2>2. Canonical(Lshr(a, k), n) /\ Value(Lshr(a, k)) = (Value(a) \div 2^k) % 2^n
    BY <1>1, LshrExact
  <2>3. Integers_!Result([op |-> "lshr", k |-> k, n |-> n]) = Value(a) \div 2^k BY BitsTo
  <2>4. Computing("lshr") BY DEF Computing, Integers_!Answers
  <2> QED BY <1>1, <2>1, <2>2, <2>3, <2>4, Computed
<1>4. CASE midint_ashr_imm
  <2> DEFINE Name(k) == IF k > WordBits /\ k % WordBits # 0 THEN "ashr_far" ELSE "ashr"
  <2>1. PICK k \in 0..n-1 : Becomes(Name(k), k, Ashr(a, k))
    BY <1>1, <1>4 DEF midint_ashr_imm, BitsOf
  <2>2. Name(k) \notin Broken(n) BY <1>1, <2>1, CallsAreSound DEF Becomes
  <2>3. ~(k > WordBits /\ k % WordBits # 0)
    <3>1. SUFFICES ASSUME k > WordBits, k % WordBits # 0 PROVE FALSE OBVIOUS
    <3>2. IsBignum(n)
      <4>1. PICK w \in Nat : w = WordBits BY WordBitsAssumption
      <4>2. n > w BY <3>1, <4>1
      <4> QED BY <4>1, <4>2 DEF IsBignum
    <3>3. Name(k) = "ashr_far" BY <3>1
    <3> QED BY <2>2, <3>2, <3>3, BrokenAre
  <2>4. k <= WordBits \/ k % WordBits = 0
    <3>1. PICK w \in Nat : w = WordBits BY WordBitsAssumption
    <3> QED BY <2>3, <3>1
  <2>5. Canonical(Ashr(a, k), n) /\ Value(Ashr(a, k)) = (Sgn(Value(a), n) \div 2^k) % 2^n
    BY <1>1, <2>4, AshrExact
  <2>6. Integers_!Result([op |-> "ashr", k |-> k, n |-> n]) = Sgn(Value(a), n) \div 2^k
    BY <1>1, BitsTo
  <2>7. Computing("ashr") BY DEF Computing, Integers_!Answers
  <2>8. Becomes("ashr", k, Ashr(a, k)) BY <2>1, <2>3
  <2> QED BY <1>1, <2>5, <2>6, <2>7, <2>8, Computed
<1> QED BY <1>2, <1>3, <1>4

\* midint_inc_bit and midint_flip_bit do.
LEMMA BitSteps ==
  ASSUME TypeOK, midint_inc_bit \/ midint_flip_bit
  PROVE  TypeOK' /\ Integers_!Next
<1>1. PICK n \in Nat \ {0} : n = a.n /\ n \in Widths /\ Canonical(a, n) /\ a \in AInt(n) BY Operands
<1>2. CASE midint_inc_bit
  <2>1. PICK k \in 0..n-1 : Becomes("inc_bit", k, IncBit(a, k))
    BY <1>1, <1>2 DEF midint_inc_bit, BitsOf
  <2>2. Canonical(IncBit(a, k), n) /\ Value(IncBit(a, k)) = (Value(a) + 2^k) % 2^n
    BY <1>1, IncBitExact
  <2>3. Integers_!Result([op |-> "inc_bit", k |-> k, n |-> n]) = Value(a) + 2^k BY BitsTo
  <2>4. Computing("inc_bit") BY DEF Computing, Integers_!Answers
  <2> QED BY <1>1, <2>1, <2>2, <2>3, <2>4, Computed
<1>3. CASE midint_flip_bit
  <2>1. PICK k \in 0..n-1 : Becomes("flip_bit", k, FlipBit(a, k))
    BY <1>1, <1>3 DEF midint_flip_bit, BitsOf
  <2>2. Canonical(FlipBit(a, k), n) /\ Value(FlipBit(a, k)) = Flipped(Value(a), 2^k) % 2^n
    BY <1>1, FlipBitExact
  <2>3. Integers_!Result([op |-> "flip_bit", k |-> k, n |-> n]) = Flipped(Value(a), 2^k) BY BitsTo
  <2>4. Computing("flip_bit") BY DEF Computing, Integers_!Answers
  <2> QED BY <1>1, <2>1, <2>2, <2>3, <2>4, Computed
<1> QED BY <1>2, <1>3

\* midint_get_umax, midint_get_smin and, of one word, midint_get_smax give the
\* numbers that apint.h names.
LEMMA ExtremeSteps ==
  ASSUME TypeOK, Sound, midint_get_umax \/ midint_get_smin \/ midint_get_smax
  PROVE  TypeOK' /\ Integers_!Next
<1>1. PICK n \in Nat \ {0} : n = a.n /\ n \in Widths BY Operands
<1>2. CASE midint_get_umax
  <2>1. Becomes("get_umax", 0, Init1(n, Base - 1, TRUE)) BY <1>1, <1>2 DEF midint_get_umax
  <2>2. /\ Canonical(Init1(n, Base - 1, TRUE), n)
        /\ Value(Init1(n, Base - 1, TRUE)) = (2^n - 1) % 2^n
    BY UmaxExact
  <2>3. Integers_!Result([op |-> "get_umax", k |-> 0, n |-> n]) = 2^n - 1 BY <1>1, BitsTo
  <2>4. Computing("get_umax") BY DEF Computing, Integers_!Answers
  <2> QED BY <1>1, <2>1, <2>2, <2>3, <2>4, Computed
<1>3. CASE midint_get_smin
  <2> DEFINE r == Shl(Init1(n, 1, FALSE), n - 1)
  <2>1. Becomes("get_smin", 0, r) BY <1>1, <1>3 DEF midint_get_smin
  <2>2. Canonical(r, n) /\ Value(r) = 2^(n-1) % 2^n BY SminExact
  <2>3. Integers_!Result([op |-> "get_smin", k |-> 0, n |-> n]) = 2^(n-1) BY <1>1, BitsTo
  <2>4. Computing("get_smin") BY DEF Computing, Integers_!Answers
  <2> HIDE DEF r
  <2> QED BY <1>1, <2>1, <2>2, <2>3, <2>4, Computed
<1>4. CASE midint_get_smax
  <2> DEFINE r == IF n = 1 THEN FromInt(1, 0) ELSE SubUimm(Shl(Init1(n, 1, FALSE), n - 1), 1)
  <2>1. Becomes("get_smax", 0, r) BY <1>1, <1>4 DEF midint_get_smax
  <2>2. ~IsBignum(n)
    <3>1. "get_smax" \notin Broken(n) BY <1>1, <2>1, CallsAreSound DEF Becomes
    <3> QED BY <3>1, BrokenAre
  <2>3. Canonical(r, n) /\ Value(r) = (2^(n-1) - 1) % 2^n BY <2>2, SmaxExact
  <2>4. Integers_!Result([op |-> "get_smax", k |-> 0, n |-> n]) = 2^(n-1) - 1 BY <1>1, BitsTo
  <2>5. Computing("get_smax") BY DEF Computing, Integers_!Answers
  <2> HIDE DEF r
  <2> QED BY <1>1, <2>1, <2>3, <2>4, <2>5, Computed
<1> QED BY <1>2, <1>3, <1>4
-----------------------------------------------------------------------------
\* The bits of a natural number are zeros and ones.
LEMMA BitIsOne ==
  ASSUME NEW x \in Nat, NEW k \in Nat
  PROVE  BitIn(x, k) \in {0, 1} /\ Integers_!Bit(x, k) = BitIn(x, k)
<1>1. PICK p \in Nat \ {0} : p = 2^k BY PowerOfTwo
<1>2. x \div p \in Int OBVIOUS
<1>3. PICK q \in Int : q = x \div p BY <1>2
<1>4. q % 2 \in {0, 1} OBVIOUS
<1> QED BY <1>1, <1>3, <1>4 DEF BitIn, Integers_!Bit

\* The pairs of bits that the operators make a one of are those FixedInt says.
LEMMA PairsAre ==
  ASSUME TypeOK, NEW n \in Nat, NEW c
  PROVE  /\ c.op = "and" /\ n = a.n =>
              Integers_!Result(c) = BitSums(OnesOf(BothBits, Value(a), Value(b), n), n)[n]
         /\ c.op = "or" /\ n = a.n =>
              Integers_!Result(c) = BitSums(OnesOf(EitherBit, Value(a), Value(b), n), n)[n]
         /\ c.op = "xor" /\ n = a.n =>
              Integers_!Result(c) = BitSums(OnesOf(OneBit, Value(a), Value(b), n), n)[n]
<1>1. PICK x \in Nat, y \in Nat : x = Value(a) /\ y = Value(b) BY Operands
<1>2. ASSUME NEW k \in 0..n-1
      PROVE  /\ BitIn(x, k) \in {0, 1} /\ Integers_!Bit(x, k) = BitIn(x, k)
             /\ BitIn(y, k) \in {0, 1} /\ Integers_!Bit(y, k) = BitIn(y, k)
  <2>1. k \in Nat OBVIOUS
  <2> QED BY <2>1, BitIsOne
<1>3. \A p, q \in {0, 1} :
        /\ <<p, q>> \in BothBits <=> p = 1 /\ q = 1
        /\ <<p, q>> \in EitherBit <=> p = 1 \/ q = 1
        /\ <<p, q>> \in OneBit <=> p # q
  BY DEF BothBits, EitherBit, OneBit
<1>4. /\ {k \in 0..n-1 : Integers_!Bit(x, k) = 1 /\ Integers_!Bit(y, k) = 1} = OnesOf(BothBits, x, y, n)
      /\ {k \in 0..n-1 : Integers_!Bit(x, k) = 1 \/ Integers_!Bit(y, k) = 1} = OnesOf(EitherBit, x, y, n)
      /\ {k \in 0..n-1 : Integers_!Bit(x, k) # Integers_!Bit(y, k)} = OnesOf(OneBit, x, y, n)
  BY <1>2, <1>3 DEF OnesOf
<1>5. ASSUME c.op = "and", n = a.n
      PROVE  Integers_!Result(c) = BitSums(OnesOf(BothBits, Value(a), Value(b), n), n)[n]
  BY <1>1, <1>4, <1>5, FromBitsIs DEF Integers_!Result
<1>6. ASSUME c.op = "or", n = a.n
      PROVE  Integers_!Result(c) = BitSums(OnesOf(EitherBit, Value(a), Value(b), n), n)[n]
  BY <1>1, <1>4, <1>6, FromBitsIs DEF Integers_!Result
<1>7. ASSUME c.op = "xor", n = a.n
      PROVE  Integers_!Result(c) = BitSums(OnesOf(OneBit, Value(a), Value(b), n), n)[n]
  BY <1>1, <1>4, <1>7, FromBitsIs DEF Integers_!Result
<1> QED BY <1>5, <1>6, <1>7

\* midint_and, midint_or and midint_xor do to all bits what & | ^ do to a word.
LEMMA BitwiseSteps ==
  ASSUME TypeOK, midint_and \/ midint_or \/ midint_xor
  PROVE  TypeOK' /\ Integers_!Next
<1>1. PICK n \in Nat \ {0} : n = a.n /\ n \in Widths /\ Canonical(a, n) BY Operands
<1>2. Canonical(b, n) BY <1>1, Operands DEF midint_and, midint_or, midint_xor, SameWidth
<1>3. ASSUME NEW pairs, <<0, 0>> \notin pairs
      PROVE  /\ Canonical(WordByWord(pairs), n)
             /\ Value(WordByWord(pairs)) = BitSums(OnesOf(pairs, Value(a), Value(b), n), n)[n] % 2^n
  <2>1. WordByWord(pairs) = [a EXCEPT !.w = [i \in Idx(n) |-> BitByBit(pairs, a.w[i], b.w[i])]]
    BY <1>1 DEF WordByWord
  <2> QED BY <1>1, <1>2, <1>3, <2>1, BitwiseExact
<1>4. <<0, 0>> \notin BothBits /\ <<0, 0>> \notin EitherBit /\ <<0, 0>> \notin OneBit
  BY DEF BothBits, EitherBit, OneBit
<1>5. n \in Nat OBVIOUS
<1>6. CASE midint_and
  <2>1. Becomes("and", 0, WordByWord(BothBits)) BY <1>6 DEF midint_and
  <2>2. Integers_!Result([op |-> "and", k |-> 0, n |-> n])
          = BitSums(OnesOf(BothBits, Value(a), Value(b), n), n)[n]
    BY <1>1, <1>5, PairsAre
  <2>3. Computing("and") BY DEF Computing, Integers_!Answers
  <2> QED BY <1>1, <1>3, <1>4, <2>1, <2>2, <2>3, Computed
<1>7. CASE midint_or
  <2>1. Becomes("or", 0, WordByWord(EitherBit)) BY <1>7 DEF midint_or
  <2>2. Integers_!Result([op |-> "or", k |-> 0, n |-> n])
          = BitSums(OnesOf(EitherBit, Value(a), Value(b), n), n)[n]
    BY <1>1, <1>5, PairsAre
  <2>3. Computing("or") BY DEF Computing, Integers_!Answers
  <2> QED BY <1>1, <1>3, <1>4, <2>1, <2>2, <2>3, Computed
<1>8. CASE midint_xor
  <2>1. Becomes("xor", 0, WordByWord(OneBit)) BY <1>8 DEF midint_xor
  <2>2. Integers_!Result([op |-> "xor", k |-> 0, n |-> n])
          = BitSums(OnesOf(OneBit, Value(a), Value(b), n), n)[n]
    BY <1>1, <1>5, PairsAre
  <2>3. Computing("xor") BY DEF Computing, Integers_!Answers
  <2> QED BY <1>1, <1>3, <1>4, <2>1, <2>2, <2>3, Computed
<1> QED BY <1>6, <1>7, <1>8
-----------------------------------------------------------------------------
\* The calls that divide.
LEMMA DividesAs ==
  ASSUME NEW c
  PROVE  /\ c.op = "udiv" => Integers_!Result(c) = Value(a) \div Value(b)
         /\ c.op = "urem" => Integers_!Result(c) = Value(a) % Value(b)
         /\ c.op = "sdiv" => Integers_!Result(c) = Quot(Sgn(Value(a), a.n), Sgn(Value(b), a.n))
         /\ c.op = "srem" => Integers_!Result(c)
                               = Sgn(Value(a), a.n) - Sgn(Value(b), a.n)
                                   * Quot(Sgn(Value(a), a.n), Sgn(Value(b), a.n))
<1>1. \A p, q : Integers_!Quotient(p, q) = Quot(p, q) /\ Integers_!Remainder(p, q) = p - q * Quot(p, q)
  BY DEF Integers_!Quotient, Integers_!Remainder, Integers_!Abs, Quot, AbsOf
<1>2. c.op = "udiv" => Integers_!Result(c) = Value(a) \div Value(b) BY DEF Integers_!Result
<1>3. c.op = "urem" => Integers_!Result(c) = Value(a) % Value(b) BY DEF Integers_!Result
<1> DEFINE p == Integers_!Signed(Value(a), a.n)
           q == Integers_!Signed(Value(b), a.n)
<1>4. c.op = "sdiv" => Integers_!Result(c) = Quot(Sgn(Value(a), a.n), Sgn(Value(b), a.n))
  <2>1. c.op = "sdiv" => Integers_!Result(c) = Integers_!Quotient(p, q) BY DEF Integers_!Result
  <2> QED BY <1>1, <2>1, SignedIs
<1>5. c.op = "srem" => Integers_!Result(c)
                         = Sgn(Value(a), a.n) - Sgn(Value(b), a.n)
                             * Quot(Sgn(Value(a), a.n), Sgn(Value(b), a.n))
  <2>1. c.op = "srem" => Integers_!Result(c) = Integers_!Remainder(p, q) BY DEF Integers_!Result
  <2> QED BY <1>1, <2>1, SignedIs
<1> QED BY <1>2, <1>3, <1>4, <1>5

\* What the calls that divide are given, and that they are not sent to
\* knuth_bignum_div.
LEMMA Divided ==
  ASSUME TypeOK, Sound, Divisible
  PROVE  /\ a.n \in Nat \ {0} /\ a.n \in Widths /\ Canonical(a, a.n) /\ Canonical(b, a.n)
         /\ b.n = a.n /\ Value(b) # 0
BY Operands DEF Divisible, SameWidth

\* A call that divides is not sent to knuth_bignum_div, where that is broken.
LEMMA NotLong ==
  ASSUME TypeOK, Sound, Divisible, NEW v, v.n = a.n, NEW short, NEW long, NEW k, NEW n,
         long \in {"udiv_long", "urem_long", "sdiv_long", "srem_long", "udivrem_long",
                   "sdivrem_long"},
         Called(DivName(short, long, v), k, n)
  PROVE  ~Long(v) /\ DivName(short, long, v) = short /\ short \notin Broken(a.n)
<1>1. DivName(short, long, v) \notin Broken(a.n) BY CallsAreSound
<1>2. ASSUME Long(v) PROVE FALSE
  <2>1. IsBignum(a.n) /\ DivName(short, long, v) = long BY <1>2 DEF Long, DivName
  <2>2. a.n \in Nat \ {0} BY Divided
  <2> QED BY <1>1, <2>1, <2>2, BrokenAre
<1>3. DivName(short, long, v) = short BY <1>2 DEF DivName
<1> QED BY <1>1, <1>2, <1>3

\* The magnitude of an integer is as wide.
LEMMA MagnitudeWidth ==
  ASSUME NEW n, NEW v \in AInt(n) PROVE Magnitude(v).n = n
<1>1. v.n = n /\ v = [n |-> n, w |-> v.w] BY DEF AInt
<1>2. ASSUME NEW u, NEW x, u = [n |-> n, w |-> x], NEW y
      PROVE  Masked([u EXCEPT !.w = y]).n = n
  <2>1. [u EXCEPT !.w = y] = [n |-> n, w |-> y] BY <1>2
  <2>2. Masked([n |-> n, w |-> y]).n = n BY DEF Masked
  <2> QED BY <2>1, <2>2
<1>3. \E x : Complement(v) = [n |-> n, w |-> x]
  <2> DEFINE y == [i \in Idx(v.n) |-> Base - 1 - v.w[i]]
  <2>1. Complement(v) = Masked([v EXCEPT !.w = y]) BY DEF Complement
  <2> HIDE DEF y
  <2>2. [v EXCEPT !.w = y] = [n |-> n, w |-> y] BY <1>1
  <2>3. \E x : Masked([n |-> n, w |-> y]) = [n |-> n, w |-> x]
    <3> DEFINE r == [n |-> n, w |-> y]
               x == [y EXCEPT ![Top(r)] = @ % 2^LastBits(n)]
    <3>1. Masked(r) = [n |-> n, w |-> x] BY DEF Masked
    <3> HIDE DEF r, x
    <3> QED BY <3>1 DEF r
  <2> QED BY <2>1, <2>2, <2>3
<1>4. PICK x : Complement(v) = [n |-> n, w |-> x] BY <1>3
<1>5. Negate(v).n = n
  <2>1. \E y : Negate(v) = Masked([Complement(v) EXCEPT !.w = y]) BY DEF Negate, AddUimm
  <2> QED BY <1>2, <1>4, <2>1
<1> QED BY <1>1, <1>5 DEF Magnitude, NegatedIf

\* midint_udiv and midint_urem divide by a number of one digit, or integers of one word.
LEMMA UnsignedSteps ==
  ASSUME TypeOK, Sound, midint_udiv \/ midint_urem
  PROVE  TypeOK' /\ Integers_!Next
<1>1. PICK n \in Nat \ {0} : n = a.n /\ n \in Widths /\ Canonical(a, n) /\ Canonical(b, n) /\ b.n = n
                               /\ Value(b) # 0
  BY Divided DEF midint_udiv, midint_urem
<1>2. CASE midint_udiv
  <2>1. Divisible /\ Becomes(DivName("udiv", "udiv_long", b), 0, Udiv(a, b)) BY <1>2 DEF midint_udiv
  <2>2. ~Long(b) /\ DivName("udiv", "udiv_long", b) = "udiv" BY <1>1, <2>1, NotLong DEF Becomes
  <2>3. DividesTo(n, a, b) BY <1>1, <2>2, UnsignedDivision
  <2>4. Integers_!Result([op |-> "udiv", k |-> 0, n |-> n]) = Value(a) \div Value(b) BY DividesAs
  <2>5. Computing("udiv") BY DEF Computing, Integers_!Answers
  <2>6. Canonical(Udiv(a, b), n) /\ Value(Udiv(a, b)) = (Value(a) \div Value(b)) % 2^n
    BY <2>3 DEF DividesTo
  <2> QED BY <1>1, <2>1, <2>2, <2>4, <2>5, <2>6, Computed
<1>3. CASE midint_urem
  <2>1. Divisible /\ Becomes(DivName("urem", "urem_long", b), 0, Urem(a, b)) BY <1>3 DEF midint_urem
  <2>2. ~Long(b) /\ DivName("urem", "urem_long", b) = "urem" BY <1>1, <2>1, NotLong DEF Becomes
  <2>3. DividesTo(n, a, b) BY <1>1, <2>2, UnsignedDivision
  <2>4. Integers_!Result([op |-> "urem", k |-> 0, n |-> n]) = Value(a) % Value(b) BY DividesAs
  <2>5. Computing("urem") BY DEF Computing, Integers_!Answers
  <2>6. Canonical(Urem(a, b), n) /\ Value(Urem(a, b)) = (Value(a) % Value(b)) % 2^n
    BY <2>3 DEF DividesTo
  <2> QED BY <1>1, <2>1, <2>2, <2>4, <2>5, <2>6, Computed
<1> QED BY <1>2, <1>3

\* What midint_sdiv and midint_srem give of integers of one or two words, by a
\* number whose magnitude is one digit where there are two.
LEMMA SignedResults ==
  ASSUME NEW n \in Nat \ {0}, NWords(n) <= 2, NEW v, Canonical(v, n), NEW u, Canonical(u, n),
         Value(u) # 0, ~Long(Magnitude(u)), NEW p, p = Sgn(Value(v), n), NEW q, q = Sgn(Value(u), n)
  PROVE  /\ Canonical(Sdiv(v, u), n) /\ Value(Sdiv(v, u)) = Quot(p, q) % 2^n
         /\ Canonical(Srem(v, u), n) /\ Value(Srem(v, u)) = (p - q * Quot(p, q)) % 2^n
<1>1. Canonical(Magnitude(v), n) /\ Canonical(Magnitude(u), n) /\ Value(Magnitude(u)) # 0
  BY MagnitudeIs
<1>2. DividesTo(n, Magnitude(v), Magnitude(u)) BY <1>1, UnsignedDivision
<1> QED BY <1>2, SignedDivision

\* midint_sdiv and midint_srem round towards zero.
LEMMA SignedSteps ==
  ASSUME TypeOK, Sound, midint_sdiv \/ midint_srem
  PROVE  TypeOK' /\ Integers_!Next
<1>1. PICK n \in Nat \ {0} : n = a.n /\ n \in Widths /\ Canonical(a, n) /\ Canonical(b, n) /\ b.n = n
                               /\ Value(b) # 0
  BY Divided DEF midint_sdiv, midint_srem
<1>2. Magnitude(b).n = n BY <1>1, MagnitudeWidth DEF Canonical
<1>3. PICK p, q : p = Sgn(Value(a), n) /\ q = Sgn(Value(b), n) OBVIOUS
<1>4. CASE midint_sdiv
  <2>1. Divisible /\ Becomes(DivName("sdiv", "sdiv_long", Magnitude(b)), 0, Sdiv(a, b))
    BY <1>4 DEF midint_sdiv
  <2>2. /\ ~Long(Magnitude(b)) /\ DivName("sdiv", "sdiv_long", Magnitude(b)) = "sdiv"
        /\ "sdiv" \notin Broken(n)
    BY <1>1, <1>2, <2>1, NotLong DEF Becomes
  <2>3. NWords(n) <= 2 BY <2>2, BrokenAre
  <2>4. Canonical(Sdiv(a, b), n) /\ Value(Sdiv(a, b)) = Quot(p, q) % 2^n
    BY <1>1, <1>3, <2>2, <2>3, SignedResults
  <2>5. Integers_!Result([op |-> "sdiv", k |-> 0, n |-> n]) = Quot(p, q) BY <1>1, <1>3, DividesAs
  <2>6. Computing("sdiv") BY DEF Computing, Integers_!Answers
  <2> QED BY <1>1, <2>1, <2>2, <2>4, <2>5, <2>6, Computed
<1>5. CASE midint_srem
  <2>1. Divisible /\ Becomes(DivName("srem", "srem_long", Magnitude(b)), 0, Srem(a, b))
    BY <1>5 DEF midint_srem
  <2>2. /\ ~Long(Magnitude(b)) /\ DivName("srem", "srem_long", Magnitude(b)) = "srem"
        /\ "srem" \notin Broken(n)
    BY <1>1, <1>2, <2>1, NotLong DEF Becomes
  <2>3. NWords(n) <= 2 BY <2>2, BrokenAre
  <2>4. Canonical(Srem(a, b), n) /\ Value(Srem(a, b)) = (p - q * Quot(p, q)) % 2^n
    BY <1>1, <1>3, <2>2, <2>3, SignedResults
  <2>5. Integers_!Result([op |-> "srem", k |-> 0, n |-> n]) = p - q * Quot(p, q)
    BY <1>1, <1>3, DividesAs
  <2>6. Computing("srem") BY DEF Computing, Integers_!Answers
  <2> QED BY <1>1, <2>1, <2>2, <2>4, <2>5, <2>6, Computed
<1> QED BY <1>4, <1>5
-----------------------------------------------------------------------------
\* A call that puts a quotient into a and a remainder into b, rounding towards zero.
LEMMA BothComputed ==
  ASSUME TypeOK, NEW op \in {"udivrem", "sdivrem"}, NEW n \in Widths, a.n = n, b.n = n,
         NEW res, InBoth(op, res), Canonical(res.quot, n), Canonical(res.rem, n), NEW p, NEW q,
         p = (IF op = "udivrem" THEN Value(a) ELSE Sgn(Value(a), n)),
         q = (IF op = "udivrem" THEN Value(b) ELSE Sgn(Value(b), n)),
         Value(res.quot) = Quot(p, q) % 2^n, Value(res.rem) = (p - q * Quot(p, q)) % 2^n
  PROVE  TypeOK' /\ Integers_!Next
<1>1. a' = res.quot /\ b' = res.rem /\ out' = out /\ call'.op = op BY DEF InBoth, Called
<1>2. TypeOK' BY <1>1, TypeMeansNext
<1>3. a'.n = n /\ b'.n = n BY <1>1 DEF Canonical, AInt
<1>4. Integers_!Quotient(p, q) = Quot(p, q) /\ Integers_!Remainder(p, q) = p - q * Quot(p, q)
  BY DEF Integers_!Quotient, Integers_!Remainder, Integers_!Abs, Quot, AbsOf
<1>5. Integers_!DivRem
  <2>1. /\ p = IF op \in {"udivrem", "udivrem_long"} THEN Value(a) ELSE Integers_!Signed(Value(a), a.n)
        /\ q = IF op \in {"udivrem", "udivrem_long"} THEN Value(b) ELSE Integers_!Signed(Value(b), a.n)
    BY SignedIs
  <2>2. /\ Value(a)' = Integers_!Quotient(p, q) % 2^a.n
        /\ Value(b)' = Integers_!Remainder(p, q) % 2^b.n
    BY <1>1, <1>4, Primes
  <2>3. (a.n)' = a.n /\ (b.n)' = b.n BY <1>3, Primes
  <2> QED BY <1>1, <2>1, <2>2, <2>3 DEF Integers_!DivRem
<1> QED BY <1>2, <1>5 DEF Integers_!Next

\* midint_udivrem of integers of one word, which writes the remainder after the quotient.
LEMMA DivRemStep ==
  ASSUME TypeOK, Sound, midint_udivrem
  PROVE  TypeOK' /\ Integers_!Next
<1>1. PICK n \in Nat \ {0} : n = a.n /\ n \in Widths /\ Canonical(a, n) /\ Canonical(b, n) /\ b.n = n
                               /\ Value(b) # 0
  BY Divided DEF midint_udivrem
<1>2. Divisible /\ InBoth(DivName("udivrem", "udivrem_long", b), UdivRem(a, b, FALSE)) BY DEF midint_udivrem
<1>3. ~Long(b) /\ DivName("udivrem", "udivrem_long", b) = "udivrem" /\ "udivrem" \notin Broken(n)
  BY <1>1, <1>2, NotLong DEF InBoth
<1>4. ~IsBignum(n) BY <1>3, BrokenAre
<1>5. UdivRem(a, b, FALSE) = [quot |-> Udiv(a, b), rem |-> Urem(a, b)] BY <1>1, <1>4 DEF UdivRem
<1>6. DividesTo(n, a, b) BY <1>1, <1>3, UnsignedDivision
<1>7. PICK x \in Nat, y \in Nat \ {0} : x = Value(a) /\ y = Value(b) BY <1>1, Operands
<1>8. Quot(x, y) = x \div y /\ x - y * Quot(x, y) = x % y
  <2>1. ~(x < 0) /\ ~(y < 0) /\ x \in Int /\ y \in Int /\ y # 0 OBVIOUS
  <2>2. AbsOf(x) = x /\ AbsOf(y) = y BY <2>1 DEF AbsOf
  <2>3. Quot(x, y) = x \div y BY <2>1, <2>2 DEF Quot
  <2>4. x - y * Quot(x, y) = (IF x < 0 THEN -(AbsOf(x) % AbsOf(y)) ELSE AbsOf(x) % AbsOf(y))
    BY <2>1, SignedParts
  <2> QED BY <2>1, <2>2, <2>3, <2>4
<1>9. PICK r : r = UdivRem(a, b, FALSE) /\ r.quot = Udiv(a, b) /\ r.rem = Urem(a, b)
  <2> DEFINE both == [quot |-> Udiv(a, b), rem |-> Urem(a, b)]
  <2>1. both.quot = Udiv(a, b) /\ both.rem = Urem(a, b) OBVIOUS
  <2>2. UdivRem(a, b, FALSE) = both BY <1>5
  <2> HIDE DEF both
  <2> QED BY <2>1, <2>2
<1>10. /\ Canonical(r.quot, n) /\ Canonical(r.rem, n)
       /\ Value(r.quot) = Quot(x, y) % 2^n /\ Value(r.rem) = (x - y * Quot(x, y)) % 2^n
  BY <1>6, <1>7, <1>8, <1>9 DEF DividesTo
<1>11. InBoth("udivrem", r) BY <1>2, <1>3, <1>9
<1> QED BY <1>1, <1>7, <1>10, <1>11, BothComputed

\* midint_sdivrem of integers of one word.
LEMMA SdivRemStep ==
  ASSUME TypeOK, Sound, midint_sdivrem
  PROVE  TypeOK' /\ Integers_!Next
<1>1. PICK n \in Nat \ {0} : n = a.n /\ n \in Widths /\ Canonical(a, n) /\ Canonical(b, n) /\ b.n = n
                               /\ Value(b) # 0
  BY Divided DEF midint_sdivrem
<1>2. Divisible /\ InBoth(DivName("sdivrem", "sdivrem_long", Magnitude(b)), SdivRem(a, b))
  BY DEF midint_sdivrem
<1>3. a \in AInt(n) /\ b \in AInt(n) BY <1>1 DEF Canonical
<1>4. Magnitude(b).n = n /\ Magnitude(a).n = n BY <1>3, MagnitudeWidth
<1>5. /\ ~Long(Magnitude(b)) /\ DivName("sdivrem", "sdivrem_long", Magnitude(b)) = "sdivrem"
      /\ "sdivrem" \notin Broken(n)
  BY <1>1, <1>2, <1>4, NotLong DEF InBoth
<1>6. ~IsBignum(n) BY <1>5, BrokenAre
<1>7. SdivRem(a, b) = [quot |-> Sdiv(a, b), rem |-> Srem(a, b)]
  <2>1. UdivRem(Magnitude(a), Magnitude(b), Negative(a))
          = [quot |-> Udiv(Magnitude(a), Magnitude(b)), rem |-> Urem(Magnitude(a), Magnitude(b))]
    BY <1>4, <1>6 DEF UdivRem
  <2> QED BY <2>1 DEF SdivRem, Sdiv, Srem
<1>8. NWords(n) <= 2
  <2>1. NWords(n) = 1 BY <1>6, WidthOf
  <2> QED BY <2>1
<1>9. PICK p, q : p = Sgn(Value(a), n) /\ q = Sgn(Value(b), n) OBVIOUS
<1>10. PICK r : r = SdivRem(a, b) /\ r.quot = Sdiv(a, b) /\ r.rem = Srem(a, b) BY <1>7
<1>11. /\ Canonical(r.quot, n) /\ Canonical(r.rem, n)
       /\ Value(r.quot) = Quot(p, q) % 2^n /\ Value(r.rem) = (p - q * Quot(p, q)) % 2^n
  BY <1>1, <1>5, <1>8, <1>9, <1>10, SignedResults
<1>12. InBoth("sdivrem", r) BY <1>2, <1>5, <1>10
<1> QED BY <1>1, <1>9, <1>11, <1>12, BothComputed
-----------------------------------------------------------------------------
\* The questions about one integer.
LEMMA AnswersAre ==
  ASSUME NEW c
  PROVE  /\ c.op = "get_bit" => Integers_!Answer(c) = BitIn(Value(a), c.k)
         /\ c.op = "is_zero" => Integers_!Answer(c) = Num(Value(a) = 0)
         /\ c.op = "is_signed_min" => Integers_!Answer(c) = Num(Value(a) = 2^(a.n - 1))
         /\ c.op = "is_smin" => Integers_!Answer(c) = Num(Value(a) = 2^(a.n - 1))
         /\ c.op = "is_all_ones" => Integers_!Answer(c) = Num(Value(a) = 2^a.n - 1)
         /\ c.op = "is_negative" => Integers_!Answer(c) = Num(Sgn(Value(a), a.n) < 0)
         /\ c.op = "is_pow2" => Integers_!Answer(c) = Num(\E k \in 0..a.n-1 : Value(a) = 2^k)
         /\ c.op = "is_eq" => Integers_!Answer(c) = Num(Value(a) = Value(b))
<1>1. c.op = "get_bit" => Integers_!Answer(c) = BitIn(Value(a), c.k)
  BY DEF Integers_!Answer, Integers_!Bit, BitIn
<1>2. c.op = "is_zero" => Integers_!Answer(c) = Num(Value(a) = 0)
  BY DEF Integers_!Answer, Integers_!Holds, Num
<1>3. c.op = "is_signed_min" => Integers_!Answer(c) = Num(Value(a) = 2^(a.n - 1))
  BY DEF Integers_!Answer, Integers_!Holds, Num
<1>4. c.op = "is_smin" => Integers_!Answer(c) = Num(Value(a) = 2^(a.n - 1))
  BY DEF Integers_!Answer, Integers_!Holds, Num
<1>5. c.op = "is_all_ones" => Integers_!Answer(c) = Num(Value(a) = 2^a.n - 1)
  BY DEF Integers_!Answer, Integers_!Holds, Num
<1>6. c.op = "is_negative" => Integers_!Answer(c) = Num(Sgn(Value(a), a.n) < 0)
  BY SignedIs DEF Integers_!Answer, Integers_!Holds, Num
<1>7. c.op = "is_pow2" => Integers_!Answer(c) = Num(\E k \in 0..a.n-1 : Value(a) = 2^k)
  BY DEF Integers_!Answer, Integers_!Holds, Num
<1>8. c.op = "is_eq" => Integers_!Answer(c) = Num(Value(a) = Value(b))
  BY DEF Integers_!Answer, Integers_!Holds, Num
<1> QED BY <1>1, <1>2, <1>3, <1>4, <1>5, <1>6, <1>7, <1>8

\* The comparisons and the conversions.
LEMMA OrdersAre ==
  ASSUME NEW c
  PROVE  /\ c.op = "unsigned_cmp" => Integers_!Answer(c) = Cmp(Value(a), Value(b))
         /\ c.op = "unsigned_cmp_diff_sizes" => Integers_!Answer(c) = Cmp(Value(a), Value(b))
         /\ c.op = "unsigned_cmp_imm" => Integers_!Answer(c) = Cmp(Value(a), c.k)
         /\ c.op = "signed_cmp" =>
              Integers_!Answer(c) = Cmp(Sgn(Value(a), a.n), Sgn(Value(b), b.n))
         /\ c.op = "to_uint" => Integers_!Answer(c) = Value(a)
         /\ c.op = "to_sint" => Integers_!Answer(c) = Sgn(Value(a), a.n)
<1>1. \A p, q : Integers_!Order(p, q) = Cmp(p, q) BY DEF Integers_!Order, Cmp
<1>2. c.op = "unsigned_cmp" => Integers_!Answer(c) = Cmp(Value(a), Value(b))
  BY <1>1 DEF Integers_!Answer
<1>3. c.op = "unsigned_cmp_diff_sizes" => Integers_!Answer(c) = Cmp(Value(a), Value(b))
  BY <1>1 DEF Integers_!Answer
<1>4. c.op = "unsigned_cmp_imm" => Integers_!Answer(c) = Cmp(Value(a), c.k)
  BY <1>1 DEF Integers_!Answer
<1>5. c.op = "signed_cmp" => Integers_!Answer(c) = Cmp(Sgn(Value(a), a.n), Sgn(Value(b), b.n))
  BY <1>1, SignedIs DEF Integers_!Answer
<1>6. c.op = "to_uint" => Integers_!Answer(c) = Value(a) BY DEF Integers_!Answer
<1>7. c.op = "to_sint" => Integers_!Answer(c) = Sgn(Value(a), a.n)
  BY SignedIs DEF Integers_!Answer
<1> QED BY <1>2, <1>3, <1>4, <1>5, <1>6, <1>7

\* A call that only looks at the integers says of them what apint.h does.
LEMMA QueryStep ==
  ASSUME TypeOK, Sound, Query
  PROVE  TypeOK' /\ Integers_!Next
<1>1. PICK n \in Nat \ {0} : n = a.n /\ n \in Widths /\ Canonical(a, n) /\ a \in AInt(n) BY Operands
<1>2. PICK m \in Nat \ {0} : m = b.n /\ Canonical(b, m) /\ b \in AInt(m) BY Operands
<1>3. ASSUME NEW k \in BitsOf(a), Returns("get_bit", k, GetBit(a, k)) PROVE TypeOK' /\ Integers_!Next
  <2>1. k \in 0..n-1 BY <1>1 DEF BitsOf
  <2>2. GetBit(a, k) = Integers_!Answer([op |-> "get_bit", k |-> k, n |-> a.n])
    <3>1. GetBit(a, k) = BitIn(Value(a), k) BY <1>1, <2>1, GetBitIs DEF BitIn
    <3> DEFINE c == [op |-> "get_bit", k |-> k, n |-> a.n]
    <3>2. c.op = "get_bit" /\ c.k = k OBVIOUS
    <3> HIDE DEF c
    <3>3. Integers_!Answer(c) = BitIn(Value(a), k) BY <3>2, AnswersAre
    <3> QED BY <3>1, <3>3 DEF c
  <2>3. "get_bit" \in Integers_!Answers BY DEF Integers_!Answers
  <2> QED BY <1>3, <2>2, <2>3, Answered
<1>4. ASSUME Returns("is_zero", 0, Num(\A i \in Idx(a.n) : a.w[i] = 0)) PROVE TypeOK' /\ Integers_!Next
  <2>1. Num(\A i \in Idx(a.n) : a.w[i] = 0) = Num(Value(a) = 0) BY <1>1, IsZeroExact DEF Num
  <2>2. Num(Value(a) = 0) = Integers_!Answer([op |-> "is_zero", k |-> 0, n |-> a.n]) BY AnswersAre
  <2>3. "is_zero" \in Integers_!Answers BY DEF Integers_!Answers
  <2> QED BY <1>4, <2>1, <2>2, <2>3, Answered
<1>5. ASSUME Returns("is_signed_min", 0, Num(IsSignedMin(a))) PROVE TypeOK' /\ Integers_!Next
  <2>1. Num(IsSignedMin(a)) = Num(Value(a) = 2^(a.n - 1)) BY <1>1, IsSignedMinExact DEF Num
  <2>2. Num(IsSignedMin(a)) = Integers_!Answer([op |-> "is_signed_min", k |-> 0, n |-> a.n])
    BY <2>1, AnswersAre
  <2>3. "is_signed_min" \in Integers_!Answers BY DEF Integers_!Answers
  <2> QED BY <1>5, <2>2, <2>3, Answered
<1>6. ASSUME Returns("is_all_ones", 0, Num(IsAllOnes(a))) PROVE TypeOK' /\ Integers_!Next
  <2>1. ~IsBignum(n)
    <3>1. "is_all_ones" \notin Broken(n) BY <1>1, <1>6, CallsAreSound DEF Returns
    <3> QED BY <3>1, BrokenAre
  <2>2. Num(IsAllOnes(a)) = Num(Value(a) = 2^a.n - 1) BY <1>1, <2>1, AllOnesExact DEF Num
  <2>3. Num(IsAllOnes(a)) = Integers_!Answer([op |-> "is_all_ones", k |-> 0, n |-> a.n])
    BY <2>2, AnswersAre
  <2>4. "is_all_ones" \in Integers_!Answers BY DEF Integers_!Answers
  <2> QED BY <1>6, <2>3, <2>4, Answered
<1>7. ASSUME Returns("is_negative", 0, Num(Negative(a))) PROVE TypeOK' /\ Integers_!Next
  <2>1. Num(Negative(a)) = Num(Sgn(Value(a), a.n) < 0) BY <1>1, NegativeExact DEF Num
  <2>2. Num(Negative(a)) = Integers_!Answer([op |-> "is_negative", k |-> 0, n |-> a.n])
    BY <2>1, AnswersAre
  <2>3. "is_negative" \in Integers_!Answers BY DEF Integers_!Answers
  <2> QED BY <1>7, <2>2, <2>3, Answered
<1>8. ASSUME Returns("is_pow2", 0, Num(IsPow2(a))) PROVE TypeOK' /\ Integers_!Next
  <2>1. Num(IsPow2(a)) = Num(\E k \in 0..a.n-1 : Value(a) = 2^k) BY <1>1, Pow2Exact DEF Num
  <2>2. Num(IsPow2(a)) = Integers_!Answer([op |-> "is_pow2", k |-> 0, n |-> a.n])
    BY <2>1, AnswersAre
  <2>3. "is_pow2" \in Integers_!Answers BY DEF Integers_!Answers
  <2> QED BY <1>8, <2>2, <2>3, Answered
<1>9. ASSUME NEW k \in Imms,
             Returns("unsigned_cmp_imm", k, IF UnsignedSigBits(a) > WordBits THEN 1 ELSE Cmp(a.w[0], k))
      PROVE  TypeOK' /\ Integers_!Next
  <2>1. k \in Word BY APIntAssumption
  <2>2. (IF UnsignedSigBits(a) > WordBits THEN 1 ELSE Cmp(a.w[0], k)) = Cmp(Value(a), k)
    BY <1>1, <2>1, CmpImmExact
  <2>3. Cmp(Value(a), k) = Integers_!Answer([op |-> "unsigned_cmp_imm", k |-> k, n |-> a.n])
    BY OrdersAre
  <2>4. "unsigned_cmp_imm" \in Integers_!Answers BY DEF Integers_!Answers
  <2>5. Returns("unsigned_cmp_imm", k, Cmp(Value(a), k)) BY <1>9, <2>2
  <2> QED BY <2>3, <2>4, <2>5, Answered
<1>10. ASSUME UnsignedSigBits(a) <= WordBits, Returns("to_uint", 0, a.w[0])
  PROVE TypeOK' /\ Integers_!Next
  <2>1. a.w[0] = Value(a) BY <1>1, <1>10, SigBitsTell
  <2>2. a.w[0] = Integers_!Answer([op |-> "to_uint", k |-> 0, n |-> a.n]) BY <2>1, OrdersAre
  <2>3. "to_uint" \in Integers_!Answers BY DEF Integers_!Answers
  <2> QED BY <1>10, <2>2, <2>3, Answered
<1>11. ASSUME SignedSigBits(a) <= WordBits, Returns("to_sint", 0, ToSint(a))
  PROVE TypeOK' /\ Integers_!Next
  <2>1. ToSint(a) = Sgn(Value(a), n)
    <3>1. CASE ~IsBignum(n) BY <1>1, <3>1, ToSintExact
    <3>2. CASE IsBignum(n)
      <4>1. "to_sint" \notin Broken(n) BY <1>1, <1>11, CallsAreSound DEF Returns
      <4>2. n % WordBits = 0 BY <3>2, <4>1, BrokenAre
      <4> QED BY <1>1, <1>11, <3>2, <4>2, ToSintWhole
    <3> QED BY <3>1, <3>2
  <2>2. ToSint(a) = Integers_!Answer([op |-> "to_sint", k |-> 0, n |-> a.n])
    BY <1>1, <2>1, OrdersAre
  <2>3. "to_sint" \in Integers_!Answers BY DEF Integers_!Answers
  <2> QED BY <1>11, <2>2, <2>3, Answered
<1>12. ASSUME Returns("unsigned_cmp_diff_sizes", 0, CmpDiffSizes(a, b)) PROVE TypeOK' /\ Integers_!Next
  <2>1. ~IsBignum(n)
    <3>1. "unsigned_cmp_diff_sizes" \notin Broken(n) BY <1>1, <1>12, CallsAreSound DEF Returns
    <3> QED BY <3>1, BrokenAre
  <2>2. CmpDiffSizes(a, b) = Cmp(Value(a), Value(b)) BY <1>1, <1>2, <2>1, CmpDiffSizesExact
  <2>3. CmpDiffSizes(a, b) = Integers_!Answer([op |-> "unsigned_cmp_diff_sizes", k |-> 0, n |-> a.n])
    BY <2>2, OrdersAre
  <2>4. "unsigned_cmp_diff_sizes" \in Integers_!Answers BY DEF Integers_!Answers
  <2> QED BY <1>12, <2>3, <2>4, Answered
<1>13. ASSUME SameWidth, Returns("is_eq", 0, Num(a = b)) PROVE TypeOK' /\ Integers_!Next
  <2>1. Num(a = b) = Num(Value(a) = Value(b))
    <3>1. b \in AInt(n) BY <1>1, <1>2, <1>13 DEF SameWidth
    <3> QED BY <1>1, <3>1, ValueTells DEF Num
  <2>2. Num(a = b) = Integers_!Answer([op |-> "is_eq", k |-> 0, n |-> a.n]) BY <2>1, AnswersAre
  <2>3. "is_eq" \in Integers_!Answers BY DEF Integers_!Answers
  <2> QED BY <1>13, <2>2, <2>3, Answered
<1>14. ASSUME SameWidth, Returns("unsigned_cmp", 0, CmpBignums(a, b)) PROVE TypeOK' /\ Integers_!Next
  <2>1. CmpBignums(a, b) = Cmp(Value(a), Value(b))
    BY <1>1, <1>2, <1>14, CmpBignumsExact DEF SameWidth
  <2>2. CmpBignums(a, b) = Integers_!Answer([op |-> "unsigned_cmp", k |-> 0, n |-> a.n])
    BY <2>1, OrdersAre
  <2>3. "unsigned_cmp" \in Integers_!Answers BY DEF Integers_!Answers
  <2> QED BY <1>14, <2>2, <2>3, Answered
<1>15. ASSUME SameWidth, Returns("signed_cmp", 0, SignedCmp(a, b)) PROVE TypeOK' /\ Integers_!Next
  <2>1. IsBignum(n)
    <3>1. "signed_cmp" \notin Broken(n) BY <1>1, <1>15, CallsAreSound DEF Returns
    <3> QED BY <3>1, BrokenAre
  <2>2. SignedCmp(a, b) = Cmp(Sgn(Value(a), a.n), Sgn(Value(b), b.n))
    BY <1>1, <1>2, <1>15, <2>1, SignedCmpExact DEF SameWidth
  <2>3. SignedCmp(a, b) = Integers_!Answer([op |-> "signed_cmp", k |-> 0, n |-> a.n])
    BY <2>2, OrdersAre
  <2>4. "signed_cmp" \in Integers_!Answers BY DEF Integers_!Answers
  <2> QED BY <1>15, <2>3, <2>4, Answered
<1>16. ASSUME Returns("is_smin", 0, Num(IsSmin(a))) PROVE TypeOK' /\ Integers_!Next
  <2>1. ~IsBignum(n)
    <3>1. "is_smin" \notin Broken(n) BY <1>1, <1>16, CallsAreSound DEF Returns
    <3> QED BY <3>1, BrokenAre
  <2>2. Num(IsSmin(a)) = Num(Value(a) = 2^(a.n - 1)) BY <1>1, <2>1, AllOnesExact DEF Num
  <2>3. Num(IsSmin(a)) = Integers_!Answer([op |-> "is_smin", k |-> 0, n |-> a.n])
    BY <2>2, AnswersAre
  <2>4. "is_smin" \in Integers_!Answers BY DEF Integers_!Answers
  <2> QED BY <1>16, <2>3, <2>4, Answered
<1> QED BY <1>3, <1>4, <1>5, <1>6, <1>7, <1>8, <1>9, <1>10, <1>11, <1>12, <1>13, <1>14, <1>15,
           <1>16 DEF Query
-----------------------------------------------------------------------------
(***************************************************************************)
(* The theorems: for every width of a word and of the integers, a client   *)
(* that makes no broken call.                                              *)
(***************************************************************************)
\* Every call keeps the integers canonical and is a step of FixedInt.
LEMMA CallSteps ==
  ASSUME TypeOK, Sound, Next
  PROVE  TypeOK' /\ Integers_!Next
<1>1. ASSUME midint_init \/ midint_copy \/ midint_assign \/ midint_assign_uimm \/ midint_ext
      PROVE  TypeOK' /\ Integers_!Next
  BY <1>1, InitStep, CopyStep, AssignSteps, ExtStep
<1>2. ASSUME \/ midint_add \/ midint_sub \/ midint_mul
             \/ midint_add_uimm \/ midint_sub_uimm \/ midint_mul_uimm \/ midint_ufullmul
      PROVE  TypeOK' /\ Integers_!Next
  BY <1>2, SumSteps, ImmSteps, FullMulStep
<1>3. ASSUME \/ midint_udiv \/ midint_urem \/ midint_sdiv \/ midint_srem
             \/ midint_udivrem \/ midint_sdivrem
      PROVE  TypeOK' /\ Integers_!Next
  BY <1>3, UnsignedSteps, SignedSteps, DivRemStep, SdivRemStep
<1>4. ASSUME \/ midint_shl_imm \/ midint_lshr_imm \/ midint_ashr_imm
             \/ midint_not \/ midint_negate \/ midint_and \/ midint_or \/ midint_xor
             \/ midint_inc_bit \/ midint_flip_bit
      PROVE  TypeOK' /\ Integers_!Next
  BY <1>4, ShiftSteps, NegationSteps, BitwiseSteps, BitSteps
<1>5. ASSUME midint_get_umax \/ midint_get_smin \/ midint_get_smax PROVE TypeOK' /\ Integers_!Next
  BY <1>5, ExtremeSteps
<1> QED BY <1>1, <1>2, <1>3, <1>4, <1>5, QueryStep DEF Next

\* All integers are zero at first, in both views of them.
LEMMA InitIs ==
  ASSUME Init PROVE TypeOK /\ Integers_!Init
<1>1. PICK n \in Widths, m \in Widths : a = FromInt(n, 0) /\ b = FromInt(m, 0) BY DEF Init
<1>2. n \in Nat \ {0} /\ m \in Nat \ {0} BY APIntAssumption
<1>3. /\ Canonical(a, n) /\ Value(a) = 0 /\ Canonical(b, m) /\ Value(b) = 0
  BY <1>1, <1>2, FromZero
<1>4. a.n = n /\ b.n = m BY <1>1 DEF FromInt
<1> QED BY <1>3, <1>4, TypeMeans DEF Integers_!Init

\* A step that makes no call leaves what the integers stand for as it is.
LEMMA Stutters ==
  ASSUME TypeOK, UNCHANGED vars
  PROVE  TypeOK' /\ UNCHANGED Integers_!vars
<1>1. a' = a /\ b' = b /\ call' = call /\ out' = out BY DEF vars
<1>2. TypeOK' BY <1>1, Operands, TypeMeansNext
<1>3. Value(a)' = Value(a) /\ Value(b)' = Value(b) /\ (a.n)' = a.n /\ (b.n)' = b.n
  BY <1>1, Primes
<1> QED BY <1>1, <1>2, <1>3 DEF Integers_!vars

\* However many calls are made, whatever the width of a word and those of the
\* integers, both integers keep the words their widths need and the bits past the
\* width are zero: what midint_is_eq, midint_is_zero and the comparisons of
\* apint.c rely on.
THEOREM APIntTypes ==
  ASSUME Sound PROVE Spec => []TypeOK
<1>1. Init => TypeOK BY InitIs
<1>2. TypeOK /\ [Next]_vars => TypeOK' BY CallSteps, Stutters
<1> QED BY <1>1, <1>2, PTL DEF Spec

\* Whatever calls are made, in whatever order, each does to the numbers that the
\* words stand for what include/apint.h says: carries, borrows, partial products,
\* shifted bits and the digits of a short division all reach their words.
THEOREM APIntImplements ==
  ASSUME Sound PROVE Spec => Implements
<1>1. Init => Integers_!Init BY InitIs
<1>2. TypeOK /\ [Next]_vars => [Integers_!Next]_Integers_!vars BY CallSteps, Stutters
<1>3. Spec => []TypeOK BY APIntTypes
<1> QED BY <1>1, <1>2, <1>3, PTL DEF Spec, Implements, Integers_!Spec
=============================================================================
