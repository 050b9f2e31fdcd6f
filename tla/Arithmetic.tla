------------------------------ MODULE Arithmetic -------------------------------
(***************************************************************************)
(* Facts about numbers that the proofs use: least and greatest elements    *)
(* in place of induction (a property that fails for a number fails for a   *)
(* least one), functions defined step by step, powers of two, division.    *)
(***************************************************************************)
EXTENDS Integers, FiniteSetTheorems, WellFoundedInduction, TLAPS

\* A set of numbers that is not empty has a least.
LEMMA NatMin ==
  ASSUME NEW T, T \subseteq Nat, T # {}
  PROVE  \E k \in T : \A m \in T : k <= m
<1>1. IsWellFoundedOn(OpToRel(<, Nat), Nat) BY NatLessThanWellFounded
<1>2. PICK k \in T : \A m \in T : ~(<<m, k>> \in OpToRel(<, Nat))
  <2> DEFINE R == OpToRel(<, Nat)
  <2>1. IsWellFoundedOn(R, Nat) BY <1>1
  <2> HIDE DEF R
  <2>2. \E k \in T : \A m \in T : ~(<<m, k>> \in R)
    BY <2>1, WFMin
  <2> QED BY <2>2 DEF R
<1>3. \A m \in T : ~(m < k) BY <1>2 DEF OpToRel
<1> QED BY <1>3

\* One that is also bounded has a greatest.
LEMMA NatMax ==
  ASSUME NEW n \in Nat, NEW T, T \subseteq 0..n, T # {}
  PROVE  \E k \in T : \A m \in T : m <= k
<1> DEFINE U == {n - k : k \in T}
<1>1. U \subseteq Nat /\ U # {}
  <2>1. \A k \in T : n - k \in Nat OBVIOUS
  <2> QED BY <2>1
<1>2. PICK u \in U : \A v \in U : u <= v BY <1>1, NatMin
<1>3. PICK k \in T : u = n - k OBVIOUS
<1>4. ASSUME NEW m \in T PROVE m <= k
  <2>1. u <= n - m BY <1>2
  <2> QED BY <2>1, <1>3
<1> QED BY <1>4

-----------------------------------------------------------------------------
(***************************************************************************)
(* Functions that are defined step by step.                                *)
(***************************************************************************)
\* f is what next makes, step by step, of the value that a has.
Iteration(f, a, b, start, next) ==
  f = [k \in a..b |-> IF k = a THEN start ELSE next[k][f[k-1]]]

\* A function of a range of numbers may be defined step by step, from a first
\* value and what each number makes of the value before it.
LEMMA Iterates ==
  ASSUME NEW V, NEW start \in V, NEW a \in Int, NEW b \in Int,
         NEW next \in [a+1..b -> [V -> V]]
  PROVE  \E f \in [a..b -> V] : Iteration(f, a, b, start, next)
<1> DEFINE Upto(f, n) == /\ f \in [a..n -> V]
                         /\ \A k \in a..n : f[k] = IF k = a THEN start ELSE next[k][f[k-1]]
           T == {n \in Nat : a + n <= b /\ ~ \E f : Upto(f, a + n)}
<1>1. T = {}
  <2>1. SUFFICES ASSUME T # {} PROVE FALSE OBVIOUS
  <2>2. PICK n \in T : \A m \in T : n <= m BY <2>1, NatMin
  <2>3. n # 0
    <3>1. Upto([k \in a..a |-> start], a) OBVIOUS
    <3>2. a + 0 = a OBVIOUS
    <3> HIDE DEF Upto
    <3>3. 0 \notin T BY <3>1, <3>2
    <3> QED BY <2>2, <3>3
  <2>4. PICK m \in Nat : n = m + 1
    <3>1. n \in Nat /\ n - 1 \in Nat /\ n = (n - 1) + 1 BY <2>2, <2>3
    <3> QED BY <3>1
  <2>5. a + n <= b /\ ~ \E f : Upto(f, a + n) BY <2>2
  <2>6. m \notin T /\ a + m <= b
    <3>1. ~(n <= m) /\ a + m <= b BY <2>4, <2>5
    <3> QED BY <2>2, <3>1
  <2>7. PICK f : Upto(f, a + m) BY <2>6
  <2> DEFINE g == [k \in a..a+n |-> IF k = a + n THEN next[a+n][f[a+m]] ELSE f[k]]
  <2>8. a + n = (a + m) + 1 /\ a + n \in a+1..b /\ a + m \in a..a+m /\ a + m \in Int
    BY <2>4, <2>5
  <2>9. next[a+n][f[a+m]] \in V BY <2>7, <2>8
  <2>10. g \in [a..a+n -> V] BY <2>7, <2>8, <2>9
  <2>11. ASSUME NEW k \in a..a+n PROVE g[k] = IF k = a THEN start ELSE next[k][g[k-1]]
    <3>1. CASE k = a + n
      <4>1. k # a /\ k - 1 = a + m /\ k - 1 \in a..a+n /\ k - 1 # a + n BY <2>4, <2>8, <3>1
      <4> QED BY <3>1, <4>1
    <3>2. CASE k # a + n
      <4>1. k \in a..a+m BY <2>8, <3>2
      <4>2. k # a => k - 1 \in a..a+n /\ k - 1 # a + n BY <2>8, <3>2, <4>1
      <4> QED BY <2>7, <3>2, <4>1, <4>2
    <3> QED BY <3>1, <3>2
  <2>12. Upto(g, a + n) BY <2>10, <2>11
  <2> QED BY <2>5, <2>12
<1>2. CASE b < a
  <2>1. a..b = {} BY <1>2
  <2>2. PICK f : f = [k \in a..b |-> start] OBVIOUS
  <2>3. f \in [a..b -> V] BY <2>2
  <2>4. f = [k \in a..b |-> IF k = a THEN start ELSE next[k][f[k-1]]] BY <2>1, <2>2
  <2> QED BY <2>3, <2>4 DEF Iteration
<1>3. CASE a <= b
  <2>1. b - a \in Nat /\ a + (b - a) = b BY <1>3
  <2>2. b - a \notin T BY <1>1
  <2>3. PICK f : Upto(f, b) BY <2>1, <2>2
  <2>4. f = [k \in a..b |-> f[k]] BY <2>3
  <2>5. f = [k \in a..b |-> IF k = a THEN start ELSE next[k][f[k-1]]] BY <2>3, <2>4
  <2> QED BY <2>3, <2>5 DEF Iteration
<1> QED BY <1>2, <1>3

-----------------------------------------------------------------------------
(***************************************************************************)
(* Powers of two, and what is left of a number in a width.                 *)
(***************************************************************************)
\* A set of n + 1 elements has twice as many subsets as one of n.
LEMMA PowerOfTwo ==
  ASSUME NEW n \in Nat
  PROVE  2^n \in Nat \ {0} /\ 2^(n + 1) = 2 * 2^n
<1> DEFINE S == 1..n
           T == SUBSET S
           U == {A \cup {n + 1} : A \in T}
           W == SUBSET (1..n+1)
<1>1. IsFiniteSet(S) /\ Cardinality(S) = n
  <2>1. IsFiniteSet(1..n) /\ Cardinality(1..n) = IF 1 > n THEN 0 ELSE n - 1 + 1 BY FS_Interval
  <2> QED BY <2>1
<1>2. IsFiniteSet(1..n+1) /\ Cardinality(1..n+1) = n + 1
  <2>1. n + 1 \in Int OBVIOUS
  <2>2. /\ IsFiniteSet(1..n+1)
        /\ Cardinality(1..n+1) = IF 1 > n + 1 THEN 0 ELSE n + 1 - 1 + 1 BY <2>1, FS_Interval
  <2> QED BY <2>2
<1>3. IsFiniteSet(T) /\ Cardinality(T) = 2^n
  <2>1. IsFiniteSet(T) /\ Cardinality(T) = 2^Cardinality(S) BY <1>1, FS_SUBSET
  <2> QED BY <1>1, <2>1
<1>4. IsFiniteSet(W) /\ Cardinality(W) = 2^(n + 1)
  <2>1. IsFiniteSet(W) /\ Cardinality(W) = 2^Cardinality(1..n+1) BY <1>2, FS_SUBSET
  <2> QED BY <1>2, <2>1
<1>5. IsFiniteSet(U) /\ Cardinality(U) = Cardinality(T)
  <2> DEFINE f == [A \in T |-> A \cup {n + 1}]
  <2>1. \A A \in T : n + 1 \notin A OBVIOUS
  <2>2. ASSUME NEW A \in T, NEW B \in T, A \cup {n + 1} = B \cup {n + 1} PROVE A = B
    <3>1. n + 1 \notin A /\ n + 1 \notin B BY <2>1
    <3> QED BY <2>2, <3>1
  <2>3. f \in Bijection(T, U)
    <3>1. f \in [T -> U] OBVIOUS
    <3>2. f \in Injection(T, U) BY <2>2, <3>1 DEF Injection, IsInjective
    <3>3. f \in Surjection(T, U) BY <3>1 DEF Surjection
    <3> QED BY <3>2, <3>3 DEF Bijection
  <2>4. ExistsBijection(T, U) BY <2>3 DEF ExistsBijection
  <2> HIDE DEF T, U, f
  <2> QED BY <1>3, <2>4, FS_Bijection
<1>6. W = T \cup U
  <2>1. ASSUME NEW A \in W PROVE A \in T \cup U
    <3>1. CASE n + 1 \in A
      <4>1. A \ {n + 1} \in T /\ A = (A \ {n + 1}) \cup {n + 1} BY <3>1
      <4> QED BY <4>1
    <3>2. CASE n + 1 \notin A
      <4>1. A \in T BY <3>2
      <4> QED BY <4>1
    <3> QED BY <3>1, <3>2
  <2>2. ASSUME NEW A \in T PROVE A \in W /\ A \cup {n + 1} \in W OBVIOUS
  <2>3. \A A \in U : A \in W BY <2>2
  <2>4. \A A \in T : A \in W BY <2>2
  <2> HIDE DEF T, U, W
  <2> QED BY <2>1, <2>3, <2>4
<1>7. T \cap U = {} 
  <2>1. \A A \in T : n + 1 \notin A OBVIOUS
  <2>2. \A A \in U : n + 1 \in A OBVIOUS
  <2> QED BY <2>1, <2>2
<1> HIDE DEF S, T, U, W
<1>8. Cardinality(W) = Cardinality(T) + Cardinality(U) - Cardinality(T \cap U)
  BY <1>3, <1>5, <1>6, FS_Union
<1>9. Cardinality(T \cap U) = 0 BY <1>7, FS_EmptySet
<1>10. Cardinality(T) \in Nat BY <1>3, FS_CardinalityType
<1>11. Cardinality(T) # 0
  <2>1. {} \in T BY DEF T
  <2> QED BY <1>3, <2>1, FS_EmptySet
<1> QED BY <1>3, <1>4, <1>5, <1>8, <1>9, <1>10, <1>11

\* The powers of two grow with their exponents,
LEMMA PowerMonotone ==
  ASSUME NEW m \in Nat, NEW n \in Nat, m <= n PROVE 2^m <= 2^n
<1> DEFINE T == {k \in Nat : m <= k /\ ~(2^m <= 2^k)}
<1>1. SUFFICES ASSUME T # {} PROVE FALSE OBVIOUS
<1>2. PICK k \in T : \A l \in T : k <= l BY <1>1, NatMin
<1>3. k # m BY <1>2, PowerOfTwo
<1>4. k - 1 \in Nat /\ m <= k - 1 /\ k - 1 \notin T
  <2>1. k \in Nat /\ m <= k BY <1>2
  <2> QED BY <1>2, <1>3, <2>1
<1>5. 2^m <= 2^(k-1) BY <1>4
<1>6. 2^((k-1)+1) = 2 * 2^(k-1) /\ 2^(k-1) \in Nat BY <1>4, PowerOfTwo
<1>7. (k-1)+1 = k BY <1>2
<1>8. 2^m \in Nat BY PowerOfTwo
<1>9. 2^m <= 2^k BY <1>5, <1>6, <1>7, <1>8
<1> QED BY <1>2, <1>9

\* and are multiplied where the exponents are added.
LEMMA PowerSum ==
  ASSUME NEW m \in Nat, NEW n \in Nat PROVE 2^(m + n) = 2^m * 2^n
<1> DEFINE T == {k \in Nat : 2^(m + k) # 2^m * 2^k}
<1>1. SUFFICES ASSUME T # {} PROVE FALSE OBVIOUS
<1>2. PICK k \in T : \A l \in T : k <= l BY <1>1, NatMin
<1>3. k # 0
  <2>1. 2^0 = 1 OBVIOUS
  <2>2. 2^m \in Nat BY PowerOfTwo
  <2>3. m + 0 = m OBVIOUS
  <2>4. 0 \notin T BY <2>1, <2>2, <2>3
  <2> QED BY <1>2, <2>4
<1>4. PICK p \in Nat : k = p + 1 
  <2>1. k \in Nat BY <1>2
  <2> QED BY <1>3, <2>1
<1>5. 2^(m + p) = 2^m * 2^p BY <1>2, <1>4
<1>6. 2^(p + 1) = 2 * 2^p /\ 2^p \in Nat /\ 2^m \in Nat BY PowerOfTwo
<1>7. 2^((m + p) + 1) = 2 * 2^(m + p) BY PowerOfTwo
<1>8. (m + p) + 1 = m + k BY <1>4
<1>9. 2^(m + k) = 2^m * 2^k
  <2>1. 2^(m + k) = 2 * (2^m * 2^p) BY <1>5, <1>7, <1>8
  <2>2. 2^k = 2 * 2^p BY <1>4, <1>6
  <2> HIDE DEF T
  <2>3. \A x, y \in Nat : 2 * (x * y) = x * (2 * y) OBVIOUS
  <2> QED BY <2>1, <2>2, <2>3, <1>6
<1> QED BY <1>2, <1>9

\* Division undoes a multiplication, and tells a lesser number from a product.
LEMMA DivisionTells ==
  ASSUME NEW v \in Nat \ {0}, NEW b \in Nat, NEW p \in Nat
  PROVE  /\ p = v * b => p \div v = b
         /\ p < v * b => p \div v # b
<1>1. p = v * (p \div v) + (p % v) /\ p % v \in 0..v-1 /\ p \div v \in Int OBVIOUS
<1>2. PICK q \in Int, r \in 0..v-1 : p = v * q + r /\ p \div v = q BY <1>1
<1>3. ASSUME p = v * b PROVE q = b
  <2>1. v * (b - q) = r BY <1>2, <1>3
  <2>2. CASE b - q >= 1
    <3>1. v * (b - q) >= v BY <2>2
    <3> QED BY <2>1, <3>1
  <2>3. CASE b - q <= -1
    <3>1. v * (b - q) <= -v BY <2>3
    <3> QED BY <2>1, <3>1
  <2> QED BY <2>2, <2>3
<1> QED BY <1>2, <1>3

\* What is left of a number that is too long for a width is less than it.
LEMMA WrapsTells ==
  ASSUME NEW m \in Nat \ {0}, NEW p \in Nat
  PROVE  /\ p % m \in 0..m-1
         /\ p < m => p % m = p
         /\ p >= m => p % m < p
         /\ p >= m /\ p < m + m => p % m = p - m
OBVIOUS
=============================================================================
