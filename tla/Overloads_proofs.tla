---------------------------- MODULE Overloads_proofs ----------------------------
(***************************************************************************)
(* Overload resolution, for calls with any number of arguments, among any  *)
(* number of scopes, classes and functions: what is numbered is there; the *)
(* candidates are those that C++ looks for; none is lost on the way to the *)
(* function that is taken, and no other that can be called beats it.       *)
(***************************************************************************)
EXTENDS Overloads, Arithmetic, FiniteSetTheorems, SequenceTheorems, TLAPS

-----------------------------------------------------------------------------
(***************************************************************************)
(* Sequences: those that are joined, and how often an element occurs.      *)
(***************************************************************************)
\* f[i] is the first i of the sequences, joined.
Joins(f, seqs, n) ==
  \A i \in 1..n : f[i] = IF i = 1 THEN seqs[i] ELSE f[i - 1] \o seqs[i]

\* Sequences can be joined, whatever their number.
LEMMA JoinsExist ==
  ASSUME NEW S, NEW seqs \in Seq(Seq(S)), NEW n \in Nat, n <= Len(seqs)
  PROVE  \E f \in [1..n -> Seq(S)] : Joins(f, seqs, n)
<1> DEFINE Joined(m) == \E f \in [1..m -> Seq(S)] : Joins(f, seqs, m)
           Bad == {m \in Nat : m <= Len(seqs) /\ ~Joined(m)}
<1>0. Len(seqs) \in Nat OBVIOUS
<1>1. Bad = {}
  <2> SUFFICES ASSUME Bad # {} PROVE FALSE OBVIOUS
  <2>1. PICK m \in Bad : \A k \in Bad : m <= k
    <3>1. Bad \subseteq Nat OBVIOUS
    <3> HIDE DEF Bad
    <3> QED BY <3>1, NatMin
  <2>2. m \in Nat /\ m <= Len(seqs) /\ ~Joined(m) OBVIOUS
  <2>3. CASE m = 0
    <3>1. [i \in 1..0 |-> <<>>] \in [1..0 -> Seq(S)] OBVIOUS
    <3>2. Joins([i \in 1..0 |-> <<>>], seqs, 0) BY DEF Joins
    <3> QED BY <2>2, <2>3, <3>1, <3>2
  <2>4. CASE m # 0
    <3>1. m - 1 \in Nat /\ m - 1 <= Len(seqs) /\ ~(m <= m - 1) BY <1>0, <2>2, <2>4
    <3>2. Joined(m - 1) BY <3>1, <2>1
    <3>3. PICK f \in [1..m-1 -> Seq(S)] : Joins(f, seqs, m - 1) BY <3>2
    <3> DEFINE last == IF m = 1 THEN seqs[m] ELSE f[m - 1] \o seqs[m]
               g == [i \in 1..m |-> IF i = m THEN last ELSE f[i]]
    <3>4. last \in Seq(S)
      <4>1. seqs[m] \in Seq(S) BY <1>0, <2>2, <2>4
      <4>2. m # 1 => f[m - 1] \in Seq(S) BY <2>2, <2>4
      <4> QED BY <4>1, <4>2
    <3>5. g \in [1..m -> Seq(S)] BY <3>4, <2>2
    <3>6. ASSUME NEW i \in 1..m PROVE g[i] = IF i = 1 THEN seqs[i] ELSE g[i - 1] \o seqs[i]
      <4>1. CASE i = m
        <5>1. g[i] = last BY <4>1
        <5>2. m # 1 => g[m - 1] = f[m - 1] BY <2>2, <2>4
        <5> QED BY <5>1, <5>2, <4>1
      <4>2. CASE i # m
        <5>1. i \in 1..m-1 BY <4>2, <2>2
        <5>2. g[i] = f[i] BY <4>2
        <5>3. i # 1 => g[i - 1] = f[i - 1] BY <5>1, <2>2
        <5>4. f[i] = IF i = 1 THEN seqs[i] ELSE f[i - 1] \o seqs[i] BY <5>1, <3>3 DEF Joins
        <5> QED BY <5>2, <5>3, <5>4
      <4> QED BY <4>1, <4>2
    <3> HIDE DEF g
    <3>7. Joins(g, seqs, m) BY <3>6 DEF Joins
    <3> QED BY <3>5, <3>7, <2>2
  <2> QED BY <2>3, <2>4
<1>2. n \notin Bad BY <1>1
<1> HIDE DEF Joined
<1>3. Joined(n) BY <1>2
<1> QED BY <1>3 DEF Joined

\* FlattenSeq joins them all.
LEMMA FlattenIs ==
  ASSUME NEW S, NEW seqs \in Seq(Seq(S)), seqs # <<>>
  PROVE  \E f \in [1..Len(seqs) -> Seq(S)] :
            Joins(f, seqs, Len(seqs)) /\ FlattenSeq(seqs) = f[Len(seqs)]
<1> DEFINE n == Len(seqs)
           Eq(f) == f = [i \in 1..n |-> IF i = 1 THEN seqs[i] ELSE f[i - 1] \o seqs[i]]
           g == CHOOSE f : Eq(f)
<1>1. n \in Nat \ {0} OBVIOUS
<1>2. PICK f \in [1..n -> Seq(S)] : Joins(f, seqs, n)
  <2>1. n <= Len(seqs) OBVIOUS
  <2> HIDE DEF n
  <2> QED BY <1>1, <2>1, JoinsExist
<1>3. Eq(f)
  <2>1. \A i \in 1..n : f[i] = IF i = 1 THEN seqs[i] ELSE f[i - 1] \o seqs[i]
    BY <1>2 DEF Joins
  <2> HIDE DEF n
  <2> QED BY <2>1, <1>2
<1>4. Eq(g) BY <1>3
<1>5. ASSUME NEW h, Eq(h) PROVE h = f
  <2>1. DOMAIN h = 1..n /\ \A i \in 1..n : h[i] = IF i = 1 THEN seqs[i] ELSE h[i - 1] \o seqs[i]
    <3> HIDE DEF n
    <3> QED BY <1>5, Zenon
  <2> DEFINE Bad == {i \in 1..n : h[i] # f[i]}
  <2>2. Bad = {}
    <3> SUFFICES ASSUME Bad # {} PROVE FALSE OBVIOUS
    <3>1. PICK i \in Bad : \A k \in Bad : i <= k
      <4>1. Bad \subseteq Nat BY <1>1
      <4> HIDE DEF Bad
      <4> QED BY <4>1, NatMin
    <3>2. i \in 1..n /\ h[i] # f[i] OBVIOUS
    <3>3. i # 1 => i - 1 \in 1..n /\ ~(i <= i - 1) BY <3>2, <1>1
    <3>4. i # 1 => h[i - 1] = f[i - 1] BY <3>1, <3>3
    <3>5. f[i] = IF i = 1 THEN seqs[i] ELSE f[i - 1] \o seqs[i] BY <3>2, <1>2 DEF Joins
    <3> QED BY <3>2, <3>4, <3>5, <2>1
  <2>3. h = [i \in 1..n |-> h[i]]
    <3> HIDE DEF n
    <3> QED BY <1>5
  <2>4. f = [i \in 1..n |-> f[i]] OBVIOUS
  <2>5. \A i \in 1..n : h[i] = f[i] BY SMTT(40), <2>2
  <2> HIDE DEF n
  <2> QED BY <2>3, <2>4, <2>5
<1>6. g = f BY <1>4, <1>5
<1>7. FlattenSeq(seqs) = g[n] BY <1>1 DEF FlattenSeq
<1> QED BY <1>2, <1>6, <1>7

\* What is joined of lists of things is a list of such things.
LEMMA FlattenType ==
  ASSUME NEW S, NEW seqs \in Seq(Seq(S))
  PROVE  FlattenSeq(seqs) \in Seq(S)
<1>1. CASE seqs = <<>>
  <2>1. Len(seqs) = 0 => FlattenSeq(seqs) = seqs BY DEF FlattenSeq
  <2>2. FlattenSeq(seqs) = <<>> BY <1>1, <2>1
  <2> QED BY <2>2
<1>2. CASE seqs # <<>>
  <2>1. PICK f \in [1..Len(seqs) -> Seq(S)] : FlattenSeq(seqs) = f[Len(seqs)]
    BY <1>2, FlattenIs
  <2>2. Len(seqs) \in 1..Len(seqs) BY <1>2
  <2> QED BY <2>1, <2>2
<1> QED BY <1>1, <1>2

\* Sets between which elements go one to one are of one size.
LEMMA SameSize ==
  ASSUME NEW S, IsFiniteSet(S), NEW T, NEW f \in [S -> T],
         \A x, y \in S : f[x] = f[y] => x = y,
         \A t \in T : \E x \in S : f[x] = t
  PROVE  Cardinality(T) = Cardinality(S)
<1>1. f \in Bijection(S, T) BY DEF Bijection, Injection, Surjection, IsInjective
<1>2. ExistsBijection(S, T) BY <1>1 DEF ExistsBijection
<1> QED BY <1>2, FS_Bijection

Places(s, e) == {i \in 1..Len(s) : s[i] = e}

\* How often an element occurs is a number.
LEMMA TimesNat ==
  ASSUME NEW S, NEW s \in Seq(S), NEW e
  PROVE  IsFiniteSet(Places(s, e)) /\ Times(s, e) = Cardinality(Places(s, e)) /\ Times(s, e) \in Nat
<1>1. Len(s) \in Nat /\ 1 \in Int OBVIOUS
<1>2. IsFiniteSet(1..Len(s)) BY <1>1, FS_Interval
<1>3. Places(s, e) \in SUBSET (1..Len(s)) BY DEF Places
<1>4. IsFiniteSet(Places(s, e)) BY <1>2, <1>3, FS_Subset
<1> QED BY <1>4, FS_CardinalityType DEF Times, Places

\* In nothing it does not occur.
LEMMA TimesNone == \A e : Times(<<>>, e) = 0
<1> TAKE e
<1>1. Places(<<>>, e) = {} BY DEF Places
<1> QED BY <1>1, FS_EmptySet DEF Times, Places

\* In two sequences that are joined it occurs as often as in both together.
LEMMA TimesJoined ==
  ASSUME NEW S, NEW s \in Seq(S), NEW t \in Seq(S), NEW e
  PROVE  Times(s \o t, e) = Times(s, e) + Times(t, e)
<1> DEFINE n == Len(s)
           A == Places(s, e)
           B == Places(t, e)
           C == {i \in n+1..n+Len(t) : (s \o t)[i] = e}
           f == [i \in B |-> n + i]
<1>1. n \in Nat /\ Len(t) \in Nat /\ s \o t \in Seq(S) /\ Len(s \o t) = n + Len(t) OBVIOUS
<1>2. /\ \A i \in 1..n : (s \o t)[i] = s[i]
      /\ \A i \in 1..Len(t) : (s \o t)[n + i] = t[i]
  OBVIOUS
<1>3. /\ IsFiniteSet(A) /\ Times(s, e) = Cardinality(A) /\ Times(s, e) \in Nat
      /\ IsFiniteSet(B) /\ Times(t, e) = Cardinality(B) /\ Times(t, e) \in Nat
      /\ Times(s \o t, e) = Cardinality(Places(s \o t, e))
  BY <1>1, TimesNat
<1> HIDE DEF n
<1>4. B \subseteq 1..Len(t) /\ \A i \in B : t[i] = e BY DEF Places
<1>5. f \in [B -> C]
  <2>1. \A i \in B : n + i \in C BY <1>1, <1>2, <1>4
  <2> HIDE DEF B, C
  <2> QED BY <2>1
<1>6. \A i, j \in B : f[i] = f[j] => i = j BY <1>1, <1>4
<1>7. ASSUME NEW c \in C PROVE \E i \in B : f[i] = c
  <2>1. c \in n+1..n+Len(t) /\ (s \o t)[c] = e OBVIOUS
  <2>2. c - n \in 1..Len(t) /\ n + (c - n) = c BY <1>1, <2>1
  <2>3. t[c - n] = e BY <1>2, <2>1, <2>2
  <2>4. c - n \in B BY <2>2, <2>3 DEF Places
  <2>5. f[c - n] = c BY <2>2, <2>4
  <2> QED BY <2>4, <2>5
<1>8. Cardinality(C) = Cardinality(B)
  <2> HIDE DEF B, C, f
  <2> QED BY <1>3, <1>5, <1>6, <1>7, SameSize
<1>9. A \subseteq 1..n /\ \A i \in A : s[i] = e BY DEF Places, n
<1>10. Places(s \o t, e) = A \cup C
  <2>1. A \subseteq Places(s \o t, e) BY <1>1, <1>2, <1>9 DEF Places
  <2>2. C \subseteq Places(s \o t, e) BY <1>1 DEF Places
  <2>3. ASSUME NEW i \in Places(s \o t, e), i \notin C PROVE i \in A
    <3>1. i \in 1..n+Len(t) /\ (s \o t)[i] = e BY <1>1 DEF Places
    <3>2. i \in 1..n BY <1>1, <2>3, <3>1
    <3>3. s[i] = e BY <1>2, <3>1, <3>2
    <3> QED BY <3>2, <3>3 DEF Places, n
  <2> QED BY <2>1, <2>2, <2>3
<1>11. A \cap C = {} BY <1>1, <1>9
<1>12. IsFiniteSet(C)
  <2>1. IsFiniteSet(n+1..n+Len(t)) BY <1>1, FS_Interval
  <2>2. C \in SUBSET (n+1..n+Len(t)) OBVIOUS
  <2> QED BY <2>1, <2>2, FS_Subset
<1> HIDE DEF A, B, C
<1>13. Cardinality(A \cup C) = Cardinality(A) + Cardinality(C) - Cardinality(A \cap C)
  BY <1>3, <1>12, FS_Union
<1>14. Cardinality(A \cap C) = 0 BY <1>11, FS_EmptySet
<1> QED BY <1>3, <1>8, <1>10, <1>13, <1>14

\* A sequence of one element.
LEMMA TimesOne ==
  ASSUME NEW x, NEW e
  PROVE  Times(<<x>>, e) = IF x = e THEN 1 ELSE 0
<1>1. CASE x = e
  <2>1. Places(<<x>>, e) = {1} BY <1>1 DEF Places
  <2>2. Cardinality({1}) = 1 BY FS_Singleton
  <2> QED BY <1>1, <2>1, <2>2 DEF Times, Places
<1>2. CASE x # e
  <2>1. Places(<<x>>, e) = {} BY <1>2 DEF Places
  <2> QED BY <1>2, <2>1, FS_EmptySet DEF Times, Places
<1> QED BY <1>1, <1>2

\* One more element is one more time of it.
LEMMA TimesAppend ==
  ASSUME NEW S, NEW s \in Seq(S), NEW x, NEW e
  PROVE  Times(Append(s, x), e) = Times(s, e) + (IF x = e THEN 1 ELSE 0)
<1>1. s \in Seq(S \cup {x}) /\ <<x>> \in Seq(S \cup {x}) OBVIOUS
<1>2. Append(s, x) = s \o <<x>> OBVIOUS
<1>3. Times(s \o <<x>>, e) = Times(s, e) + Times(<<x>>, e)
  <2> DEFINE T == S \cup {x}
  <2>1. s \in Seq(T) /\ <<x>> \in Seq(T) BY <1>1
  <2> HIDE DEF T
  <2> QED BY <2>1, TimesJoined
<1>4. Times(<<x>>, e) = IF x = e THEN 1 ELSE 0 BY TimesOne
<1> QED BY <1>2, <1>3, <1>4

\* Exchanging two elements changes nothing of that.
LEMMA TimesSwapped ==
  ASSUME NEW S, viable \in Seq(S), NEW i \in 1..Len(viable), NEW j \in 1..Len(viable), NEW e
  PROVE  /\ Q!Swap(i, j) \in Seq(S) /\ Len(Q!Swap(i, j)) = Len(viable)
         /\ Times(Q!Swap(i, j), e) = Times(viable, e)
<1> DEFINE w == Q!Swap(i, j)
           n == Len(viable)
           A == Places(viable, e)
           B == Places(w, e)
           f == [k \in A |-> IF k = i THEN j ELSE IF k = j THEN i ELSE k]
<1>1. /\ w \in Seq(S) /\ Len(w) = n /\ n \in Nat
      /\ \A k \in 1..n : w[k] = IF k = j THEN viable[i] ELSE IF k = i THEN viable[j] ELSE viable[k]
  BY DEF Q!Swap
<1>2. IsFiniteSet(A) /\ Times(viable, e) = Cardinality(A) BY TimesNat
<1>3. Times(w, e) = Cardinality(B) BY <1>1, TimesNat
<1> HIDE DEF w, n
<1>4. A \subseteq 1..n /\ \A k \in 1..n : k \in A <=> viable[k] = e BY DEF Places, n
<1>5. B \subseteq 1..n /\ \A k \in 1..n : k \in B <=> w[k] = e BY <1>1 DEF Places
<1>6. i \in 1..n /\ j \in 1..n BY DEF n
<1> HIDE DEF A, B
<1>7. f \in [A -> B] BY <1>1, <1>4, <1>5, <1>6
<1>8. \A x, y \in A : f[x] = f[y] => x = y OBVIOUS
<1>9. ASSUME NEW b \in B PROVE \E x \in A : f[x] = b
  <2> DEFINE x == IF b = i THEN j ELSE IF b = j THEN i ELSE b
  <2>1. x \in 1..n /\ w[b] = viable[x] BY <1>1, <1>5, <1>6
  <2>2. x \in A BY <2>1, <1>4, <1>5
  <2>3. f[x] = b BY <2>2
  <2> QED BY <2>2, <2>3
<1>10. Cardinality(B) = Cardinality(A)
  <2> HIDE DEF f
  <2> QED BY <1>2, <1>7, <1>8, <1>9, SameSize
<1> QED BY <1>1, <1>2, <1>3, <1>10 DEF w, n

-----------------------------------------------------------------------------
(***************************************************************************)
(* Types.  What the calls are made of, as the steps use it.                *)
(***************************************************************************)
ScopeIds(c) == 1..Len(c.scopes)
ClassIds(c) == 1..Len(c.classes)
FuncIds(c) == 1..Len(c.funcs)

\* Sizes and scopes of a call.
LEMMA SizesOf ==
  ASSUME NEW c \in Input
  PROVE  /\ c \in Call /\ c.scope \in ScopeIds(c)
         /\ Len(c.scopes) \in Nat /\ Len(c.classes) \in Nat /\ Len(c.funcs) \in Nat
         /\ Len(c.args) \in Nat
         /\ \A s \in ScopeIds(c) : /\ c.scopes[s] \in Scope
                                   /\ c.scopes[s].parent \in 0..s-1
                                   /\ c.scopes[s].parent \in 0..Len(c.scopes)
                                   /\ c.scopes[s].parent = 0 => Stops(c.scopes[s].type)
<1>1. c \in Call /\ WellFormed(c) BY InputAssumption
<1>2. /\ c.scopes \in Seq(Scope) /\ c.classes \in Seq(Class) /\ c.funcs \in Seq(Func)
      /\ c.args \in Seq(Arg)
  BY <1>1 DEF Call
<1>3. /\ Len(c.scopes) \in Nat /\ Len(c.classes) \in Nat /\ Len(c.funcs) \in Nat
      /\ Len(c.args) \in Nat
  BY <1>2
<1>4. \A s \in ScopeIds(c) : c.scopes[s] \in Scope BY <1>2 DEF ScopeIds
<1>5. \A s \in ScopeIds(c) : /\ c.scopes[s].parent < s /\ c.scopes[s].parent \in Nat
                             /\ c.scopes[s].parent = 0 => c.scopes[s].type = "ROOT"
  BY <1>1, <1>4 DEF WellFormed, ScopeIds, Scope
<1>6. \A s \in ScopeIds(c) : /\ c.scopes[s].parent \in 0..s-1
                             /\ c.scopes[s].parent \in 0..Len(c.scopes)
  BY <1>3, <1>5 DEF ScopeIds
<1>7. c.scope \in ScopeIds(c) BY <1>1 DEF WellFormed, ScopeIds
<1> QED BY <1>1, <1>3, <1>4, <1>5, <1>6, <1>7 DEF Stops

\* The classes of a call.
LEMMA ClassesOf ==
  ASSUME NEW c \in Input, NEW k \in ClassIds(c)
  PROVE  /\ c.classes[k] \in Class
         /\ c.classes[k].scope \in 0..Len(c.scopes)
         /\ c.classes[k].scope # 0 => c.scopes[c.classes[k].scope].type = "CLASS"
         /\ c.classes[k].supers \in Seq(ClassIds(c))
         /\ c.classes[k].ctors \in Seq(FuncIds(c))
         /\ \A n \in 1..Len(c.classes[k].ctors) : c.funcs[c.classes[k].ctors[n]].tor
<1> DEFINE class == c.classes[k]
<1>1. c \in Call /\ WellFormed(c) BY InputAssumption
<1>2. Len(c.classes) \in Nat /\ k \in 1..Len(c.classes) BY SizesOf DEF ClassIds
<1>3. class \in Class BY <1>1, <1>2 DEF Call
<1>4. /\ class.scope \in 0..Len(c.scopes)
      /\ class.scope # 0 => c.scopes[class.scope].type = "CLASS"
      /\ Range(class.supers) \subseteq 1..k-1
      /\ Range(class.ctors) \subseteq {f \in 1..Len(c.funcs) : c.funcs[f].tor}
  BY <1>1, <1>2 DEF WellFormed
<1>5. class.supers \in Seq(Nat) /\ class.ctors \in Seq(Nat) BY <1>3 DEF Class
<1> HIDE DEF class
<1>6. class.supers \in Seq(ClassIds(c))
  <2>1. \A n \in 1..Len(class.supers) : class.supers[n] \in ClassIds(c)
    <3>1. \A n \in 1..Len(class.supers) : class.supers[n] \in 1..k-1
      BY <1>4, <1>5 DEF Range
    <3> QED BY <3>1, <1>2 DEF ClassIds
  <2> QED BY <2>1, <1>5
<1>7. \A n \in 1..Len(class.ctors) :
         class.ctors[n] \in FuncIds(c) /\ c.funcs[class.ctors[n]].tor
  BY SMTT(40), <1>4, <1>5 DEF Range, FuncIds
<1>8. class.ctors \in Seq(FuncIds(c)) BY <1>5, <1>7
<1> QED BY <1>3, <1>4, <1>6, <1>7, <1>8 DEF class

\* What the scopes, functions and arguments of a call refer to.
LEMMA RefersTo ==
  ASSUME NEW c \in Input
  PROVE  /\ \A s \in ScopeIds(c) :
              /\ c.scopes[s].type = "CLASS" => c.scopes[s].class \in ClassIds(c)
              /\ Len(c.scopes[s].idents) \in Nat
              /\ \A n \in 1..Len(c.scopes[s].idents) :
                   LET ident == c.scopes[s].idents[n]
                   IN  /\ ident \in Ident
                       /\ ident.kind = "FUNC" => ident.of \in FuncIds(c)
                       /\ ident.kind = "CLASS" => ident.of \in ClassIds(c)
         /\ \A n \in 1..Len(c.args) :
              c.args[n].type.spec \in Named => c.args[n].type.class \in ClassIds(c)
<1>1. c \in Call /\ WellFormed(c) BY InputAssumption
<1>2. ASSUME NEW s \in ScopeIds(c)
      PROVE  /\ c.scopes[s].type = "CLASS" => c.scopes[s].class \in ClassIds(c)
             /\ c.scopes[s].idents \in Seq(Ident)
             /\ \A ident \in Range(c.scopes[s].idents) :
                  ident.of \in 1..Len(IF ident.kind = "FUNC" THEN c.funcs ELSE c.classes)
  <2>1. c.scopes[s] \in Scope BY SizesOf
  <2> QED BY <2>1, <1>1 DEF WellFormed, ScopeIds, ClassIds, Scope
<1>3. ASSUME NEW s \in ScopeIds(c), NEW n \in 1..Len(c.scopes[s].idents)
      PROVE  LET ident == c.scopes[s].idents[n]
             IN  /\ ident \in Ident
                 /\ ident.kind = "FUNC" => ident.of \in FuncIds(c)
                 /\ ident.kind = "CLASS" => ident.of \in ClassIds(c)
  <2> DEFINE ident == c.scopes[s].idents[n]
  <2>1. ident \in Ident /\ ident \in Range(c.scopes[s].idents) BY <1>2 DEF Range
  <2>2. ident.of \in 1..Len(IF ident.kind = "FUNC" THEN c.funcs ELSE c.classes)
    BY <2>1, <1>2
  <2> HIDE DEF ident
  <2>3. /\ ident.kind = "FUNC" => ident.of \in FuncIds(c)
        /\ ident.kind = "CLASS" => ident.of \in ClassIds(c)
    BY <2>2 DEF FuncIds, ClassIds
  <2> QED BY <2>1, <2>3 DEF ident
<1>4. ASSUME NEW n \in 1..Len(c.args), c.args[n].type.spec \in Named
      PROVE  c.args[n].type.class \in ClassIds(c)
  <2>1. c.args \in Seq(Arg) BY <1>1 DEF Call
  <2>2. c.args[n] \in Range(c.args) BY <2>1 DEF Range
  <2> QED BY <2>2, <1>1, <1>4 DEF WellFormed, ClassIds
<1>5. \A s \in ScopeIds(c) : Len(c.scopes[s].idents) \in Nat
  <2> TAKE s \in ScopeIds(c)
  <2>1. c.scopes[s].idents \in Seq(Ident) BY <1>2
  <2> QED BY <2>1
<1> QED BY <1>2, <1>3, <1>4, <1>5, Zenon

-----------------------------------------------------------------------------
\* The last element of a list, and the others.
LEMMA FrontLast ==
  ASSUME NEW S, NEW s \in Seq(S), s # <<>>
  PROVE  /\ Last(s) \in S /\ Front(s) \in Seq(S) /\ Len(Front(s)) = Len(s) - 1
         /\ \A n \in 1..Len(s)-1 : Front(s)[n] = s[n]
         /\ Len(s) \in Nat \ {0}
<1>1. Len(s) \in Nat \ {0} OBVIOUS
<1>2. Last(s) \in S BY <1>1 DEF Last
<1>3. PICK m \in Nat : m = Len(s) - 1 BY <1>1
<1>4. /\ SubSeq(s, 1, m) \in Seq(S)
      /\ Len(SubSeq(s, 1, m)) = IF 1 <= m THEN m - 1 + 1 ELSE 0
      /\ \A n \in 1..m-1+1 : SubSeq(s, 1, m)[n] = s[1 + n - 1]
  <2>1. \A n \in 1..m : s[n] \in S BY <1>1, <1>3
  <2> QED BY <2>1, <1>3, SubSeqProperties
<1>5. /\ Front(s) \in Seq(S) /\ Len(Front(s)) = Len(s) - 1
      /\ \A n \in 1..Len(s)-1 : Front(s)[n] = s[n]
  BY <1>1, <1>3, <1>4 DEF Front
<1> QED BY <1>1, <1>2, <1>5

\* A list from its end.
LEMMA ReverseType ==
  ASSUME NEW S, NEW s \in Seq(S)
  PROVE  /\ Reverse(s) \in Seq(S) /\ Len(Reverse(s)) = Len(s)
         /\ \A n \in 1..Len(s) : Reverse(s)[n] = s[Len(s) - n + 1]
<1>1. Len(s) \in Nat OBVIOUS
<1>2. \A n \in 1..Len(s) : Len(s) - n + 1 \in 1..Len(s) BY <1>1
<1>3. \A n \in 1..Len(s) : s[Len(s) - n + 1] \in S
  <2> DEFINE m(n) == Len(s) - n + 1
  <2>1. \A k \in 1..Len(s) : s[k] \in S OBVIOUS
  <2> HIDE DEF m
  <2>2. \A n \in 1..Len(s) : m(n) \in 1..Len(s) BY <1>2 DEF m
  <2>3. \A n \in 1..Len(s) : s[m(n)] \in S BY <2>1, <2>2
  <2> QED BY <2>3 DEF m
<1>4. Reverse(s) = [n \in 1..Len(s) |-> s[Len(s) - n + 1]] BY DEF Reverse
<1> QED BY <1>1, <1>3, <1>4

\* What an identifier stands for is a list of functions.
LEMMA OfType ==
  ASSUME NEW s \in ScopeIds(call), call \in Input, NEW n \in 1..Len(call.scopes[s].idents)
  PROVE  Of(call.scopes[s].idents[n]) \in Seq(FuncIds(call))
<1> DEFINE ident == call.scopes[s].idents[n]
<1>1. /\ ident.kind = "FUNC" => ident.of \in FuncIds(call)
      /\ ident.kind = "CLASS" => ident.of \in ClassIds(call)
  BY RefersTo
<1> HIDE DEF ident
<1>2. ident.kind = "CLASS" => call.classes[ident.of].ctors \in Seq(FuncIds(call))
  BY <1>1, ClassesOf
<1>3. ident.kind = "FUNC" => <<ident.of>> \in Seq(FuncIds(call)) BY <1>1
<1>4. Of(ident) \in Seq(FuncIds(call)) BY <1>2, <1>3 DEF Of
<1> QED BY <1>4 DEF ident

-----------------------------------------------------------------------------
P == INSTANCE Qsort_proofs WITH Elems <- Nat, Infos <- Call, Comp <- Compare,
                                v <- viable, info <- call

\* A conversion is of one of three ranks, and a variadic parameter of a fourth.
LEMMA NeedsType == \A c, f, i : Needs(c, f, i) \in 1..4
<1> TAKE c, f, i
<1>1. \A s, d : ConversionRank(s, d) \in 1..3
  BY DEF ConversionRank
<1> QED
  BY <1>1 DEF Needs, Rank

LEMMA CloserNeeds ==
  \A c, f, g, i : Closer(c, f, g, i) <=> Needs(c, f, i) < Needs(c, g, i)
<1> TAKE c, f, g, i
<1>1. \A h : InVariadic(c, h, i) => Needs(c, h, i) = 4
  BY DEF Needs
<1>2. \A h : ~InVariadic(c, h, i) => Needs(c, h, i) = Rank(c, h, i)
  BY DEF Needs
<1>3. \A h : Rank(c, h, i) \in 1..3
  <2>1. \A s, d : ConversionRank(s, d) \in 1..3
    BY DEF ConversionRank
  <2> QED
    BY <2>1 DEF Rank
<1> QED
  BY <1>1, <1>2, <1>3 DEF Closer

\* compare_viable_funcs(b, a) is positive if a is as good as b at every
\* argument and better at one.
LEMMA CompareBetter ==
  \A a, b, c : Compare(b, a, c) > 0 <=> Better(c, a, b)
<1> TAKE a, b, c
<1>1. \A i : /\ Closer(c, b, a, i) <=> Needs(c, b, i) < Needs(c, a, i)
             /\ Closer(c, a, b, i) <=> Needs(c, a, i) < Needs(c, b, i)
             /\ Needs(c, a, i) \in 1..4 /\ Needs(c, b, i) \in 1..4
  BY CloserNeeds, NeedsType
<1> QED
  BY <1>1 DEF Compare, Better

LEMMA CompareStrict == \A S, c : P!StrictOn(S, c)
<1> TAKE S, c
<1> SUFFICES ASSUME NEW x, NEW y, NEW z
             PROVE  /\ ~Better(c, x, x)
                    /\ Better(c, x, y) /\ Better(c, y, z) => Better(c, x, z)
  BY CompareBetter DEF P!StrictOn
<1>1. \A f, i : Needs(c, f, i) \in 1..4
  BY NeedsType
<1> QED
  BY SMTT(40), <1>1 DEF Better
-----------------------------------------------------------------------------
Unbeaten == \A f \in Range(viable) : ~Better(call, f, best)

(***************************************************************************)
(* Until they are sorted, the functions that can be called are an array,   *)
(* at first empty; then mid_qsort keeps its own invariant.                 *)
(***************************************************************************)
Inv ==
  /\ \E S : viable \in Seq(S)
  /\ pc \in {"collect", "search"} => viable = <<>>
  /\ pc \in {"collect", "search", "filter"} => part = Q!Idle
  /\ pc = "sort" => P!Inv
  /\ pc = "done" => Unbeaten

LEMMA InitInv == Init => Inv
<1> SUFFICES ASSUME Init PROVE Inv
  OBVIOUS
<1>1. viable = <<>> /\ part = Q!Idle /\ pc \in {"collect", "search"}
  BY DEF Init, Q!Idle
<1>2. viable \in Seq({})
  BY <1>1
<1> QED
  BY <1>1, <1>2 DEF Inv

\* The steps of Q are those that P speaks of.
LEMMA SameSteps == /\ Q!Next => P!Next
                   /\ Q!Sorted <=> P!Sorted
<1>1. Q!Return => P!Return
  BY DEF Q!Return, P!Return, Q!Running, P!Running, Q!Idle, P!Idle, Q!Top, P!Top,
         Q!Popped, P!Popped
<1>2. Q!Enter => P!Enter
  BY DEF Q!Enter, P!Enter, Q!Running, P!Running, Q!Idle, P!Idle, Q!Top, P!Top,
         Q!Popped, P!Popped, Q!Swap, P!Swap
<1>3. Q!Partition => P!Partition
  BY DEF Q!Partition, P!Partition, Q!Running, P!Running, Q!Idle, P!Idle, Q!Swap, P!Swap
<1>4. Q!Recurse => P!Recurse
  BY DEF Q!Recurse, P!Recurse, Q!Running, P!Running, Q!Idle, P!Idle, Q!Swap, P!Swap
<1>5. Q!Sorted <=> P!Sorted
  BY DEF Q!Sorted, P!Sorted, Q!Running, P!Running, Q!Idle, P!Idle
<1> QED
  BY <1>1, <1>2, <1>3, <1>4, <1>5 DEF Q!Next, P!Next

\* The sort is called: its invariant holds, since the comparison is strict.
LEMMA SortStarts ==
  ASSUME Inv, pc = "filter", EndFilter, viable # <<>>
  PROVE  Inv'
<1>1. /\ viable' = viable /\ call' = call /\ part' = part /\ pc' = "sort"
      /\ ranges' = Q!Whole(viable)
  BY DEF EndFilter
<1>2. PICK S : viable \in Seq(S)
  BY DEF Inv
<1>3. P!StrictOn(S, call)
  BY CompareStrict
<1>4. P!Ordered'
  BY <1>1, <1>2, <1>3 DEF P!Ordered
<1>5. P!Fresh'
  BY <1>1, <1>4 DEF P!Fresh, Inv, Q!Whole, P!Whole, Q!Idle, P!Idle
<1>6. P!Fresh' => P!Inv'
  BY P!FreshInv, PTL
<1> QED
  BY <1>1, <1>2, <1>5, <1>6 DEF Inv

\* Taking the first function, when nothing comes before it.
LEMMA TakeUnbeaten ==
  ASSUME Inv, Take
  PROVE  Inv'
<1>1. /\ viable' = viable /\ call' = call /\ best' = viable[1] /\ pc' = "done"
      /\ P!Inv /\ P!Sorted
  BY SameSteps DEF Inv, Take
<1>2. P!NoneBefore
  BY <1>1, P!InvImpliesNoneBefore
<1>3. \A j \in 1..Len(viable) : ~(Compare(viable[1], viable[j], call) > 0)
  BY <1>1, <1>2 DEF P!NoneBefore, P!Before
<1>4. \A j \in 1..Len(viable) : ~Better(call, viable[j], viable[1])
  BY <1>3, CompareBetter
<1>5. PICK S : viable \in Seq(S)
  BY DEF Inv
<1>6. \A f \in Range(viable) : ~Better(call, f, viable[1])
  BY <1>4, <1>5 DEF Range
<1> QED
  BY <1>1, <1>5, <1>6 DEF Inv, Unbeaten

LEMMA SortInv ==
  ASSUME Inv, Sort
  PROVE  Inv'
<1>1. P!Inv /\ P!Next /\ pc = "sort" /\ pc' = "sort"
  BY SameSteps DEF Inv, Sort
<1>2. P!Inv'
  BY <1>1, P!NextInv
<1>3. \E S : viable' \in Seq(S)
  BY <1>2 DEF P!Inv, P!Ordered
<1> QED
  BY <1>1, <1>2, <1>3 DEF Inv

LEMMA NextInv == Inv /\ [Next]_vars => Inv'
<1> SUFFICES ASSUME Inv, [Next]_vars PROVE Inv'
  OBVIOUS
<1>1. ASSUME UNCHANGED <<call, viable, part, best>>, pc \in {"collect", "search"},
             pc' \in {"collect", "search", "filter"}
      PROVE  Inv'
  BY SMTT(40), <1>1 DEF Inv, Q!Idle
<1>2. CASE Climb \/ VisitSuper \/ VisitArg \/ EndCollect \/ Search
  BY <1>1, <1>2 DEF Climb, VisitSuper, VisitArg, EndCollect, Search
<1>3. CASE EndSearch
  <2>1. CASE cands = <<>>
    <3>1. viable' = <<>> /\ pc' = "done"
      BY <1>3, <2>1 DEF EndSearch, Inv
    <3>2. Range(viable') = {} /\ viable' \in Seq({})
      BY <3>1 DEF Range
    <3> QED
      BY <3>1, <3>2 DEF Inv, Unbeaten
  <2>2. CASE cands # <<>>
    BY <1>1, <1>3, <2>2 DEF EndSearch
  <2> QED
    BY <2>1, <2>2
<1>4. CASE Filter
  <2>1. PICK S : viable \in Seq(S)
    BY DEF Inv
  <2>2. viable' = viable \/ viable' = Append(viable, cands[next])
    BY <1>4 DEF Filter
  <2>3. viable' \in Seq(S \cup {cands[next]})
    BY <2>1, <2>2
  <2> QED
    BY <1>4, <2>3 DEF Filter, Inv, Q!Idle
<1>5. CASE FilterFails
  BY <1>5 DEF FilterFails, Inv
<1>6. CASE EndFilter
  <2>1. CASE viable = <<>>
    <3>1. viable' = <<>> /\ pc' = "done"
      BY <1>6, <2>1 DEF EndFilter
    <3>2. Range(viable') = {} /\ viable' \in Seq({})
      BY <3>1 DEF Range
    <3> QED
      BY <3>1, <3>2 DEF Inv, Unbeaten
  <2>2. CASE viable # <<>>
    BY <1>6, <2>2, SortStarts DEF EndFilter
  <2> QED
    BY <2>1, <2>2
<1>7. CASE Sort
  BY <1>7, SortInv
<1>8. CASE Take
  BY <1>8, TakeUnbeaten
<1>9. CASE UNCHANGED vars
  <2>1. P!Inv => P!Inv'
    BY <1>9, P!NextInv DEF vars, P!vars
  <2> QED
    BY <1>9, <2>1 DEF vars, Inv, Unbeaten, Q!Idle
<1> QED
  BY <1>2, <1>3, <1>4, <1>5, <1>6, <1>7, <1>8, <1>9 DEF Next

(***************************************************************************)
(* midsema_best_viable_func: of the functions that can be called, none     *)
(* needs conversions that are all as good as those of the one it returns   *)
(* and somewhere better.                                                   *)
(***************************************************************************)
THEOREM BestIsUnbeaten == Spec => []NoneBetter
<1>1. Inv => NoneBetter
  BY DEF Inv, Unbeaten, NoneBetter
<1> QED
  BY <1>1, InitInv, NextInv, PTL DEF Spec

-----------------------------------------------------------------------------
\* A step of the sort exchanges two elements of the array, or none.
LEMMA SortMoves ==
  ASSUME P!Inv, Q!Next
  PROVE  \/ viable' = viable
         \/ \E i, j \in 1..Len(viable) : viable' = Q!Swap(i, j)
<1>1. CASE Q!Return BY <1>1 DEF Q!Return
<1>2. CASE Q!Enter
  <2>1. ranges \in Seq(Q!Segment) /\ Len(ranges) \in 1..Len(ranges) /\ Len(viable) \in Nat
    <3>1. P!Segment = Q!Segment BY DEF P!Segment, Q!Segment
    <3>2. ranges \in Seq(Q!Segment) BY <3>1 DEF P!Inv, P!RangesOK
    <3>3. ranges # <<>> BY <1>2 DEF Q!Enter
    <3>4. Len(viable) \in Nat BY DEF P!Inv, P!Ordered
    <3> QED BY <3>2, <3>3, <3>4
  <2>2. Q!Top \in Q!Segment /\ Q!Top.left >= 1 /\ Q!Top.right <= Len(viable)
    BY <2>1 DEF P!Inv, P!RangesOK, Q!Top
  <2>3. Q!Top.left \in Nat /\ Q!Top.right \in Nat BY <2>2 DEF Q!Segment
  <2>4. Q!Top.left < Q!Top.right /\ viable' = Q!Swap(Q!Top.left, (Q!Top.left + Q!Top.right) \div 2)
    BY <1>2 DEF Q!Enter
  <2>5. Q!Top.left \in 1..Len(viable) /\ (Q!Top.left + Q!Top.right) \div 2 \in 1..Len(viable)
    BY <2>1, <2>2, <2>3, <2>4
  <2> QED BY <2>4, <2>5
<1>3. CASE Q!Partition \/ Q!Recurse
  <2>1. part # Q!Idle BY <1>3 DEF Q!Partition, Q!Recurse, Q!Running
  <2>2. P!Running BY <2>1 DEF P!Running, P!Idle, Q!Idle
  <2>3. /\ part \in P!Part
        /\ 1 <= part.left /\ part.left <= part.last
        /\ part.last < part.i /\ part.i <= part.right + 1
        /\ part.right <= Len(viable)
    BY <2>2 DEF P!Inv, P!PartOK
  <2>4. /\ part.left \in Nat /\ part.right \in Nat /\ part.i \in Nat /\ part.last \in Nat
        /\ Len(viable) \in Nat
    BY <2>3 DEF P!Part, P!Inv, P!Ordered
  <2>5. CASE Q!Partition
    <3>1. part.i <= part.right
          /\ (viable' = viable \/ viable' = Q!Swap(part.i, part.last + 1))
      BY <2>5 DEF Q!Partition
    <3>2. part.i \in 1..Len(viable) /\ part.last + 1 \in 1..Len(viable) BY <2>3, <2>4, <3>1
    <3> QED BY <3>1, <3>2
  <2>6. CASE Q!Recurse
    <3>1. viable' = Q!Swap(part.left, part.last) BY <2>6 DEF Q!Recurse
    <3>2. part.left \in 1..Len(viable) /\ part.last \in 1..Len(viable) BY <2>3, <2>4
    <3> QED BY <3>1, <3>2
  <2> QED BY <1>3, <2>5, <2>6
<1> QED BY <1>1, <1>2, <1>3 DEF Q!Next

\* So it keeps the array one of functions, each as often as it was in it.
LEMMA SortKeeps ==
  ASSUME P!Inv, Q!Next, NEW S, viable \in Seq(S)
  PROVE  /\ viable' \in Seq(S) /\ Len(viable') = Len(viable)
         /\ \A e : Times(viable, e)' = Times(viable, e)
<1>1. CASE viable' = viable
  <2>1. \A e : Times(viable, e)' = Times(viable, e) BY <1>1 DEF Times
  <2> QED BY <1>1, <2>1
<1>2. ASSUME NEW i \in 1..Len(viable), NEW j \in 1..Len(viable), viable' = Q!Swap(i, j)
      PROVE  /\ viable' \in Seq(S) /\ Len(viable') = Len(viable)
             /\ \A e : Times(viable, e)' = Times(viable, e)
  <2>1. \A e : /\ Q!Swap(i, j) \in Seq(S) /\ Len(Q!Swap(i, j)) = Len(viable)
               /\ Times(Q!Swap(i, j), e) = Times(viable, e)
    BY TimesSwapped
  <2>2. \A e : Times(viable, e)' = Times(Q!Swap(i, j), e) BY <1>2 DEF Times
  <2> QED BY <1>2, <2>1, <2>2
<1> QED BY <1>1, <1>2, SortMoves

-----------------------------------------------------------------------------
(***************************************************************************)
(* Types.  Nothing is to be sorted but while the sort runs, and there is a *)
(* first element to take when it does.                                     *)
(***************************************************************************)
Typed ==
  /\ call \in Input
  /\ scopes \in Seq(ScopeIds(call))
  /\ climb \in 0..Len(call.scopes)
  /\ supers \in Seq(ClassIds(call))
  /\ next \in Nat \ {0}
  /\ cands \in Seq(FuncIds(call))
  /\ viable \in Seq(FuncIds(call))
  /\ best \in 0..Len(call.funcs)
  /\ pc \in {"collect", "search", "filter", "sort", "done", "no_class", "overread"}
  /\ pc # "sort" => ranges = <<>> /\ part = Q!Idle
  /\ pc = "sort" => viable # <<>>

\* A call starts with what is declared.
LEMMA TypedInit == Init => Typed
<1> SUFFICES ASSUME Init PROVE Typed OBVIOUS
<1>1. call \in Input /\ call.scope \in ScopeIds(call) /\ Len(call.scopes) \in Nat
      /\ Len(call.funcs) \in Nat
  BY SizesOf DEF Init
<1>2. scopes \in Seq(ScopeIds(call)) /\ climb \in 0..Len(call.scopes)
      /\ pc \in {"search", "collect"}
  <2>1. CASE call.how \in {"qualified", "method"}
    <3>1. scopes = <<call.scope>> /\ climb = 0 /\ pc = "search" BY <2>1 DEF Init
    <3> QED BY <1>1, <3>1
  <2>2. CASE call.how \notin {"qualified", "method"}
    <3>1. scopes = <<>> /\ climb = call.scope /\ pc = "collect" BY <2>2 DEF Init
    <3> QED BY <1>1, <3>1 DEF ScopeIds
  <2> QED BY <2>1, <2>2
<1>3. /\ supers = <<>> /\ next = 1 /\ cands = <<>> /\ viable = <<>> /\ ranges = <<>>
      /\ part = Q!Idle /\ best = 0
  BY DEF Init, Q!Idle
<1> QED BY <1>1, <1>2, <1>3 DEF Typed

\* Collecting scopes.
LEMMA CollectTyped ==
  ASSUME Typed, Climb \/ VisitSuper \/ VisitArg \/ EndCollect
  PROVE  Typed'
<1>0. call \in Input /\ Len(call.scopes) \in Nat BY SizesOf DEF Typed
<1>1. CASE Climb
  <2>1. climb \in ScopeIds(call) BY <1>1 DEF Climb, Typed, ScopeIds
  <2>2. AddScope(climb) \in Seq(ScopeIds(call)) BY <2>1 DEF Typed, AddScope
  <2>3. scopes' \in Seq(ScopeIds(call)) BY <1>1, <2>2 DEF Climb, Typed
  <2>4. climb' \in 0..Len(call.scopes) BY <1>0, <1>1, <2>1, SizesOf DEF Climb
  <2>5. UNCHANGED <<call, supers, next, cands, viable, ranges, part, best, pc>>
    BY <1>1 DEF Climb
  <2> QED BY <2>3, <2>4, <2>5 DEF Typed
<1>2. CASE VisitSuper
  <2>1. supers \in Seq(ClassIds(call)) /\ supers # <<>> BY <1>2 DEF VisitSuper, Typed
  <2>2. Last(supers) \in ClassIds(call) /\ Front(supers) \in Seq(ClassIds(call))
    BY <2>1, FrontLast
  <2> DEFINE class == call.classes[Last(supers)]
  <2>3. class.scope \in 0..Len(call.scopes) /\ class.supers \in Seq(ClassIds(call))
    BY <1>0, <2>2, ClassesOf
  <2>4. climb' = class.scope /\ supers' = Front(supers) \o Reverse(class.supers)
    BY <1>2 DEF VisitSuper
  <2> HIDE DEF class
  <2>5. Reverse(class.supers) \in Seq(ClassIds(call)) BY <2>3, ReverseType
  <2>6. supers' \in Seq(ClassIds(call)) BY <2>2, <2>4, <2>5
  <2>7. UNCHANGED <<call, scopes, next, cands, viable, ranges, part, best, pc>>
    BY <1>2 DEF VisitSuper
  <2> QED BY <2>3, <2>4, <2>6, <2>7 DEF Typed
<1>3. CASE VisitArg
  <2>1. next \in 1..Len(call.args) BY <1>0, <1>3, SizesOf DEF VisitArg, Typed
  <2> DEFINE type == call.args[next].type
             class == call.classes[type.class]
  <2>2. type.spec \in Named => type.class \in ClassIds(call) BY <1>0, <2>1, RefersTo
  <2>3. type.spec \in Named =>
          class.scope \in 0..Len(call.scopes) /\ class.supers \in Seq(ClassIds(call))
    BY SMTT(40), <1>0, <2>2, ClassesOf
  <2>4. /\ type.spec \in Named =>
             /\ climb' = class.scope
             /\ supers' = IF class.forward THEN <<>> ELSE Reverse(class.supers)
        /\ type.spec \notin Named => UNCHANGED <<climb, supers>>
        /\ next' = next + 1
    BY SMTT(40), <1>3 DEF VisitArg
  <2>5. UNCHANGED <<call, scopes, cands, viable, ranges, part, best, pc>>
    BY <1>3 DEF VisitArg
  <2> HIDE DEF type, class
  <2>6. type.spec \in Named => Reverse(class.supers) \in Seq(ClassIds(call))
    BY <2>3, ReverseType
  <2>7. climb' \in 0..Len(call.scopes) /\ supers' \in Seq(ClassIds(call))
    <3>1. climb \in 0..Len(call.scopes) /\ supers \in Seq(ClassIds(call)) BY DEF Typed
    <3>2. <<>> \in Seq(ClassIds(call)) OBVIOUS
    <3> QED BY <2>3, <2>4, <2>6, <3>1, <3>2
  <2> QED BY SMTT(40), <2>4, <2>5, <2>7 DEF Typed
<1>4. CASE EndCollect BY <1>4 DEF EndCollect, Typed
<1> QED BY <1>1, <1>2, <1>3, <1>4

\* What a scope adds to the candidates.
CtorsIn(scope) == IF scope.type = "CLASS" /\ call.how # "operator"
                  THEN call.classes[scope.class].ctors ELSE <<>>
OfIdents(scope) == [i \in 1..Len(scope.idents) |-> Of(scope.idents[i])]

\* A scope adds functions: constructors, and what its identifiers stand for.
LEMMA SearchAdds ==
  ASSUME Typed, Search
  PROVE  LET scope == call.scopes[scopes[next]]
         IN  /\ next \in 1..Len(scopes) /\ scopes[next] \in ScopeIds(call)
             /\ CtorsIn(scope) \in Seq(FuncIds(call))
             /\ OfIdents(scope) \in Seq(Seq(FuncIds(call)))
             /\ FlattenSeq(OfIdents(scope)) \in Seq(FuncIds(call))
             /\ cands' = cands \o CtorsIn(scope) \o FlattenSeq(OfIdents(scope))
<1> DEFINE s == scopes[next]
           scope == call.scopes[s]
<1>1. next \in 1..Len(scopes)
  <2>1. next \in Nat \ {0} /\ next <= Len(scopes) BY DEF Search, Typed
  <2>2. Len(scopes) \in Nat BY DEF Typed
  <2> QED BY SMTT(40), <2>1, <2>2
<1>2. s \in ScopeIds(call) /\ call \in Input BY SMTT(40), <1>1 DEF Typed
<1>3. cands' = cands \o CtorsIn(scope) \o FlattenSeq(OfIdents(scope))
  BY DEF Search, CtorsIn, OfIdents
<1> HIDE DEF s
<1>4. CtorsIn(scope) \in Seq(FuncIds(call)) BY <1>2, RefersTo, ClassesOf DEF CtorsIn
<1>5. Len(scope.idents) \in Nat /\ \A n \in 1..Len(scope.idents) :
                                    Of(scope.idents[n]) \in Seq(FuncIds(call))
  BY <1>2, RefersTo, OfType
<1> HIDE DEF scope
<1>6. OfIdents(scope) \in Seq(Seq(FuncIds(call))) BY <1>5 DEF OfIdents
<1>7. FlattenSeq(OfIdents(scope)) \in Seq(FuncIds(call)) BY <1>6, FlattenType
<1> QED BY <1>1, <1>2, <1>3, <1>4, <1>6, <1>7 DEF s, scope

\* Finding, filtering and sorting candidates.
LEMMA SelectTyped ==
  ASSUME Typed, Inv, Search \/ EndSearch \/ Filter \/ FilterFails \/ EndFilter \/ Sort \/ Take
  PROVE  Typed'
<1>1. CASE Search
  <2> DEFINE ctors == CtorsIn(call.scopes[scopes[next]])
             found == FlattenSeq(OfIdents(call.scopes[scopes[next]]))
  <2>1. /\ ctors \in Seq(FuncIds(call)) /\ found \in Seq(FuncIds(call))
        /\ cands' = cands \o ctors \o found
    BY SMTT(40), <1>1, SearchAdds
  <2> HIDE DEF ctors, found
  <2>2. cands' \in Seq(FuncIds(call)) BY <2>1 DEF Typed
  <2>3. /\ next' = next + 1
        /\ UNCHANGED <<call, scopes, climb, supers, viable, ranges, part, best, pc>>
    BY <1>1 DEF Search
  <2> QED BY <2>2, <2>3 DEF Typed
<1>2. CASE EndSearch BY <1>2 DEF EndSearch, Typed
<1>3. CASE Filter
  <2>1. next \in 1..Len(cands) BY <1>3 DEF Filter, Typed
  <2>2. cands[next] \in FuncIds(call) BY <2>1 DEF Typed
  <2>3. viable' \in Seq(FuncIds(call)) BY <1>3, <2>2 DEF Filter, Typed
  <2> QED BY <1>3, <2>3 DEF Filter, Typed
<1>4. CASE FilterFails BY <1>4 DEF FilterFails, Typed
<1>5. CASE EndFilter BY <1>5 DEF EndFilter, Typed
<1>6. CASE Sort
  <2>1. P!Inv /\ Q!Next /\ viable \in Seq(FuncIds(call)) /\ viable # <<>>
    BY <1>6 DEF Sort, Inv, Typed
  <2>2. viable' \in Seq(FuncIds(call)) /\ Len(viable') = Len(viable) BY <2>1, SortKeeps
  <2>3. viable' # <<>> BY <2>1, <2>2
  <2>4. call' = call BY <2>1 DEF Q!Next, Q!Return, Q!Enter, Q!Partition, Q!Recurse
  <2>5. UNCHANGED <<scopes, climb, supers, next, cands, best, pc>> /\ pc = "sort"
    BY <1>6 DEF Sort
  <2> QED BY <2>2, <2>3, <2>4, <2>5 DEF Typed
<1>7. CASE Take
  <2>1. viable \in Seq(FuncIds(call)) /\ viable # <<>> BY <1>7 DEF Take, Typed
  <2>2. viable[1] \in FuncIds(call) BY <2>1
  <2>3. viable[1] \in 0..Len(call.funcs) BY <2>2 DEF FuncIds
  <2>4. ranges' = <<>> /\ part' = Q!Idle BY <1>7 DEF Take, Q!Sorted, Q!Running
  <2> QED BY <1>7, <2>3, <2>4 DEF Take, Typed
<1> QED BY <1>1, <1>2, <1>3, <1>4, <1>5, <1>6, <1>7

\* No step leads out of what is declared.
LEMMA TypedStep == Typed /\ Inv /\ [Next]_vars => Typed'
<1>1. ASSUME Typed, UNCHANGED vars PROVE Typed' BY <1>1 DEF vars, Typed
<1> QED BY <1>1, CollectTyped, SelectTyped DEF Next

\* The conjuncts of TypeOK that are about the sort.
LEMMA SortTyped ==
  ASSUME Typed, Inv PROVE Q!TypeOK
<1>1. call \in Call BY SizesOf DEF Typed
<1>2. viable \in Seq(Nat) BY DEF Typed, FuncIds
<1>3. P!Segment = Q!Segment /\ P!Part = Q!Part /\ P!Idle = Q!Idle
  BY DEF P!Segment, Q!Segment, P!Part, Q!Part, P!Idle, Q!Idle
<1>4. CASE pc = "sort"
  <2>1. P!RangesOK /\ P!PartOK BY <1>4 DEF Inv, P!Inv
  <2> QED BY <1>1, <1>2, <1>3, <2>1
       DEF Q!TypeOK, P!RangesOK, P!PartOK, P!Running, Q!Running
<1>5. CASE pc # "sort"
  <2>1. ranges = <<>> /\ part = Q!Idle BY <1>5 DEF Typed
  <2>2. Q!Idle \in Q!Part BY DEF Q!Idle, Q!Part
  <2> QED BY <1>1, <1>2, <2>1, <2>2 DEF Q!TypeOK, Q!Running
<1> QED BY <1>4, <1>5

(***************************************************************************)
(* For all calls, what is numbered is there, and every part of an array    *)
(* that is to be sorted lies in it.                                        *)
(***************************************************************************)
THEOREM TypesKept == Spec => []TypeOK
<1>1. Typed /\ Inv => TypeOK
  <2> SUFFICES ASSUME Typed, Inv PROVE TypeOK OBVIOUS
  <2>1. call \in Call /\ WellFormed(call) BY InputAssumption DEF Typed
  <2> QED BY <2>1, SortTyped DEF Typed, TypeOK, ScopeIds, ClassIds, FuncIds
<1> QED BY <1>1, InitInv, NextInv, TypedInit, TypedStep, PTL DEF Spec

-----------------------------------------------------------------------------
(***************************************************************************)
(* What is filtered: of the candidates that were tried those that can be   *)
(* called, in their order.  The sort keeps them.                           *)
(***************************************************************************)
\* How often f is to be found among those that were kept, of these candidates.
Kept(c, list, f) == IF Viable(c, f) THEN Times(list, f) ELSE 0

Filtered ==
  /\ pc \in {"collect", "search"} => viable = <<>>
  /\ pc = "filter" =>
       /\ next <= Len(cands) + 1
       /\ \A f \in FuncIds(call) :
            Times(viable, f) = Kept(call, SubSeq(cands, 1, next - 1), f)
  /\ pc \in {"sort", "done"} =>
       \A f \in FuncIds(call) : Times(viable, f) = Kept(call, cands, f)

\* One more candidate.
LEMMA TriedOneMore ==
  ASSUME NEW S, NEW s \in Seq(S), NEW n \in 1..Len(s), NEW e
  PROVE  Times(SubSeq(s, 1, n), e)
           = Times(SubSeq(s, 1, n - 1), e) + (IF s[n] = e THEN 1 ELSE 0)
<1>1. Len(s) \in Nat /\ 1 \in 1..Len(s) /\ n \in 1..Len(s) OBVIOUS
<1>2. SubSeq(s, 1, n) = SubSeq(s, 1, n - 1) \o <<s[n]>> BY <1>1, SubSeqRecursiveSecond
<1>3. SubSeq(s, 1, n - 1) \in Seq(S)
  <2>1. n - 1 \in Int /\ \A i \in 1..n-1 : s[i] \in S BY <1>1
  <2> QED BY <2>1, SubSeqProperties
<1>4. <<s[n]>> \in Seq(S) BY <1>1
<1>5. Times(SubSeq(s, 1, n), e) = Times(SubSeq(s, 1, n - 1), e) + Times(<<s[n]>>, e)
  <2> DEFINE t == SubSeq(s, 1, n - 1)
  <2>1. t \in Seq(S) BY <1>3
  <2> HIDE DEF t
  <2>2. Times(t \o <<s[n]>>, e) = Times(t, e) + Times(<<s[n]>>, e)
    BY ZenonT(40), <1>4, <2>1, TimesJoined
  <2> QED BY <1>2, <2>2 DEF t
<1> QED BY <1>5, TimesOne

\* The candidate that is tried is kept if it can be called.
LEMMA FilterKeeps ==
  ASSUME Typed, Filtered, Filter
  PROVE  Filtered'
<1>1. /\ pc = "filter" /\ next <= Len(cands) /\ next' = next + 1
      /\ viable' = IF Viable(call, cands[next]) THEN Append(viable, cands[next]) ELSE viable
      /\ UNCHANGED <<call, cands, pc>>
  BY DEF Filter
<1>2. Len(cands) \in Nat /\ next \in 1..Len(cands)
  <2>1. Len(cands) \in Nat /\ next \in Nat \ {0} BY DEF Typed
  <2> QED BY <1>1, <2>1
<1>3. ASSUME NEW f \in FuncIds(call)
      PROVE  Times(viable', f) = Kept(call, SubSeq(cands, 1, next), f)
  <2> DEFINE before == Times(SubSeq(cands, 1, next - 1), f)
  <2>1. Times(SubSeq(cands, 1, next), f) = before + (IF cands[next] = f THEN 1 ELSE 0)
    BY <1>2, TriedOneMore DEF Typed
  <2>2. Times(viable, f) = IF Viable(call, f) THEN before ELSE 0
    BY <1>1 DEF Filtered, Kept
  <2>3. Times(Append(viable, cands[next]), f)
          = Times(viable, f) + (IF cands[next] = f THEN 1 ELSE 0)
    BY TimesAppend DEF Typed
  <2>4. before \in Nat
    <3>1. next - 1 \in Int /\ \A i \in 1..next-1 : cands[i] \in FuncIds(call)
      BY <1>2 DEF Typed
    <3>2. SubSeq(cands, 1, next - 1) \in Seq(FuncIds(call)) BY <3>1, SubSeqProperties
    <3> QED BY <3>2, TimesNat
  <2> HIDE DEF before
  <2>5. CASE cands[next] = f BY <1>1, <2>1, <2>2, <2>3, <2>4, <2>5 DEF Kept
  <2>6. CASE cands[next] # f BY <1>1, <2>1, <2>2, <2>3, <2>4, <2>6 DEF Kept
  <2> QED BY <2>5, <2>6
<1>4. next' - 1 = next /\ next' <= Len(cands) + 1 BY <1>1, <1>2
<1>5. FuncIds(call)' = FuncIds(call) BY <1>1 DEF FuncIds
<1>6. \A f \in FuncIds(call)' : Times(viable, f)' = Kept(call, SubSeq(cands, 1, next - 1), f)'
  <2> SUFFICES ASSUME NEW f \in FuncIds(call)
               PROVE  Times(viable', f) = Kept(call', SubSeq(cands', 1, next' - 1), f)
    BY <1>5
  <2> QED BY <1>1, <1>3, <1>4
<1> QED BY <1>1, <1>4, <1>6 DEF Filtered

\* No step changes how often a function is among those that can be called.
LEMMA FilteredStep ==
  ASSUME Typed, Inv, Filtered, [Next]_vars
  PROVE  Filtered'
<1>1. CASE Climb \/ VisitSuper \/ VisitArg \/ EndCollect \/ Search
  <2>1. viable' = viable /\ pc \in {"collect", "search"} /\ pc' \in {"collect", "search"}
    BY <1>1 DEF Climb, VisitSuper, VisitArg, EndCollect, Search
  <2> QED BY SMTT(40), <2>1 DEF Filtered
<1>2. CASE EndSearch
  <2>1. /\ viable = <<>> /\ viable' = viable /\ next' = 1 /\ call' = call /\ cands' = cands
        /\ pc' = IF cands = <<>> THEN "done" ELSE "filter"
    BY <1>2 DEF EndSearch, Filtered
  <2>2. \A f : Times(<<>>, f) = 0 BY TimesNone
  <2>3. SubSeq(cands, 1, 1 - 1) = <<>> BY SubSeqEmpty
  <2>4. Len(cands) \in Nat BY DEF Typed
  <2>5. \A f : Kept(call', <<>>, f) = 0 BY <2>2 DEF Kept
  <2>6. \A f : Times(viable', f) = Kept(call', SubSeq(cands', 1, next' - 1), f)
    BY <2>1, <2>2, <2>3, <2>5
  <2>7. cands' = <<>> => \A f : Times(viable', f) = Kept(call', cands', f)
    BY <2>1, <2>2, <2>5
  <2> QED BY <2>1, <2>4, <2>6, <2>7 DEF Filtered
<1>3. CASE Filter BY <1>3, FilterKeeps
<1>4. CASE FilterFails BY <1>4 DEF FilterFails, Filtered
<1>5. CASE EndFilter
  <2>1. /\ pc = "filter" /\ next > Len(cands) /\ UNCHANGED <<call, cands, viable>>
        /\ pc' \in {"sort", "done"}
    BY <1>5 DEF EndFilter
  <2>2. Len(cands) \in Nat /\ next \in Nat /\ next <= Len(cands) + 1
    BY <2>1 DEF Typed, Filtered
  <2>3. SubSeq(cands, 1, next - 1) = cands
    <3>1. next - 1 = Len(cands) BY <2>1, <2>2
    <3>2. SubSeq(cands, 1, Len(cands)) = cands BY SubSeqFull DEF Typed
    <3> QED BY <3>1, <3>2
  <2>4. \A f \in FuncIds(call) : Times(viable, f) = Kept(call, cands, f)
    BY <2>1, <2>3 DEF Filtered
  <2>5. FuncIds(call)' = FuncIds(call) BY <2>1 DEF FuncIds
  <2>6. \A f \in FuncIds(call)' : Times(viable, f)' = Kept(call, cands, f)'
    <3> SUFFICES ASSUME NEW f \in FuncIds(call) PROVE Times(viable', f) = Kept(call', cands', f)
      BY <2>5
    <3> QED BY <2>1, <2>4
  <2> QED BY <2>1, <2>6 DEF Filtered
<1>6. CASE Sort
  <2>1. P!Inv /\ Q!Next /\ viable \in Seq(FuncIds(call)) BY <1>6 DEF Sort, Inv, Typed
  <2>2. \A e : Times(viable', e) = Times(viable, e) BY <2>1, SortKeeps
  <2>3. call' = call BY <2>1 DEF Q!Next, Q!Return, Q!Enter, Q!Partition, Q!Recurse
  <2>4. pc = "sort" /\ pc' = "sort" /\ cands' = cands BY <1>6 DEF Sort
  <2>5. FuncIds(call)' = FuncIds(call) BY <2>3 DEF FuncIds
  <2>6. \A f \in FuncIds(call)' : Times(viable, f)' = Kept(call, cands, f)'
    <3> SUFFICES ASSUME NEW f \in FuncIds(call) PROVE Times(viable', f) = Kept(call', cands', f)
      BY <2>5
    <3> QED BY <2>2, <2>3, <2>4 DEF Filtered
  <2> QED BY <2>4, <2>6 DEF Filtered
<1>7. CASE Take \/ UNCHANGED vars
  <2>1. UNCHANGED <<call, cands, viable>> BY <1>7 DEF Take, vars
  <2>2. (pc' = pc /\ next' = next) \/ (pc = "sort" /\ pc' = "done")
    BY <1>7 DEF Take, vars
  <2>3. FuncIds(call)' = FuncIds(call) BY <2>1 DEF FuncIds
  <2>4. /\ \A f : Times(viable', f) = Times(viable, f)
        /\ \A f : Kept(call', cands', f) = Kept(call, cands, f)
        /\ next' = next => \A f : Kept(call', SubSeq(cands', 1, next' - 1), f)
                                    = Kept(call, SubSeq(cands, 1, next - 1), f)
    BY <2>1
  <2> QED BY <2>1, <2>2, <2>3, <2>4 DEF Filtered
<1> QED BY <1>1, <1>2, <1>3, <1>4, <1>5, <1>6, <1>7 DEF Next

(***************************************************************************)
(* midsema_viable_funcs and mid_qsort: for all calls, the functions that   *)
(* are sorted are the candidates that can be called, each as often as it   *)
(* was found, and none is lost or made up on the way.                      *)
(***************************************************************************)
THEOREM NoneLost == Spec => []ViableKept
<1>1. Init => Filtered BY DEF Init, Filtered
<1>2. Filtered => ViableKept BY DEF Filtered, ViableKept, Kept, FuncIds
<1> QED
  BY <1>1, <1>2, InitInv, NextInv, TypedInit, TypedStep, FilteredStep, PTL DEF Spec

-----------------------------------------------------------------------------
(***************************************************************************)
(* The scopes around a scope, and the bases of a class: the equations that *)
(* define them have a solution.                                            *)
(***************************************************************************)
\* The scopes that are in every set that has s and the parents of its own.
LEMMA AroundExists ==
  ASSUME NEW c \in Input
  PROVE  \E g : g = [s \in 0..Len(c.scopes) |->
                       IF s = 0 THEN {} ELSE {s} \cup g[c.scopes[s].parent]]
<1> DEFINE Out(s) == c.scopes[s].parent
           Closed(T) == T \subseteq ScopeIds(c) /\ \A t \in T : Out(t) # 0 => Out(t) \in T
           Up(s) == {d \in ScopeIds(c) : s # 0 /\ \A T : Closed(T) /\ s \in T => d \in T}
           G == [s \in 0..Len(c.scopes) |-> Up(s)]
<1>1. \A s \in ScopeIds(c) : Out(s) \in 0..Len(c.scopes) BY SizesOf
<1>2. Up(0) = {} OBVIOUS
<1>3. ASSUME NEW s \in ScopeIds(c)
      PROVE  Up(s) = {s} \cup Up(Out(s))
  <2> s # 0 BY DEF ScopeIds
  <2>1. ASSUME NEW d \in Up(Out(s)) PROVE d \in Up(s)
    <3>1. d \in ScopeIds(c) /\ Out(s) # 0 /\ \A T : Closed(T) /\ Out(s) \in T => d \in T OBVIOUS
    <3>2. ASSUME NEW T, Closed(T), s \in T PROVE d \in T
      <4>1. Out(s) \in T BY <3>1, <3>2
      <4> QED BY <4>1, <3>1, <3>2
    <3> QED BY <3>1, <3>2
  <2>2. s \in Up(s) OBVIOUS
  <2>3. ASSUME NEW d \in Up(s), d # s PROVE d \in Up(Out(s))
    <3>1. d \in ScopeIds(c) /\ \A T : Closed(T) /\ s \in T => d \in T OBVIOUS
    <3>2. Out(s) # 0
      <4> SUFFICES ASSUME Out(s) = 0 PROVE FALSE OBVIOUS
      <4>1. Closed({s}) OBVIOUS
      <4> QED BY <4>1, <3>1, <2>3
    <3>3. ASSUME NEW T, Closed(T), Out(s) \in T PROVE d \in T
      <4>1. Closed(T \cup {s}) BY <3>3
      <4> QED BY <4>1, <3>1, <2>3
    <3> QED BY <3>1, <3>2, <3>3
  <2> QED BY <2>1, <2>2, <2>3
<1> HIDE DEF Up
<1>4. G = [s \in 0..Len(c.scopes) |-> IF s = 0 THEN {} ELSE {s} \cup G[Out(s)]]
  <2>1. ASSUME NEW s \in 0..Len(c.scopes)
        PROVE  Up(s) = IF s = 0 THEN {} ELSE {s} \cup G[Out(s)]
    <3>1. CASE s = 0 BY <3>1, <1>2
    <3>2. CASE s # 0
      <4>1. s \in ScopeIds(c) BY <3>2, SizesOf DEF ScopeIds
      <4> QED BY <4>1, <3>2, <1>1, <1>3
    <3> QED BY <3>1, <3>2
  <2> QED BY <2>1
<1> HIDE DEF G
<1> QED BY <1>4

\* What lookup searches at a scope: it, unless a function's, and what is to be
\* searched at its parent, unless it is a namespace.
LEMMA EnclosingIs ==
  ASSUME NEW c \in Input
  PROVE  /\ Enclosing(c, 0) = {}
         /\ \A s \in ScopeIds(c) :
              LET type == c.scopes[s].type
              IN  /\ Stops(type) => Enclosing(c, s) = {s}
                  /\ ~Stops(type) =>
                       Enclosing(c, s) = Enclosing(c, c.scopes[s].parent)
                                           \cup (IF type = "CLASS" THEN {s} ELSE {})
<1> DEFINE Out(s) == c.scopes[s].parent
           Eq(g) == g = [s \in 0..Len(c.scopes) |-> IF s = 0 THEN {} ELSE {s} \cup g[Out(s)]]
           around == CHOOSE g : Eq(g)
           stops(s) == {t \in around[s] : Stops(c.scopes[t].type)}
           Near(s) == {t \in around[s] : c.scopes[t].type # "FUNC" /\ \A u \in stops(s) : t >= u}
<1>1. Eq(around) BY AroundExists
<1>2. \A s : Enclosing(c, s) = Near(s) BY DEF Enclosing
<1>3. around = [s \in 0..Len(c.scopes) |-> IF s = 0 THEN {} ELSE {s} \cup around[Out(s)]]
  BY <1>1
<1> HIDE DEF around
<1>4. Len(c.scopes) \in Nat /\ \A s \in ScopeIds(c) : Out(s) \in 0..s-1 BY SizesOf
<1>5. around[0] = {}
  <2>1. 0 \in 0..Len(c.scopes) BY <1>4
  <2> QED BY <1>3, <2>1, Zenon
<1>6. \A s \in ScopeIds(c) : around[s] = {s} \cup around[Out(s)]
  <2>1. \A s \in ScopeIds(c) : s \in 0..Len(c.scopes) /\ s # 0 BY <1>4 DEF ScopeIds
  <2> QED BY <1>3, <2>1, Zenon
<1>7. \A s \in ScopeIds(c) : around[s] \subseteq 1..s
  <2> DEFINE Bad == {s \in ScopeIds(c) : ~(around[s] \subseteq 1..s)}
  <2> SUFFICES ASSUME Bad # {} PROVE FALSE OBVIOUS
  <2>1. Bad \subseteq Nat BY DEF ScopeIds
  <2>2. PICK s \in Bad : \A t \in Bad : s <= t
    <3> HIDE DEF Bad
    <3> QED BY <2>1, NatMin
  <2>3. s \in ScopeIds(c) /\ s \in Nat \ {0} /\ s <= Len(c.scopes) BY <1>4 DEF ScopeIds
  <2>4. Out(s) \in 0..s-1 BY <1>4, <2>3
  <2>5. around[Out(s)] \subseteq 1..s
    <3>1. CASE Out(s) = 0 BY <3>1, <1>5
    <3>2. CASE Out(s) # 0
      <4>1. Out(s) \in ScopeIds(c) /\ ~(s <= Out(s)) BY SMTT(40), <1>4, <2>3, <2>4, <3>2 DEF ScopeIds
      <4>2. around[Out(s)] \subseteq 1..Out(s) BY <4>1, <2>2
      <4> QED BY <4>2, <2>3, <2>4
    <3> QED BY <3>1, <3>2
  <2>6. around[s] \subseteq 1..s BY <2>3, <2>5, <1>6
  <2> QED BY <2>6
<1>8. \A s \in ScopeIds(c) : \A t \in around[Out(s)] : t \in Nat /\ t < s
  <2> TAKE s \in ScopeIds(c)
  <2>1. s \in Nat \ {0} /\ Out(s) \in 0..s-1 /\ s <= Len(c.scopes) BY <1>4 DEF ScopeIds
  <2>2. CASE Out(s) = 0 BY <2>2, <1>5
  <2>3. CASE Out(s) # 0
    <3>1. Out(s) \in ScopeIds(c) BY <1>4, <2>1, <2>3 DEF ScopeIds
    <3> QED BY <3>1, <2>1, <1>7
  <2> QED BY <2>2, <2>3
<1>9. Near(0) = {} BY <1>5
<1>10. ASSUME NEW s \in ScopeIds(c), Stops(c.scopes[s].type) PROVE Near(s) = {s}
  <2>1. s \in around[s] /\ s \in Nat BY <1>6 DEF ScopeIds
  <2>2. s \in stops(s) BY <2>1, <1>10
  <2>3. c.scopes[s].type # "FUNC" BY <1>10 DEF Stops
  <2>4. \A t \in around[s] : t = s \/ t < s BY <1>6, <1>8
  <2>5. \A t \in Near(s) : t = s BY <2>1, <2>2, <2>4, <1>6, <1>8
  <2>6. s \in Near(s) BY <2>1, <2>3, <2>4, <1>6, <1>8
  <2> QED BY <2>5, <2>6
<1>11. ASSUME NEW s \in ScopeIds(c), ~Stops(c.scopes[s].type)
       PROVE  Near(s) = Near(Out(s)) \cup (IF c.scopes[s].type = "CLASS" THEN {s} ELSE {})
  <2>1. around[s] = {s} \cup around[Out(s)] /\ s \in Nat BY <1>6 DEF ScopeIds
  <2>2. stops(s) = stops(Out(s)) BY <2>1, <1>11
  <2>3. \A u \in stops(s) : u < s /\ u \in Nat BY <2>2, <1>8
  <2>4. c.scopes[s].type # "FUNC" <=> c.scopes[s].type = "CLASS"
    <3>1. c.scopes[s].type \in {"ROOT", "NAMESPACE", "CLASS", "FUNC"} BY SizesOf DEF Scope
    <3> QED BY <3>1, <1>11 DEF Stops
  <2> HIDE DEF stops
  <2>5. \A t \in around[Out(s)] : t \in Near(s) <=> t \in Near(Out(s)) BY <2>1, <2>2
  <2>6. s \in Near(s) <=> c.scopes[s].type = "CLASS" BY <2>1, <2>3, <2>4
  <2>7. Near(Out(s)) \subseteq around[Out(s)] /\ Near(s) \subseteq {s} \cup around[Out(s)] BY <2>1
  <2> HIDE DEF Near
  <2> QED BY <2>1, <2>5, <2>6, <2>7
<1> HIDE DEF Near
<1> QED BY SMTT(40), <1>2, <1>9, <1>10, <1>11

\* A class and the bases of its bases.
LEMMA BasesAre ==
  ASSUME NEW c \in Input, NEW k \in ClassIds(c)
  PROVE  Bases(c, k) = {k} \cup UNION {Bases(c, e) : e \in Range(c.classes[k].supers)}
<1> DEFINE B(d) == Range(c.classes[d].supers)
           Closed(T) == T \subseteq ClassIds(c) /\ \A t \in T : B(t) \subseteq T
           Up(d) == {e \in ClassIds(c) : \A T : Closed(T) /\ d \in T => e \in T}
           G == [d \in ClassIds(c) |-> Up(d)]
           Eq(g) == g = [d \in 1..Len(c.classes) |-> {d} \cup UNION {g[e] : e \in B(d)}]
           closure == CHOOSE g : Eq(g)
<1>1. \A d \in ClassIds(c) : B(d) \subseteq ClassIds(c)
  <2> TAKE d \in ClassIds(c)
  <2>1. c.classes[d].supers \in Seq(ClassIds(c)) BY ClassesOf
  <2> QED BY <2>1 DEF Range
<1> HIDE DEF B
<1>2. ASSUME NEW d \in ClassIds(c) PROVE Up(d) = {d} \cup UNION {Up(e) : e \in B(d)}
  <2>1. d \in Up(d) OBVIOUS
  <2>2. ASSUME NEW e \in B(d), NEW x \in Up(e) PROVE x \in Up(d)
    <3>1. ASSUME NEW T, Closed(T), d \in T PROVE x \in T
      <4>1. e \in T BY <2>2, <3>1
      <4> QED BY <4>1, <2>2, <3>1
    <3> QED BY <3>1, <2>2
  <2> DEFINE T0 == {d} \cup UNION {Up(e) : e \in B(d)}
  <2>3. Closed(T0)
    <3>1. T0 \subseteq ClassIds(c) OBVIOUS
    <3>2. ASSUME NEW e \in B(d), NEW x \in Up(e) PROVE B(x) \subseteq Up(e)
      <4>1. x \in ClassIds(c) /\ B(x) \subseteq ClassIds(c) BY <3>2, <1>1
      <4>2. ASSUME NEW y \in B(x), NEW T, Closed(T), e \in T PROVE y \in T
        <5>1. x \in T BY <3>2, <4>2
        <5> QED BY <5>1, <4>2
      <4> QED BY <4>1, <4>2
    <3>3. \A e \in B(d) : e \in Up(e) BY <1>1
    <3>4. B(d) \subseteq T0 BY <3>3
    <3>5. \A e \in B(d) : Up(e) \subseteq T0 OBVIOUS
    <3>6. \A x \in T0 : x = d \/ \E e \in B(d) : x \in Up(e) OBVIOUS
    <3> HIDE DEF T0, Up
    <3>7. ASSUME NEW x \in T0 PROVE B(x) \subseteq T0
      <4>1. CASE x = d BY <4>1, <3>4
      <4>2. CASE x # d
        <5>1. PICK e \in B(d) : x \in Up(e) BY <4>2, <3>6
        <5> QED BY <5>1, <3>2, <3>5
      <4> QED BY <4>1, <4>2
    <3> QED BY <3>1, <3>7
  <2>4. Up(d) \subseteq T0
    <3>1. d \in T0 OBVIOUS
    <3> HIDE DEF T0
    <3> QED BY <3>1, <2>3
  <2>5. T0 \subseteq Up(d) BY <2>1, <2>2
  <2> QED BY <2>4, <2>5
<1> HIDE DEF Up
<1>3. Eq(G)
  <2>1. ASSUME NEW d \in ClassIds(c) PROVE Up(d) = {d} \cup UNION {G[e] : e \in B(d)}
    <3>1. \A e \in B(d) : G[e] = Up(e) BY <1>1
    <3>2. {G[e] : e \in B(d)} = {Up(e) : e \in B(d)} BY <3>1
    <3> QED BY <3>2, <1>2
  <2> QED BY <2>1 DEF ClassIds
<1> HIDE DEF G
<1>4. Eq(closure) BY <1>3
<1>5. \A d : Bases(c, d) = closure[d] BY DEF Bases, B
<1> HIDE DEF closure
<1>6. closure = [d \in 1..Len(c.classes) |-> {d} \cup UNION {closure[e] : e \in B(d)}]
  BY <1>4
<1>7. closure[k] = {k} \cup UNION {closure[e] : e \in B(k)} BY <1>6, Zenon DEF ClassIds
<1>8. {closure[e] : e \in B(k)} = {Bases(c, e) : e \in B(k)} BY <1>5
<1> QED BY <1>5, <1>7, <1>8 DEF B

-----------------------------------------------------------------------------
(***************************************************************************)
(* Collecting scopes: those that are there, and those that the scope the   *)
(* climb is at, the bases and the arguments to come lead to, are what is   *)
(* to be searched.  None is there twice.                                   *)
(***************************************************************************)
\* The scopes that classes D and their bases lead to.
Reach(c, D) ==
  UNION {Enclosing(c, c.classes[k].scope) : k \in UNION {Bases(c, d) : d \in D}}

\* The classes of the arguments from the n-th on.
ClassesFrom(c, n) ==
  {c.args[j].type.class : j \in {j \in n..Len(c.args) : c.args[j].type.spec \in Named}}

ByBases == \A k \in ArgClasses(call) : ~call.classes[k].forward

Distinct(s) == \A i, j \in 1..Len(s) : s[i] = s[j] => i = j

Collected ==
  /\ Distinct(scopes)
  /\ pc = "collect" =>
       /\ call.how \notin {"qualified", "method"}
       /\ next <= Len(call.args) + 1
       /\ ByBases =>
            ToSearch(call) = Range(scopes) \cup Enclosing(call, climb)
                               \cup Reach(call, Range(supers))
                               \cup Reach(call, ClassesFrom(call, next))
  /\ pc = "search" => (ByBases => Range(scopes) = ToSearch(call))

\* What two sets of classes lead to, and one.
LEMMA ReachUnion ==
  /\ \A c, D, E : Reach(c, D \cup E) = Reach(c, D) \cup Reach(c, E)
  /\ \A c : Reach(c, {}) = {}
<1>1. ASSUME NEW c, NEW D, NEW E PROVE Reach(c, D \cup E) = Reach(c, D) \cup Reach(c, E)
  <2> DEFINE All(S) == UNION {Bases(c, d) : d \in S}
             Around(S) == UNION {Enclosing(c, c.classes[k].scope) : k \in S}
  <2>1. All(D \cup E) = All(D) \cup All(E) OBVIOUS
  <2>2. \A S, T : Around(S \cup T) = Around(S) \cup Around(T) OBVIOUS
  <2>3. \A S : Reach(c, S) = Around(All(S)) BY DEF Reach
  <2> HIDE DEF All, Around
  <2>4. Reach(c, D \cup E) = Around(All(D) \cup All(E)) BY <2>1, <2>3
  <2>5. Around(All(D) \cup All(E)) = Around(All(D)) \cup Around(All(E)) BY <2>2
  <2>6. Reach(c, D) = Around(All(D)) /\ Reach(c, E) = Around(All(E)) BY <2>3
  <2> QED BY <2>4, <2>5, <2>6
<1>2. \A c : Reach(c, {}) = {} BY DEF Reach
<1> QED BY <1>1, <1>2

\* A class leads to the scopes around its own, and to where its bases lead.
LEMMA ReachOne ==
  ASSUME NEW c \in Input, NEW k \in ClassIds(c)
  PROVE  Reach(c, {k}) = Enclosing(c, c.classes[k].scope)
                           \cup Reach(c, Range(c.classes[k].supers))
<1> DEFINE D == Range(c.classes[k].supers)
           E(S) == UNION {Enclosing(c, c.classes[j].scope) : j \in S}
<1>1. Bases(c, k) = {k} \cup UNION {Bases(c, d) : d \in D} BY BasesAre
<1>2. UNION {Bases(c, d) : d \in {k}} = Bases(c, k) OBVIOUS
<1>3. Reach(c, {k}) = E({k} \cup UNION {Bases(c, d) : d \in D}) BY <1>1, <1>2 DEF Reach
<1>4. \A S : E({k} \cup S) = Enclosing(c, c.classes[k].scope) \cup E(S) OBVIOUS
<1>5. E(UNION {Bases(c, d) : d \in D}) = Reach(c, D) BY DEF Reach
<1> HIDE DEF E, D
<1>6. Reach(c, {k}) = Enclosing(c, c.classes[k].scope) \cup Reach(c, D) BY <1>3, <1>4, <1>5
<1> QED BY <1>6 DEF D

\* The elements of a list are those before the last, and it; from the end
\* they are the same, and of two lists together those of both.
LEMMA RangesOf ==
  ASSUME NEW S, NEW s \in Seq(S)
  PROVE  /\ s # <<>> => Range(s) = Range(Front(s)) \cup {Last(s)}
         /\ Range(Reverse(s)) = Range(s)
         /\ \A t \in Seq(S) : Range(s \o t) = Range(s) \cup Range(t)
         /\ \A x : Range(Append(s, x)) = Range(s) \cup {x}
<1>1. s # <<>> => Range(s) = Range(Front(s)) \cup {Last(s)}
  <2> SUFFICES ASSUME s # <<>> PROVE Range(s) = Range(Front(s)) \cup {Last(s)} OBVIOUS
  <2> DEFINE f == Front(s)
  <2>1. /\ f \in Seq(S) /\ Len(f) = Len(s) - 1 /\ Len(s) \in Nat \ {0}
        /\ \A n \in 1..Len(s)-1 : f[n] = s[n]
    BY FrontLast
  <2> HIDE DEF f
  <2>2. Last(s) = s[Len(s)] BY DEF Last
  <2>3. \A n \in 1..Len(s) : n \in 1..Len(s)-1 \/ n = Len(s) BY <2>1
  <2>4. Range(f) = {s[n] : n \in 1..Len(s)-1} BY <2>1 DEF Range
  <2>5. Range(s) = {s[n] : n \in 1..Len(s)} BY DEF Range
  <2>6. 1..Len(s)-1 \subseteq 1..Len(s) /\ Len(s) \in 1..Len(s) BY <2>1
  <2>7. Range(s) = Range(f) \cup {s[Len(s)]} BY <2>3, <2>4, <2>5, <2>6
  <2> QED BY <2>2, <2>7 DEF f
<1>2. Range(Reverse(s)) = Range(s)
  <2> DEFINE r == Reverse(s)
  <2>1. /\ r \in Seq(S) /\ Len(r) = Len(s) /\ \A n \in 1..Len(s) : r[n] = s[Len(s) - n + 1]
    BY ReverseType
  <2> HIDE DEF r
  <2>2. Len(s) \in Nat /\ \A n \in 1..Len(s) : /\ Len(s) - n + 1 \in 1..Len(s)
                                               /\ Len(s) - (Len(s) - n + 1) + 1 = n
    OBVIOUS
  <2>3. Range(r) = {r[n] : n \in 1..Len(s)} /\ Range(s) = {s[n] : n \in 1..Len(s)}
    BY SMTT(40), <2>1 DEF Range
  <2>4. \A n \in 1..Len(s) : s[n] = r[Len(s) - n + 1] BY <2>1, <2>2
  <2>5. Range(r) \subseteq Range(s) BY <2>1, <2>2, <2>3
  <2>6. Range(s) \subseteq Range(r) BY <2>2, <2>3, <2>4
  <2> QED BY <2>5, <2>6 DEF r
<1>3. ASSUME NEW t \in Seq(S) PROVE Range(s \o t) = Range(s) \cup Range(t)
  <2>1. /\ s \o t \in Seq(S) /\ Len(s \o t) = Len(s) + Len(t) /\ Len(s) \in Nat /\ Len(t) \in Nat
        /\ \A n \in 1..Len(s) : (s \o t)[n] = s[n]
        /\ \A n \in 1..Len(t) : (s \o t)[Len(s) + n] = t[n]
    OBVIOUS
  <2> DEFINE u == s \o t
  <2>2. Range(u) = {u[n] : n \in 1..Len(s)+Len(t)} BY SMTT(40), <2>1 DEF Range
  <2>3. Range(s) = {s[n] : n \in 1..Len(s)} /\ Range(t) = {t[n] : n \in 1..Len(t)} BY DEF Range
  <2> HIDE DEF u
  <2>4. ASSUME NEW x \in Range(u) PROVE x \in Range(s) \cup Range(t)
    <3>1. PICK n \in 1..Len(s)+Len(t) : x = u[n] BY <2>2
    <3>2. CASE n <= Len(s)
      <4>1. n \in 1..Len(s) BY <2>1, <3>2
      <4> QED BY <4>1, <3>1, <2>1, <2>3 DEF u
    <3>3. CASE ~(n <= Len(s))
      <4>1. n - Len(s) \in 1..Len(t) /\ Len(s) + (n - Len(s)) = n BY <2>1, <3>3
      <4>2. u[n] = t[n - Len(s)] BY <4>1, <2>1 DEF u
      <4> QED BY <4>1, <4>2, <3>1, <2>3
    <3> QED BY <3>2, <3>3
  <2>5. Range(s) \subseteq Range(u)
    <3>1. \A n \in 1..Len(s) : n \in 1..Len(s)+Len(t) BY <2>1
    <3> QED BY <3>1, <2>1, <2>2, <2>3 DEF u
  <2>6. Range(t) \subseteq Range(u)
    <3>1. \A n \in 1..Len(t) : Len(s) + n \in 1..Len(s)+Len(t) BY <2>1
    <3> QED BY <3>1, <2>1, <2>2, <2>3 DEF u
  <2> QED BY <2>4, <2>5, <2>6 DEF u
<1>4. ASSUME NEW x PROVE Range(Append(s, x)) = Range(s) \cup {x}
  <2>1. /\ Len(Append(s, x)) = Len(s) + 1 /\ Len(s) \in Nat
        /\ \A n \in 1..Len(s) : Append(s, x)[n] = s[n]
        /\ Append(s, x)[Len(s) + 1] = x
        /\ DOMAIN Append(s, x) = 1..Len(s)+1 /\ DOMAIN s = 1..Len(s)
    OBVIOUS
  <2> DEFINE u == Append(s, x)
  <2>2. Range(u) = {u[n] : n \in 1..Len(s)+1} /\ Range(s) = {s[n] : n \in 1..Len(s)}
    BY <2>1 DEF Range
  <2>3. 1..Len(s)+1 = 1..Len(s) \cup {Len(s) + 1} BY <2>1
  <2>4. (\A n \in 1..Len(s) : u[n] = s[n]) /\ u[Len(s) + 1] = x BY <2>1
  <2> HIDE DEF u
  <2>5. Range(u) = {s[n] : n \in 1..Len(s)} \cup {x} BY <2>2, <2>3, <2>4
  <2> QED BY <2>2, <2>5 DEF u
<1> QED BY <1>1, <1>2, <1>3, <1>4

\* What the arguments lead to, before and after one of them.
LEMMA ArgsFrom ==
  ASSUME NEW c \in Input, NEW n \in 1..Len(c.args)
  PROVE  ClassesFrom(c, n) = ClassesFrom(c, n + 1)
           \cup (IF c.args[n].type.spec \in Named THEN {c.args[n].type.class} ELSE {})
<1>1. Len(c.args) \in Nat BY SizesOf
<1>2. n..Len(c.args) = {n} \cup (n+1)..Len(c.args) BY <1>1
<1> DEFINE A(m) == {j \in m..Len(c.args) : c.args[j].type.spec \in Named}
<1>3. A(n) = A(n + 1) \cup (IF c.args[n].type.spec \in Named THEN {n} ELSE {}) BY <1>2
<1>4. \A m : ClassesFrom(c, m) = {c.args[j].type.class : j \in A(m)} BY DEF ClassesFrom
<1> HIDE DEF A
<1> QED BY <1>3, <1>4

\* The classes of all arguments, and of none.
LEMMA AllArgs ==
  ASSUME NEW c \in Input
  PROVE  ArgClasses(c) = ClassesFrom(c, 1) /\ ClassesFrom(c, Len(c.args) + 1) = {}
<1>1. c.args \in Seq(Arg) BY SizesOf DEF Call
<1>2. Len(c.args) \in Nat /\ DOMAIN c.args = 1..Len(c.args) BY <1>1
<1>3. (Len(c.args) + 1)..Len(c.args) = {} BY <1>2
<1>4. ClassesFrom(c, Len(c.args) + 1) = {} BY <1>3 DEF ClassesFrom
<1>5. Range(c.args) = {c.args[j] : j \in 1..Len(c.args)} BY <1>2 DEF Range
<1>6. ArgClasses(c) = ClassesFrom(c, 1) BY <1>5 DEF ArgClasses, ClassesFrom
<1> QED BY <1>4, <1>6

\* add_scope keeps the scopes distinct.
LEMMA AddDistinct ==
  ASSUME Typed, Distinct(scopes), NEW s \in ScopeIds(call)
  PROVE  /\ AddScope(s) \in Seq(ScopeIds(call)) /\ Distinct(AddScope(s))
         /\ Range(AddScope(s)) = Range(scopes) \cup {s}
<1>1. scopes \in Seq(ScopeIds(call)) /\ Len(scopes) \in Nat BY DEF Typed
<1>2. Range(Append(scopes, s)) = Range(scopes) \cup {s} BY <1>1, RangesOf
<1>3. CASE s \in Range(scopes) BY <1>1, <1>3 DEF AddScope
<1>4. CASE s \notin Range(scopes)
  <2>1. AddScope(s) = Append(scopes, s) BY <1>4 DEF AddScope
  <2>2. \A i \in 1..Len(scopes) : scopes[i] # s BY <1>1, <1>4 DEF Range
  <2>3. Distinct(Append(scopes, s)) BY <1>1, <2>2 DEF Distinct
  <2> QED BY <1>1, <1>2, <2>1, <2>3
<1> QED BY <1>3, <1>4

\* At first nothing is collected, and everything is led to.
LEMMA CollectedInit == Init => Collected
<1> SUFFICES ASSUME Init PROVE Collected OBVIOUS
<1>0. call \in Input BY DEF Init
<1>1. CASE call.how \in {"qualified", "method"}
  <2>1. scopes = <<call.scope>> /\ pc = "search" BY <1>1 DEF Init
  <2>2. ToSearch(call) = {call.scope} BY <1>1 DEF ToSearch
  <2>3. Range(scopes) = {call.scope} /\ Distinct(scopes) BY <2>1 DEF Range, Distinct
  <2> QED BY <2>1, <2>2, <2>3 DEF Collected
<1>2. CASE call.how \notin {"qualified", "method"}
  <2>1. /\ scopes = <<>> /\ climb = call.scope /\ pc = "collect" /\ supers = <<>> /\ next = 1
    BY <1>2 DEF Init
  <2>2. ToSearch(call) = Enclosing(call, call.scope) \cup Reach(call, ArgClasses(call))
    BY <1>2 DEF ToSearch, Reach
  <2>3. ArgClasses(call) = ClassesFrom(call, 1) /\ Len(call.args) \in Nat
    BY <1>0, AllArgs, SizesOf
  <2>4. Range(scopes) = {} /\ Range(supers) = {} /\ Distinct(scopes)
    BY <2>1 DEF Range, Distinct
  <2>5. Reach(call, Range(supers)) = {} BY <2>4, ReachUnion
  <2>6. next <= Len(call.args) + 1 BY <2>1, <2>3
  <2>7. Enclosing(call, climb) = Enclosing(call, call.scope)
        /\ ClassesFrom(call, next) = ClassesFrom(call, 1)
    BY <2>1
  <2>8. ToSearch(call) = Range(scopes) \cup Enclosing(call, climb)
                           \cup Reach(call, Range(supers))
                           \cup Reach(call, ClassesFrom(call, next))
    BY <2>2, <2>3, <2>4, <2>5, <2>7
  <2> QED BY <1>2, <2>1, <2>4, <2>6, <2>8 DEF Collected
<1> QED BY <1>1, <1>2

\* What the invariant says that is to be searched.
Searched(sc, cl, su, n) ==
  Range(sc) \cup Enclosing(call, cl) \cup Reach(call, Range(su))
    \cup Reach(call, ClassesFrom(call, n))

\* A step that leaves it alone.
LEMMA CollectedStays ==
  ASSUME Typed, Collected, pc = "collect", UNCHANGED <<call, pc>>, Distinct(scopes'),
         next' <= Len(call.args) + 1,
         ByBases => Searched(scopes', climb', supers', next') = Searched(scopes, climb, supers, next)
  PROVE  Collected'
<1>1. ByBases' <=> ByBases BY DEF ByBases
<1>2. ByBases => ToSearch(call) = Searched(scopes, climb, supers, next)
  BY DEF Collected, Searched
<1>3. ByBases => ToSearch(call) = Range(scopes') \cup Enclosing(call, climb')
                                   \cup Reach(call, Range(supers'))
                                   \cup Reach(call, ClassesFrom(call, next'))
  BY <1>2 DEF Searched
<1>4. call' = call /\ pc' = "collect" OBVIOUS
<1>5. ByBases' => (ToSearch(call) = Range(scopes) \cup Enclosing(call, climb)
                                   \cup Reach(call, Range(supers))
                                   \cup Reach(call, ClassesFrom(call, next)))'
  BY <1>1, <1>3, <1>4
<1>6. (call.how \notin {"qualified", "method"})' /\ (next <= Len(call.args) + 1)'
  BY <1>4 DEF Collected
<1>7. Distinct(scopes)' OBVIOUS
<1> QED BY <1>4, <1>5, <1>6, <1>7 DEF Collected

\* One scope further out.
LEMMA ClimbCollects ==
  ASSUME Typed, Collected, Climb PROVE Collected'
<1> DEFINE s == call.scopes[climb]
<1>1. /\ pc = "collect" /\ climb # 0
      /\ scopes' = IF Stops(s.type) \/ s.type = "CLASS" THEN AddScope(climb) ELSE scopes
      /\ climb' = IF Stops(s.type) THEN 0 ELSE s.parent
      /\ UNCHANGED <<call, supers, next, pc>>
  BY DEF Climb
<1>2. climb \in ScopeIds(call) /\ call \in Input BY <1>1 DEF Typed, ScopeIds
<1>3. /\ Enclosing(call, 0) = {}
      /\ Stops(s.type) => Enclosing(call, climb) = {climb}
      /\ ~Stops(s.type) => Enclosing(call, climb) = Enclosing(call, s.parent)
                              \cup (IF s.type = "CLASS" THEN {climb} ELSE {})
  BY <1>2, EnclosingIs
<1> HIDE DEF s
<1>4. Distinct(scopes) /\ next <= Len(call.args) + 1 BY <1>1 DEF Collected
<1>5. Distinct(AddScope(climb)) /\ Range(AddScope(climb)) = Range(scopes) \cup {climb}
  BY <1>2, <1>4, AddDistinct
<1>6. Distinct(scopes') BY <1>1, <1>4, <1>5
<1>7. Range(scopes') \cup Enclosing(call, climb') = Range(scopes) \cup Enclosing(call, climb)
  BY <1>1, <1>3, <1>5
<1>8. Searched(scopes', climb', supers', next') = Searched(scopes, climb, supers, next)
  BY <1>1, <1>7 DEF Searched
<1> QED BY <1>1, <1>4, <1>6, <1>8, CollectedStays

\* A base gives way to the scopes around it and to its own bases.
LEMMA SuperCollects ==
  ASSUME Typed, Collected, VisitSuper PROVE Collected'
<1> DEFINE k == Last(supers)
           bases == call.classes[k].supers
<1>1. /\ pc = "collect" /\ climb = 0 /\ supers # <<>>
      /\ climb' = call.classes[k].scope
      /\ supers' = Front(supers) \o Reverse(bases)
      /\ UNCHANGED <<call, scopes, next, pc>>
  BY DEF VisitSuper
<1>2. call \in Input /\ supers \in Seq(ClassIds(call)) BY DEF Typed
<1>3. k \in ClassIds(call) /\ Front(supers) \in Seq(ClassIds(call)) BY <1>1, <1>2, FrontLast
<1>4. bases \in Seq(ClassIds(call)) BY <1>2, <1>3, ClassesOf
<1>5. Reach(call, {k}) = Enclosing(call, call.classes[k].scope) \cup Reach(call, Range(bases))
  BY <1>2, <1>3, ReachOne
<1>6. Range(supers) = Range(Front(supers)) \cup {k} BY <1>1, <1>2, RangesOf
<1> DEFINE front == Front(supers)
           back == Reverse(bases)
<1>7. back \in Seq(ClassIds(call)) /\ Range(back) = Range(bases) BY <1>4, ReverseType, RangesOf
<1> HIDE DEF k, bases, front, back
<1>8. Range(front \o back) = Range(front) \cup Range(back)
  BY <1>3, <1>7, RangesOf DEF front
<1>9. Range(supers') = Range(Front(supers)) \cup Range(bases)
  BY <1>1, <1>7, <1>8 DEF front, back
<1>10. Reach(call, Range(supers)) = Reach(call, Range(Front(supers))) \cup Reach(call, {k})
  BY <1>6, ReachUnion
<1>11. Reach(call, Range(supers')) = Reach(call, Range(Front(supers))) \cup Reach(call, Range(bases))
  BY <1>9, ReachUnion
<1>12. Enclosing(call, climb) = {} BY <1>1, <1>2, EnclosingIs
<1>13. Enclosing(call, climb') \cup Reach(call, Range(supers'))
         = Enclosing(call, climb) \cup Reach(call, Range(supers))
  BY <1>1, <1>5, <1>10, <1>11, <1>12
<1>14. Searched(scopes', climb', supers', next') = Searched(scopes, climb, supers, next)
  BY <1>1, <1>13 DEF Searched
<1>15. Distinct(scopes') /\ next' <= Len(call.args) + 1 BY <1>1 DEF Collected
<1> QED BY <1>1, <1>14, <1>15, CollectedStays

\* So does an argument, to its class.
LEMMA ArgCollects ==
  ASSUME Typed, Collected, VisitArg PROVE Collected'
<1> DEFINE k == call.args[next].type.class
           named == call.args[next].type.spec \in Named
           bases == call.classes[k].supers
<1>1. /\ pc = "collect" /\ climb = 0 /\ supers = <<>> /\ next <= Len(call.args)
      /\ named => /\ climb' = call.classes[k].scope
                  /\ supers' = IF call.classes[k].forward THEN <<>> ELSE Reverse(bases)
      /\ ~named => UNCHANGED <<climb, supers>>
      /\ next' = next + 1
      /\ UNCHANGED <<call, scopes, pc>>
  BY DEF VisitArg
<1>2. call \in Input /\ next \in 1..Len(call.args)
  <2>1. call \in Input /\ Len(call.args) \in Nat /\ next \in Nat \ {0} BY SizesOf DEF Typed
  <2> QED BY <1>1, <2>1
<1>3. ClassesFrom(call, next) = ClassesFrom(call, next + 1) \cup (IF named THEN {k} ELSE {})
  BY <1>2, ArgsFrom
<1>4. named => k \in ClassIds(call) BY SMTT(40), <1>2, RefersTo
<1>5. named => /\ Reach(call, {k}) = Enclosing(call, call.classes[k].scope)
                                       \cup Reach(call, Range(bases))
               /\ Range(Reverse(bases)) = Range(bases)
  BY SMTT(40), <1>2, <1>4, ReachOne, ClassesOf, RangesOf
<1>6. ByBases /\ named => ~call.classes[k].forward
  <2>1. named => k \in ClassesFrom(call, next) BY <1>3
  <2>2. \A n \in 1..Len(call.args) : ClassesFrom(call, n) \subseteq ClassesFrom(call, 1)
    BY DEF ClassesFrom
  <2>3. named => k \in ArgClasses(call) BY <1>2, <2>1, <2>2, AllArgs
  <2> QED BY <2>3 DEF ByBases
<1>7. Enclosing(call, climb) = {} /\ Reach(call, Range(supers)) = {}
  <2>1. Range(supers) = {} BY <1>1 DEF Range
  <2> QED BY <1>1, <1>2, <2>1, EnclosingIs, ReachUnion
<1> HIDE DEF k, named, bases
<1>8. named => Reach(call, ClassesFrom(call, next))
                 = Reach(call, ClassesFrom(call, next + 1)) \cup Reach(call, {k})
  BY <1>3, ReachUnion
<1>9. ByBases /\ named => Enclosing(call, climb') \cup Reach(call, Range(supers')) = Reach(call, {k})
  BY <1>1, <1>5, <1>6
<1>10. ByBases => Searched(scopes', climb', supers', next') = Searched(scopes, climb, supers, next)
  <2>1. CASE named BY <1>1, <1>7, <1>8, <1>9, <2>1 DEF Searched
  <2>2. CASE ~named
    <3>1. ClassesFrom(call, next') = ClassesFrom(call, next) BY <1>1, <1>3, <2>2
    <3> QED BY <1>1, <2>2, <3>1 DEF Searched
  <2> QED BY <2>1, <2>2
<1>11. Distinct(scopes') /\ next' <= Len(call.args) + 1
  <2>1. Len(call.args) \in Nat /\ next + 1 <= Len(call.args) + 1 BY <1>2, SizesOf
  <2> QED BY <1>1, <2>1 DEF Collected
<1> QED BY SMTT(40), <1>1, <1>10, <1>11, CollectedStays

\* In the end nothing is led to any more.
LEMMA EndCollects ==
  ASSUME Typed, Collected, EndCollect PROVE Collected'
<1>1. /\ pc = "collect" /\ climb = 0 /\ supers = <<>> /\ next > Len(call.args)
      /\ pc' = "search" /\ UNCHANGED <<call, scopes>>
  BY DEF EndCollect
<1>2. call \in Input /\ next = Len(call.args) + 1
  <2>1. call \in Input /\ Len(call.args) \in Nat /\ next \in Nat BY SizesOf DEF Typed
  <2>2. next <= Len(call.args) + 1 BY <1>1 DEF Collected
  <2> QED BY <1>1, <2>1, <2>2
<1>3. Range(supers) = {} BY <1>1 DEF Range
<1>4. /\ Enclosing(call, climb) = {} /\ Reach(call, Range(supers)) = {}
      /\ Reach(call, ClassesFrom(call, next)) = {}
  BY <1>1, <1>2, <1>3, EnclosingIs, ReachUnion, AllArgs
<1>5. ByBases => Range(scopes) = ToSearch(call) BY <1>1, <1>4 DEF Collected
<1>6. (ByBases => Range(scopes) = ToSearch(call))'
  <2>1. ByBases' <=> ByBases BY <1>1 DEF ByBases
  <2>2. ByBases => Range(scopes') = ToSearch(call') BY <1>1, <1>5
  <2> QED BY <2>1, <2>2
<1>7. Distinct(scopes)' BY <1>1 DEF Collected
<1> QED BY <1>1, <1>6, <1>7 DEF Collected

\* No step loses a scope that is to be searched.
LEMMA CollectedStep ==
  ASSUME Typed, Inv, Collected, [Next]_vars PROVE Collected'
<1>1. CASE Climb BY <1>1, ClimbCollects
<1>2. CASE VisitSuper BY <1>2, SuperCollects
<1>3. CASE VisitArg BY <1>3, ArgCollects
<1>4. CASE EndCollect BY <1>4, EndCollects
<1>5. ASSUME UNCHANGED <<call, scopes>>, pc # "collect", pc' = "search" => pc = "search",
             pc' # "collect"
      PROVE  Collected'
  <2>1. ByBases' <=> ByBases BY <1>5 DEF ByBases
  <2>2. Distinct(scopes)' BY <1>5 DEF Collected
  <2>3. (Range(scopes) = ToSearch(call))' <=> Range(scopes) = ToSearch(call) BY SMTT(40), <1>5
  <2> QED BY <1>5, <2>1, <2>2, <2>3 DEF Collected
<1>6. CASE Search BY <1>5, <1>6 DEF Search
<1>7. CASE EndSearch \/ Filter \/ FilterFails \/ EndFilter \/ Take
  BY <1>5, <1>7 DEF EndSearch, Filter, FilterFails, EndFilter, Take
<1>8. CASE Sort
  <2>1. call' = call BY <1>8 DEF Sort, Q!Next, Q!Return, Q!Enter, Q!Partition, Q!Recurse
  <2> QED BY <1>5, <1>8, <2>1 DEF Sort
<1>9. CASE UNCHANGED vars
  <2>1. UNCHANGED <<call, scopes, climb, supers, next, pc>> BY <1>9 DEF vars
  <2>2. ByBases' <=> ByBases BY <2>1 DEF ByBases
  <2>3. CASE pc = "collect"
    <3>1. Distinct(scopes') /\ next' <= Len(call.args) + 1 BY <2>1, <2>3 DEF Collected
    <3>2. Searched(scopes', climb', supers', next') = Searched(scopes, climb, supers, next)
      BY <2>1
    <3> QED BY <2>1, <2>3, <3>1, <3>2, CollectedStays
  <2>4. CASE pc # "collect" BY <1>5, <2>1, <2>4
  <2> QED BY <2>3, <2>4
<1> QED BY <1>1, <1>2, <1>3, <1>4, <1>6, <1>7, <1>8, <1>9 DEF Next

-----------------------------------------------------------------------------
(***************************************************************************)
(* What a scope adds to the candidates: each function of that name in it   *)
(* once, and constructors.                                                 *)
(***************************************************************************)
\* What is in no place of a sequence occurs no time.
LEMMA TimesAbsent ==
  ASSUME NEW S, NEW s \in Seq(S), NEW e, \A n \in 1..Len(s) : s[n] # e
  PROVE  Times(s, e) = 0
<1>1. Places(s, e) = {} BY DEF Places
<1> QED BY <1>1, FS_EmptySet, TimesNat

\* A function that is no constructor is one identifier of its scope.
LEMMA OneIdent ==
  ASSUME NEW c \in Input, NEW f \in FuncIds(c), ~c.funcs[f].tor
  PROVE  /\ c.funcs[f].scope \in ScopeIds(c)
         /\ \E n \in 1..Len(c.scopes[c.funcs[f].scope].idents) :
              \A s \in ScopeIds(c) : \A i \in 1..Len(c.scopes[s].idents) :
                c.scopes[s].idents[i] = [kind |-> "FUNC", of |-> f]
                  <=> s = c.funcs[f].scope /\ i = n
<1>1. WellFormed(c) BY InputAssumption
<1> QED BY <1>1, Zenon DEF WellFormed, FuncIds, ScopeIds

\* An identifier stands for f if it names it, and the name is that of the call.
LEMMA OfCounts ==
  ASSUME call \in Input, NEW s \in ScopeIds(call), NEW n \in 1..Len(call.scopes[s].idents),
         NEW f \in FuncIds(call), ~call.funcs[f].tor
  PROVE  Times(Of(call.scopes[s].idents[n]), f)
           = IF /\ call.funcs[f].name = call.name
                /\ call.scopes[s].idents[n] = [kind |-> "FUNC", of |-> f]
             THEN 1 ELSE 0
<1> DEFINE ident == call.scopes[s].idents[n]
           named == ident = [kind |-> "FUNC", of |-> f]
<1>1. /\ ident \in Ident
      /\ ident.kind = "CLASS" => ident.of \in ClassIds(call)
  BY RefersTo
<1> HIDE DEF ident
<1>2. named <=> ident.kind = "FUNC" /\ ident.of = f BY <1>1 DEF Ident
<1> HIDE DEF named
<1>3. CASE ident.kind = "FUNC" /\ call.funcs[ident.of].name = call.name
  <2>1. Of(ident) = <<ident.of>> BY <1>3 DEF Of
  <2>2. Times(<<ident.of>>, f) = IF ident.of = f THEN 1 ELSE 0 BY TimesOne
  <2> QED BY <1>2, <1>3, <2>1, <2>2 DEF ident, named
<1>4. CASE ident.kind = "CLASS"
  <2> DEFINE ctors == call.classes[ident.of].ctors
  <2>1. Of(ident) \in {ctors, <<>>} BY <1>4 DEF Of
  <2>2. ctors \in Seq(FuncIds(call)) /\ \A i \in 1..Len(ctors) : ctors[i] # f
    BY <1>1, <1>4, ClassesOf
  <2>3. Times(ctors, f) = 0
    <3> HIDE DEF ctors
    <3> QED BY <2>2, TimesAbsent
  <2> HIDE DEF ctors
  <2> QED BY <1>2, <1>4, <2>1, <2>3, TimesNone DEF ident, named
<1>5. CASE ident.kind = "FUNC" /\ call.funcs[ident.of].name # call.name
  <2>1. Of(ident) = <<>> BY <1>5 DEF Of
  <2>2. ~(named /\ call.funcs[f].name = call.name) BY <1>2, <1>5
  <2> QED BY <2>1, <2>2, TimesNone DEF ident, named
<1> QED BY <1>1, <1>3, <1>4, <1>5 DEF Ident

\* So the identifiers of a scope stand for f once, if it is f's.
LEMMA ScopeCounts ==
  ASSUME call \in Input, NEW s \in ScopeIds(call), NEW f \in FuncIds(call), ~call.funcs[f].tor,
         OfIdents(call.scopes[s]) \in Seq(Seq(FuncIds(call)))
  PROVE  Times(FlattenSeq(OfIdents(call.scopes[s])), f)
           = IF call.funcs[f].name = call.name /\ s = call.funcs[f].scope THEN 1 ELSE 0
<1> DEFINE scope == call.scopes[s]
           seqs == OfIdents(scope)
           here == call.funcs[f].name = call.name /\ s = call.funcs[f].scope
           L == Len(scope.idents)
<1>1. L \in Nat BY RefersTo
<1>2. Len(seqs) = L /\ \A i \in 1..L : seqs[i] = Of(scope.idents[i])
  <2> HIDE DEF scope
  <2> QED BY <1>1 DEF OfIdents
<1>3. PICK n \in 1..Len(call.scopes[call.funcs[f].scope].idents) :
         \A i \in 1..L : scope.idents[i] = [kind |-> "FUNC", of |-> f]
                           <=> s = call.funcs[f].scope /\ i = n
  <2>1. PICK n \in 1..Len(call.scopes[call.funcs[f].scope].idents) :
           \A t \in ScopeIds(call) : \A i \in 1..Len(call.scopes[t].idents) :
             call.scopes[t].idents[i] = [kind |-> "FUNC", of |-> f]
               <=> t = call.funcs[f].scope /\ i = n
    BY OneIdent, Zenon
  <2> QED BY <2>1, Zenon
<1>4. here => n \in 1..L OBVIOUS
<1>5. \A i \in 1..L : Times(seqs[i], f) = IF here /\ i = n THEN 1 ELSE 0
  <2> TAKE i \in 1..L
  <2>1. Times(Of(scope.idents[i]), f)
          = IF call.funcs[f].name = call.name /\ scope.idents[i] = [kind |-> "FUNC", of |-> f]
            THEN 1 ELSE 0
    BY OfCounts
  <2>2. seqs[i] = Of(scope.idents[i]) BY <1>2
  <2>3. scope.idents[i] = [kind |-> "FUNC", of |-> f] <=> s = call.funcs[f].scope /\ i = n
    BY <1>3
  <2> HIDE DEF scope, seqs
  <2> QED BY <2>1, <2>2, <2>3
<1>6. n \in Nat OBVIOUS
<1>7. seqs \in Seq(Seq(FuncIds(call))) OBVIOUS
<1> HIDE DEF scope, seqs, here, L
<1>8. CASE seqs = <<>>
  <2>1. Len(seqs) = 0 => FlattenSeq(seqs) = seqs BY DEF FlattenSeq
  <2>2. FlattenSeq(seqs) = <<>> /\ L = 0 BY <1>2, <1>8, <2>1
  <2>3. ~here BY <1>4, <2>2
  <2> QED BY <2>2, <2>3, TimesNone DEF seqs, scope, here
<1>9. CASE seqs # <<>>
  <2>1. PICK g \in [1..L -> Seq(FuncIds(call))] :
           Joins(g, seqs, L) /\ FlattenSeq(seqs) = g[L]
    BY <1>2, <1>7, <1>9, FlattenIs
  <2> DEFINE Good(i) == Times(g[i], f) = IF here /\ n <= i THEN 1 ELSE 0
             Bad == {i \in 1..L : ~Good(i)}
  <2>2. Bad = {}
    <3> SUFFICES ASSUME Bad # {} PROVE FALSE OBVIOUS
    <3>1. PICK i \in Bad : \A k \in Bad : i <= k
      <4>1. Bad \subseteq Nat OBVIOUS
      <4> HIDE DEF Bad
      <4> QED BY <4>1, NatMin
    <3>2. i \in 1..L /\ ~Good(i) OBVIOUS
    <3>3. g[i] = IF i = 1 THEN seqs[i] ELSE g[i - 1] \o seqs[i] BY <2>1, <3>2 DEF Joins
    <3>4. seqs[i] \in Seq(FuncIds(call)) BY <1>2, <1>7, <3>2
    <3>5. Times(seqs[i], f) = IF here /\ i = n THEN 1 ELSE 0 BY <1>5, <3>2
    <3>6. CASE i = 1
      <4>1. Times(g[i], f) = IF here /\ i = n THEN 1 ELSE 0 BY <3>3, <3>5, <3>6
      <4>2. here => (i = n <=> n <= i) BY <1>1, <1>4, <3>6
      <4> QED BY <3>2, <4>1, <4>2
    <3>7. CASE i # 1
      <4>1. i - 1 \in 1..L /\ ~(i <= i - 1) /\ i \in Nat BY <1>1, <3>2, <3>7
      <4>2. Good(i - 1) BY <3>1, <4>1
      <4>3. g[i - 1] \in Seq(FuncIds(call)) BY <2>1, <4>1
      <4>4. Times(g[i - 1] \o seqs[i], f) = Times(g[i - 1], f) + Times(seqs[i], f)
        BY <3>4, <4>3, TimesJoined
      <4>5. Times(g[i], f) = Times(g[i - 1], f) + Times(seqs[i], f) BY <3>3, <3>7, <4>4
      <4>6. Times(g[i], f) = (IF here /\ n <= i - 1 THEN 1 ELSE 0) + (IF here /\ i = n THEN 1 ELSE 0)
        BY <3>5, <4>2, <4>5
      <4>7. n <= i <=> n <= i - 1 \/ i = n BY <1>6, <4>1
      <4>8. ~(n <= i - 1 /\ i = n) BY <1>6, <4>1
      <4> QED BY <3>2, <4>6, <4>7, <4>8
    <3> QED BY <3>6, <3>7
  <2>3. L \in 1..L BY <1>1, <1>2, <1>7, <1>9
  <2>4. Good(L) BY <2>2, <2>3
  <2>5. Times(FlattenSeq(seqs), f) = IF here THEN 1 ELSE 0
    <3>1. here => n <= L BY <1>1, <1>4
    <3> QED BY <2>1, <2>4, <3>1
  <2> QED BY <2>5 DEF seqs, scope, here
<1> QED BY <1>8, <1>9

\* The constructors of a scope's class are no other functions.
LEMMA CtorsCount ==
  ASSUME call \in Input, NEW s \in ScopeIds(call), NEW f \in FuncIds(call), ~call.funcs[f].tor
  PROVE  Times(CtorsIn(call.scopes[s]), f) = 0
<1> DEFINE k == call.scopes[s].class
           ctors == call.classes[k].ctors
<1>1. CtorsIn(call.scopes[s]) = <<>>
      \/ (call.scopes[s].type = "CLASS" /\ CtorsIn(call.scopes[s]) = ctors)
  BY DEF CtorsIn
<1>2. ASSUME call.scopes[s].type = "CLASS" PROVE Times(ctors, f) = 0
  <2>1. k \in ClassIds(call) BY <1>2, RefersTo
  <2>2. ctors \in Seq(FuncIds(call)) /\ \A n \in 1..Len(ctors) : ctors[n] # f
    BY SMTT(40), <2>1, ClassesOf
  <2> HIDE DEF ctors
  <2> QED BY <2>2, TimesAbsent
<1> HIDE DEF ctors, k
<1> QED BY <1>1, <1>2, TimesNone

-----------------------------------------------------------------------------
(***************************************************************************)
(* Searching: what is in the scopes that were searched is found.           *)
(***************************************************************************)
Match(f) == call.funcs[f].name = call.name

\* The scope is one of the first n.
Before(s, n) == \E i \in 1..n : scopes[i] = s

Found ==
  /\ pc = "collect" => cands = <<>>
  /\ pc = "search" =>
       /\ next <= Len(scopes) + 1
       /\ \A f \in FuncIds(call) : ~call.funcs[f].tor =>
            Times(cands, f) =
              IF Match(f) /\ Before(call.funcs[f].scope, next - 1) THEN 1 ELSE 0
  /\ CandidatesFound

\* Scopes are distinct, so that a function is found in one step at most.
LEMMA SearchFinds ==
  ASSUME Typed, Collected, Found, Search
  PROVE  Found'
<1> DEFINE s == scopes[next]
           ctors == CtorsIn(call.scopes[s])
           found == FlattenSeq(OfIdents(call.scopes[s]))
<1>1. /\ pc = "search" /\ next' = next + 1 /\ UNCHANGED <<call, scopes, pc>>
  BY DEF Search
<1>2. /\ next \in 1..Len(scopes) /\ s \in ScopeIds(call)
      /\ ctors \in Seq(FuncIds(call)) /\ found \in Seq(FuncIds(call))
      /\ OfIdents(call.scopes[s]) \in Seq(Seq(FuncIds(call)))
      /\ cands' = cands \o ctors \o found
  BY SearchAdds
<1>3. call \in Input /\ cands \in Seq(FuncIds(call)) /\ Len(scopes) \in Nat BY DEF Typed
<1>4. ASSUME NEW f \in FuncIds(call), ~call.funcs[f].tor
      PROVE  Times(cands', f) =
               IF Match(f) /\ Before(call.funcs[f].scope, next) THEN 1 ELSE 0
  <2> DEFINE home == call.funcs[f].scope
  <2>1. Times(ctors, f) = 0 BY <1>2, <1>3, <1>4, CtorsCount
  <2>2. Times(found, f) = IF Match(f) /\ s = home THEN 1 ELSE 0
    BY <1>2, <1>3, <1>4, ScopeCounts DEF Match
  <2>3. Times(cands, f) = IF Match(f) /\ Before(home, next - 1) THEN 1 ELSE 0
    BY <1>1, <1>4 DEF Found
  <2> HIDE DEF ctors, found
  <2>4. Times(cands', f) = Times(cands, f) + Times(ctors, f) + Times(found, f)
    <3>1. cands \o ctors \in Seq(FuncIds(call)) BY <1>2, <1>3
    <3>2. Times(cands \o ctors, f) = Times(cands, f) + Times(ctors, f)
      BY <1>2, <1>3, TimesJoined
    <3> DEFINE both == cands \o ctors
    <3>3. both \in Seq(FuncIds(call)) /\ cands' = both \o found BY <1>2, <3>1
    <3> HIDE DEF both
    <3>4. Times(both \o found, f) = Times(both, f) + Times(found, f)
      BY <1>2, <3>3, TimesJoined
    <3> QED BY <3>2, <3>3, <3>4 DEF both
  <2>5. Before(home, next) <=> Before(home, next - 1) \/ s = home
    <3>1. \A i \in 1..next : i \in 1..next-1 \/ i = next BY <1>2
    <3>2. next \in 1..next /\ \A i \in 1..next-1 : i \in 1..next BY <1>2
    <3> QED BY <3>1, <3>2 DEF Before
  <2>6. ~(Before(home, next - 1) /\ s = home)
    <3>1. \A i \in 1..next-1 : i \in 1..Len(scopes) /\ i # next BY <1>2, <1>3
    <3> QED BY <1>2, <3>1 DEF Before, Collected, Distinct
  <2> HIDE DEF home, s
  <2>7. Times(cands', f) = (IF Match(f) /\ Before(home, next - 1) THEN 1 ELSE 0)
                           + (IF Match(f) /\ s = home THEN 1 ELSE 0)
    BY <2>1, <2>2, <2>3, <2>4
  <2> QED BY <2>5, <2>6, <2>7 DEF home
<1> HIDE DEF s, ctors, found
<1>5. next' - 1 = next /\ next' <= Len(scopes') + 1 BY <1>1, <1>2, <1>3
<1>6. \A f \in FuncIds(call)' : (~call.funcs[f].tor)' =>
        Times(cands, f)' = (IF Match(f) /\ Before(call.funcs[f].scope, next - 1) THEN 1 ELSE 0)'
  <2>1. FuncIds(call)' = FuncIds(call) BY <1>1 DEF FuncIds
  <2> SUFFICES ASSUME NEW f \in FuncIds(call), ~call.funcs[f].tor
               PROVE  Times(cands', f) = (IF Match(f) /\ Before(call.funcs[f].scope, next - 1)
                                          THEN 1 ELSE 0)'
    BY <1>1, <2>1
  <2>2. Match(f)' <=> Match(f) BY <1>1 DEF Match
  <2>3. Before(call.funcs[f].scope, next - 1)' <=> Before(call.funcs[f].scope, next)
    BY <1>1, <1>5 DEF Before
  <2> QED BY <1>4, <2>2, <2>3
<1>7. CandidatesFound' BY <1>1 DEF CandidatesFound
<1> QED BY <1>1, <1>5, <1>6, <1>7 DEF Found

\* When all scopes were searched, all functions were found.
LEMMA EndSearchFinds ==
  ASSUME Typed, Collected, Found, EndSearch
  PROVE  Found'
<1>1. /\ pc = "search" /\ next > Len(scopes) /\ UNCHANGED <<call, scopes, cands>>
      /\ pc' \in {"done", "filter"}
  BY DEF EndSearch
<1>2. next - 1 = Len(scopes)
  <2>1. next \in Nat /\ Len(scopes) \in Nat BY DEF Typed
  <2>2. next <= Len(scopes) + 1 BY <1>1 DEF Found
  <2> QED BY <1>1, <2>1, <2>2
<1>3. \A s : Before(s, next - 1) <=> s \in Range(scopes)
  <2>1. DOMAIN scopes = 1..Len(scopes) BY DEF Typed
  <2> QED BY <1>2, <2>1 DEF Before, Range
<1>4. ASSUME ByBases, NEW f \in FuncIds(call), ~call.funcs[f].tor
      PROVE  Times(cands, f) = IF Match(f) /\ call.funcs[f].scope \in ToSearch(call)
                               THEN 1 ELSE 0
  <2>1. Range(scopes) = ToSearch(call) BY <1>1, <1>4 DEF Collected
  <2>2. Times(cands, f) = IF Match(f) /\ Before(call.funcs[f].scope, next - 1) THEN 1 ELSE 0
    BY <1>1, <1>4 DEF Found
  <2> QED BY <1>3, <2>1, <2>2
<1>5. (\A k \in ArgClasses(call) : ~call.classes[k].forward)
        => \A f \in 1..Len(call.funcs) : ~call.funcs[f].tor =>
             Times(cands, f) =
               IF call.funcs[f].name = call.name /\ call.funcs[f].scope \in ToSearch(call)
               THEN 1 ELSE 0
  BY <1>4 DEF ByBases, FuncIds, Match
<1>6. CandidatesFound' BY <1>1, <1>5 DEF CandidatesFound
<1> QED BY <1>1, <1>6 DEF Found

\* Later steps leave the candidates alone.
LEMMA FoundStep ==
  ASSUME Typed, Collected, Found, [Next]_vars
  PROVE  Found'
<1>1. CASE Climb \/ VisitSuper \/ VisitArg
  <2>1. pc = "collect" /\ pc' = "collect" /\ cands' = cands
    BY <1>1 DEF Climb, VisitSuper, VisitArg
  <2> QED BY SMTT(40), <2>1 DEF Found, CandidatesFound
<1>2. CASE EndCollect
  <2>1. pc = "collect" /\ pc' = "search" /\ next' = 1 /\ UNCHANGED <<call, scopes, cands>>
    BY <1>2 DEF EndCollect
  <2>2. cands' = <<>> BY <2>1 DEF Found
  <2>3. \A s : ~Before(s, next - 1)' BY <2>1 DEF Before
  <2>4. \A f : Times(cands', f) = 0 BY <2>2, TimesNone
  <2>5. Len(scopes') \in Nat BY <2>1 DEF Typed
  <2> QED BY <2>1, <2>3, <2>4, <2>5 DEF Found, CandidatesFound
<1>3. CASE Search BY <1>3, SearchFinds
<1>4. CASE EndSearch BY <1>4, EndSearchFinds
<1>5. ASSUME UNCHANGED <<call, cands>>, pc \notin {"collect", "search"},
             pc' \notin {"collect", "search"}
      PROVE  Found'
  BY <1>5 DEF Found, CandidatesFound
<1>6. CASE Filter \/ FilterFails \/ EndFilter \/ Take
  BY <1>5, <1>6 DEF Filter, FilterFails, EndFilter, Take
<1>7. CASE Sort
  <2>1. call' = call BY <1>7 DEF Sort, Q!Next, Q!Return, Q!Enter, Q!Partition, Q!Recurse
  <2> QED BY <1>5, <1>7, <2>1 DEF Sort
<1>8. CASE UNCHANGED vars
  <2>1. UNCHANGED <<call, scopes, next, cands, pc>> BY <1>8 DEF vars
  <2>2. \A f : Match(f)' <=> Match(f) BY <2>1 DEF Match
  <2>3. \A s : Before(s, next - 1)' <=> Before(s, next - 1) BY <2>1 DEF Before
  <2>4. CandidatesFound' BY <2>1 DEF Found, CandidatesFound
  <2>5. FuncIds(call)' = FuncIds(call) BY <2>1 DEF FuncIds
  <2> QED BY <2>1, <2>2, <2>3, <2>4, <2>5 DEF Found
<1> QED BY <1>1, <1>2, <1>3, <1>4, <1>6, <1>7, <1>8 DEF Next

\* No scope has been searched at first.
LEMMA FoundInit == Init => Found
<1> SUFFICES ASSUME Init PROVE Found OBVIOUS
<1>1. cands = <<>> /\ next = 1 /\ pc \in {"collect", "search"} BY DEF Init
<1>2. CASE pc = "collect" BY <1>1, <1>2 DEF Found, CandidatesFound
<1>3. CASE pc = "search"
  <2>1. scopes = <<call.scope>> BY <1>3 DEF Init
  <2>2. \A s : ~Before(s, next - 1) BY <1>1 DEF Before
  <2>3. \A f : Times(cands, f) = 0 BY <1>1, TimesNone
  <2>4. next <= Len(scopes) + 1 BY <1>1, <2>1
  <2> QED BY <1>1, <1>3, <2>2, <2>3, <2>4 DEF Found, CandidatesFound
<1> QED BY <1>1, <1>2, <1>3

(***************************************************************************)
(* add_assoc_scopes, find_funcs_in_scope, find_op_overloads_in_scope: for  *)
(* all calls, the candidates are the functions of that name in all the     *)
(* scopes that are to be searched, each once however often its scope is    *)
(* reached, and constructors.                                              *)
(***************************************************************************)
THEOREM EachFound == Spec => []CandidatesFound
<1>1. Found => CandidatesFound BY DEF Found
<1> QED
  BY <1>1, InitInv, NextInv, TypedInit, TypedStep, CollectedInit, CollectedStep,
     FoundInit, FoundStep, PTL DEF Spec
=============================================================================
