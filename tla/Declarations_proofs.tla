-------------------------- MODULE Declarations_proofs --------------------------
(***************************************************************************)
(* The parser of declarations keeps its scopes a tree of distinct          *)
(* identifiers, its pointers to them valid, and its two passes in order.   *)
(***************************************************************************)
EXTENDS Declarations, Arithmetic, TLAPS

\* What never changes of an identifier.
Same(a, b) ==
  a.name = b.name /\ a.kind = b.kind /\ a.sig = b.sig /\ a.decl = b.decl

\* Scopes and identifiers are only added, behind those that are there.
Grown(ss, tt) ==
  /\ Len(ss) <= Len(tt)
  /\ \A s \in 1..Len(ss) :
       /\ tt[s].kind = ss[s].kind /\ tt[s].parent = ss[s].parent /\ tt[s].node = ss[s].node
       /\ Len(ss[s].idents) <= Len(tt[s].idents)
       /\ \A i \in 1..Len(ss[s].idents) : Same(ss[s].idents[i], tt[s].idents[i])

\* Identifiers are only added, and as yet neither defined nor given defaults.
Appended(ss, tt) ==
  /\ Len(ss) = Len(tt)
  /\ \A s \in 1..Len(ss) :
       /\ tt[s].kind = ss[s].kind /\ tt[s].parent = ss[s].parent /\ tt[s].node = ss[s].node
       /\ Len(ss[s].idents) <= Len(tt[s].idents)
       /\ \A i \in 1..Len(ss[s].idents) : tt[s].idents[i] = ss[s].idents[i]
       /\ \A i \in 1..Len(tt[s].idents) :
            i > Len(ss[s].idents) => tt[s].idents[i].scope = 0 /\ tt[s].idents[i].given = {}

\* An identifier of a program of n nodes and m scopes, of which those in
\* spaces are of namespaces.
IdentOK(ident, m, n, spaces) ==
  /\ ident \in Ident
  /\ ident.decl \in 1..n /\ ident.def \in 0..n /\ ident.scope \in 0..m
  /\ ident.kind = "NAMESPACE" => ident.decl \in spaces
  /\ 0 \notin ident.given

Distinct(idents) ==
  \A i, j \in 1..Len(idents) : Equivalent(idents[i], idents[j]) => i = j

IdentsOK(idents, m, n, spaces) ==
  /\ idents \in Seq(Ident)
  /\ \A i \in 1..Len(idents) : IdentOK(idents[i], m, n, spaces)
  /\ Distinct(idents)

ScopesOK(ss, m, n, spaces) ==
  /\ ss \in Seq(Scope) /\ ss # <<>>
  /\ ss[1].parent = 0 /\ ss[1].kind = "ROOT"
  /\ \A s \in 1..Len(ss) :
       /\ s # 1 => ss[s].parent \in 1..s-1
       /\ ss[s].node \in 0..n
       /\ IdentsOK(ss[s].idents, m, n, spaces)

SpacesOf(ss) == {ss[s].node : s \in 1..Len(ss)}

PointersOK(ss, ns) ==
  \A n \in 1..Len(ns) :
    /\ ns[n].kind \in {"FUNC", "CLASS"} <=> ns[n].at # 0
    /\ ns[n].at # 0 =>
         /\ ns[n].at \in 1..Len(ss)
         /\ ns[n].idx \in 1..Len(ss[ns[n].at].idents)
         /\ LET ident == ss[ns[n].at].idents[ns[n].idx]
            IN  /\ ident.name = ns[n].name
                /\ ident.kind = "FUNC" /\ ns[n].kind = "FUNC" => ident.sig = ns[n].sig

\* The parameters of a function have different names.
ParamsOK(ns) ==
  \A n \in 1..Len(ns) : \A i, j \in 1..Len(ns[n].params) :
    ns[n].params[i] = ns[n].params[j] => i = j

FramesOK(st, m, ns) ==
  /\ st \in Seq(Frame) /\ st # <<>> /\ st[1].kind = "nodes"
  /\ \A f \in 1..Len(st) :
       /\ st[f].scope \in 1..m
       /\ f # 1 => st[f].node \in 1..Len(ns)
       /\ \A k \in 1..Len(st[f].todo) :
            /\ st[f].todo[k] \in 1..Len(ns)
            /\ ns[st[f].todo[k]].kind \in {"VAR", "FUNC", "CLASS"}

Shape ==
  /\ ScopesOK(scopes, Len(scopes), Len(nodes), SpacesOf(scopes))
  /\ nodes \in Seq(Node) /\ PointersOK(scopes, nodes) /\ ParamsOK(nodes)
  /\ FramesOK(stack, Len(scopes), nodes)
  /\ diags \in BOOLEAN
  /\ pc \in {"run", "done", "no_base", "no_body", "no_var"}
-----------------------------------------------------------------------------
\* What midsema_add_ident returns for any scope: its identifiers as they were,
\* and behind them at most the new one, which is equivalent to the one at Place.
LEMMA AddIdentProps ==
  ASSUME NEW idents \in Seq(Ident), NEW ident \in Ident
  PROVE  LET added == AddIdent(idents, ident)
             i == Place(idents, ident)
         IN  /\ added \in Seq(Ident)
             /\ Len(idents) <= Len(added)
             /\ \A k \in 1..Len(idents) : added[k] = idents[k]
             /\ \A k \in 1..Len(added) : k > Len(idents) => added[k] = ident
             /\ i \in 1..Len(added) /\ Equivalent(added[i], ident)
             /\ Distinct(idents) => Distinct(added)
<1> DEFINE added == AddIdent(idents, ident)
           i == Place(idents, ident)
<1>1. CASE Clash(idents, ident)
  <2>1. added = idents BY <1>1 DEF AddIdent
  <2> DEFINE T == {k \in 1..Len(idents) : Equivalent(idents[k], ident)}
  <2>2. T \subseteq Nat /\ T # {} BY <1>1 DEF Clash
  <2>3. PICK k \in T : \A j \in T : k <= j BY <2>2, NatMin
  <2>4. k \in 1..Len(idents) /\ Equivalent(idents[k], ident) /\ \A j \in 1..k-1 : ~Equivalent(idents[j], ident)
    BY <2>3
  <2>5. i \in 1..Len(idents) /\ Equivalent(idents[i], ident) BY <1>1, <2>4 DEF Place
  <2> QED BY <2>1, <2>5
<1>2. CASE ~Clash(idents, ident)
  <2>1. added = Append(idents, ident) /\ i = Len(idents) + 1 BY <1>2 DEF AddIdent, Place
  <2>2. Equivalent(ident, ident) BY DEF Equivalent
  <2>3. \A k \in 1..Len(idents) : ~Equivalent(idents[k], ident) /\ ~Equivalent(ident, idents[k])
    BY <1>2 DEF Clash, Equivalent
  <2>4. Distinct(idents) => Distinct(added) BY <2>1, <2>3 DEF Distinct
  <2> QED BY <2>1, <2>2, <2>4
<1> QED BY <1>1, <1>2

\* The fields of a scope, and a scope whose identifiers are replaced.
LEMMA ScopeFields ==
  ASSUME NEW c \in Scope
  PROVE  /\ c.kind \in ScopeKinds /\ c.parent \in Nat /\ c.node \in Nat /\ c.idents \in Seq(Ident)
         /\ \A idents \in Seq(Ident) :
              LET d == [c EXCEPT !.idents = idents]
              IN  /\ d \in Scope
                  /\ d.kind = c.kind /\ d.parent = c.parent /\ d.node = c.node /\ d.idents = idents
BY DEF Scope

\* The identifiers of a scope are replaced by those it has and more.
LEMMA IdentsReplaced ==
  ASSUME NEW m, NEW n, NEW spaces, NEW ss, ScopesOK(ss, m, n, spaces),
         NEW s \in 1..Len(ss), NEW new, IdentsOK(new, m, n, spaces),
         Len(ss[s].idents) <= Len(new),
         \A k \in 1..Len(ss[s].idents) : Same(ss[s].idents[k], new[k])
  PROVE  LET tt == [ss EXCEPT ![s].idents = new]
         IN  /\ ScopesOK(tt, m, n, spaces)
             /\ Grown(ss, tt)
             /\ Len(tt) = Len(ss)
             /\ \A t \in 1..Len(ss) :
                  /\ tt[t].kind = ss[t].kind /\ tt[t].parent = ss[t].parent
                  /\ tt[t].node = ss[t].node
                  /\ tt[t].idents = IF t = s THEN new ELSE ss[t].idents
<1> DEFINE tt == [ss EXCEPT ![s].idents = new]
<1>1. ss \in Seq(Scope) /\ ss[s] \in Scope /\ ss[s].idents \in Seq(Ident)
  <2>1. ss \in Seq(Scope) BY DEF ScopesOK
  <2>2. ss[s] \in Scope BY <2>1
  <2> QED BY <2>1, <2>2, ScopeFields
<1>2. tt = [ss EXCEPT ![s] = [ss[s] EXCEPT !.idents = new]] OBVIOUS
<1>3. new \in Seq(Ident) BY DEF IdentsOK
<1>4. tt \in Seq(Scope) /\ Len(tt) = Len(ss)
  BY <1>1, <1>2, <1>3, ScopeFields
<1>5. \A t \in 1..Len(ss) : /\ tt[t].kind = ss[t].kind /\ tt[t].parent = ss[t].parent
                           /\ tt[t].node = ss[t].node
                           /\ tt[t].idents = IF t = s THEN new ELSE ss[t].idents
  BY <1>1, <1>2, <1>3, ScopeFields
<1> HIDE DEF tt
<1>6. ScopesOK(tt, m, n, spaces)
  <2>1. \A t \in 1..Len(ss) : IdentsOK(tt[t].idents, m, n, spaces)
    BY <1>5 DEF ScopesOK
  <2>2. \A t \in 1..Len(ss) : /\ t # 1 => tt[t].parent \in 1..t-1
                             /\ tt[t].node \in 0..n
    BY <1>5 DEF ScopesOK
  <2>3. ss # <<>> /\ ss[1].parent = 0 /\ ss[1].kind = "ROOT" BY DEF ScopesOK
  <2>4. 1 \in 1..Len(ss) /\ tt # <<>> BY <2>3, <1>1, <1>4
  <2> QED BY <1>4, <1>5, <2>1, <2>2, <2>3, <2>4 DEF ScopesOK
<1>7. Grown(ss, tt)
  <2>1. \A t \in 1..Len(ss) : Len(ss[t].idents) \in Nat
    BY <1>1, ScopeFields
  <2>2. ASSUME NEW t \in 1..Len(ss)
        PROVE  /\ Len(ss[t].idents) <= Len(tt[t].idents)
               /\ \A k \in 1..Len(ss[t].idents) : Same(ss[t].idents[k], tt[t].idents[k])
    <3>1. CASE t = s BY <3>1, <1>5
    <3>2. CASE t # s BY <3>2, <1>5, <2>1 DEF Same
    <3> QED BY <3>1, <3>2
  <2>3. Len(ss) <= Len(tt) BY <1>1, <1>4
  <2> QED BY <1>5, <2>2, <2>3 DEF Grown
<1> QED BY <1>4, <1>5, <1>6, <1>7 DEF tt

\* So is one identifier, by one that differs in what may change.
LEMMA IdentReplaced ==
  ASSUME NEW m, NEW n, NEW spaces, NEW idents, IdentsOK(idents, m, n, spaces),
         NEW i \in 1..Len(idents), NEW ident, IdentOK(ident, m, n, spaces),
         Same(idents[i], ident)
  PROVE  LET new == [idents EXCEPT ![i] = ident]
         IN  /\ IdentsOK(new, m, n, spaces)
             /\ Len(new) = Len(idents)
             /\ \A k \in 1..Len(idents) : Same(idents[k], new[k])
             /\ \A k \in 1..Len(idents) : new[k] = IF k = i THEN ident ELSE idents[k]
<1> DEFINE new == [idents EXCEPT ![i] = ident]
<1>1. idents \in Seq(Ident) /\ ident \in Ident BY DEF IdentsOK, IdentOK
<1>2. /\ new \in Seq(Ident) /\ Len(new) = Len(idents)
      /\ \A k \in 1..Len(idents) : new[k] = IF k = i THEN ident ELSE idents[k]
  BY <1>1
<1> HIDE DEF new
<1>3. \A k \in 1..Len(idents) : Same(idents[k], new[k])
  BY <1>2 DEF Same
<1>4. \A k \in 1..Len(idents) : IdentOK(new[k], m, n, spaces)
  BY <1>2 DEF IdentsOK
<1>5. Distinct(new)
  <2> SUFFICES ASSUME NEW a \in 1..Len(idents), NEW b \in 1..Len(idents), Equivalent(new[a], new[b])
               PROVE  a = b
    BY <1>2 DEF Distinct
  <2>1. Equivalent(idents[a], idents[b]) BY <1>3 DEF Equivalent, Same
  <2> QED BY <2>1 DEF IdentsOK, Distinct
<1> QED BY <1>2, <1>3, <1>4, <1>5 DEF IdentsOK, new

\* midsema_add_ident: at Place there is an equivalent one afterwards.
LEMMA IdentAdded ==
  ASSUME NEW m, NEW n, NEW spaces, NEW idents, IdentsOK(idents, m, n, spaces),
         NEW ident, IdentOK(ident, m, n, spaces)
  PROVE  LET added == AddIdent(idents, ident)
             i == Place(idents, ident)
         IN  /\ IdentsOK(added, m, n, spaces)
             /\ Len(idents) <= Len(added)
             /\ \A k \in 1..Len(idents) : added[k] = idents[k]
             /\ \A k \in 1..Len(added) : k > Len(idents) => added[k] = ident
             /\ i \in 1..Len(added) /\ Equivalent(added[i], ident)
<1> DEFINE added == AddIdent(idents, ident)
<1>1. idents \in Seq(Ident) /\ ident \in Ident BY DEF IdentsOK, IdentOK
<1>2. /\ Len(idents) <= Len(added) /\ added \in Seq(Ident)
      /\ \A k \in 1..Len(idents) : added[k] = idents[k]
      /\ \A k \in 1..Len(added) : k > Len(idents) => added[k] = ident
      /\ Distinct(idents) => Distinct(added)
  BY <1>1, AddIdentProps
<1>3. \A k \in 1..Len(idents) : IdentOK(idents[k], m, n, spaces) BY DEF IdentsOK
<1> HIDE DEF added
<1>4. \A k \in 1..Len(added) : IdentOK(added[k], m, n, spaces)
  <2> TAKE k \in 1..Len(added)
  <2>1. k \in 1..Len(idents) \/ k > Len(idents) BY <1>1, <1>2
  <2> QED BY <2>1, <1>2, <1>3
<1>5. Distinct(idents) BY DEF IdentsOK
<1>6. IdentsOK(added, m, n, spaces) BY <1>2, <1>4, <1>5 DEF IdentsOK
<1> QED BY <1>1, <1>2, <1>6, AddIdentProps DEF added

\* A scope may declare an identifier, which changes no other scope.
LEMMA DeclareOK ==
  ASSUME NEW m, NEW n, NEW spaces, NEW ss, ScopesOK(ss, m, n, spaces),
         NEW s \in 1..Len(ss), NEW ident, IdentOK(ident, m, n, spaces)
  PROVE  LET tt == Declare(ss, s, ident)
         IN  /\ ScopesOK(tt, m, n, spaces)
             /\ Grown(ss, tt)
             /\ Len(tt) = Len(ss)
             /\ \A t \in 1..Len(ss) :
                  /\ tt[t].kind = ss[t].kind /\ tt[t].parent = ss[t].parent
                  /\ tt[t].node = ss[t].node
                  /\ tt[t].idents = IF t = s THEN AddIdent(ss[s].idents, ident)
                                             ELSE ss[t].idents
             /\ ident.scope = 0 /\ ident.given = {} => Appended(ss, tt)
<1> DEFINE new == AddIdent(ss[s].idents, ident)
<1>1. IdentsOK(ss[s].idents, m, n, spaces) BY DEF ScopesOK
<1>2. /\ IdentsOK(new, m, n, spaces)
      /\ Len(ss[s].idents) <= Len(new)
      /\ \A k \in 1..Len(ss[s].idents) : Same(ss[s].idents[k], new[k])
  BY SMTT(40), <1>1, IdentAdded DEF Same
<1>3. Declare(ss, s, ident) = [ss EXCEPT ![s].idents = new] BY DEF Declare
<1> HIDE DEF new
<1> DEFINE tt == [ss EXCEPT ![s].idents = new]
<1>4. /\ ScopesOK(tt, m, n, spaces) /\ Grown(ss, tt) /\ Len(tt) = Len(ss)
      /\ \A t \in 1..Len(ss) :
           /\ tt[t].kind = ss[t].kind /\ tt[t].parent = ss[t].parent
           /\ tt[t].node = ss[t].node
           /\ tt[t].idents = IF t = s THEN new ELSE ss[t].idents
  BY SMTT(40), <1>2, IdentsReplaced
<1> HIDE DEF tt
<1>5. Declare(ss, s, ident) = tt BY <1>3 DEF tt
<1>6. ASSUME ident.scope = 0, ident.given = {} PROVE Appended(ss, tt)
  <2>1. ss \in Seq(Scope) /\ \A t \in 1..Len(ss) : Len(ss[t].idents) \in Nat
    <3>1. ss \in Seq(Scope) BY DEF ScopesOK
    <3>2. \A t \in 1..Len(ss) : ss[t] \in Scope BY <3>1
    <3> QED BY <3>1, <3>2, ScopeFields
  <2>2. /\ Len(ss[s].idents) <= Len(new)
        /\ \A k \in 1..Len(ss[s].idents) : new[k] = ss[s].idents[k]
        /\ \A k \in 1..Len(new) : k > Len(ss[s].idents) => new[k] = ident
    BY SMTT(40), <1>1, IdentAdded DEF new
  <2>3. ASSUME NEW t \in 1..Len(ss)
        PROVE  /\ Len(ss[t].idents) <= Len(tt[t].idents)
               /\ \A k \in 1..Len(ss[t].idents) : tt[t].idents[k] = ss[t].idents[k]
               /\ \A k \in 1..Len(tt[t].idents) :
                    k > Len(ss[t].idents) => tt[t].idents[k].scope = 0 /\ tt[t].idents[k].given = {}
    <3>1. CASE t = s
      <4>1. tt[t].idents = new BY <3>1, <1>4
      <4> QED BY <4>1, <3>1, <2>2, <1>6
    <3>2. CASE t # s
      <4>1. tt[t].idents = ss[t].idents BY <3>2, <1>4
      <4> QED BY <4>1, <2>1
    <3> QED BY <3>1, <3>2
  <2> QED BY <1>4, <2>3 DEF Appended
<1> QED BY <1>4, <1>5, <1>6 DEF new

\* Scopes that stay have grown by nothing.
LEMMA GrownItself ==
  ASSUME NEW ss \in Seq(Scope)
  PROVE  Grown(ss, ss)
<1>1. \A s \in 1..Len(ss) : Len(ss[s].idents) \in Nat
  <2>1. \A s \in 1..Len(ss) : ss[s] \in Scope OBVIOUS
  <2> QED BY <2>1, ScopeFields
<1>2. Len(ss) \in Nat OBVIOUS
<1> QED BY <1>1, <1>2 DEF Grown, Same

\* Scopes that grow twice have grown.
LEMMA GrownOn ==
  ASSUME NEW rr \in Seq(Scope), NEW ss \in Seq(Scope), NEW tt \in Seq(Scope),
         Grown(rr, ss), Grown(ss, tt)
  PROVE  Grown(rr, tt)
<1>1. Len(rr) \in Nat /\ Len(ss) \in Nat /\ Len(tt) \in Nat OBVIOUS
<1>2. Len(rr) <= Len(ss) /\ Len(ss) <= Len(tt) BY DEF Grown
<1>3. ASSUME NEW s \in 1..Len(rr)
      PROVE  /\ tt[s].kind = rr[s].kind /\ tt[s].parent = rr[s].parent /\ tt[s].node = rr[s].node
             /\ Len(rr[s].idents) <= Len(tt[s].idents)
             /\ \A i \in 1..Len(rr[s].idents) : Same(rr[s].idents[i], tt[s].idents[i])
  <2>1. s \in 1..Len(ss) /\ s \in 1..Len(tt) BY <1>1, <1>2
  <2>2. /\ Len(rr[s].idents) \in Nat /\ Len(ss[s].idents) \in Nat /\ Len(tt[s].idents) \in Nat
    <3>1. rr[s] \in Scope /\ ss[s] \in Scope /\ tt[s] \in Scope BY <2>1
    <3> QED BY SMTT(40), <3>1, ScopeFields
  <2>3. /\ Len(rr[s].idents) <= Len(ss[s].idents)
        /\ \A i \in 1..Len(rr[s].idents) : Same(rr[s].idents[i], ss[s].idents[i])
    BY DEF Grown
  <2>4. /\ Len(ss[s].idents) <= Len(tt[s].idents)
        /\ \A i \in 1..Len(ss[s].idents) : Same(ss[s].idents[i], tt[s].idents[i])
    BY <2>1 DEF Grown
  <2>5. \A i \in 1..Len(rr[s].idents) : i \in 1..Len(ss[s].idents) BY SMTT(40), <2>2, <2>3
  <2>6. tt[s].kind = rr[s].kind /\ tt[s].parent = rr[s].parent /\ tt[s].node = rr[s].node
    BY <2>1 DEF Grown
  <2> QED BY SMTT(40), <2>2, <2>3, <2>4, <2>5, <2>6 DEF Same
<1> QED BY <1>1, <1>2, <1>3 DEF Grown

\* The pointers of the nodes go by their names wherever the scopes have grown.
LEMMA PointersKept ==
  ASSUME NEW ss \in Seq(Scope), NEW tt \in Seq(Scope), Grown(ss, tt),
         NEW ns, PointersOK(ss, ns)
  PROVE  PointersOK(tt, ns)
<1> SUFFICES ASSUME NEW n \in 1..Len(ns), ns[n].at # 0
             PROVE  /\ ns[n].at \in 1..Len(tt)
                    /\ ns[n].idx \in 1..Len(tt[ns[n].at].idents)
                    /\ LET ident == tt[ns[n].at].idents[ns[n].idx]
                       IN  /\ ident.name = ns[n].name
                           /\ ident.kind = "FUNC" /\ ns[n].kind = "FUNC" => ident.sig = ns[n].sig
  BY DEF PointersOK
<1> DEFINE s == ns[n].at
           i == ns[n].idx
<1>1. /\ s \in 1..Len(ss) /\ i \in 1..Len(ss[s].idents)
      /\ ss[s].idents[i].name = ns[n].name
      /\ ss[s].idents[i].kind = "FUNC" /\ ns[n].kind = "FUNC" => ss[s].idents[i].sig = ns[n].sig
  BY DEF PointersOK
<1> HIDE DEF s, i
<1>2. Len(ss) <= Len(tt) /\ Len(ss) \in Nat /\ Len(tt) \in Nat BY DEF Grown
<1>3. s \in 1..Len(tt) BY <1>1, <1>2
<1>4. Len(ss[s].idents) \in Nat /\ Len(tt[s].idents) \in Nat
  <2>1. ss[s] \in Scope /\ tt[s] \in Scope BY <1>1, <1>3
  <2> QED BY SMTT(40), <2>1, ScopeFields
<1>5. Len(ss[s].idents) <= Len(tt[s].idents) /\ Same(ss[s].idents[i], tt[s].idents[i])
  BY <1>1 DEF Grown
<1>6. i \in 1..Len(tt[s].idents) BY SMTT(40), <1>1, <1>4, <1>5
<1> QED BY SMTT(40), <1>1, <1>3, <1>5, <1>6 DEF Same, s, i

-----------------------------------------------------------------------------
Tree ==
  /\ Len(scopes) \in Nat \ {0}
  /\ scopes[1].parent = 0 /\ scopes[1].kind = "ROOT"
  /\ \A s \in ScopeIds : s # 1 => scopes[s].parent \in 1..s-1

\* The equation of Chain has a solution: the scopes that are in each set that
\* has s and the parents of its own.
LEMMA ChainDef ==
  ASSUME Tree
  PROVE  Chain = [s \in 0..Len(scopes) |->
                    IF s = 0 THEN {} ELSE {s} \cup Chain[scopes[s].parent]]
<1> DEFINE P(s) == scopes[s].parent
           Closed(T) == T \subseteq ScopeIds /\ \A t \in T : P(t) # 0 => P(t) \in T
           Up(s) == {c \in ScopeIds : s # 0 /\ \A T : Closed(T) /\ s \in T => c \in T}
           G == [s \in 0..Len(scopes) |-> Up(s)]
<1>1. \A s \in ScopeIds : P(s) \in 0..Len(scopes) BY DEF Tree, ScopeIds
<1>2. Up(0) = {} OBVIOUS
<1>3. ASSUME NEW s \in ScopeIds
      PROVE  Up(s) = {s} \cup Up(P(s))
  <2> s # 0 BY DEF ScopeIds
  <2>1. ASSUME NEW c \in Up(P(s)) PROVE c \in Up(s)
    <3>1. c \in ScopeIds /\ P(s) # 0 /\ \A T : Closed(T) /\ P(s) \in T => c \in T OBVIOUS
    <3>2. ASSUME NEW T, Closed(T), s \in T PROVE c \in T
      <4>1. P(s) \in T BY <3>1, <3>2
      <4> QED BY <4>1, <3>1, <3>2
    <3> QED BY <3>1, <3>2
  <2>2. s \in Up(s) OBVIOUS
  <2>3. ASSUME NEW c \in Up(s), c # s PROVE c \in Up(P(s))
    <3>1. c \in ScopeIds /\ \A T : Closed(T) /\ s \in T => c \in T OBVIOUS
    <3>2. P(s) # 0
      <4> SUFFICES ASSUME P(s) = 0 PROVE FALSE OBVIOUS
      <4>1. Closed({s}) OBVIOUS
      <4> QED BY <4>1, <3>1, <2>3
    <3>3. ASSUME NEW T, Closed(T), P(s) \in T PROVE c \in T
      <4>1. Closed(T \cup {s}) BY <3>3
      <4> QED BY <4>1, <3>1, <2>3
    <3> QED BY <3>1, <3>2, <3>3
  <2> QED BY <2>1, <2>2, <2>3
<1> HIDE DEF Up
<1>4. G = [s \in 0..Len(scopes) |-> IF s = 0 THEN {} ELSE {s} \cup G[P(s)]]
  <2>1. ASSUME NEW s \in 0..Len(scopes)
        PROVE  Up(s) = IF s = 0 THEN {} ELSE {s} \cup G[P(s)]
    <3>1. CASE s = 0 BY <3>1, <1>2
    <3>2. CASE s # 0
      <4>1. s \in ScopeIds BY <3>2 DEF ScopeIds, Tree
      <4> QED BY <4>1, <3>2, <1>1, <1>3
    <3> QED BY <3>1, <3>2
  <2> QED BY <2>1
<1> HIDE DEF G
<1>5. \E g : g = [s \in 0..Len(scopes) |-> IF s = 0 THEN {} ELSE {s} \cup g[P(s)]]
  BY <1>4
<1> QED BY <1>5 DEF Chain

\* A scope is among those around it, as the root is, and all are scopes.
LEMMA ChainIn ==
  ASSUME Tree, NEW s \in ScopeIds
  PROVE  Chain[s] \subseteq ScopeIds /\ s \in Chain[s] /\ 1 \in Chain[s]
<1> DEFINE In(t) == Chain[t] \subseteq ScopeIds /\ 1 \in Chain[t]
           Bad == {t \in ScopeIds : ~In(t)}
<1>1. \A t \in ScopeIds : Chain[t] = {t} \cup Chain[scopes[t].parent]
  <2>1. \A t \in ScopeIds : t \in 0..Len(scopes) /\ t # 0 BY DEF Tree, ScopeIds
  <2> QED BY <2>1, ChainDef, Zenon
<1>2. Chain[0] = {}
  <2>1. 0 \in 0..Len(scopes) BY DEF Tree
  <2> QED BY <2>1, ChainDef, Zenon
<1>3. Bad = {}
  <2> SUFFICES ASSUME Bad # {} PROVE FALSE OBVIOUS
  <2>1. Bad \subseteq Nat BY DEF ScopeIds
  <2>2. PICK t \in Bad : \A u \in Bad : t <= u BY <2>1, NatMin
  <2>3. t \in ScopeIds /\ ~In(t) OBVIOUS
  <2>4. CASE t = 1
    <3>1. Chain[t] = {t} BY <2>4, <2>3, <1>1, <1>2 DEF Tree
    <3> QED BY <3>1, <2>3, <2>4
  <2>5. CASE t # 1
    <3>1. scopes[t].parent \in 1..t-1 BY <2>3, <2>5 DEF Tree
    <3>2. scopes[t].parent \in ScopeIds /\ ~(t <= scopes[t].parent)
      BY <3>1, <2>3 DEF ScopeIds, Tree
    <3>3. In(scopes[t].parent) BY <3>2, <2>2
    <3> QED BY <3>3, <2>3, <1>1
  <2> QED BY <2>4, <2>5
<1>4. In(s) BY <1>3
<1> QED BY <1>1, <1>4

\* The nearest of some scopes is one of them.
LEMMA NearestIn ==
  ASSUME Tree, NEW S \in SUBSET ScopeIds, S # {}
  PROVE  Nearest(S) \in S
<1>1. S \subseteq 0..Len(scopes) /\ Len(scopes) \in Nat BY DEF Tree, ScopeIds
<1>2. \E s \in S : \A t \in S : t <= s BY <1>1, NatMax
<1> QED BY <1>2 DEF Nearest

\* The scopes of a program form a tree.
LEMMA TreeOf ==
  ASSUME NEW m, NEW n, NEW spaces, ScopesOK(scopes, m, n, spaces)
  PROVE  Tree
<1>1. scopes \in Seq(Scope) /\ scopes # <<>> BY DEF ScopesOK
<1>2. Len(scopes) \in Nat \ {0} BY <1>1
<1> QED BY <1>2 DEF ScopesOK, Tree, ScopeIds

\* What an identifier of a class or namespace leads to is a scope, or NULL.
LEMMA IdentScopeIn ==
  ASSUME NEW n, NEW ident, IdentOK(ident, Len(scopes), n, SpacesOf(scopes)),
         ident.kind \in {"CLASS", "NAMESPACE"}
  PROVE  IdentScope(ident) \in 0..Len(scopes)
<1>1. CASE ident.kind = "CLASS" BY <1>1 DEF IdentScope, IdentOK
<1>2. CASE ident.kind = "NAMESPACE"
  <2>1. \E c \in 1..Len(scopes) : scopes[c].node = ident.decl
    BY <1>2 DEF IdentOK, SpacesOf
  <2>2. IdentScope(ident) \in 1..Len(scopes) BY <1>2, <2>1 DEF IdentScope
  <2> QED BY <2>2
<1> QED BY <1>1, <1>2

\* midsema_resolve_scope: what it finds is a scope.
LEMMA ResolvedIn ==
  ASSUME NEW n, ScopesOK(scopes, Len(scopes), n, SpacesOf(scopes)),
         NEW s \in ScopeIds, NEW name
  PROVE  ResolveScope(name, s) \in 0..Len(scopes)
<1> DEFINE holders == {c \in Rnce(s) : NceIdents(c, name) # {}}
           c == Nearest(holders)
<1>1. Tree BY TreeOf
<1>2. holders \in SUBSET ScopeIds BY <1>1, ChainIn DEF Rnce
<1>3. CASE holders = {}
  <2>1. ResolveScope(name, s) = 0 BY <1>3 DEF ResolveScope
  <2> QED BY <2>1, <1>1 DEF Tree
<1>4. CASE holders # {}
  <2> DEFINE ident == CHOOSE ident \in NceIdents(c, name) : TRUE
  <2>1. c \in holders BY <1>1, <1>2, <1>4, NearestIn
  <2> HIDE DEF c
  <2>2. c \in ScopeIds /\ NceIdents(c, name) # {} BY <1>2, <2>1
  <2>3. ident \in NceIdents(c, name) BY <2>2
  <2>4. PICK i \in DOMAIN scopes[c].idents : scopes[c].idents[i] = ident
    BY <2>3 DEF NceIdents, Range
  <2>5. IdentsOK(scopes[c].idents, Len(scopes), n, SpacesOf(scopes))
    BY <2>2 DEF ScopesOK, ScopeIds
  <2>6. IdentOK(ident, Len(scopes), n, SpacesOf(scopes))
    <3> HIDE DEF ident
    <3>1. i \in 1..Len(scopes[c].idents) BY <2>4, <2>5 DEF IdentsOK
    <3> QED BY <3>1, <2>4, <2>5 DEF IdentsOK
  <2>7. ident.kind \in {"CLASS", "NAMESPACE"} BY <2>3 DEF NceIdents
  <2>8. IdentScope(ident) \in 0..Len(scopes) BY <2>6, <2>7, IdentScopeIn
  <2>9. ResolveScope(name, s) = IdentScope(ident) BY <1>4 DEF ResolveScope, c
  <2> QED BY <2>8, <2>9
<1> QED BY <1>3, <1>4

\* What a qualified name is declared in is a scope, whatever it resolves to.
LEMMA QualifiedIn ==
  ASSUME NEW n, ScopesOK(scopes, Len(scopes), n, SpacesOf(scopes)),
         NEW s \in ScopeIds, NEW q
  PROVE  Qualified(q, s) \in ScopeIds
<1>1. Tree BY TreeOf
<1>2. 1 \in ScopeIds BY <1>1 DEF Tree, ScopeIds
<1>3. Rnce(s) \in SUBSET ScopeIds /\ 1 \in Rnce(s) BY <1>1, ChainIn DEF Rnce, Tree
<1>4. Nearest(Rnce(s)) \in ScopeIds BY <1>1, <1>3, NearestIn
<1>5. ResolveScope(q, s) # 0 => ResolveScope(q, s) \in ScopeIds
  BY <1>1, ResolvedIn DEF ScopeIds, Tree
<1> QED BY <1>2, <1>4, <1>5 DEF Qualified

-----------------------------------------------------------------------------
\* The names of the parameters are some of those that are written, and as
\* distinct as these.
LEMMA ParamNamesAre ==
  ASSUME NEW s, NEW params \in Seq(Names), IsInjective(params)
  PROVE  LET names == ParamNames(s, params)
         IN  names \in Seq(Names) /\ \A i, j \in 1..Len(names) : names[i] = names[j] => i = j
<1> DEFINE L == Len(params)
           Step(g, i) == IF i = 0 THEN <<>>
                         ELSE IF IsTypeName(scopes, s, params[i]) THEN g[i-1]
                         ELSE Append(g[i-1], params[i])
           upto == CHOOSE g : g = [i \in 0..L |-> Step(g, i)]
           Made(k) == \E g : g = [i \in 0..k |-> Step(g, i)]
           Bad == {k \in 0..L : ~Made(k)}
<1>1. L \in Nat OBVIOUS
<1>2. Bad = {}
  <2> SUFFICES ASSUME Bad # {} PROVE FALSE OBVIOUS
  <2>1. Bad \subseteq Nat OBVIOUS
  <2>2. PICK k \in Bad : \A m \in Bad : k <= m BY <2>1, NatMin
  <2>3. k \in 0..L /\ ~Made(k) OBVIOUS
  <2>4. CASE k = 0
    <3> DEFINE g == [i \in 0..0 |-> <<>>]
    <3>1. g = [i \in 0..0 |-> Step(g, i)] OBVIOUS
    <3> QED BY <3>1, <2>3, <2>4
  <2>5. CASE k # 0
    <3>1. k-1 \in 0..L /\ ~(k <= k-1) /\ k \in Nat BY <2>3, <2>5
    <3>2. Made(k-1) BY <3>1, <2>2
    <3>3. PICK g : g = [i \in 0..k-1 |-> Step(g, i)] BY <3>2
    <3> DEFINE h == [i \in 0..k |-> IF i < k THEN g[i] ELSE Step(g, k)]
    <3>4. \A i \in 0..k-1 : h[i] = g[i] /\ g[i] = Step(g, i)
      <4>1. \A i \in 0..k-1 : i \in 0..k /\ i < k BY <3>1
      <4> HIDE DEF Step
      <4> QED BY <4>1, <3>3
    <3>5. \A i \in 0..k : Step(h, i) = Step(g, i)
      <4> TAKE i \in 0..k
      <4>1. CASE i = 0 BY <4>1
      <4>2. CASE i # 0
        <5>1. i-1 \in 0..k-1 BY <4>2, <3>1
        <5> QED BY <5>1, <3>4
      <4> QED BY <4>1, <4>2
    <3>6. \A i \in 0..k : h[i] = Step(g, i)
      <4>1. \A i \in 0..k : i \in 0..k-1 \/ (i = k /\ ~(i < k)) BY <3>1
      <4> HIDE DEF Step
      <4>2. h[k] = Step(g, k) BY <4>1, <3>1
      <4> HIDE DEF h
      <4> QED BY <4>1, <4>2, <3>4
    <3>7. h = [i \in 0..k |-> Step(h, i)] BY <3>5, <3>6
    <3> QED BY <3>7, <2>3
  <2> QED BY <2>4, <2>5
<1>3. upto = [i \in 0..L |-> Step(upto, i)]
  <2>1. L \in 0..L BY <1>1
  <2>2. Made(L) BY <1>2, <2>1
  <2> HIDE DEF L, Step
  <2> QED BY <2>2
<1>4. ParamNames(s, params) = upto[L] BY DEF ParamNames
<1> HIDE DEF upto
<1> DEFINE Fine(i) ==
             LET names == upto[i]
             IN  /\ names \in Seq(Names)
                 /\ \A a \in 1..Len(names) : \E b \in 1..i : names[a] = params[b]
                 /\ \A a, b \in 1..Len(names) : names[a] = names[b] => a = b
           Worse == {k \in 0..L : ~Fine(k)}
<1>5. Worse = {}
  <2> SUFFICES ASSUME Worse # {} PROVE FALSE OBVIOUS
  <2>1. Worse \subseteq Nat OBVIOUS
  <2>2. PICK k \in Worse : \A m \in Worse : k <= m BY <2>1, NatMin
  <2>3. k \in 0..L /\ ~Fine(k) OBVIOUS
  <2>4. CASE k = 0
    <3>1. upto[k] = <<>> BY <1>3, <2>3, <2>4
    <3> QED BY <3>1, <2>3
  <2>5. CASE k # 0
    <3>1. k-1 \in 0..L /\ ~(k <= k-1) /\ k \in 1..L BY <2>3, <2>5
    <3>2. Fine(k-1) BY SMTT(40), <3>1, <2>2
    <3>3. upto[k] = upto[k-1] \/ upto[k] = Append(upto[k-1], params[k]) BY <1>3, <2>3, <2>5
    <3>4. params[k] \in Names /\ \A b \in 1..k-1 : params[b] # params[k]
      BY <3>1 DEF IsInjective
    <3> DEFINE old == upto[k-1]
    <3>5. /\ old \in Seq(Names)
          /\ \A a \in 1..Len(old) : \E b \in 1..k-1 : old[a] = params[b]
          /\ \A a, b \in 1..Len(old) : old[a] = old[b] => a = b
      BY <3>2
    <3> HIDE DEF old
    <3>6. CASE upto[k] = old BY <3>6, <3>5, <3>1, <2>3
    <3>7. CASE upto[k] = Append(old, params[k])
      <4>1. \A a \in 1..Len(old) : old[a] # params[k] BY <3>4, <3>5
      <4> DEFINE new == Append(old, params[k])
      <4>2. /\ new \in Seq(Names) /\ Len(new) = Len(old) + 1 /\ Len(old) \in Nat
            /\ \A a \in 1..Len(old) : new[a] = old[a]
            /\ new[Len(old)+1] = params[k]
        BY <3>4, <3>5
      <4> HIDE DEF new
      <4>3. \A a \in 1..Len(new) : \E b \in 1..k : new[a] = params[b]
        <5> TAKE a \in 1..Len(new)
        <5>1. CASE a = Len(old) + 1
          <6>1. k \in 1..k /\ new[a] = params[k] BY <5>1, <4>2, <3>1
          <6> QED BY <6>1
        <5>2. CASE a # Len(old) + 1
          <6>1. a \in 1..Len(old) BY <5>2, <4>2
          <6>2. PICK b \in 1..k-1 : old[a] = params[b] BY <6>1, <3>5
          <6>3. b \in 1..k BY <3>1
          <6> QED BY <6>1, <6>2, <6>3, <4>2
        <5> QED BY <5>1, <5>2
      <4>4. \A a, b \in 1..Len(new) : new[a] = new[b] => a = b
        <5> TAKE a, b \in 1..Len(new)
        <5>1. a \in 1..Len(old) \/ a = Len(old) + 1 BY <4>2
        <5>2. b \in 1..Len(old) \/ b = Len(old) + 1 BY <4>2
        <5> QED BY <5>1, <5>2, <4>1, <4>2, <3>5
      <4> QED BY ZenonT(40), <4>2, <4>3, <4>4, <3>7, <2>3 DEF new
    <3> QED BY <3>3, <3>6, <3>7 DEF old
  <2> QED BY <2>4, <2>5
<1>6. Fine(L)
  <2>1. L \in 0..L BY <1>1
  <2> QED BY <1>5, <2>1
<1> QED BY <1>4, <1>6

-----------------------------------------------------------------------------
\* What the declarations of a scope need holds as well of a larger program.
LEMMA ScopesMore ==
  ASSUME NEW m \in Nat, NEW n \in Nat, NEW spaces, NEW ss, ScopesOK(ss, m, n, spaces),
         NEW m2 \in Nat, NEW n2 \in Nat, NEW spaces2,
         m <= m2, n <= n2, spaces \subseteq spaces2
  PROVE  ScopesOK(ss, m2, n2, spaces2)
<1>1. \A ident : IdentOK(ident, m, n, spaces) => IdentOK(ident, m2, n2, spaces2)
  BY DEF IdentOK
<1>2. \A idents : IdentsOK(idents, m, n, spaces) => IdentsOK(idents, m2, n2, spaces2)
  BY <1>1 DEF IdentsOK
<1> QED BY <1>2 DEF ScopesOK

\* The nodes of the scopes stay theirs as the scopes grow.
LEMMA SpacesGrown ==
  ASSUME NEW ss \in Seq(Scope), NEW tt \in Seq(Scope), Grown(ss, tt)
  PROVE  SpacesOf(ss) \subseteq SpacesOf(tt)
<1>1. Len(ss) \in Nat /\ Len(tt) \in Nat /\ Len(ss) <= Len(tt) BY DEF Grown
<1>2. \A s \in 1..Len(ss) : s \in 1..Len(tt) /\ tt[s].node = ss[s].node BY <1>1 DEF Grown
<1> QED BY <1>2 DEF SpacesOf

\* A scope inside of one that is there may be added.
LEMMA ScopeAdded ==
  ASSUME NEW m, NEW n \in Nat, NEW spaces, NEW ss, ScopesOK(ss, m, n, spaces),
         NEW c \in Scope, c.parent \in 1..Len(ss), c.node \in 0..n,
         IdentsOK(c.idents, m, n, spaces)
  PROVE  LET tt == Append(ss, c)
         IN  /\ ScopesOK(tt, m, n, spaces)
             /\ Grown(ss, tt)
             /\ Len(tt) = Len(ss) + 1
             /\ tt[Len(tt)] = c /\ \A t \in 1..Len(ss) : tt[t] = ss[t]
<1> DEFINE tt == Append(ss, c)
<1>1. ss \in Seq(Scope) /\ ss # <<>> BY DEF ScopesOK
<1>2. /\ tt \in Seq(Scope) /\ Len(tt) = Len(ss) + 1 /\ Len(ss) \in Nat
      /\ tt[Len(ss)+1] = c /\ \A t \in 1..Len(ss) : tt[t] = ss[t]
  BY <1>1
<1> HIDE DEF tt
<1>3. 1 \in 1..Len(ss) /\ tt # <<>> BY <1>1, <1>2
<1>4. ASSUME NEW s \in 1..Len(tt)
      PROVE  /\ s # 1 => tt[s].parent \in 1..s-1
             /\ tt[s].node \in 0..n
             /\ IdentsOK(tt[s].idents, m, n, spaces)
  <2>1. CASE s \in 1..Len(ss) BY <2>1, <1>2 DEF ScopesOK
  <2>2. CASE s = Len(ss) + 1 BY <2>2, <1>2
  <2> QED BY <2>1, <2>2, <1>2
<1>5. ScopesOK(tt, m, n, spaces) BY <1>2, <1>3, <1>4 DEF ScopesOK
<1>6. Grown(ss, tt)
  <2>1. \A t \in 1..Len(ss) : Len(ss[t].idents) \in Nat
    <3>1. \A t \in 1..Len(ss) : ss[t] \in Scope BY <1>1
    <3> QED BY <3>1, ScopeFields
  <2> QED BY <1>2, <2>1 DEF Grown, Same
<1> QED BY <1>2, <1>5, <1>6 DEF tt

\* The identifier of a node gets its definition and scope, no other changes.
Defines(d, scope, tt) ==
  \A t \in ScopeIds :
    /\ tt[t].kind = scopes[t].kind /\ tt[t].parent = scopes[t].parent
    /\ tt[t].node = scopes[t].node
    /\ Len(tt[t].idents) = Len(scopes[t].idents)
    /\ \A k \in 1..Len(scopes[t].idents) :
         IF t = nodes[d].at /\ k = nodes[d].idx
         THEN /\ tt[t].idents[k].def = d /\ tt[t].idents[k].scope = scope
              /\ tt[t].idents[k].given = scopes[t].idents[k].given
              /\ Same(scopes[t].idents[k], tt[t].idents[k])
         ELSE tt[t].idents[k] = scopes[t].idents[k]

\* add_func_def and the others: the definition and the scope of one identifier.
LEMMA DefineIs ==
  ASSUME NEW m, NEW spaces, ScopesOK(scopes, m, Len(nodes), spaces),
         PointersOK(scopes, nodes), nodes \in Seq(Node),
         NEW d \in NodeIds, nodes[d].at # 0, NEW scope \in 0..m, scope \in Nat
  PROVE  LET tt == Define(d, scope)
         IN  /\ ScopesOK(tt, m, Len(nodes), spaces)
             /\ Grown(scopes, tt)
             /\ Len(tt) = Len(scopes)
             /\ Defines(d, scope, tt)
<1> DEFINE a == nodes[d].at
           b == nodes[d].idx
           old == scopes[a].idents[b]
           new == [old EXCEPT !.def = d, !.scope = scope]
           idents == [scopes[a].idents EXCEPT ![b] = new]
           tt == [scopes EXCEPT ![a].idents = idents]
<1>1. a \in 1..Len(scopes) /\ b \in 1..Len(scopes[a].idents) BY DEF PointersOK, NodeIds
<1>2. Define(d, scope) = tt BY DEF Define
<1> HIDE DEF a, b
<1>4. IdentsOK(scopes[a].idents, m, Len(nodes), spaces) BY <1>1 DEF ScopesOK
<1>5. IdentOK(old, m, Len(nodes), spaces) BY <1>1, <1>4 DEF IdentsOK
<1>6. d \in Nat /\ d \in 0..Len(nodes) BY DEF NodeIds
<1> HIDE DEF old
<1>7. /\ new.def = d /\ new.scope = scope /\ Same(old, new) /\ new \in Ident
      /\ new.given = old.given
  BY <1>5, <1>6 DEF IdentOK, Ident, Same
<1>8. IdentOK(new, m, Len(nodes), spaces) BY <1>5, <1>6, <1>7 DEF IdentOK, Same
<1> HIDE DEF new
<1>9. /\ IdentsOK(idents, m, Len(nodes), spaces)
      /\ Len(idents) = Len(scopes[a].idents)
      /\ \A k \in 1..Len(scopes[a].idents) : Same(scopes[a].idents[k], idents[k])
      /\ \A k \in 1..Len(scopes[a].idents) :
           idents[k] = IF k = b THEN new ELSE scopes[a].idents[k]
  BY SMTT(40), <1>1, <1>4, <1>7, <1>8, IdentReplaced DEF old
<1> HIDE DEF idents
<1>10. Len(scopes[a].idents) <= Len(idents)
  <2>1. Len(scopes[a].idents) \in Nat BY <1>4 DEF IdentsOK
  <2> QED BY <2>1, <1>9
<1>11. /\ ScopesOK(tt, m, Len(nodes), spaces) /\ Grown(scopes, tt) /\ Len(tt) = Len(scopes)
       /\ \A t \in 1..Len(scopes) :
            /\ tt[t].kind = scopes[t].kind /\ tt[t].parent = scopes[t].parent
            /\ tt[t].node = scopes[t].node
            /\ tt[t].idents = IF t = a THEN idents ELSE scopes[t].idents
  <2>1. \A k \in 1..Len(scopes[a].idents) : Same(scopes[a].idents[k], idents[k]) BY <1>9
  <2>2. IdentsOK(idents, m, Len(nodes), spaces) BY <1>9
  <2>3. ScopesOK(tt, m, Len(nodes), spaces) BY <2>1, <2>2, <1>1, <1>10, IdentsReplaced
  <2>4. Grown(scopes, tt) BY <2>1, <2>2, <1>1, <1>10, IdentsReplaced
  <2>5. Len(tt) = Len(scopes) BY <2>1, <2>2, <1>1, <1>10, IdentsReplaced
  <2>6. \A t \in 1..Len(scopes) :
          /\ tt[t].kind = scopes[t].kind /\ tt[t].parent = scopes[t].parent
          /\ tt[t].node = scopes[t].node
    BY <2>1, <2>2, <1>1, <1>10, IdentsReplaced
  <2>7. \A t \in 1..Len(scopes) : tt[t].idents = IF t = a THEN idents ELSE scopes[t].idents
    BY <2>1, <2>2, <1>1, <1>10, IdentsReplaced
  <2> QED BY <2>3, <2>4, <2>5, <2>6, <2>7
<1> HIDE DEF tt
<1>12. \A t \in 1..Len(scopes) :
         /\ Len(tt[t].idents) = Len(scopes[t].idents)
         /\ \A k \in 1..Len(scopes[t].idents) :
              tt[t].idents[k] = IF t = a /\ k = b THEN new ELSE scopes[t].idents[k]
  BY SMTT(40), <1>9, <1>11
<1>13. Defines(d, scope, tt) BY ZenonT(40), <1>7, <1>11, <1>12 DEF Defines, a, b, old, ScopeIds
<1> QED BY <1>2, <1>11, <1>13

-----------------------------------------------------------------------------
(***************************************************************************)
(* The nodes: they are only added, and only the count of their openings    *)
(* changes.                                                                *)
(***************************************************************************)
NodesKept(ns, ms) ==
  /\ Len(ns) <= Len(ms)
  /\ \A n \in 1..Len(ns) :
       /\ ms[n].kind = ns[n].kind /\ ms[n].name = ns[n].name /\ ms[n].sig = ns[n].sig
       /\ ms[n].params = ns[n].params /\ ms[n].body = ns[n].body /\ ms[n].at = ns[n].at
       /\ ms[n].idx = ns[n].idx /\ ms[n].owner = ns[n].owner /\ ms[n].var = ns[n].var

\* The fields of a node, and a node that is opened once more.
LEMMA NodeFields ==
  ASSUME NEW c \in Node
  PROVE  /\ c.kind \in IdentKinds /\ c.name \in AllNames /\ c.sig \in Nat
         /\ c.params \in Seq(Names) /\ c.body \in BOOLEAN /\ c.at \in Nat /\ c.idx \in Nat
         /\ c.owner \in Nat /\ c.opened \in Nat /\ c.var \in BOOLEAN
         /\ \A k \in Nat :
              LET d == [c EXCEPT !.opened = k]
              IN  /\ d \in Node /\ d.opened = k
                  /\ d.kind = c.kind /\ d.name = c.name /\ d.sig = c.sig
                  /\ d.params = c.params /\ d.body = c.body /\ d.at = c.at
                  /\ d.idx = c.idx /\ d.owner = c.owner /\ d.var = c.var
BY DEF Node

\* Nodes that stay are kept.
LEMMA NodesKeptItself ==
  ASSUME NEW ns \in Seq(Node)
  PROVE  NodesKept(ns, ns)
BY DEF NodesKept

\* A node that is added leaves the others as they are.
LEMMA NodeAdded ==
  ASSUME NEW ns \in Seq(Node), NEW c \in Node
  PROVE  LET ms == Append(ns, c)
         IN  /\ ms \in Seq(Node) /\ NodesKept(ns, ms) /\ Len(ms) = Len(ns) + 1
             /\ ms[Len(ns)+1] = c /\ \A n \in 1..Len(ns) : ms[n] = ns[n]
<1> DEFINE ms == Append(ns, c)
<1>1. /\ ms \in Seq(Node) /\ Len(ms) = Len(ns) + 1 /\ Len(ns) \in Nat
      /\ ms[Len(ns)+1] = c /\ \A n \in 1..Len(ns) : ms[n] = ns[n]
  OBVIOUS
<1> HIDE DEF ms
<1>2. NodesKept(ns, ms) BY <1>1 DEF NodesKept
<1> QED BY <1>1, <1>2 DEF ms

\* The nodes after the definition of one has been parsed.
LEMMA OpenedIs ==
  ASSUME nodes \in Seq(Node), NEW d \in NodeIds
  PROVE  LET ms == Opened(d)
         IN  /\ ms \in Seq(Node) /\ NodesKept(nodes, ms) /\ Len(ms) = Len(nodes)
             /\ \A n \in NodeIds : ms[n].opened = IF n = d THEN nodes[n].opened + 1
                                                          ELSE nodes[n].opened
<1> DEFINE c == [nodes[d] EXCEPT !.opened = nodes[d].opened + 1]
           ms == [nodes EXCEPT ![d] = c]
<1>1. Opened(d) = ms BY DEF Opened
<1>2. d \in 1..Len(nodes) /\ nodes[d] \in Node BY DEF NodeIds
<1>3. nodes[d].opened \in Nat /\ nodes[d].opened + 1 \in Nat BY <1>2, NodeFields
<1>4. /\ c \in Node /\ c.opened = nodes[d].opened + 1
      /\ c.kind = nodes[d].kind /\ c.name = nodes[d].name /\ c.sig = nodes[d].sig
      /\ c.params = nodes[d].params /\ c.body = nodes[d].body /\ c.at = nodes[d].at
      /\ c.idx = nodes[d].idx /\ c.owner = nodes[d].owner /\ c.var = nodes[d].var
  BY <1>2, <1>3, NodeFields
<1> HIDE DEF c
<1>5. /\ ms \in Seq(Node) /\ Len(ms) = Len(nodes)
      /\ \A n \in 1..Len(nodes) : ms[n] = IF n = d THEN c ELSE nodes[n]
  BY <1>2, <1>4
<1> HIDE DEF ms
<1>6. NodesKept(nodes, ms) BY <1>4, <1>5 DEF NodesKept
<1> QED BY <1>1, <1>4, <1>5, <1>6 DEF NodeIds

\* The pointers of the nodes do not depend on what of a node may change.
LEMMA PointersNodes ==
  ASSUME NEW ss, NEW ns, NEW ms, PointersOK(ss, ns), NodesKept(ns, ms), Len(ms) = Len(ns)
  PROVE  PointersOK(ss, ms)
<1> SUFFICES ASSUME NEW n \in 1..Len(ns)
             PROVE  /\ ms[n].kind \in {"FUNC", "CLASS"} <=> ms[n].at # 0
                    /\ ms[n].at # 0 =>
                         /\ ms[n].at \in 1..Len(ss)
                         /\ ms[n].idx \in 1..Len(ss[ms[n].at].idents)
                         /\ LET ident == ss[ms[n].at].idents[ms[n].idx]
                            IN  /\ ident.name = ms[n].name
                                /\ ident.kind = "FUNC" /\ ms[n].kind = "FUNC" => ident.sig = ms[n].sig
  BY DEF PointersOK
<1>1. /\ ms[n].kind = ns[n].kind /\ ms[n].name = ns[n].name /\ ms[n].sig = ns[n].sig
      /\ ms[n].at = ns[n].at /\ ms[n].idx = ns[n].idx
  BY DEF NodesKept
<1> QED BY SMTT(40), <1>1 DEF PointersOK

\* A node may be added that points at an identifier of its name.
LEMMA PointersAdded ==
  ASSUME NEW ss, NEW ns \in Seq(Node), NEW c \in Node, PointersOK(ss, ns),
         c.kind \in {"FUNC", "CLASS"} <=> c.at # 0,
         c.at # 0 =>
           /\ c.at \in 1..Len(ss)
           /\ c.idx \in 1..Len(ss[c.at].idents)
           /\ LET ident == ss[c.at].idents[c.idx]
              IN  /\ ident.name = c.name
                  /\ ident.kind = "FUNC" /\ c.kind = "FUNC" => ident.sig = c.sig
  PROVE  PointersOK(ss, Append(ns, c))
<1> DEFINE ms == Append(ns, c)
<1>1. /\ Len(ms) = Len(ns) + 1 /\ Len(ns) \in Nat
      /\ ms[Len(ns)+1] = c /\ \A n \in 1..Len(ns) : ms[n] = ns[n]
  OBVIOUS
<1> HIDE DEF ms
<1>2. ASSUME NEW n \in 1..Len(ms)
      PROVE  /\ ms[n].kind \in {"FUNC", "CLASS"} <=> ms[n].at # 0
             /\ ms[n].at # 0 =>
                  /\ ms[n].at \in 1..Len(ss)
                  /\ ms[n].idx \in 1..Len(ss[ms[n].at].idents)
                  /\ LET ident == ss[ms[n].at].idents[ms[n].idx]
                     IN  /\ ident.name = ms[n].name
                         /\ ident.kind = "FUNC" /\ ms[n].kind = "FUNC" => ident.sig = ms[n].sig
  <2>1. CASE n \in 1..Len(ns) BY ZenonT(40), <2>1, <1>1 DEF PointersOK
  <2>2. CASE n = Len(ns) + 1 BY <2>2, <1>1
  <2> QED BY <2>1, <2>2, <1>1
<1>3. PointersOK(ss, ms) BY <1>2 DEF PointersOK
<1> QED BY <1>3 DEF ms

-----------------------------------------------------------------------------
\* A node may be added whose parameters have different names.
LEMMA ParamsAdded ==
  ASSUME NEW ns \in Seq(Node), NEW c \in Node, ParamsOK(ns),
         \A i, j \in 1..Len(c.params) : c.params[i] = c.params[j] => i = j
  PROVE  ParamsOK(Append(ns, c))
<1> DEFINE ms == Append(ns, c)
<1>1. /\ Len(ms) = Len(ns) + 1 /\ Len(ns) \in Nat
      /\ ms[Len(ns)+1] = c /\ \A n \in 1..Len(ns) : ms[n] = ns[n]
  OBVIOUS
<1> HIDE DEF ms
<1>2. \A n \in 1..Len(ms) : n \in 1..Len(ns) \/ n = Len(ns) + 1 BY <1>1
<1>3. ParamsOK(ms) BY <1>1, <1>2 DEF ParamsOK
<1> QED BY <1>3 DEF ms

\* The parameters of the nodes do not depend on what of a node may change.
LEMMA ParamsNodes ==
  ASSUME NEW ns, NEW ms, ParamsOK(ns), NodesKept(ns, ms), Len(ms) = Len(ns)
  PROVE  ParamsOK(ms)
BY DEF ParamsOK, NodesKept

\* The fields of a frame, and a frame with other work or of another kind.
LEMMA FrameFields ==
  ASSUME NEW f \in Frame
  PROVE  /\ f.kind \in {"nodes", "decls", "defs"} /\ f.scope \in Nat /\ f.node \in Nat
         /\ f.todo \in Seq(Nat)
         /\ \A todo \in Seq(Nat) :
              LET g == [f EXCEPT !.todo = todo]
              IN  /\ g \in Frame /\ g.kind = f.kind /\ g.scope = f.scope /\ g.node = f.node
                  /\ g.todo = todo
         /\ LET g == [f EXCEPT !.kind = "defs"]
            IN  /\ g \in Frame /\ g.kind = "defs" /\ g.scope = f.scope /\ g.node = f.node
                /\ g.todo = f.todo
BY DEF Frame

\* Frames stay in order when scopes and nodes are added.
LEMMA FramesMore ==
  ASSUME NEW st, NEW m \in Nat, NEW m2 \in Nat, m <= m2, NEW ns \in Seq(Node),
         NEW ms \in Seq(Node), NodesKept(ns, ms), FramesOK(st, m, ns)
  PROVE  FramesOK(st, m2, ms)
<1>1. Len(ns) \in Nat /\ Len(ms) \in Nat /\ Len(ns) <= Len(ms) BY DEF NodesKept
<1>2. \A n \in 1..Len(ns) : n \in 1..Len(ms) /\ ms[n].kind = ns[n].kind
  BY <1>1 DEF NodesKept
<1>3. \A s \in 1..m : s \in 1..m2 OBVIOUS
<1> QED BY <1>2, <1>3 DEF FramesOK

\* The frames after a node was put off: only the innermost has changed.
LEMMA TodoIs ==
  ASSUME NEW st \in Seq(Frame), st # <<>>, NEW n \in Nat
  PROVE  LET tt == Todo(st, n)
         IN  /\ tt \in Seq(Frame) /\ Len(tt) = Len(st)
             /\ \A f \in 1..Len(st) :
                  /\ tt[f].kind = st[f].kind /\ tt[f].scope = st[f].scope /\ tt[f].node = st[f].node
                  /\ tt[f].todo = IF f = Len(st) THEN Append(st[f].todo, n) ELSE st[f].todo
<1> DEFINE l == Len(st)
           new == Append(st[l].todo, n)
           g == [st[l] EXCEPT !.todo = new]
           tt == [st EXCEPT ![l] = g]
<1>1. l \in 1..Len(st) /\ st[l] \in Frame OBVIOUS
<1>2. Todo(st, n) = tt BY <1>1 DEF Todo
<1>3. new \in Seq(Nat)
  <2>1. st[l].todo \in Seq(Nat) BY <1>1, FrameFields
  <2> QED BY <2>1
<1> HIDE DEF new
<1>4. /\ g \in Frame /\ g.kind = st[l].kind /\ g.scope = st[l].scope /\ g.node = st[l].node
      /\ g.todo = new
  BY <1>1, <1>3, FrameFields
<1> HIDE DEF g
<1>5. /\ tt \in Seq(Frame) /\ Len(tt) = Len(st)
      /\ \A f \in 1..Len(st) : tt[f] = IF f = l THEN g ELSE st[f]
  BY <1>1, <1>4
<1> HIDE DEF tt
<1> QED BY <1>2, <1>4, <1>5 DEF new

\* The frames after a definition was begun: the innermost has lost its first.
LEMMA DoneIs ==
  ASSUME NEW st \in Seq(Frame), st # <<>>, st[Len(st)].todo # <<>>
  PROVE  LET tt == Done(st)
         IN  /\ tt \in Seq(Frame) /\ Len(tt) = Len(st)
             /\ \A f \in 1..Len(st) :
                  /\ tt[f].kind = st[f].kind /\ tt[f].scope = st[f].scope /\ tt[f].node = st[f].node
                  /\ tt[f].todo = IF f = Len(st) THEN Tail(st[f].todo) ELSE st[f].todo
<1> DEFINE l == Len(st)
           new == Tail(st[l].todo)
           g == [st[l] EXCEPT !.todo = new]
           tt == [st EXCEPT ![l] = g]
<1>1. l \in 1..Len(st) /\ st[l] \in Frame OBVIOUS
<1>2. Done(st) = tt BY <1>1 DEF Done
<1>3. new \in Seq(Nat)
  <2>1. st[l].todo \in Seq(Nat) BY <1>1, FrameFields
  <2> QED BY <2>1
<1> HIDE DEF new
<1>4. /\ g \in Frame /\ g.kind = st[l].kind /\ g.scope = st[l].scope /\ g.node = st[l].node
      /\ g.todo = new
  BY <1>1, <1>3, FrameFields
<1> HIDE DEF g
<1>5. /\ tt \in Seq(Frame) /\ Len(tt) = Len(st)
      /\ \A f \in 1..Len(st) : tt[f] = IF f = l THEN g ELSE st[f]
  BY <1>1, <1>4
<1> HIDE DEF tt
<1> QED BY <1>2, <1>4, <1>5 DEF new

\* The frames after the first pass: the innermost is of the second.
LEMMA DefsIs ==
  ASSUME NEW st \in Seq(Frame), st # <<>>
  PROVE  LET tt == [st EXCEPT ![Len(st)].kind = "defs"]
         IN  /\ tt \in Seq(Frame) /\ Len(tt) = Len(st)
             /\ \A f \in 1..Len(st) :
                  /\ tt[f].kind = IF f = Len(st) THEN "defs" ELSE st[f].kind
                  /\ tt[f].scope = st[f].scope /\ tt[f].node = st[f].node
                  /\ tt[f].todo = st[f].todo
<1> DEFINE l == Len(st)
           g == [st[l] EXCEPT !.kind = "defs"]
           tt == [st EXCEPT ![l] = g]
<1>1. l \in 1..Len(st) /\ st[l] \in Frame OBVIOUS
<1>2. [st EXCEPT ![Len(st)].kind = "defs"] = tt BY <1>1
<1>3. /\ g \in Frame /\ g.kind = "defs" /\ g.scope = st[l].scope /\ g.node = st[l].node
      /\ g.todo = st[l].todo
  BY <1>1, FrameFields
<1> HIDE DEF g
<1>4. /\ tt \in Seq(Frame) /\ Len(tt) = Len(st)
      /\ \A f \in 1..Len(st) : tt[f] = IF f = l THEN g ELSE st[f]
  BY <1>1, <1>3
<1> HIDE DEF tt
<1> QED BY <1>2, <1>3, <1>4

\* The frames with one more.
LEMMA PushIs ==
  ASSUME NEW st \in Seq(Frame), NEW g \in Frame
  PROVE  LET tt == Append(st, g)
         IN  /\ tt \in Seq(Frame) /\ Len(tt) = Len(st) + 1 /\ tt[Len(st)+1] = g
             /\ \A f \in 1..Len(st) : tt[f] = st[f]
OBVIOUS

\* The frames without the innermost.
LEMMA FrontIs ==
  ASSUME NEW st \in Seq(Frame), Len(st) > 1
  PROVE  LET tt == Front(st)
         IN  /\ tt \in Seq(Frame) /\ Len(tt) = Len(st) - 1 /\ tt # <<>>
             /\ \A f \in 1..Len(st)-1 : tt[f] = st[f]
<1> DEFINE tt == SubSeq(st, 1, Len(st)-1)
<1>1. /\ tt \in Seq(Frame) /\ Len(tt) = Len(st) - 1
      /\ \A f \in 1..Len(st)-1 : tt[f] = st[f]
  OBVIOUS
<1> HIDE DEF tt
<1>2. tt # <<>>
  <2>1. Len(st) \in Nat OBVIOUS
  <2>2. Len(tt) # 0 BY <2>1, <1>1
  <2> QED BY <2>2
<1> QED BY <1>1, <1>2 DEF Front, tt

-----------------------------------------------------------------------------
\* Scopes to which identifiers were appended have grown.
LEMMA AppendedGrown ==
  ASSUME NEW ss \in Seq(Scope), NEW tt, Appended(ss, tt)
  PROVE  Grown(ss, tt)
BY DEF Appended, Grown, Same

\* Scopes that stay are as if nothing had been appended.
LEMMA AppendedItself ==
  ASSUME NEW ss \in Seq(Scope)
  PROVE  Appended(ss, ss)
<1>1. \A s \in 1..Len(ss) : Len(ss[s].idents) \in Nat
  <2>1. \A s \in 1..Len(ss) : ss[s] \in Scope OBVIOUS
  <2> QED BY <2>1, ScopeFields
<1> QED BY <1>1 DEF Appended

\* Identifiers may be appended twice.
LEMMA AppendedOn ==
  ASSUME NEW rr \in Seq(Scope), NEW ss \in Seq(Scope), NEW tt \in Seq(Scope),
         Appended(rr, ss), Appended(ss, tt)
  PROVE  Appended(rr, tt)
<1>1. ASSUME NEW s \in 1..Len(rr)
      PROVE  /\ tt[s].kind = rr[s].kind /\ tt[s].parent = rr[s].parent /\ tt[s].node = rr[s].node
             /\ Len(rr[s].idents) <= Len(tt[s].idents)
             /\ \A i \in 1..Len(rr[s].idents) : tt[s].idents[i] = rr[s].idents[i]
             /\ \A i \in 1..Len(tt[s].idents) :
                  i > Len(rr[s].idents) => tt[s].idents[i].scope = 0 /\ tt[s].idents[i].given = {}
  <2> DEFINE a == rr[s].idents
             b == ss[s].idents
             c == tt[s].idents
  <2>1. s \in 1..Len(ss) /\ s \in 1..Len(tt) BY DEF Appended
  <2>2. rr[s] \in Scope /\ ss[s] \in Scope /\ tt[s] \in Scope BY <2>1
  <2>3. Len(a) \in Nat /\ Len(b) \in Nat /\ Len(c) \in Nat
    BY SMTT(40), <2>2, ScopeFields
  <2>4. /\ Len(a) <= Len(b) /\ \A i \in 1..Len(a) : b[i] = a[i]
        /\ \A i \in 1..Len(b) : i > Len(a) => b[i].scope = 0 /\ b[i].given = {}
        /\ Len(b) <= Len(c) /\ \A i \in 1..Len(b) : c[i] = b[i]
        /\ \A i \in 1..Len(c) : i > Len(b) => c[i].scope = 0 /\ c[i].given = {}
    BY <2>1 DEF Appended
  <2>5. /\ tt[s].kind = rr[s].kind /\ tt[s].parent = rr[s].parent /\ tt[s].node = rr[s].node
    BY <2>1 DEF Appended
  <2> HIDE DEF a, b, c
  <2>6. Len(a) <= Len(c) /\ \A i \in 1..Len(a) : c[i] = a[i] BY <2>3, <2>4
  <2>7. \A i \in 1..Len(c) : i > Len(a) => c[i].scope = 0 /\ c[i].given = {}
    <3> TAKE i \in 1..Len(c)
    <3>1. i \in 1..Len(b) \/ i > Len(b) BY <2>3
    <3> QED BY <3>1, <2>4
  <2> QED BY <2>5, <2>6, <2>7 DEF a, b, c
<1>2. Len(rr) = Len(tt) BY DEF Appended
<1> QED BY <1>1, <1>2 DEF Appended

\* A new identifier: not defined, without a scope or default arguments.
LEMMA NewIdentIs ==
  ASSUME NEW m \in Nat, NEW n \in Nat, NEW spaces, NEW name \in AllNames, NEW kind \in IdentKinds,
         NEW sig \in Nat, NEW d \in 1..n, kind = "NAMESPACE" => d \in spaces
  PROVE  LET ident == NewIdent(name, kind, sig, d)
         IN  /\ IdentOK(ident, m, n, spaces) /\ ident.name = name /\ ident.kind = kind
             /\ ident.sig = sig /\ ident.decl = d /\ ident.def = 0 /\ ident.scope = 0
             /\ ident.given = {}
BY DEF NewIdent, IdentOK, Ident

\* midpar_parse_var_decl_inst
LEMMA DeclaratorOK ==
  ASSUME NEW m \in Nat, NEW n \in Nat, NEW spaces, NEW ss, ScopesOK(ss, m, n, spaces),
         NEW s \in 1..Len(ss), NEW name \in Names, NEW kind \in {"VAR", "TYPEDEF"}, NEW d \in 1..n
  PROVE  LET tt == Declarator(ss, s, name, kind, d)
         IN  ScopesOK(tt, m, n, spaces) /\ Appended(ss, tt)
<1> DEFINE ident == NewIdent(name, kind, 0, d)
<1>1. ss \in Seq(Scope) BY DEF ScopesOK
<1>2. CASE IsTypeName(ss, s, name)
  <2>1. Declarator(ss, s, name, kind, d) = ss BY <1>2 DEF Declarator
  <2> QED BY <2>1, <1>1, AppendedItself
<1>3. CASE ~IsTypeName(ss, s, name)
  <2>1. Declarator(ss, s, name, kind, d) = Declare(ss, s, ident) BY <1>3 DEF Declarator
  <2>2. name \in AllNames /\ kind \in IdentKinds /\ kind # "NAMESPACE" /\ 0 \in Nat
    BY DEF AllNames, IdentKinds
  <2>3. IdentOK(ident, m, n, spaces) BY <2>2, NewIdentIs
  <2>4. ident.scope = 0 /\ ident.given = {} BY DEF NewIdent
  <2> HIDE DEF ident
  <2>5. ScopesOK(Declare(ss, s, ident), m, n, spaces) BY <2>3, DeclareOK
  <2>6. Appended(ss, Declare(ss, s, ident)) BY <2>3, <2>4, DeclareOK
  <2> QED BY <2>1, <2>5, <2>6
<1> QED BY <1>2, <1>3

\* The declarator that follows a class, if there is one.
LEMMA InstanceOK ==
  ASSUME NEW m \in Nat, NEW n \in Nat, NEW spaces, NEW ss, ScopesOK(ss, m, n, spaces),
         NEW s \in 1..Len(ss), NEW inst \in Names \cup {"none"}, NEW d \in 1..n
  PROVE  LET tt == Instance(ss, s, inst, d)
         IN  ScopesOK(tt, m, n, spaces) /\ Appended(ss, tt)
<1>1. ss \in Seq(Scope) BY DEF ScopesOK
<1>2. CASE inst = "none"
  <2>1. Instance(ss, s, inst, d) = ss BY <1>2 DEF Instance
  <2> QED BY <2>1, <1>1, AppendedItself
<1>3. CASE inst # "none"
  <2>1. Instance(ss, s, inst, d) = Declarator(ss, s, inst, "VAR", d) BY <1>3 DEF Instance
  <2>2. inst \in Names BY <1>3
  <2> QED BY <2>1, <2>2, DeclaratorOK
<1> QED BY <1>2, <1>3

-----------------------------------------------------------------------------
\* What the two parts of a step have to show.
LEMMA ScopesStep ==
  ASSUME NEW n \in Nat, NEW tt, scopes \in Seq(Scope), Grown(scopes, tt),
         ScopesOK(tt, Len(tt), n, SpacesOf(scopes))
  PROVE  ScopesOK(tt, Len(tt), n, SpacesOf(tt))
<1>1. tt \in Seq(Scope) BY DEF ScopesOK
<1>2. Len(tt) \in Nat BY <1>1
<1>3. SpacesOf(scopes) \subseteq SpacesOf(tt) BY <1>1, SpacesGrown
<1> QED BY <1>2, <1>3, ScopesMore

\* The types of the state and its lengths, for citing.
LEMMA ShapeTypes ==
  ASSUME Shape
  PROVE  /\ scopes \in Seq(Scope) /\ Len(scopes) \in Nat /\ ScopeIds = 1..Len(scopes)
         /\ nodes \in Seq(Node) /\ Len(nodes) \in Nat /\ NodeIds = 1..Len(nodes)
         /\ stack \in Seq(Frame) /\ stack # <<>> /\ Len(stack) \in Nat \ {0}
         /\ Top = stack[Len(stack)] /\ Top \in Frame /\ Top.scope \in ScopeIds
         /\ New = Len(nodes) + 1
<1>1. scopes \in Seq(Scope) /\ nodes \in Seq(Node) /\ stack \in Seq(Frame) /\ stack # <<>>
  BY DEF Shape, ScopesOK, FramesOK
<1>2. Len(stack) \in Nat \ {0} /\ Len(stack) \in 1..Len(stack) BY <1>1
<1>3. Top = stack[Len(stack)] BY DEF Top, Last
<1>4. Top.scope \in ScopeIds BY <1>2, <1>3 DEF Shape, FramesOK, ScopeIds
<1> QED BY <1>1, <1>2, <1>3, <1>4 DEF ScopeIds, NodeIds, New

\* A new node: not opened, owned by the class that is being read.
LEMMA NewNodeIs ==
  ASSUME Shape, NEW kind \in IdentKinds, NEW name \in AllNames, NEW body \in BOOLEAN
  PROVE  LET c == NewNode(kind, name, body)
         IN  /\ c \in Node /\ c.kind = kind /\ c.name = name /\ c.sig = 0
             /\ c.params = <<>> /\ c.body = body /\ c.at = 0 /\ c.idx = 0
             /\ c.owner = (IF Top.kind = "decls" THEN Top.node ELSE 0)
             /\ c.opened = 0 /\ c.var = FALSE
<1>1. Top.node \in Nat
  <2>1. Top \in Frame BY ShapeTypes
  <2> QED BY <2>1, FrameFields
<1>2. <<>> \in Seq(Names) OBVIOUS
<1> QED BY <1>1, <1>2 DEF NewNode, Node

\* The frames when a node has been read and waits or does not.
LEMMA FramesRead ==
  ASSUME Shape, NEW c \in Node, NEW later \in BOOLEAN,
         later => c.kind \in {"VAR", "FUNC", "CLASS"},
         NEW m \in Nat, Len(scopes) <= m
  PROVE  FramesOK(IF later THEN Todo(stack, New) ELSE stack, m, Append(nodes, c))
<1> DEFINE ms == Append(nodes, c)
<1>1. nodes \in Seq(Node) /\ stack \in Seq(Frame) /\ stack # <<>> /\ New = Len(nodes) + 1 /\ New \in Nat
  BY ShapeTypes
<1>2. ms \in Seq(Node) /\ NodesKept(nodes, ms) /\ Len(ms) = New /\ ms[New] = c
  BY <1>1, NodeAdded
<1> HIDE DEF ms
<1>3. FramesOK(stack, m, ms)
  <2>1. Len(scopes) \in Nat /\ FramesOK(stack, Len(scopes), nodes) BY ShapeTypes DEF Shape
  <2> QED BY <1>1, <1>2, <2>1, FramesMore
<1>4. CASE later
  <2> DEFINE st == Todo(stack, New)
  <2>1. /\ st \in Seq(Frame) /\ Len(st) = Len(stack)
        /\ \A f \in 1..Len(stack) :
             /\ st[f].kind = stack[f].kind /\ st[f].scope = stack[f].scope
             /\ st[f].node = stack[f].node
             /\ st[f].todo = IF f = Len(stack) THEN Append(stack[f].todo, New)
                                              ELSE stack[f].todo
    BY <1>1, TodoIs
  <2> HIDE DEF st
  <2>2. Len(stack) \in Nat \ {0} BY <1>1
  <2>3. New \in 1..Len(ms) /\ ms[New].kind \in {"VAR", "FUNC", "CLASS"} BY <1>1, <1>2, <1>4
  <2>4. ASSUME NEW f \in 1..Len(st)
        PROVE  /\ st[f].scope \in 1..m
               /\ f # 1 => st[f].node \in 1..Len(ms)
               /\ \A k \in 1..Len(st[f].todo) :
                    /\ st[f].todo[k] \in 1..Len(ms)
                    /\ ms[st[f].todo[k]].kind \in {"VAR", "FUNC", "CLASS"}
    <3>1. f \in 1..Len(stack) BY <2>1
    <3>2. st[f].scope \in 1..m /\ (f # 1 => st[f].node \in 1..Len(ms))
      BY <3>1, <2>1, <1>3 DEF FramesOK
    <3>3. stack[f].todo \in Seq(Nat)
      <4>1. stack[f] \in Frame BY <3>1, <1>1
      <4> QED BY <4>1, FrameFields
    <3>4. \A k \in 1..Len(stack[f].todo) : stack[f].todo[k] \in 1..Len(ms)
                    /\ ms[stack[f].todo[k]].kind \in {"VAR", "FUNC", "CLASS"}
      BY <3>1, <1>3 DEF FramesOK
    <3>5. ASSUME NEW k \in 1..Len(st[f].todo)
          PROVE  st[f].todo[k] = New \/ \E j \in 1..Len(stack[f].todo) : st[f].todo[k] = stack[f].todo[j]
      <4>1. CASE st[f].todo = stack[f].todo BY <4>1
      <4>2. CASE st[f].todo = Append(stack[f].todo, New) BY SMTT(40), <4>2, <3>3
      <4> QED BY <4>1, <4>2, <3>1, <2>1
    <3> QED BY <3>2, <3>4, <3>5, <2>3
  <2>5. st # <<>> /\ st[1].kind = "nodes"
    <3>1. Len(st) # 0 /\ 1 \in 1..Len(stack) BY <2>1, <2>2
    <3>2. st # <<>> BY <3>1
    <3> QED BY <3>1, <3>2, <2>1, <1>3 DEF FramesOK
  <2>6. FramesOK(st, m, ms) BY <2>1, <2>4, <2>5 DEF FramesOK
  <2> QED BY <2>6, <1>4 DEF st, ms
<1>5. CASE ~later BY <1>3, <1>5 DEF ms
<1> QED BY <1>4, <1>5

\* What every step keeps, beside the invariant.
Grows == Grown(scopes, scopes') /\ NodesKept(nodes, nodes')

\* A declaration has been read: one node is added, and identifiers.
LEMMA ReadShape ==
  ASSUME Shape, NEW tt, NEW c \in Node, NEW later \in BOOLEAN,
         later => c.kind \in {"VAR", "FUNC", "CLASS"},
         c.kind \in {"FUNC", "CLASS"} <=> c.at # 0,
         \A i, j \in 1..Len(c.params) : c.params[i] = c.params[j] => i = j,
         ScopesOK(tt, Len(scopes), New, SpacesOf(scopes)), Grown(scopes, tt), Len(tt) = Len(scopes),
         c.at # 0 =>
           /\ c.at \in 1..Len(tt)
           /\ c.idx \in 1..Len(tt[c.at].idents)
           /\ LET ident == tt[c.at].idents[c.idx]
              IN  /\ ident.name = c.name
                  /\ ident.kind = "FUNC" /\ c.kind = "FUNC" => ident.sig = c.sig,
         scopes' = tt, nodes' = Append(nodes, c), diags' \in BOOLEAN, pc' = pc,
         stack' = IF later THEN Todo(stack, New) ELSE stack
  PROVE  Shape' /\ Grows
<1>1. /\ scopes \in Seq(Scope) /\ Len(scopes) \in Nat /\ nodes \in Seq(Node)
      /\ Len(nodes) \in Nat /\ New = Len(nodes) + 1 /\ New \in Nat
  BY ShapeTypes
<1>2. nodes' \in Seq(Node) /\ NodesKept(nodes, nodes') /\ Len(nodes') = New
  BY <1>1, NodeAdded
<1>3. ScopesOK(tt, Len(tt), New, SpacesOf(tt))
  BY <1>1, ScopesStep
<1>4. tt \in Seq(Scope) BY DEF ScopesOK
<1>5. PointersOK(tt, nodes) BY <1>1, <1>4, PointersKept DEF Shape
<1>6. PointersOK(tt, nodes') BY <1>1, <1>5, PointersAdded
<1>7. FramesOK(stack', Len(tt), nodes') BY <1>1, FramesRead
<1>8. pc' \in {"run", "done", "no_base", "no_body", "no_var"} BY DEF Shape
<1>9. ParamsOK(nodes') BY <1>1, ParamsAdded DEF Shape
<1>10. Shape' BY <1>2, <1>3, <1>6, <1>7, <1>8, <1>9 DEF Shape
<1> QED BY <1>2, <1>10 DEF Grows

\* The scopes are fit for a program with one more node.
LEMMA ShapeMore ==
  ASSUME Shape
  PROVE  ScopesOK(scopes, Len(scopes), New, SpacesOf(scopes))
<1>1. Len(scopes) \in Nat /\ Len(nodes) \in Nat /\ New \in Nat /\ Len(nodes) <= New
  BY ShapeTypes
<1>2. ScopesOK(scopes, Len(scopes), Len(nodes), SpacesOf(scopes)) BY DEF Shape
<1> QED BY <1>1, <1>2, ScopesMore

\* midpar_parse_var_decl
LEMMA VarDeclShape ==
  ASSUME Shape, NEW name \in Names, NEW kind \in {"VAR", "TYPEDEF"}, NEW init \in BOOLEAN,
         VarDecl(name, kind, init)
  PROVE  Shape' /\ Grows /\ Appended(scopes, scopes')
<1> DEFINE c == NewNode(kind, name, init)
           tt == Declarator(scopes, Top.scope, name, kind, New)
<1>1. Len(scopes) \in Nat /\ New \in Nat /\ New \in 1..New /\ Top.scope \in 1..Len(scopes)
      /\ scopes \in Seq(Scope)
  BY ShapeTypes
<1>2. kind \in IdentKinds /\ name \in AllNames BY DEF IdentKinds, AllNames
<1>3. c \in Node /\ c.kind = kind /\ c.at = 0 /\ Len(c.params) = 0
  <2>1. c \in Node /\ c.kind = kind /\ c.at = 0 BY ZenonT(40), <1>2, NewNodeIs
  <2>2. c.params = <<>> BY DEF NewNode
  <2> HIDE DEF c
  <2> QED BY <2>1, <2>2
<1>4. ScopesOK(scopes, Len(scopes), New, SpacesOf(scopes)) BY ShapeMore
<1>5. ScopesOK(tt, Len(scopes), New, SpacesOf(scopes)) BY <1>1, <1>4, DeclaratorOK
<1>6. Appended(scopes, tt) BY <1>1, <1>4, DeclaratorOK
<1>7. Grown(scopes, tt) /\ Len(tt) = Len(scopes)
  BY <1>1, <1>6, AppendedGrown DEF Appended
<1>8. /\ scopes' = tt /\ nodes' = Append(nodes, c) /\ diags' \in BOOLEAN /\ pc' = pc
      /\ stack' = IF init THEN Todo(stack, New) ELSE stack
      /\ (kind = "TYPEDEF" => ~init)
  BY DEF VarDecl, Redeclares, Clash, Shape
<1> HIDE DEF c, tt
<1>9. Shape' /\ Grows BY <1>3, <1>5, <1>7, <1>8, ReadShape
<1> QED BY <1>6, <1>8, <1>9

\* What is not given of an identifier stays, and new ones lead nowhere.
Called(ss, tt) ==
  /\ Len(ss) = Len(tt)
  /\ \A s \in 1..Len(ss) :
       /\ tt[s].kind = ss[s].kind /\ tt[s].parent = ss[s].parent /\ tt[s].node = ss[s].node
       /\ Len(ss[s].idents) <= Len(tt[s].idents)
       /\ \A i \in 1..Len(ss[s].idents) :
            /\ Same(ss[s].idents[i], tt[s].idents[i])
            /\ tt[s].idents[i].def = ss[s].idents[i].def
            /\ tt[s].idents[i].scope = ss[s].idents[i].scope
       /\ \A i \in 1..Len(tt[s].idents) : i > Len(ss[s].idents) => tt[s].idents[i].scope = 0

\* What is assumed of a list of parameters.
LEMMA ProtoIs ==
  ASSUME NEW p \in Protos
  PROVE  /\ p.sig \in Nat /\ p.params \in Seq(Names) /\ IsInjective(p.params)
         /\ p.defaults \in SUBSET Nat /\ p.defaults \subseteq 1..Len(p.params)
BY ProtosAssumption DEF Proto

\* Default arguments: those an identifier has, none, or those checked here.
GivenStep(ss, tt, p) ==
  \A s \in 1..Len(tt) : \A k \in 1..Len(tt[s].idents) :
    LET ident == tt[s].idents[k]
    IN  \/ s \in 1..Len(ss) /\ k \in 1..Len(ss[s].idents) /\ ident.given = ss[s].idents[k].given
        \/ ident.given = {}
        \/ /\ ident.kind = "FUNC" => ident.sig = p.sig
           /\ MissingDefault(ident.given, Len(p.params)) => diags'

\* midpar_parse_func_decl
LEMMA FuncDeclShape ==
  ASSUME Shape, NEW name \in Names, NEW p \in Protos, NEW body \in BOOLEAN,
         FuncDecl(name, p, body)
  PROVE  Shape' /\ Grows /\ Called(scopes, scopes') /\ GivenStep(scopes, scopes', p)
<1> DEFINE s == Top.scope
           fname == IF IsTypeName(scopes, s, name) THEN "INVALID-FUNC-NAME" ELSE name
           ident == NewIdent(fname, "FUNC", p.sig, New)
           old == scopes[s].idents
           added == AddIdent(old, ident)
           i == Place(old, ident)
           given == added[i].given \cup p.defaults
           one == [added[i] EXCEPT !.given = given]
           new == [added EXCEPT ![i] = one]
           tt == [scopes EXCEPT ![s].idents = new]
           d == NewNode("FUNC", fname, body)
           c == [d EXCEPT !.sig = p.sig, !.params = ParamNames(s, p.params), !.at = s, !.idx = i]
           m == Len(scopes)
           spaces == SpacesOf(scopes)
<1>1. m \in Nat /\ New \in Nat /\ New \in 1..New /\ s \in 1..m /\ scopes \in Seq(Scope)
  BY ShapeTypes
<1>2. fname \in AllNames /\ "FUNC" \in IdentKinds BY SMTT(40) DEF AllNames, IdentKinds
<1>3. /\ scopes' = tt /\ nodes' = Append(nodes, c) /\ pc' = pc
      /\ stack' = IF body THEN Todo(stack, New) ELSE stack
      /\ diags' \in BOOLEAN
      /\ MissingDefault(given, Len(p.params)) => diags'
  BY DEF FuncDecl, MissingDefault, Shape
<1> HIDE DEF s, fname, m
<1>4. d \in Node /\ d.kind = "FUNC" /\ d.name = fname BY ZenonT(40), <1>2, NewNodeIs
<1>5. p.sig \in Nat /\ p.defaults \in SUBSET Nat BY ProtoIs
<1>6. ParamNames(s, p.params) \in Seq(Names) BY ProtoIs, ParamNamesAre
<1>7. IdentOK(ident, m, New, spaces) BY <1>1, <1>2, <1>5, NewIdentIs
<1>8. ident.name = fname /\ ident.kind = "FUNC" /\ ident.sig = p.sig /\ ident.scope = 0 /\ ident.given = {}
  BY DEF NewIdent
<1>9. ScopesOK(scopes, m, New, spaces) BY ShapeMore DEF m
<1>10. IdentsOK(old, m, New, spaces) BY <1>1, <1>9 DEF ScopesOK, m
<1> HIDE DEF ident, d, old, spaces
<1>11. IdentsOK(added, m, New, spaces) BY <1>7, <1>10, IdentAdded
<1>12. /\ Len(old) <= Len(added)
       /\ \A k \in 1..Len(old) : added[k] = old[k]
       /\ \A k \in 1..Len(added) : k > Len(old) => added[k] = ident
  BY <1>7, <1>10, IdentAdded
<1>13. i \in 1..Len(added) /\ Equivalent(added[i], ident) BY <1>7, <1>10, IdentAdded
<1>14. Len(old) \in Nat /\ Len(added) \in Nat BY <1>10, <1>11 DEF IdentsOK
<1> HIDE DEF added, i
<1>15. IdentOK(added[i], m, New, spaces) BY <1>11, <1>13 DEF IdentsOK
<1>16. given \in SUBSET Nat /\ 0 \notin given
  <2>1. 0 \notin p.defaults BY ProtoIs
  <2> QED BY <2>1, <1>5, <1>15 DEF IdentOK, Ident
<1> HIDE DEF given
<1>17. /\ one \in Ident /\ Same(added[i], one) /\ one.given = given
       /\ one.def = added[i].def /\ one.scope = added[i].scope
  BY <1>15, <1>16 DEF IdentOK, Ident, Same
<1> HIDE DEF one
<1>18. IdentOK(one, m, New, spaces) BY <1>15, <1>16, <1>17 DEF IdentOK, Same
<1>19. IdentsOK(new, m, New, spaces) BY <1>11, <1>13, <1>17, <1>18, IdentReplaced
<1>20. Len(new) = Len(added) BY <1>11, <1>13, <1>17, <1>18, IdentReplaced
<1>21. \A k \in 1..Len(added) : Same(added[k], new[k])
  BY <1>11, <1>13, <1>17, <1>18, IdentReplaced
<1>22. \A k \in 1..Len(added) : new[k] = IF k = i THEN one ELSE added[k]
  BY <1>11, <1>13, <1>17, <1>18, IdentReplaced
<1> HIDE DEF new
<1>23. \A k \in 1..Len(old) : k \in 1..Len(added) BY <1>12, <1>14
<1>24. Len(scopes[s].idents) <= Len(new) /\ \A k \in 1..Len(scopes[s].idents) : Same(scopes[s].idents[k], new[k])
  BY <1>12, <1>20, <1>21, <1>23 DEF old
<1>25. s \in 1..Len(scopes) BY <1>1 DEF m
<1>26. ScopesOK(tt, m, New, spaces) BY <1>9, <1>19, <1>24, <1>25, IdentsReplaced
<1>27. Grown(scopes, tt) BY <1>9, <1>19, <1>24, <1>25, IdentsReplaced
<1>28. Len(tt) = Len(scopes) BY <1>9, <1>19, <1>24, <1>25, IdentsReplaced
<1>29. \A t \in 1..Len(scopes) :
         /\ tt[t].kind = scopes[t].kind /\ tt[t].parent = scopes[t].parent
         /\ tt[t].node = scopes[t].node
  BY <1>9, <1>19, <1>24, <1>25, IdentsReplaced
<1>30. \A t \in 1..Len(scopes) : tt[t].idents = IF t = s THEN new ELSE scopes[t].idents
  BY <1>9, <1>19, <1>24, <1>25, IdentsReplaced
<1> HIDE DEF tt
<1>31. Equivalent(new[i], ident)
  <2>1. Same(added[i], new[i]) BY <1>13, <1>21
  <2> QED BY <2>1, <1>13 DEF Same, Equivalent
<1>32. i \in Nat /\ s \in Nat /\ s # 0 BY <1>1, <1>13
<1>33. /\ c \in Node /\ c.kind = "FUNC" /\ c.name = fname /\ c.sig = p.sig /\ c.at = s
       /\ c.idx = i /\ c.params = ParamNames(s, p.params)
  BY <1>4, <1>5, <1>6, <1>32 DEF Node
<1> HIDE DEF c
<1>34. tt[s].idents = new BY <1>25, <1>30
<1>35. new[i].name = fname /\ (new[i].kind = "FUNC" => new[i].sig = p.sig)
  BY <1>8, <1>31 DEF Equivalent
<1>36. Shape' /\ Grows
  <2>1. c.at \in 1..Len(tt) /\ c.idx \in 1..Len(tt[c.at].idents)
    BY <1>13, <1>20, <1>25, <1>28, <1>33, <1>34
  <2>2. LET x == tt[c.at].idents[c.idx]
        IN  x.name = c.name /\ (x.kind = "FUNC" /\ c.kind = "FUNC" => x.sig = c.sig)
    BY <1>33, <1>34, <1>35
  <2>3. c.at # 0 BY <1>32, <1>33
  <2>4. ScopesOK(tt, Len(scopes), New, SpacesOf(scopes)) BY <1>26 DEF m, spaces
  <2>5. \A a, b \in 1..Len(c.params) : c.params[a] = c.params[b] => a = b
    BY <1>33, ProtoIs, ParamNamesAre
  <2> QED BY <2>1, <2>2, <2>3, <2>4, <2>5, <1>3, <1>27, <1>28, <1>33, ReadShape
<1>37. ASSUME NEW t \in 1..Len(scopes), t # s
       PROVE  tt[t].idents = scopes[t].idents /\ Len(scopes[t].idents) \in Nat
  <2>1. tt[t].idents = scopes[t].idents BY <1>37, <1>30
  <2>2. scopes[t] \in Scope BY <1>1
  <2> QED BY <2>1, <2>2, ScopeFields
<1>38. Called(scopes, tt)
  <2>1. ASSUME NEW t \in 1..Len(scopes)
        PROVE  /\ Len(scopes[t].idents) <= Len(tt[t].idents)
               /\ \A k \in 1..Len(scopes[t].idents) :
                    /\ Same(scopes[t].idents[k], tt[t].idents[k])
                    /\ tt[t].idents[k].def = scopes[t].idents[k].def
                    /\ tt[t].idents[k].scope = scopes[t].idents[k].scope
               /\ \A k \in 1..Len(tt[t].idents) :
                    k > Len(scopes[t].idents) => tt[t].idents[k].scope = 0
    <3>1. CASE t = s
      <4>1. \A k \in 1..Len(added) : new[k].def = added[k].def /\ new[k].scope = added[k].scope
        BY <1>17, <1>22
      <4>2. \A k \in 1..Len(old) : /\ Same(old[k], new[k]) /\ new[k].def = old[k].def
                                  /\ new[k].scope = old[k].scope
        BY <4>1, <1>12, <1>21, <1>23
      <4>3. \A k \in 1..Len(new) : k > Len(old) => new[k].scope = 0
        BY <4>1, <1>8, <1>12, <1>20
      <4>4. tt[t].idents = new /\ scopes[t].idents = old BY <3>1, <1>34 DEF old
      <4> QED BY <4>2, <4>3, <4>4, <1>12, <1>20
    <3>2. CASE t # s BY <3>2, <1>37 DEF Same
    <3> QED BY <3>1, <3>2
  <2> QED BY <1>28, <1>29, <2>1 DEF Called
<1>39. GivenStep(scopes, tt, p)
  <2> SUFFICES ASSUME NEW t \in 1..Len(tt), NEW k \in 1..Len(tt[t].idents)
               PROVE  LET x == tt[t].idents[k]
                      IN  \/ /\ t \in 1..Len(scopes) /\ k \in 1..Len(scopes[t].idents)
                             /\ x.given = scopes[t].idents[k].given
                          \/ x.given = {}
                          \/ /\ x.kind = "FUNC" => x.sig = p.sig
                             /\ MissingDefault(x.given, Len(p.params)) => diags'
    BY DEF GivenStep
  <2>1. t \in 1..Len(scopes) BY <1>28
  <2>2. CASE t # s BY <2>1, <2>2, <1>37
  <2>3. CASE t = s
    <3>1. tt[t].idents = new /\ scopes[t].idents = old /\ k \in 1..Len(added)
      BY <2>3, <1>20, <1>34 DEF old
    <3>2. CASE k = i
      <4>1. new[k].given = given BY <3>2, <1>13, <1>17, <1>22
      <4> QED BY <4>1, <3>1, <3>2, <1>3, <1>35
    <3>3. CASE k # i
      <4>1. new[k] = added[k] BY <3>1, <3>3, <1>22
      <4>2. k \in 1..Len(old) \/ k > Len(old) BY <3>1, <1>14
      <4> QED BY <4>1, <4>2, <3>1, <2>1, <1>8, <1>12
    <3> QED BY <3>2, <3>3
  <2> QED BY <2>2, <2>3
<1> QED BY <1>3, <1>36, <1>38, <1>39

\* midpar_parse_class, without the body.
LEMMA ClassDeclShape ==
  ASSUME Shape, NEW name \in Names, NEW q, NEW body \in BOOLEAN,
         NEW inst \in Names \cup {"none"}, ClassDecl(name, q, body, inst)
  PROVE  Shape' /\ Grows /\ Appended(scopes, scopes')
<1> DEFINE s == Top.scope
           res == Qualified(q, s)
           ident == NewIdent(name, "CLASS", 0, New)
           ss == Declare(scopes, res, ident)
           tt == Instance(ss, s, inst, New)
           d == NewNode("CLASS", name, body)
           i == Place(scopes[res].idents, ident)
           c == [d EXCEPT !.at = res, !.idx = i, !.var = inst # "none"]
           later == SkipDef \/ body
           m == Len(scopes)
           spaces == SpacesOf(scopes)
<1>1. m \in Nat /\ New \in Nat /\ New \in 1..New /\ s \in 1..m /\ scopes \in Seq(Scope)
  BY ShapeTypes
<1>2. name \in AllNames /\ "CLASS" \in IdentKinds BY DEF AllNames, IdentKinds
<1>3. res \in 1..m
  <2>1. ScopesOK(scopes, Len(scopes), Len(nodes), SpacesOf(scopes)) BY DEF Shape
  <2> QED BY <1>1, <2>1, QualifiedIn DEF ScopeIds
<1>4. /\ scopes' = tt /\ nodes' = Append(nodes, c) /\ pc' = pc
      /\ stack' = IF later THEN Todo(stack, New) ELSE stack
      /\ diags' \in BOOLEAN
  BY DEF ClassDecl, Unresolved, BadInstance, Redeclares, Clash, Shape
<1>5. later \in BOOLEAN BY DEF SkipDef
<1> HIDE DEF s, res, m, spaces, later
<1>6. IdentOK(ident, m, New, spaces) BY <1>1, <1>2, NewIdentIs
<1>7. ident.name = name /\ ident.kind = "CLASS" /\ ident.scope = 0 /\ ident.given = {}
  BY DEF NewIdent
<1>8. d \in Node /\ d.kind = "CLASS" /\ d.name = name /\ Len(d.params) = 0
  <2>1. d \in Node /\ d.kind = "CLASS" /\ d.name = name /\ d.params = <<>> BY ZenonT(40), <1>2, NewNodeIs
  <2> HIDE DEF d
  <2> QED BY <2>1
<1> HIDE DEF ident, d
<1>9. ScopesOK(scopes, m, New, spaces) BY ShapeMore DEF m, spaces
<1>10. res \in 1..Len(scopes) /\ s \in 1..Len(scopes) BY <1>1, <1>3 DEF m
<1>11. ScopesOK(ss, m, New, spaces) BY <1>6, <1>9, <1>10, DeclareOK
<1>12. Appended(scopes, ss) BY SMTT(40), <1>6, <1>7, <1>9, <1>10, DeclareOK
<1>13. Len(ss) = Len(scopes) /\ ss[res].idents = AddIdent(scopes[res].idents, ident)
  BY <1>6, <1>9, <1>10, DeclareOK
<1>14. IdentsOK(scopes[res].idents, m, New, spaces) BY <1>9, <1>10 DEF ScopesOK
<1>15. i \in 1..Len(ss[res].idents) /\ Equivalent(ss[res].idents[i], ident)
  BY <1>6, <1>13, <1>14, IdentAdded
<1> HIDE DEF ss, i
<1>16. s \in 1..Len(ss) BY <1>10, <1>13
<1>17. ScopesOK(tt, m, New, spaces) BY <1>1, <1>11, <1>16, InstanceOK
<1>18. Appended(ss, tt) BY <1>1, <1>11, <1>16, InstanceOK
<1> HIDE DEF tt
<1>19. ss \in Seq(Scope) /\ tt \in Seq(Scope) BY <1>11, <1>17 DEF ScopesOK
<1>20. Appended(scopes, tt) BY <1>1, <1>12, <1>18, <1>19, AppendedOn
<1>21. Grown(scopes, tt) /\ Len(tt) = Len(scopes)
  BY <1>1, <1>20, AppendedGrown DEF Appended
<1>22. i \in 1..Len(tt[res].idents) /\ tt[res].idents[i] = ss[res].idents[i]
  <2>1. /\ Len(ss[res].idents) <= Len(tt[res].idents)
        /\ \A k \in 1..Len(ss[res].idents) : tt[res].idents[k] = ss[res].idents[k]
    BY <1>10, <1>13, <1>18 DEF Appended
  <2>2. Len(ss[res].idents) \in Nat /\ Len(tt[res].idents) \in Nat
    <3>1. ss[res] \in Scope /\ tt[res] \in Scope BY <1>10, <1>13, <1>19, <1>21
    <3> QED BY <3>1, ScopeFields
  <2> QED BY <2>1, <2>2, <1>15
<1>23. tt[res].idents[i].name = name
  BY <1>7, <1>15, <1>22 DEF Equivalent
<1>24. i \in Nat /\ res \in Nat /\ res # 0
  BY <1>3, <1>15
<1>25. /\ c \in Node /\ c.kind = "CLASS" /\ c.name = name /\ c.at = res /\ c.idx = i
       /\ Len(c.params) = 0
  BY <1>8, <1>24 DEF Node
<1> HIDE DEF c
<1>26. Shape' /\ Grows
  <2>1. c.at \in 1..Len(tt) /\ c.idx \in 1..Len(tt[c.at].idents)
    BY <1>10, <1>21, <1>22, <1>25
  <2>2. LET x == tt[c.at].idents[c.idx]
        IN  x.name = c.name /\ (x.kind = "FUNC" /\ c.kind = "FUNC" => x.sig = c.sig)
    BY <1>23, <1>25
  <2>3. c.at # 0 BY <1>24, <1>25
  <2>4. ScopesOK(tt, Len(scopes), New, SpacesOf(scopes)) BY <1>17 DEF m, spaces
  <2> QED BY SMTT(40), <2>1, <2>2, <2>3, <2>4, <1>4, <1>5, <1>21, <1>25, ReadShape
<1> QED BY <1>4, <1>20, <1>26

\* A loop over the body of a node may begin.
LEMMA FramesPush ==
  ASSUME NEW st, NEW m, NEW ns, FramesOK(st, m, ns), NEW kind \in {"nodes", "decls"},
         NEW s \in 1..m, s \in Nat, NEW n \in 1..Len(ns), n \in Nat
  PROVE  FramesOK(Append(st, NewFrame(kind, s, n)), m, ns)
<1> DEFINE g == NewFrame(kind, s, n)
           tt == Append(st, g)
<1>1. g \in Frame /\ g.scope = s /\ g.node = n /\ g.todo = <<>> BY DEF NewFrame, Frame
<1> HIDE DEF g
<1>2. st \in Seq(Frame) /\ st # <<>> BY DEF FramesOK
<1>3. /\ tt \in Seq(Frame) /\ Len(tt) = Len(st) + 1 /\ tt[Len(st)+1] = g /\ Len(st) \in Nat
      /\ \A f \in 1..Len(st) : tt[f] = st[f]
  BY <1>1, <1>2, PushIs
<1> HIDE DEF tt
<1>4. tt # <<>> /\ 1 \in 1..Len(st) BY <1>2, <1>3
<1>5. ASSUME NEW f \in 1..Len(tt)
      PROVE  /\ tt[f].scope \in 1..m
             /\ f # 1 => tt[f].node \in 1..Len(ns)
             /\ \A k \in 1..Len(tt[f].todo) :
                  /\ tt[f].todo[k] \in 1..Len(ns)
                  /\ ns[tt[f].todo[k]].kind \in {"VAR", "FUNC", "CLASS"}
  <2>1. CASE f \in 1..Len(st) BY <2>1, <1>3 DEF FramesOK
  <2>2. CASE f = Len(st) + 1
    <3>1. tt[f].scope \in 1..m /\ tt[f].node \in 1..Len(ns) /\ Len(tt[f].todo) = 0
      BY <2>2, <1>1, <1>3
    <3> QED BY <3>1
  <2> QED BY <2>1, <2>2, <1>3
<1>6. FramesOK(tt, m, ns) BY <1>3, <1>4, <1>5 DEF FramesOK
<1> QED BY <1>6 DEF tt, g

\* A definition may be begun.
LEMMA FramesDone ==
  ASSUME NEW st, NEW m, NEW ns, FramesOK(st, m, ns), st[Len(st)].todo # <<>>
  PROVE  FramesOK(Done(st), m, ns)
<1> DEFINE tt == Done(st)
<1>1. st \in Seq(Frame) /\ st # <<>> BY DEF FramesOK
<1>2. /\ tt \in Seq(Frame) /\ Len(tt) = Len(st)
      /\ \A f \in 1..Len(st) :
           /\ tt[f].kind = st[f].kind /\ tt[f].scope = st[f].scope /\ tt[f].node = st[f].node
           /\ tt[f].todo = IF f = Len(st) THEN Tail(st[f].todo) ELSE st[f].todo
  BY <1>1, DoneIs
<1> HIDE DEF tt
<1>3. tt # <<>> /\ 1 \in 1..Len(st)
  <2>1. Len(st) \in Nat /\ Len(st) # 0 BY <1>1
  <2> QED BY <2>1, <1>2
<1>4. ASSUME NEW f \in 1..Len(st), NEW k \in 1..Len(tt[f].todo)
      PROVE  /\ tt[f].todo[k] \in 1..Len(ns)
             /\ ns[tt[f].todo[k]].kind \in {"VAR", "FUNC", "CLASS"}
  <2>1. st[f].todo \in Seq(Nat)
    <3>1. st[f] \in Frame BY <1>1
    <3> QED BY <3>1, FrameFields
  <2>2. \A j \in 1..Len(st[f].todo) : /\ st[f].todo[j] \in 1..Len(ns)
                                     /\ ns[st[f].todo[j]].kind \in {"VAR", "FUNC", "CLASS"}
    BY DEF FramesOK
  <2>3. \E j \in 1..Len(st[f].todo) : tt[f].todo[k] = st[f].todo[j]
    <3>1. CASE f = Len(st)
      <4>1. tt[f].todo = Tail(st[f].todo) /\ st[f].todo # <<>> BY <3>1, <1>2
      <4>2. k+1 \in 1..Len(st[f].todo) /\ tt[f].todo[k] = st[f].todo[k+1] BY SMTT(40), <4>1, <2>1
      <4> QED BY <4>2
    <3>2. CASE f # Len(st)
      <4>1. tt[f].todo = st[f].todo BY <3>2, <1>2
      <4> QED BY <4>1
    <3> QED BY <3>1, <3>2
  <2> QED BY <2>2, <2>3
<1>5. FramesOK(tt, m, ns) BY <1>2, <1>3, <1>4 DEF FramesOK
<1> QED BY <1>5 DEF tt

\* A loop other than that of the file may end.
LEMMA FramesFront ==
  ASSUME NEW st, NEW m, NEW ns, FramesOK(st, m, ns), Len(st) > 1
  PROVE  FramesOK(Front(st), m, ns)
<1> DEFINE tt == Front(st)
<1>1. st \in Seq(Frame) /\ st # <<>> BY DEF FramesOK
<1>2. /\ tt \in Seq(Frame) /\ Len(tt) = Len(st) - 1 /\ tt # <<>> /\ Len(st) \in Nat
      /\ \A f \in 1..Len(st)-1 : tt[f] = st[f]
  BY <1>1, FrontIs
<1> HIDE DEF tt
<1>3. \A f \in 1..Len(tt) : f \in 1..Len(st) /\ tt[f] = st[f] BY <1>2
<1>4. 1 \in 1..Len(tt) BY <1>2
<1>5. FramesOK(tt, m, ns) BY <1>2, <1>3, <1>4 DEF FramesOK
<1> QED BY <1>5 DEF tt

\* The first pass over a class may give way to the second.
LEMMA FramesDefs ==
  ASSUME NEW st, NEW m, NEW ns, FramesOK(st, m, ns), st[Len(st)].kind = "decls"
  PROVE  FramesOK([st EXCEPT ![Len(st)].kind = "defs"], m, ns)
<1> DEFINE tt == [st EXCEPT ![Len(st)].kind = "defs"]
<1>1. st \in Seq(Frame) /\ st # <<>> BY DEF FramesOK
<1>2. /\ tt \in Seq(Frame) /\ Len(tt) = Len(st)
      /\ \A f \in 1..Len(st) :
           /\ tt[f].kind = IF f = Len(st) THEN "defs" ELSE st[f].kind
           /\ tt[f].scope = st[f].scope /\ tt[f].node = st[f].node
           /\ tt[f].todo = st[f].todo
  BY <1>1, DefsIs
<1> HIDE DEF tt
<1>3. Len(st) # 1 /\ 1 \in 1..Len(st) /\ Len(tt) # 0
  <2>1. Len(st) \in Nat /\ Len(st) # 0 BY <1>1
  <2>2. Len(st) # 1 BY DEF FramesOK
  <2> QED BY <2>1, <2>2, <1>2
<1>4. tt # <<>> /\ tt[1].kind = "nodes" BY <1>2, <1>3 DEF FramesOK
<1>5. FramesOK(tt, m, ns) BY <1>2, <1>4 DEF FramesOK
<1> QED BY <1>5 DEF tt
-----------------------------------------------------------------------------
\* A new scope.
LEMMA NewScopeIs ==
  ASSUME NEW kind \in ScopeKinds, NEW parent \in Nat, NEW n \in Nat, NEW idents \in Seq(Ident)
  PROVE  LET c == NewScope(kind, parent, n, idents)
         IN  /\ c \in Scope /\ c.kind = kind /\ c.parent = parent /\ c.node = n
             /\ c.idents = idents
BY DEF NewScope, Scope

\* A namespace: its identifier, then its scope.
LEMMA NamespaceShape ==
  ASSUME Shape, NEW name \in Names, NamespaceDecl(name)
  PROVE  /\ Shape' /\ Grows
         /\ \E mid \in Seq(Scope) :
              /\ Appended(scopes, mid)
              /\ scopes' = Append(mid, NewScope("NAMESPACE", Top.scope, New, <<>>))
<1> DEFINE s == Top.scope
           ident == [NewIdent(name, "NAMESPACE", 0, New) EXCEPT !.def = New]
           mid == Declare(scopes, s, ident)
           c == NewScope("NAMESPACE", s, New, <<>>)
           tt == Append(mid, c)
           node == NewNode("NAMESPACE", name, FALSE)
           m == Len(scopes) + 1
           spaces == SpacesOf(scopes) \cup {New}
<1>1. /\ Len(scopes) \in Nat /\ m \in Nat /\ New \in Nat \ {0} /\ s \in 1..Len(scopes)
      /\ scopes \in Seq(Scope) /\ nodes \in Seq(Node) /\ Len(nodes) \in Nat
      /\ New = Len(nodes) + 1
  BY ShapeTypes
<1>2. /\ scopes' = tt /\ nodes' = Append(nodes, node) /\ pc' = pc
      /\ stack' = Append(stack, NewFrame("nodes", Len(tt), New))
      /\ diags' \in BOOLEAN
  BY DEF NamespaceDecl, Clash, Shape
<1> HIDE DEF s
<1>3. ScopesOK(scopes, m, New, spaces)
  <2>1. ScopesOK(scopes, Len(scopes), New, SpacesOf(scopes)) BY ShapeMore
  <2>2. Len(scopes) <= m BY <1>1
  <2>3. New <= New BY <1>1
  <2> QED BY <2>1, <2>2, <2>3, <1>1, ScopesMore
<1> HIDE DEF m
<1>4. IdentOK(ident, m, New, spaces) /\ ident.scope = 0 /\ ident.given = {}
  <2>1. name \in AllNames /\ "NAMESPACE" \in IdentKinds /\ New \in 1..New /\ New \in spaces
        /\ New \in 0..New
    BY <1>1 DEF AllNames, IdentKinds
  <2>2. IdentOK(NewIdent(name, "NAMESPACE", 0, New), m, New, spaces)
    BY <2>1, <1>1, NewIdentIs
  <2> QED BY <2>1, <2>2, <1>1 DEF NewIdent, IdentOK, Ident
<1> HIDE DEF ident, spaces
<1>5. s \in 1..Len(scopes) BY <1>1
<1>6. ScopesOK(mid, m, New, spaces) BY <1>3, <1>4, <1>5, DeclareOK
<1>7. Appended(scopes, mid) BY <1>3, <1>4, <1>5, DeclareOK
<1>8. Grown(scopes, mid) /\ Len(mid) = Len(scopes) BY <1>1, <1>7, AppendedGrown DEF Appended
<1>9. mid \in Seq(Scope) BY <1>6 DEF ScopesOK
<1> HIDE DEF mid
<1>10. /\ c \in Scope /\ c.parent = s /\ c.node = New /\ c.idents = <<>>
  <2>1. "NAMESPACE" \in ScopeKinds /\ s \in Nat /\ <<>> \in Seq(Ident) BY <1>1 DEF ScopeKinds
  <2>2. c.idents = <<>> BY DEF NewScope
  <2>3. c \in Scope /\ c.parent = s /\ c.node = New BY <2>1, <1>1 DEF NewScope, Scope
  <2> QED BY <2>2, <2>3
<1> HIDE DEF c
<1>11. IdentsOK(c.idents, m, New, spaces)
  <2>1. Len(c.idents) = 0 /\ c.idents \in Seq(Ident) BY <1>10
  <2> QED BY <2>1 DEF IdentsOK, Distinct
<1>12. c.parent \in 1..Len(mid) /\ c.node \in 0..New BY <1>1, <1>8, <1>10
<1>13. ScopesOK(tt, m, New, spaces) BY <1>1, <1>6, <1>10, <1>11, <1>12, ScopeAdded
<1>14. Grown(mid, tt) BY <1>1, <1>6, <1>10, <1>11, <1>12, ScopeAdded
<1>15. Len(tt) = Len(mid) + 1 /\ tt[Len(tt)] = c
  BY <1>1, <1>6, <1>10, <1>11, <1>12, ScopeAdded
<1> HIDE DEF tt
<1>16. Len(tt) = m /\ tt \in Seq(Scope) BY <1>8, <1>13, <1>15 DEF m, ScopesOK
<1>17. Grown(scopes, tt) BY <1>1, <1>8, <1>9, <1>14, <1>16, GrownOn
<1>18. ScopesOK(tt, Len(tt), New, SpacesOf(tt))
  <2>1. SpacesOf(scopes) \subseteq SpacesOf(tt) BY <1>1, <1>16, <1>17, SpacesGrown
  <2>2. Len(tt) \in 1..Len(tt) BY <1>16, <1>1 DEF m
  <2>3. New \in SpacesOf(tt) BY <2>2, <1>10, <1>15 DEF SpacesOf
  <2>4. spaces \subseteq SpacesOf(tt) BY <2>1, <2>3 DEF spaces
  <2>5. m <= m /\ New <= New BY <1>1
  <2>6. ScopesOK(tt, m, New, SpacesOf(tt)) BY <1>1, <1>13, <2>4, <2>5, ScopesMore
  <2> QED BY <2>6, <1>16
<1>19. /\ node \in Node /\ node.kind = "NAMESPACE" /\ node.at = 0 /\ Len(node.params) = 0
  <2>1. name \in AllNames /\ "NAMESPACE" \in IdentKinds BY DEF AllNames, IdentKinds
  <2>2. node \in Node /\ node.kind = "NAMESPACE" /\ node.at = 0 BY <2>1, NewNodeIs
  <2>3. node.params = <<>> BY DEF NewNode
  <2> HIDE DEF node
  <2> QED BY <2>2, <2>3
<1> HIDE DEF node
<1>20. nodes' \in Seq(Node) /\ NodesKept(nodes, nodes') /\ Len(nodes') = New
  BY <1>1, <1>2, <1>19, NodeAdded
<1>21. PointersOK(tt, nodes')
  <2>1. PointersOK(tt, nodes) BY <1>1, <1>16, <1>17, PointersKept DEF Shape
  <2> QED BY <2>1, <1>1, <1>2, <1>19, PointersAdded
<1>22. ParamsOK(nodes')
  <2>1. \A i, j \in 1..Len(node.params) : node.params[i] = node.params[j] => i = j BY <1>19
  <2> QED BY <2>1, <1>1, <1>2, <1>19, ParamsAdded DEF Shape
<1>23. FramesOK(stack', Len(tt), nodes')
  <2>1. Len(scopes) <= Len(tt) BY <1>1, <1>16 DEF m
  <2>2. FramesOK(stack, Len(scopes), nodes) BY DEF Shape
  <2>3. FramesOK(stack, Len(tt), nodes') BY <2>1, <2>2, <1>1, <1>16, <1>20, FramesMore
  <2>4. Len(tt) \in 1..Len(tt) /\ Len(tt) \in Nat /\ New \in 1..Len(nodes') /\ New \in Nat
    BY <1>1, <1>16, <1>20 DEF m
  <2> QED BY <2>3, <2>4, <1>2, FramesPush
<1>24. pc' \in {"run", "done", "no_base", "no_body", "no_var"} BY <1>2 DEF Shape
<1>25. Shape' BY <1>2, <1>18, <1>20, <1>21, <1>22, <1>23, <1>24 DEF Shape
<1> QED BY <1>2, <1>7, <1>9, <1>17, <1>20, <1>25 DEF Grows, tt, c, s

\* A step of the parser that adds neither a scope nor a node.
LEMMA StackShape ==
  ASSUME Shape, FramesOK(stack', Len(scopes), nodes), diags' \in BOOLEAN,
         pc' \in {"run", "done", "no_base", "no_body", "no_var"},
         UNCHANGED <<scopes, nodes>>
  PROVE  Shape' /\ Grows
<1>1. Shape' BY DEF Shape
<1>2. scopes \in Seq(Scope) /\ nodes \in Seq(Node) BY ShapeTypes
<1>3. Grown(scopes, scopes) /\ NodesKept(nodes, nodes) BY <1>2, GrownItself, NodesKeptItself
<1> QED BY <1>1, <1>3 DEF Grows

\* The ends of bodies and of the file, and where the parser gives up.
LEMMA EndShape ==
  ASSUME Shape,
         \/ NoBody \/ EndNodes \/ EndDecls \/ EndMemberClass \/ EndFile
         \/ \E q, base : UndefinedBase(q, base)
  PROVE  Shape' /\ Grows /\ UNCHANGED <<scopes, nodes>>
<1>1. /\ FramesOK(stack, Len(scopes), nodes) /\ diags \in BOOLEAN
      /\ pc \in {"run", "done", "no_base", "no_body", "no_var"}
  BY DEF Shape
<1>2. Len(stack) \in Nat \ {0} /\ Top = stack[Len(stack)] BY ShapeTypes
<1>3. UNCHANGED <<scopes, nodes, diags>>
  BY DEF NoBody, EndNodes, EndDecls, EndMemberClass, EndFile, UndefinedBase
<1>4. pc' \in {"run", "done", "no_base", "no_body", "no_var"}
  BY <1>1 DEF NoBody, EndNodes, EndDecls, EndMemberClass, EndFile, UndefinedBase
<1>5. FramesOK(stack', Len(scopes), nodes)
  <2>1. CASE stack' = stack BY <2>1, <1>1
  <2>2. CASE EndNodes
    <3>1. Len(stack) > 1 /\ stack' = Front(stack) BY <2>2 DEF EndNodes
    <3> QED BY <3>1, <1>1, FramesFront
  <2>3. CASE EndDecls
    <3>1. stack[Len(stack)].kind = "decls" /\ stack' = [stack EXCEPT ![Len(stack)].kind = "defs"]
      BY <2>3, <1>2 DEF EndDecls
    <3> QED BY <3>1, <1>1, FramesDefs
  <2>4. CASE EndMemberClass /\ stack' = Front(stack)
    <3>1. Top.kind = "defs" BY <2>4 DEF EndMemberClass, EndsDefs
    <3>2. Len(stack) # 1 BY <3>1, <1>1, <1>2 DEF FramesOK
    <3>3. Len(stack) > 1 BY SMTT(40), <3>2, <1>2
    <3> QED BY <3>3, <2>4, <1>1, FramesFront
  <2> QED BY <2>1, <2>2, <2>3, <2>4 DEF NoBody, EndMemberClass, EndFile, UndefinedBase
<1> QED BY <1>1, <1>3, <1>4, <1>5, StackShape
\* The definition that is parsed next is of a node, whose pointer is valid.
LEMMA DefIs ==
  ASSUME Shape, Defining
  PROVE  /\ Def \in NodeIds /\ nodes[Def].kind \in {"VAR", "FUNC", "CLASS"}
         /\ stack[Len(stack)].todo # <<>> /\ Def = stack[Len(stack)].todo[1]
         /\ 1 \in 1..Len(stack[Len(stack)].todo)
         /\ nodes[Def].kind # "VAR" =>
              /\ nodes[Def].at \in ScopeIds /\ nodes[Def].at # 0
              /\ nodes[Def].idx \in 1..Len(scopes[nodes[Def].at].idents)
<1> DEFINE l == Len(stack)
<1>1. /\ l \in 1..Len(stack) /\ Top = stack[l] /\ stack[l] \in Frame /\ NodeIds = 1..Len(nodes)
      /\ ScopeIds = 1..Len(scopes)
  BY ShapeTypes
<1>2. stack[l].todo # <<>> /\ stack[l].todo \in Seq(Nat)
  <2>1. stack[l].todo \in Seq(Nat) BY <1>1, FrameFields
  <2> QED BY <2>1, <1>1 DEF Defining
<1>3. 1 \in 1..Len(stack[l].todo) /\ Def = stack[l].todo[1]
  BY <1>1, <1>2 DEF Def
<1>4. Def \in 1..Len(nodes) /\ nodes[Def].kind \in {"VAR", "FUNC", "CLASS"}
  BY <1>1, <1>3 DEF Shape, FramesOK
<1> HIDE DEF l
<1>5. nodes[Def].kind # "VAR" =>
        /\ nodes[Def].at \in 1..Len(scopes) /\ nodes[Def].at # 0
        /\ nodes[Def].idx \in 1..Len(scopes[nodes[Def].at].idents)
  BY <1>4 DEF Shape, PointersOK
<1> QED BY <1>1, <1>2, <1>3, <1>4, <1>5 DEF l

\* A node of the program may define its identifier.
LEMMA DefinesIs ==
  ASSUME Shape, NEW d \in NodeIds, nodes[d].at # 0, NEW m \in Nat, Len(scopes) <= m,
         NEW scope \in 0..m
  PROVE  LET tt == Define(d, scope)
         IN  /\ ScopesOK(tt, m, Len(nodes), SpacesOf(scopes)) /\ Grown(scopes, tt)
             /\ Len(tt) = Len(scopes) /\ Defines(d, scope, tt)
<1> DEFINE spaces == SpacesOf(scopes)
           tt == Define(d, scope)
<1>1. /\ Len(scopes) \in Nat /\ Len(nodes) \in Nat /\ nodes \in Seq(Node)
  BY ShapeTypes
<1>2. ScopesOK(scopes, m, Len(nodes), spaces)
  <2>1. ScopesOK(scopes, Len(scopes), Len(nodes), spaces) BY DEF Shape
  <2>2. Len(nodes) <= Len(nodes) BY <1>1
  <2> QED BY <1>1, <2>1, <2>2, ScopesMore
<1>3. PointersOK(scopes, nodes) /\ scope \in Nat BY DEF Shape
<1>4. ScopesOK(tt, m, Len(nodes), spaces) BY <1>1, <1>2, <1>3, DefineIs
<1>5. Grown(scopes, tt) BY <1>1, <1>2, <1>3, DefineIs
<1>6. Len(tt) = Len(scopes) BY <1>1, <1>2, <1>3, DefineIs
<1>7. Defines(d, scope, tt) BY <1>1, <1>2, <1>3, DefineIs
<1> QED BY <1>4, <1>5, <1>6, <1>7

\* The identifiers of the parameters are fit for the scope of a body.
LEMMA ParamIdentsOK ==
  ASSUME Shape, NEW d \in NodeIds, NEW m \in Nat
  PROVE  /\ IdentsOK(ParamIdents(d), m, Len(nodes), SpacesOf(scopes))
         /\ Len(ParamIdents(d)) = Len(nodes[d].params)
         /\ \A i \in 1..Len(nodes[d].params) :
              ParamIdents(d)[i] = NewIdent(nodes[d].params[i], "VAR", 0, d)
<1> DEFINE params == nodes[d].params
           idents == ParamIdents(d)
           n == Len(nodes)
<1>1. n \in Nat /\ d \in 1..n /\ nodes[d] \in Node BY ShapeTypes DEF NodeIds
<1>2. params \in Seq(Names) BY <1>1, NodeFields
<1>3. \A i, j \in 1..Len(params) : params[i] = params[j] => i = j
  BY <1>1 DEF Shape, ParamsOK
<1>4. idents = [i \in 1..Len(params) |-> NewIdent(params[i], "VAR", 0, d)] BY DEF ParamIdents
<1> HIDE DEF params, idents, n
<1>5. Len(params) \in Nat /\ \A i \in 1..Len(params) : params[i] \in AllNames
  BY <1>2 DEF AllNames
<1>6. \A i \in 1..Len(params) :
        /\ IdentOK(NewIdent(params[i], "VAR", 0, d), m, n, SpacesOf(scopes))
        /\ NewIdent(params[i], "VAR", 0, d).name = params[i]
  <2> TAKE i \in 1..Len(params)
  <2>1. "VAR" \in IdentKinds /\ "VAR" # "NAMESPACE" /\ 0 \in Nat BY DEF IdentKinds
  <2>2. params[i] \in AllNames BY <1>5
  <2>3. IdentOK(NewIdent(params[i], "VAR", 0, d), m, n, SpacesOf(scopes))
    BY <2>1, <2>2, <1>1, NewIdentIs
  <2> QED BY <2>3 DEF NewIdent
<1>7. \A i \in 1..Len(params) : NewIdent(params[i], "VAR", 0, d) \in Ident
  BY <1>6 DEF IdentOK
<1>8. idents \in Seq(Ident) /\ Len(idents) = Len(params)
      /\ \A i \in 1..Len(params) : idents[i] = NewIdent(params[i], "VAR", 0, d)
  BY <1>4, <1>5, <1>7
<1>9. Distinct(idents) BY <1>3, <1>6, <1>8 DEF Distinct, Equivalent
<1> QED BY <1>6, <1>8, <1>9 DEF IdentsOK, params, idents, n

\* The start of a body: its scope and the frame of its loop.
LEMMA OpenShape ==
  ASSUME Shape, Defining, NEW kind \in {"FUNC", "CLASS"}, nodes[Def].kind = kind,
         NEW loop \in {"nodes", "decls"}, NEW idents,
         IdentsOK(idents, Len(scopes) + 1, Len(nodes), SpacesOf(scopes)),
         scopes' = Append(Define(Def, Len(scopes) + 1),
                          NewScope(kind, nodes[Def].at, Def, idents)),
         nodes' = Opened(Def), diags' \in BOOLEAN, pc' = pc,
         stack' = Append(Done(stack), NewFrame(loop, Len(scopes) + 1, Def))
  PROVE  /\ Shape' /\ Grows
         /\ Len(scopes') = Len(scopes) + 1 /\ Defines(Def, Len(scopes) + 1, scopes')
         /\ scopes'[Len(scopes) + 1].kind = kind /\ scopes'[Len(scopes) + 1].node = Def
         /\ scopes'[Len(scopes) + 1].idents = idents
<1> DEFINE m == Len(scopes) + 1
           n == Len(nodes)
           spaces == SpacesOf(scopes)
           mid == Define(Def, m)
           c == NewScope(kind, nodes[Def].at, Def, idents)
           tt == Append(mid, c)
<1>1. /\ Len(scopes) \in Nat /\ m \in Nat /\ n \in Nat /\ scopes \in Seq(Scope)
      /\ nodes \in Seq(Node) /\ NodeIds = 1..n /\ ScopeIds = 1..Len(scopes)
      /\ stack \in Seq(Frame) /\ stack # <<>>
  BY ShapeTypes
<1>2. /\ Def \in NodeIds /\ nodes[Def].at # 0 /\ nodes[Def].at \in 1..Len(scopes)
      /\ stack[Len(stack)].todo # <<>>
  BY DefIs, <1>1
<1>3. scopes' = tt OBVIOUS
<1>4. m \in 0..m /\ Len(scopes) <= m BY <1>1
<1> HIDE DEF m
<1>5. ScopesOK(mid, m, n, spaces) BY <1>1, <1>2, <1>4, DefinesIs
<1>6. Grown(scopes, mid) BY <1>1, <1>2, <1>4, DefinesIs
<1>7. Len(mid) = Len(scopes) /\ Defines(Def, m, mid) BY <1>1, <1>2, <1>4, DefinesIs
<1> HIDE DEF mid
<1>8. mid \in Seq(Scope) BY <1>5 DEF ScopesOK
<1>9. c \in Scope /\ c.kind = kind /\ c.parent = nodes[Def].at /\ c.node = Def /\ c.idents = idents
  <2>1. kind \in ScopeKinds /\ nodes[Def].at \in Nat /\ Def \in Nat /\ idents \in Seq(Ident)
    BY <1>1, <1>2 DEF ScopeKinds, IdentsOK
  <2> QED BY <2>1, NewScopeIs
<1> HIDE DEF c
<1>10. c.parent \in 1..Len(mid) /\ c.node \in 0..n /\ IdentsOK(c.idents, m, n, spaces)
  BY <1>1, <1>2, <1>7, <1>9 DEF m
<1>11. ScopesOK(tt, m, n, spaces) BY <1>1, <1>5, <1>9, <1>10, ScopeAdded
<1>12. Grown(mid, tt) BY <1>1, <1>5, <1>9, <1>10, ScopeAdded
<1>13. Len(tt) = m /\ tt[m] = c BY <1>1, <1>5, <1>7, <1>9, <1>10, ScopeAdded DEF m
<1>14. \A t \in 1..Len(scopes) : tt[t] = mid[t] BY <1>1, <1>5, <1>7, <1>9, <1>10, ScopeAdded
<1> HIDE DEF tt
<1>15. tt \in Seq(Scope) BY <1>11 DEF ScopesOK
<1>16. Grown(scopes, tt) BY <1>1, <1>6, <1>8, <1>12, <1>15, GrownOn
<1>17. ScopesOK(tt, Len(tt), n, SpacesOf(tt)) BY <1>1, <1>11, <1>13, <1>16, ScopesStep
<1>18. nodes' \in Seq(Node) /\ NodesKept(nodes, nodes') /\ Len(nodes') = n
  BY <1>1, <1>2, OpenedIs
<1>19. PointersOK(tt, nodes') /\ ParamsOK(nodes')
  <2>1. PointersOK(tt, nodes) BY <1>1, <1>15, <1>16, PointersKept DEF Shape
  <2>2. ParamsOK(nodes) BY DEF Shape
  <2> QED BY <2>1, <2>2, <1>18, PointersNodes, ParamsNodes
<1>20. FramesOK(stack', Len(tt), nodes')
  <2>1. FramesOK(Done(stack), Len(scopes), nodes) BY <1>2, FramesDone DEF Shape
  <2>2. FramesOK(Done(stack), m, nodes') BY <2>1, <1>1, <1>4, <1>18, FramesMore
  <2>3. m \in 1..m /\ m \in Nat /\ Def \in 1..Len(nodes') /\ Def \in Nat
    BY <1>1, <1>2, <1>18 DEF m
  <2>4. stack' = Append(Done(stack), NewFrame(loop, m, Def)) BY DEF m
  <2> QED BY <2>2, <2>3, <2>4, <1>13, FramesPush
<1>21. pc' \in {"run", "done", "no_base", "no_body", "no_var"} BY DEF Shape
<1>22. Shape' BY <1>3, <1>17, <1>18, <1>19, <1>20, <1>21 DEF Shape
<1>23. Defines(Def, m, tt)
  <2>1. \A t \in ScopeIds : tt[t] = mid[t] BY <1>1, <1>14
  <2>2. Defines(Def, m, mid) BY <1>7
  <2> QED BY <2>1, <2>2, SMTT(30) DEF Defines
<1> QED BY <1>3, <1>9, <1>13, <1>16, <1>18, <1>22, <1>23 DEF Grows, m

\* midpar_parse_func_body, to the start of its loop.
LEMMA OpenFuncShape ==
  ASSUME Shape, OpenFunc
  PROVE  /\ Shape' /\ Grows
         /\ Len(scopes') = Len(scopes) + 1 /\ Defines(Def, Len(scopes) + 1, scopes')
         /\ scopes'[Len(scopes) + 1].kind = "FUNC" /\ scopes'[Len(scopes) + 1].node = Def
         /\ scopes'[Len(scopes) + 1].idents = ParamIdents(Def)
<1>1. /\ Defining /\ nodes[Def].kind = "FUNC" /\ nodes' = Opened(Def) /\ pc' = pc
      /\ scopes' = Append(Define(Def, Len(scopes) + 1),
                          NewScope("FUNC", nodes[Def].at, Def, ParamIdents(Def)))
      /\ stack' = Append(Done(stack), NewFrame("nodes", Len(scopes) + 1, Def))
      /\ diags' \in BOOLEAN
  BY DEF OpenFunc, Redefined, Shape
<1>2. Def \in NodeIds BY <1>1, DefIs
<1>3. Len(scopes) + 1 \in Nat BY ShapeTypes
<1>4. IdentsOK(ParamIdents(Def), Len(scopes) + 1, Len(nodes), SpacesOf(scopes))
  BY <1>2, <1>3, ParamIdentsOK
<1> QED BY <1>1, <1>4, OpenShape

\* parse_class_body, to the start of parse_decls.
LEMMA OpenClassShape ==
  ASSUME Shape, OpenClass
  PROVE  /\ Shape' /\ Grows
         /\ Len(scopes') = Len(scopes) + 1 /\ Defines(Def, Len(scopes) + 1, scopes')
         /\ scopes'[Len(scopes) + 1].kind = "CLASS" /\ scopes'[Len(scopes) + 1].node = Def
         /\ scopes'[Len(scopes) + 1].idents = <<>>
<1>1. /\ Defining /\ nodes[Def].kind = "CLASS" /\ nodes' = Opened(Def) /\ pc' = pc
      /\ scopes' = Append(Define(Def, Len(scopes) + 1),
                          NewScope("CLASS", nodes[Def].at, Def, <<>>))
      /\ stack' = Append(Done(stack), NewFrame("decls", Len(scopes) + 1, Def))
      /\ diags' \in BOOLEAN
  BY DEF OpenClass, Redefined, Shape
<1>2. IdentsOK(<<>>, Len(scopes) + 1, Len(nodes), SpacesOf(scopes))
  BY DEF IdentsOK, Distinct
<1> QED BY <1>1, <1>2, OpenShape

\* An initializer.
LEMMA ReadInitShape ==
  ASSUME Shape, ReadInit
  PROVE  Shape' /\ Grows /\ scopes' = scopes
<1>1. Defining /\ nodes' = Opened(Def) /\ stack' = Done(stack) /\ UNCHANGED <<scopes, diags, pc>>
  BY DEF ReadInit
<1>2. /\ scopes \in Seq(Scope) /\ nodes \in Seq(Node) /\ Len(scopes) \in Nat
  BY ShapeTypes
<1>3. Def \in NodeIds /\ stack[Len(stack)].todo # <<>> BY <1>1, DefIs
<1>4. nodes' \in Seq(Node) /\ NodesKept(nodes, nodes') /\ Len(nodes') = Len(nodes)
  BY <1>1, <1>2, <1>3, OpenedIs
<1>5. PointersOK(scopes, nodes') /\ ParamsOK(nodes')
  <2>1. PointersOK(scopes, nodes) /\ ParamsOK(nodes) BY DEF Shape
  <2> QED BY <2>1, <1>4, PointersNodes, ParamsNodes
<1>6. FramesOK(stack', Len(scopes), nodes')
  <2>1. FramesOK(stack', Len(scopes), nodes) BY <1>1, <1>3, FramesDone DEF Shape
  <2>2. Len(scopes) <= Len(scopes) BY <1>2
  <2> QED BY <2>1, <2>2, <1>2, <1>4, FramesMore
<1>7. Shape' BY <1>1, <1>4, <1>5, <1>6 DEF Shape
<1>8. Grown(scopes, scopes) BY <1>2, GrownItself
<1> QED BY <1>1, <1>4, <1>7, <1>8 DEF Grows

\* The body of a function that is not closed.
LEMMA UnclosedFuncShape ==
  ASSUME Shape, UnclosedFunc
  PROVE  Shape' /\ Grows /\ nodes' = nodes /\ diags' = TRUE
<1> DEFINE scope == IdentOf(Def).scope
           tt == Define(Def, scope)
<1>1. /\ Defining /\ nodes[Def].kind = "FUNC" /\ scopes' = tt /\ diags' = TRUE
      /\ stack' = Done(stack) /\ UNCHANGED <<nodes, pc>>
  BY DEF UnclosedFunc
<1>2. /\ scopes \in Seq(Scope) /\ nodes \in Seq(Node) /\ Len(scopes) \in Nat
      /\ Len(nodes) \in Nat /\ ScopeIds = 1..Len(scopes)
  BY ShapeTypes
<1>3. /\ Def \in NodeIds /\ stack[Len(stack)].todo # <<>> /\ nodes[Def].at # 0
      /\ nodes[Def].at \in 1..Len(scopes)
      /\ nodes[Def].idx \in 1..Len(scopes[nodes[Def].at].idents)
  BY <1>1, <1>2, DefIs
<1>4. scope \in 0..Len(scopes)
  <2>1. IdentsOK(scopes[nodes[Def].at].idents, Len(scopes), Len(nodes), SpacesOf(scopes))
    BY <1>3 DEF Shape, ScopesOK
  <2> QED BY <2>1, <1>3 DEF IdentsOK, IdentOK, IdentOf
<1>5. Len(scopes) <= Len(scopes) BY <1>2
<1> HIDE DEF scope
<1>6. ScopesOK(tt, Len(scopes), Len(nodes), SpacesOf(scopes)) BY <1>2, <1>3, <1>4, <1>5, DefinesIs
<1>7. Grown(scopes, tt) /\ Len(tt) = Len(scopes) BY <1>2, <1>3, <1>4, <1>5, DefinesIs
<1> HIDE DEF tt
<1>8. ScopesOK(tt, Len(tt), Len(nodes), SpacesOf(tt)) BY <1>2, <1>6, <1>7, ScopesStep
<1>9. tt \in Seq(Scope) BY <1>6 DEF ScopesOK
<1>10. PointersOK(tt, nodes) BY <1>2, <1>7, <1>9, PointersKept DEF Shape
<1>11. FramesOK(stack', Len(tt), nodes) BY <1>1, <1>3, <1>7, FramesDone DEF Shape
<1>12. Shape' BY <1>1, <1>8, <1>10, <1>11 DEF Shape
<1>13. NodesKept(nodes, nodes) BY <1>2, NodesKeptItself
<1> QED BY <1>1, <1>7, <1>12, <1>13 DEF Grows

\* midpar_parse_class, after the body.
LEMMA EndClassShape ==
  ASSUME Shape, NEW inst \in Names \cup {"none"}, EndClass(inst)
  PROVE  Shape' /\ Grows /\ Appended(scopes, scopes') /\ nodes' = nodes
<1> DEFINE l == Len(stack)
           s == Outer.scope
           tt == Instance(scopes, s, inst, Top.node)
<1>1. /\ scopes \in Seq(Scope) /\ nodes \in Seq(Node) /\ Len(scopes) \in Nat
      /\ Len(nodes) \in Nat /\ l \in Nat \ {0} /\ Top = stack[l]
  BY ShapeTypes
<1>2. /\ Top.kind = "defs" /\ stack' = Front(stack) /\ scopes' = tt /\ diags' \in BOOLEAN
      /\ UNCHANGED <<nodes, pc>>
  BY DEF EndClass, EndsDefs, BadInstance, Redeclares, Clash, Shape
<1>3. l # 1 BY <1>1, <1>2 DEF Shape, FramesOK
<1>4. l > 1 /\ l \in 1..Len(stack) /\ l-1 \in 1..Len(stack)
  <2>1. l \in Nat \ {0} /\ l # 1 BY <1>1, <1>3
  <2> QED BY <2>1
<1>5. s \in 1..Len(scopes) BY <1>4 DEF Outer, Shape, FramesOK
<1>6. Top.node \in 1..Len(nodes) BY <1>1, <1>3, <1>4 DEF Shape, FramesOK
<1>7. ScopesOK(scopes, Len(scopes), Len(nodes), SpacesOf(scopes)) BY DEF Shape
<1> HIDE DEF s
<1>8. ScopesOK(tt, Len(scopes), Len(nodes), SpacesOf(scopes))
  BY <1>1, <1>5, <1>6, <1>7, InstanceOK
<1>9. Appended(scopes, tt) BY <1>1, <1>5, <1>6, <1>7, InstanceOK
<1> HIDE DEF tt
<1>10. Grown(scopes, tt) /\ Len(tt) = Len(scopes) BY <1>1, <1>9, AppendedGrown DEF Appended
<1>11. ScopesOK(tt, Len(tt), Len(nodes), SpacesOf(tt)) BY <1>1, <1>8, <1>10, ScopesStep
<1>12. tt \in Seq(Scope) BY <1>8 DEF ScopesOK
<1>13. PointersOK(tt, nodes) BY <1>1, <1>10, <1>12, PointersKept DEF Shape
<1>14. FramesOK(stack', Len(tt), nodes) BY <1>2, <1>4, <1>10, FramesFront DEF Shape
<1>15. Shape' BY <1>2, <1>11, <1>13, <1>14 DEF Shape
<1>16. NodesKept(nodes, nodes) BY <1>1, NodesKeptItself
<1> QED BY <1>2, <1>9, <1>10, <1>15, <1>16 DEF Grows
-----------------------------------------------------------------------------
\* At first there is the root, which is empty.
LEMMA InitShape == Init => Shape
<1> SUFFICES ASSUME Init PROVE Shape OBVIOUS
<1> DEFINE c == NewScope("ROOT", 0, 0, <<>>)
           f == NewFrame("nodes", 1, 0)
<1>1. c \in Scope /\ c.kind = "ROOT" /\ c.parent = 0 /\ c.node = 0
  <2>1. <<>> \in Seq(Ident) OBVIOUS
  <2> QED BY <2>1 DEF NewScope, Scope, ScopeKinds
<1>2. c.idents = <<>> BY DEF NewScope
<1>3. f \in Frame /\ f.kind = "nodes" /\ f.scope = 1 BY DEF NewFrame, Frame
<1>4. f.todo = <<>> BY DEF NewFrame
<1>5. scopes = <<c>> /\ stack = <<f>> /\ nodes = <<>> /\ diags = FALSE /\ pc = "run" BY DEF Init
<1> HIDE DEF c, f
<1>6. Len(c.idents) = 0 /\ c.idents \in Seq(Ident) /\ Len(f.todo) = 0 BY <1>2, <1>4
<1>7. IdentsOK(c.idents, 1, 0, SpacesOf(scopes)) BY <1>6 DEF IdentsOK, Distinct
<1>8. ScopesOK(scopes, Len(scopes), Len(nodes), SpacesOf(scopes))
  <2>1. scopes \in Seq(Scope) /\ scopes # <<>> /\ Len(scopes) = 1 /\ scopes[1] = c
    BY <1>1, <1>5
  <2>2. Len(nodes) = 0 BY <1>5
  <2>3. \A s \in 1..Len(scopes) : s = 1 BY <2>1
  <2> QED BY <2>1, <2>2, <2>3, <1>1, <1>7 DEF ScopesOK
<1>9. nodes \in Seq(Node) /\ Len(nodes) = 0 BY <1>5
<1>10. PointersOK(scopes, nodes) /\ ParamsOK(nodes) BY <1>9 DEF PointersOK, ParamsOK
<1>11. FramesOK(stack, Len(scopes), nodes)
  <2>1. stack \in Seq(Frame) /\ stack # <<>> /\ Len(stack) = 1 /\ stack[1] = f BY <1>3, <1>5
  <2>2. Len(scopes) = 1 BY <1>5
  <2>3. \A g \in 1..Len(stack) : g = 1 BY <2>1
  <2> QED BY <2>1, <2>2, <2>3, <1>3, <1>6 DEF FramesOK
<1> QED BY <1>5, <1>8, <1>9, <1>10, <1>11 DEF Shape

\* Nothing happens.
LEMMA StutterShape ==
  ASSUME Shape, UNCHANGED vars
  PROVE  Shape' /\ Grows
<1>1. scopes \in Seq(Scope) /\ nodes \in Seq(Node) BY ShapeTypes
<1>2. Grown(scopes, scopes) /\ NodesKept(nodes, nodes) BY <1>1, GrownItself, NodesKeptItself
<1>3. scopes' = scopes /\ nodes' = nodes /\ stack' = stack /\ diags' = diags /\ pc' = pc BY DEF vars
<1>4. Shape' BY <1>3 DEF Shape
<1> QED BY <1>2, <1>3, <1>4 DEF Grows

\* Each step keeps the shape of the state, and what is there in its place.
LEMMA NextShape == Shape /\ [Next]_vars => Shape' /\ Grows
<1> SUFFICES ASSUME Shape, [Next]_vars PROVE Shape' /\ Grows OBVIOUS
<1>1. ASSUME NEW name \in Names, NEW kind \in {"VAR", "TYPEDEF"}, NEW init \in BOOLEAN,
             VarDecl(name, kind, init)
      PROVE  Shape' /\ Grows
  BY <1>1, VarDeclShape
<1>2. ASSUME NEW name \in Names, NEW p \in Protos, NEW body \in BOOLEAN, FuncDecl(name, p, body)
      PROVE  Shape' /\ Grows
  BY <1>2, FuncDeclShape
<1>3. ASSUME NEW name \in Names, NEW q, NEW body \in BOOLEAN, NEW inst \in Names \cup {"none"},
             ClassDecl(name, q, body, inst)
      PROVE  Shape' /\ Grows
  BY <1>3, ClassDeclShape
<1>4. ASSUME NEW name \in Names, NamespaceDecl(name) PROVE Shape' /\ Grows
  BY <1>4, NamespaceShape
<1>5. CASE ReadInit BY <1>5, ReadInitShape
<1>6. CASE OpenFunc BY <1>6, OpenFuncShape
<1>7. CASE UnclosedFunc BY <1>7, UnclosedFuncShape
<1>8. CASE OpenClass BY <1>8, OpenClassShape
<1>9. ASSUME NEW inst \in Names \cup {"none"}, EndClass(inst) PROVE Shape' /\ Grows
  BY <1>9, EndClassShape
<1>10. CASE \/ NoBody \/ EndNodes \/ EndDecls \/ EndMemberClass \/ EndFile
            \/ \E q, base : UndefinedBase(q, base)
  BY <1>10, EndShape
<1>11. CASE UNCHANGED vars BY <1>11, StutterShape
<1> QED BY <1>1, <1>2, <1>3, <1>4, <1>5, <1>6, <1>7, <1>8, <1>9, <1>10, <1>11 DEF Next

\* The scopes, nodes and frames keep their shape, whatever is declared: scopes
\* a tree of distinct identifiers, pointers valid, frames within bounds.
THEOREM ShapeKept == Spec => []Shape
<1>1. Init => Shape BY InitShape
<1>2. Shape /\ [Next]_vars => Shape' BY NextShape
<1> QED BY <1>1, <1>2, PTL DEF Spec

\* Scopes, identifiers and nodes are only ever added, behind those that are
\* there; what a scope, an identifier or a node is does not change.
THEOREM OnlyAdded == Spec => [][Grows]_vars
<1>1. Init => Shape BY InitShape
<1>2. Shape /\ [Next]_vars => Shape' /\ Grows BY NextShape
<1> QED BY <1>1, <1>2, PTL DEF Spec

\* Types of the state; scopes form a tree with the root first.
THEOREM TypesKept == Spec => []TypeOK
<1>1. Shape => TypeOK
  <2> SUFFICES ASSUME Shape PROVE TypeOK OBVIOUS
  <2>1. /\ scopes \in Seq(Scope) /\ scopes # <<>> /\ nodes \in Seq(Node)
        /\ stack \in Seq(Frame) /\ stack # <<>> /\ diags \in BOOLEAN
        /\ pc \in {"run", "done", "no_base", "no_body", "no_var"}
    BY DEF Shape, ScopesOK, FramesOK
  <2>2. \A s \in ScopeIds : scopes[s].parent < s
    <3> TAKE s \in ScopeIds
    <3>1. s \in 1..Len(scopes) BY DEF ScopeIds
    <3>2. CASE s = 1 BY <3>2 DEF Shape, ScopesOK
    <3>3. CASE s # 1
      <4>1. scopes[s].parent \in 1..s-1 BY <3>1, <3>3 DEF Shape, ScopesOK
      <4> QED BY <4>1, <3>1
    <3> QED BY <3>2, <3>3
  <2>3. ASSUME NEW f \in 1..Len(stack)
        PROVE  stack[f].scope \in ScopeIds /\ Range(stack[f].todo) \subseteq NodeIds
    <3>1. stack[f].scope \in ScopeIds /\ \A k \in 1..Len(stack[f].todo) : stack[f].todo[k] \in NodeIds
      BY DEF Shape, FramesOK, ScopeIds, NodeIds
    <3>2. DOMAIN stack[f].todo = 1..Len(stack[f].todo)
      <4>1. stack[f] \in Frame BY <2>1
      <4>2. stack[f].todo \in Seq(Nat) BY <4>1, FrameFields
      <4> QED BY <4>2
    <3> QED BY <3>1, <3>2 DEF Range
  <2> QED BY <2>1, <2>2, <2>3 DEF TypeOK
<1> QED BY <1>1, ShapeKept, PTL

\* No scope ever holds two equivalent identifiers, whatever is declared.
THEOREM IdentifiersDistinct == Spec => []NoTwoEquivalent
<1>1. Shape => NoTwoEquivalent
  BY DEF Shape, ScopesOK, IdentsOK, Distinct, NoTwoEquivalent, ScopeIds
<1> QED BY <1>1, ShapeKept, PTL

\* What a function or class node points at goes by its name for good.
THEOREM PointersValid == Spec => []IdentPtrsValid
<1>1. Shape => IdentPtrsValid
  BY DEF Shape, PointersOK, IdentPtrsValid, IdentOf, ScopeIds, NodeIds
<1> QED BY <1>1, ShapeKept, PTL
-----------------------------------------------------------------------------
(***************************************************************************)
(* The two passes over a class: a node waits for its definition in one     *)
(* place, is opened once, and not before its class has been read to its    *)
(* end.  The predicates take the nodes and the frames as parameters, for a *)
(* step of the parser changes both one after the other.                    *)
(*                                                                         *)
(* Then what the definitions leave behind, which needs the order of the    *)
(* passes: a node that was opened is the definition of its identifier only *)
(* if it is not opened again.                                              *)
(***************************************************************************)
WaitsIn(st, n) ==
  \E f \in 1..Len(st) : \E k \in 1..Len(st[f].todo) : st[f].todo[k] = n

\* What waits is yet to be opened, in the frame of the class it belongs to.
Waiting(ns, st) ==
  \A f \in 1..Len(st) : \A k \in 1..Len(st[f].todo) :
    LET n == st[f].todo[k]
    IN  /\ ns[n].opened = 0
        /\ ns[n].body \/ ns[n].kind = "CLASS"
        /\ ns[n].owner = IF st[f].kind = "nodes" THEN 0 ELSE st[f].node

WaitsOnce(st) ==
  \A f, g \in 1..Len(st) : \A k \in 1..Len(st[f].todo), l \in 1..Len(st[g].todo) :
    st[f].todo[k] = st[g].todo[l] => f = g /\ k = l

\* Each loop but that of the file is over the body of a node of its own.
FrameNodes(ns, st) ==
  /\ \A f \in 2..Len(st) :
       /\ st[f].kind # "nodes" => ns[st[f].node].opened > 0
       /\ ns[st[f].node].opened > 0 \/ ns[st[f].node].kind = "NAMESPACE"
  /\ \A f, g \in 2..Len(st) : st[f].node = st[g].node => f = g

OpenedOnce(ns) ==
  \A n \in 1..Len(ns) :
    /\ ns[n].opened \in {0, 1}
    /\ ns[n].opened = 1 => ns[n].body
    /\ ns[n].owner # 0 => ns[n].owner \in 1..Len(ns) /\ ns[ns[n].owner].opened > 0

\* While a class is read for the first time, none of its members is opened.
MembersWait(ns, st) ==
  \A f \in 1..Len(st) : st[f].kind = "decls" =>
    \A n \in 1..Len(ns) : ns[n].owner = st[f].node => ns[n].opened = 0

Passing(ns, st) ==
  /\ Waiting(ns, st)
  /\ WaitsOnce(st)
  /\ FrameNodes(ns, st)
  /\ OpenedOnce(ns)
  /\ MembersWait(ns, st)

NoneLost(ns, st) ==
  \A n \in 1..Len(ns) : ns[n].body /\ ns[n].opened = 0 => WaitsIn(st, n)

AtEnd == pc = "done" => Len(stack) = 1 /\ stack[1].todo = <<>>

Passes ==
  /\ Passing(nodes, stack)
  /\ ~diags => NoneLost(nodes, stack)
  /\ AtEnd
-----------------------------------------------------------------------------
\* The frames of a stack and what they refer to.
LEMMA FramesAre ==
  ASSUME NEW st, NEW m, NEW ns \in Seq(Node), FramesOK(st, m, ns)
  PROVE  /\ st \in Seq(Frame) /\ st # <<>> /\ Len(st) \in Nat \ {0} /\ Len(ns) \in Nat
         /\ Len(st) \in 1..Len(st)
         /\ \A f \in 1..Len(st) :
              /\ st[f].todo \in Seq(Nat) /\ Len(st[f].todo) \in Nat
              /\ st[f].kind # "nodes" => f \in 2..Len(st)
              /\ f \in 2..Len(st) => st[f].node \in 1..Len(ns)
              /\ \A k \in 1..Len(st[f].todo) :
                   /\ st[f].todo[k] \in 1..Len(ns)
                   /\ ns[st[f].todo[k]].kind \in {"VAR", "FUNC", "CLASS"}
<1>1. st \in Seq(Frame) /\ st # <<>> BY DEF FramesOK
<1>2. Len(st) \in Nat \ {0} /\ Len(st) \in 1..Len(st) /\ Len(ns) \in Nat BY <1>1
<1>3. ASSUME NEW f \in 1..Len(st)
      PROVE  /\ st[f].todo \in Seq(Nat) /\ Len(st[f].todo) \in Nat
             /\ st[f].kind # "nodes" => f \in 2..Len(st)
             /\ f \in 2..Len(st) => st[f].node \in 1..Len(ns)
  <2>1. st[f] \in Frame BY <1>1
  <2>2. st[f].todo \in Seq(Nat) BY <2>1, FrameFields
  <2>3. f = 1 \/ f \in 2..Len(st) BY <1>2
  <2> QED BY <2>2, <2>3 DEF FramesOK
<1> QED BY <1>1, <1>2, <1>3 DEF FramesOK

\* Where a node waits there is one place.
LEMMA OnePlace ==
  ASSUME NEW st, WaitsOnce(st), NEW f \in 1..Len(st), NEW g \in 1..Len(st),
         NEW k \in 1..Len(st[f].todo), NEW l \in 1..Len(st[g].todo),
         st[f].todo[k] = st[g].todo[l]
  PROVE  f = g /\ k = l
BY DEF WaitsOnce

\* A node is added that waits for nothing yet.
LEMMA NodePassing ==
  ASSUME NEW st, NEW m, NEW ns \in Seq(Node), FramesOK(st, m, ns), Passing(ns, st),
         NEW c \in Node, c.opened = 0,
         c.owner # 0 => c.owner \in 1..Len(ns) /\ ns[c.owner].opened > 0
  PROVE  Passing(Append(ns, c), st)
<1> DEFINE ms == Append(ns, c)
<1>1. /\ Len(ms) = Len(ns) + 1 /\ Len(ns) \in Nat
      /\ ms[Len(ns)+1] = c /\ \A n \in 1..Len(ns) : ms[n] = ns[n]
  OBVIOUS
<1> HIDE DEF ms
<1>2. \A f \in 1..Len(st) :
        /\ f \in 2..Len(st) => st[f].node \in 1..Len(ns)
        /\ \A k \in 1..Len(st[f].todo) : st[f].todo[k] \in 1..Len(ns)
  BY FramesAre
<1>3. \A n \in 1..Len(ms) : n \in 1..Len(ns) \/ n = Len(ns) + 1 BY <1>1
<1>4. \A n \in 1..Len(ns) : n \in 1..Len(ms) BY <1>1
<1>5. Waiting(ms, st) BY <1>1, <1>2 DEF Passing, Waiting
<1>6. WaitsOnce(st) BY DEF Passing
<1>7. FrameNodes(ms, st)
  <2>1. \A f \in 2..Len(st) : ms[st[f].node] = ns[st[f].node]
    <3> TAKE f \in 2..Len(st)
    <3>1. f \in 1..Len(st) /\ f \in 2..Len(st) BY FramesAre
    <3> QED BY <3>1, <1>1, <1>2
  <2> QED BY <2>1 DEF Passing, FrameNodes
<1>8. OpenedOnce(ms)
  <2> SUFFICES ASSUME NEW n \in 1..Len(ms)
               PROVE  /\ ms[n].opened \in {0, 1}
                      /\ ms[n].opened = 1 => ms[n].body
                      /\ ms[n].owner # 0 => /\ ms[n].owner \in 1..Len(ms)
                                            /\ ms[ms[n].owner].opened > 0
    BY DEF OpenedOnce
  <2>1. CASE n \in 1..Len(ns)
    <3>1. /\ ns[n].opened \in {0, 1} /\ (ns[n].opened = 1 => ns[n].body)
          /\ ns[n].owner # 0 => ns[n].owner \in 1..Len(ns) /\ ns[ns[n].owner].opened > 0
      BY <2>1 DEF Passing, OpenedOnce
    <3> QED BY <3>1, <2>1, <1>1, <1>4
  <2>2. CASE n = Len(ns) + 1 BY <2>2, <1>1, <1>4
  <2> QED BY <2>1, <2>2, <1>3
<1>9. MembersWait(ms, st) BY <1>1, <1>3 DEF Passing, MembersWait
<1> QED BY <1>5, <1>6, <1>7, <1>8, <1>9 DEF Passing, ms

\* A node is put last in the innermost frame.
LEMMA TodoPassing ==
  ASSUME NEW st, NEW m, NEW ns \in Seq(Node), FramesOK(st, m, ns), Passing(ns, st),
         NEW n \in Nat, ~WaitsIn(st, n), ns[n].opened = 0, ns[n].body \/ ns[n].kind = "CLASS",
         ns[n].owner = IF st[Len(st)].kind = "nodes" THEN 0 ELSE st[Len(st)].node
  PROVE  Passing(ns, Todo(st, n))
<1> DEFINE tt == Todo(st, n)
           l == Len(st)
<1>1. /\ st \in Seq(Frame) /\ st # <<>> /\ l \in 1..Len(st) /\ Len(st) \in Nat
      /\ \A f \in 1..Len(st) : st[f].todo \in Seq(Nat) /\ Len(st[f].todo) \in Nat
  BY FramesAre
<1>2. /\ Len(tt) = Len(st)
      /\ \A f \in 1..Len(st) : tt[f].kind = st[f].kind /\ tt[f].node = st[f].node
      /\ \A f \in 1..Len(st) : f # l => tt[f].todo = st[f].todo
      /\ tt[l].todo = Append(st[l].todo, n)
  <2>1. /\ Len(tt) = Len(st)
        /\ \A f \in 1..Len(st) :
             /\ tt[f].kind = st[f].kind /\ tt[f].node = st[f].node
             /\ tt[f].todo = IF f = Len(st) THEN Append(st[f].todo, n) ELSE st[f].todo
    BY <1>1, TodoIs
  <2> HIDE DEF tt
  <2> QED BY <1>1, <2>1
<1> HIDE DEF tt
<1>3. /\ Len(tt[l].todo) = Len(st[l].todo) + 1 /\ tt[l].todo[Len(st[l].todo)+1] = n
      /\ \A k \in 1..Len(st[l].todo) : tt[l].todo[k] = st[l].todo[k]
  <2>1. st[l].todo \in Seq(Nat) BY <1>1
  <2> QED BY <2>1, <1>2
<1> HIDE DEF l
<1>4. ASSUME NEW f \in 1..Len(tt), NEW k \in 1..Len(tt[f].todo)
      PROVE  \/ k \in 1..Len(st[f].todo) /\ tt[f].todo[k] = st[f].todo[k]
             \/ f = l /\ k = Len(st[l].todo) + 1 /\ tt[f].todo[k] = n
  <2>1. CASE f = l
    <3>1. k \in 1..Len(st[l].todo) \/ k = Len(st[l].todo) + 1 BY <2>1, <1>1, <1>3
    <3> QED BY <3>1, <2>1, <1>3
  <2>2. CASE f # l BY <2>2, <1>2
  <2> QED BY <2>1, <2>2
<1>5. \A f \in 1..Len(tt) : f \in 1..Len(st) BY <1>2
<1>6. Waiting(ns, tt)
  <2> SUFFICES ASSUME NEW f \in 1..Len(tt), NEW k \in 1..Len(tt[f].todo)
               PROVE  LET x == tt[f].todo[k]
                      IN  /\ ns[x].opened = 0
                          /\ ns[x].body \/ ns[x].kind = "CLASS"
                          /\ ns[x].owner = IF tt[f].kind = "nodes" THEN 0 ELSE tt[f].node
    BY DEF Waiting
  <2>1. f \in 1..Len(st) /\ tt[f].kind = st[f].kind /\ tt[f].node = st[f].node BY <1>2
  <2>2. CASE k \in 1..Len(st[f].todo) /\ tt[f].todo[k] = st[f].todo[k]
    <3>1. \A x \in 1..Len(st[f].todo) :
            /\ ns[st[f].todo[x]].opened = 0
            /\ ns[st[f].todo[x]].body \/ ns[st[f].todo[x]].kind = "CLASS"
            /\ ns[st[f].todo[x]].owner = IF st[f].kind = "nodes" THEN 0 ELSE st[f].node
      BY <2>1 DEF Passing, Waiting
    <3> QED BY <2>1, <2>2, <3>1
  <2>3. CASE f = l /\ tt[f].todo[k] = n
    <3>1. st[l] = st[Len(st)] BY DEF l
    <3> QED BY <3>1, <2>1, <2>3, Zenon
  <2> QED BY <2>2, <2>3, <1>4
<1>7. WaitsOnce(tt)
  <2> SUFFICES ASSUME NEW f \in 1..Len(tt), NEW g \in 1..Len(tt),
                      NEW j \in 1..Len(tt[f].todo), NEW k \in 1..Len(tt[g].todo),
                      tt[f].todo[j] = tt[g].todo[k]
               PROVE  f = g /\ j = k
    BY DEF WaitsOnce
  <2>1. f \in 1..Len(st) /\ g \in 1..Len(st) BY <1>5
  <2>2. \A h \in 1..Len(st) : \A i \in 1..Len(st[h].todo) : st[h].todo[i] # n BY DEF WaitsIn
  <2>3. WaitsOnce(st) BY DEF Passing
  <2>4. \/ j \in 1..Len(st[f].todo) /\ tt[f].todo[j] = st[f].todo[j]
        \/ f = l /\ j = Len(st[l].todo) + 1 /\ tt[f].todo[j] = n
    BY <1>4
  <2>5. \/ k \in 1..Len(st[g].todo) /\ tt[g].todo[k] = st[g].todo[k]
        \/ g = l /\ k = Len(st[l].todo) + 1 /\ tt[g].todo[k] = n
    BY <1>4
  <2> DEFINE OldJ == j \in 1..Len(st[f].todo) /\ tt[f].todo[j] = st[f].todo[j]
             OldK == k \in 1..Len(st[g].todo) /\ tt[g].todo[k] = st[g].todo[k]
  <2>6. CASE OldJ /\ OldK
    <3>1. /\ j \in 1..Len(st[f].todo) /\ k \in 1..Len(st[g].todo)
          /\ st[f].todo[j] = st[g].todo[k]
      BY <2>6
    <3>2. \A x \in 1..Len(st[f].todo), y \in 1..Len(st[g].todo) :
            st[f].todo[x] = st[g].todo[y] => f = g /\ x = y
      BY <2>1, <2>3 DEF WaitsOnce
    <3> QED BY <3>1, <3>2
  <2>7. CASE OldJ /\ ~OldK BY <2>1, <2>2, <2>5, <2>7
  <2>8. CASE ~OldJ /\ OldK BY <2>1, <2>2, <2>4, <2>8
  <2>9. CASE ~OldJ /\ ~OldK BY <2>4, <2>5, <2>9
  <2> QED BY <2>6, <2>7, <2>8, <2>9
<1>8. FrameNodes(ns, tt)
  <2>1. \A f \in 2..Len(tt) : f \in 2..Len(st) /\ tt[f].kind = st[f].kind /\ tt[f].node = st[f].node
    BY <1>1, <1>2
  <2>2. FrameNodes(ns, st) BY DEF Passing
  <2>3. \A f \in 2..Len(tt) :
          /\ tt[f].kind # "nodes" => ns[tt[f].node].opened > 0
          /\ ns[tt[f].node].opened > 0 \/ ns[tt[f].node].kind = "NAMESPACE"
    <3>1. TAKE f \in 2..Len(tt)
    <3>2. f \in 2..Len(st) /\ tt[f].kind = st[f].kind /\ tt[f].node = st[f].node BY <2>1
    <3>3. /\ st[f].kind # "nodes" => ns[st[f].node].opened > 0
          /\ ns[st[f].node].opened > 0 \/ ns[st[f].node].kind = "NAMESPACE"
      BY <2>2, <3>2 DEF FrameNodes
    <3> QED BY <3>2, <3>3
  <2>4. \A f, g \in 2..Len(tt) : tt[f].node = tt[g].node => f = g
    <3>1. TAKE f \in 2..Len(tt), g \in 2..Len(tt)
    <3>2. /\ f \in 2..Len(st) /\ tt[f].node = st[f].node
          /\ g \in 2..Len(st) /\ tt[g].node = st[g].node
      BY <2>1
    <3>3. st[f].node = st[g].node => f = g BY <2>2, <3>2 DEF FrameNodes
    <3> QED BY <3>2, <3>3
  <2> QED BY <2>3, <2>4 DEF FrameNodes
<1>9. OpenedOnce(ns) BY DEF Passing
<1>10. MembersWait(ns, tt)
  <2>1. MembersWait(ns, st) BY DEF Passing
  <2> QED BY <2>1, <1>2 DEF MembersWait
<1> QED BY <1>6, <1>7, <1>8, <1>9, <1>10 DEF Passing, tt
\* The first node of the innermost frame is taken off, and may be opened.
LEMMA DonePassing ==
  ASSUME NEW st, NEW m, NEW ns \in Seq(Node), FramesOK(st, m, ns), Passing(ns, st),
         st[Len(st)].todo # <<>>, st[Len(st)].kind # "decls",
         NEW d, d = st[Len(st)].todo[1],
         NEW ms \in Seq(Node), NodesKept(ns, ms), Len(ms) = Len(ns),
         \A n \in 1..Len(ns) : n # d => ms[n].opened = ns[n].opened,
         ms[d].opened \in {0, 1}, ms[d].opened = 1 => ns[d].body
  PROVE  Passing(ms, Done(st))
<1> DEFINE tt == Done(st)
           l == Len(st)
<1>1. /\ st \in Seq(Frame) /\ st # <<>> /\ l \in 1..Len(st) /\ Len(st) \in Nat
      /\ \A f \in 1..Len(st) :
           /\ st[f].todo \in Seq(Nat) /\ Len(st[f].todo) \in Nat
           /\ st[f].kind # "nodes" => f \in 2..Len(st)
           /\ f \in 2..Len(st) => st[f].node \in 1..Len(ns)
           /\ \A k \in 1..Len(st[f].todo) :
                /\ st[f].todo[k] \in 1..Len(ns)
                /\ ns[st[f].todo[k]].kind \in {"VAR", "FUNC", "CLASS"}
  BY FramesAre
<1>2. /\ Len(tt) = Len(st)
      /\ \A f \in 1..Len(st) : tt[f].kind = st[f].kind /\ tt[f].node = st[f].node
      /\ \A f \in 1..Len(st) : f # l => tt[f].todo = st[f].todo
      /\ tt[l].todo = Tail(st[l].todo)
  BY <1>1, DoneIs
<1> HIDE DEF tt
<1>3. /\ Len(st[l].todo) \in Nat \ {0} /\ Len(tt[l].todo) = Len(st[l].todo) - 1
      /\ \A k \in 1..Len(tt[l].todo) : /\ k+1 \in 1..Len(st[l].todo)
                                      /\ tt[l].todo[k] = st[l].todo[k+1]
      /\ 1 \in 1..Len(st[l].todo)
  <2>1. st[l].todo \in Seq(Nat) BY <1>1
  <2> QED BY <2>1, <1>2
<1>4. /\ Waiting(ns, st) /\ WaitsOnce(st) /\ FrameNodes(ns, st) /\ OpenedOnce(ns)
      /\ MembersWait(ns, st)
  BY DEF Passing
<1>5. /\ d \in 1..Len(ns) /\ d = st[l].todo[1] /\ ns[d].opened = 0
      /\ ns[d].kind # "NAMESPACE"
      /\ ns[d].owner = IF st[l].kind = "nodes" THEN 0 ELSE st[l].node
  <2>1. d \in 1..Len(ns) /\ ns[d].kind \in {"VAR", "FUNC", "CLASS"} BY <1>1, <1>3
  <2>2. l \in 1..Len(st) /\ 1 \in 1..Len(st[l].todo) BY <1>1, <1>3
  <2> QED BY <2>1, <2>2, <1>4 DEF Waiting
<1>6. st[l].kind # "decls" BY DEF l
<1> HIDE DEF l
\* Where each that still waits did so before.
<1> DEFINE Was(f, k) == IF f = l THEN k+1 ELSE k
<1>7. ASSUME NEW f \in 1..Len(tt), NEW k \in 1..Len(tt[f].todo)
      PROVE  /\ f \in 1..Len(st) /\ Was(f, k) \in 1..Len(st[f].todo)
             /\ tt[f].todo[k] = st[f].todo[Was(f, k)]
             /\ k \in Nat /\ (f = l => Was(f, k) # 1)
  <2>1. f \in 1..Len(st) BY <1>2
  <2>2. CASE f = l BY <2>1, <2>2, <1>3
  <2>3. CASE f # l BY <2>1, <2>3, <1>2
  <2> QED BY <2>2, <2>3
<1>8. ASSUME NEW f \in 1..Len(tt), NEW k \in 1..Len(tt[f].todo)
      PROVE  tt[f].todo[k] # d
  <2>1. /\ f \in 1..Len(st) /\ Was(f, k) \in 1..Len(st[f].todo)
        /\ tt[f].todo[k] = st[f].todo[Was(f, k)] /\ (f = l => Was(f, k) # 1)
    BY <1>7
  <2> DEFINE a == Was(f, k)
  <2> SUFFICES ASSUME tt[f].todo[k] = d PROVE FALSE OBVIOUS
  <2>2. /\ a \in 1..Len(st[f].todo) /\ st[f].todo[a] = st[l].todo[1]
        /\ f = l => a # 1
    BY <2>1, <1>5
  <2>3. f \in 1..Len(st) /\ l \in 1..Len(st) /\ 1 \in 1..Len(st[l].todo) BY <2>1, <1>1, <1>3
  <2> HIDE DEF a
  <2>4. f = l /\ a = 1 BY SMTT(40), <2>2, <2>3, <1>4, OnePlace
  <2> QED BY <2>2, <2>4
<1>9. \A n \in 1..Len(ns) :
        /\ ms[n].kind = ns[n].kind /\ ms[n].body = ns[n].body /\ ms[n].owner = ns[n].owner
        /\ n # d => ms[n].opened = ns[n].opened
  BY DEF NodesKept
<1>10. \A n \in 1..Len(ns) : ms[n].opened \in {0, 1} /\ (ns[n].opened > 0 => ms[n].opened > 0)
  <2> TAKE n \in 1..Len(ns)
  <2>1. ns[n].opened \in {0, 1} BY <1>4 DEF OpenedOnce
  <2>2. CASE n = d BY <2>2, <1>5
  <2>3. CASE n # d BY <2>1, <2>3, <1>9
  <2> QED BY <2>2, <2>3
<1>11. Waiting(ms, tt)
  <2> SUFFICES ASSUME NEW f \in 1..Len(tt), NEW k \in 1..Len(tt[f].todo)
               PROVE  LET x == tt[f].todo[k]
                      IN  /\ ms[x].opened = 0
                          /\ ms[x].body \/ ms[x].kind = "CLASS"
                          /\ ms[x].owner = IF tt[f].kind = "nodes" THEN 0 ELSE tt[f].node
    BY DEF Waiting
  <2> DEFINE x == tt[f].todo[k]
             j == Was(f, k)
  <2>1. f \in 1..Len(st) /\ j \in 1..Len(st[f].todo) /\ x = st[f].todo[j] BY <1>7
  <2>2. x # d BY <1>8
  <2> HIDE DEF x, j
  <2>3. /\ ns[x].opened = 0 /\ (ns[x].body \/ ns[x].kind = "CLASS")
        /\ ns[x].owner = IF st[f].kind = "nodes" THEN 0 ELSE st[f].node
    BY <2>1, <1>4 DEF Waiting
  <2>4. x \in 1..Len(ns) BY <2>1, <1>1
  <2>5. tt[f].kind = st[f].kind /\ tt[f].node = st[f].node BY <2>1, <1>2
  <2>6. /\ ms[x].opened = 0 /\ (ms[x].body \/ ms[x].kind = "CLASS")
        /\ ms[x].owner = IF tt[f].kind = "nodes" THEN 0 ELSE tt[f].node
    BY <2>2, <2>3, <2>4, <2>5, <1>9
  <2> QED BY <2>6 DEF x
<1>12. WaitsOnce(tt)
  <2> SUFFICES ASSUME NEW f \in 1..Len(tt), NEW g \in 1..Len(tt),
                      NEW j \in 1..Len(tt[f].todo), NEW k \in 1..Len(tt[g].todo),
                      tt[f].todo[j] = tt[g].todo[k]
               PROVE  f = g /\ j = k
    BY DEF WaitsOnce
  <2>1. /\ f \in 1..Len(st) /\ Was(f, j) \in 1..Len(st[f].todo)
        /\ tt[f].todo[j] = st[f].todo[Was(f, j)] /\ j \in Nat
    BY <1>7
  <2>2. /\ g \in 1..Len(st) /\ Was(g, k) \in 1..Len(st[g].todo)
        /\ tt[g].todo[k] = st[g].todo[Was(g, k)] /\ k \in Nat
    BY <1>7
  <2>3. f = g /\ Was(f, j) = Was(g, k)
    <3> DEFINE a == Was(f, j)
               b == Was(g, k)
    <3>1. /\ a \in 1..Len(st[f].todo) /\ b \in 1..Len(st[g].todo)
          /\ st[f].todo[a] = st[g].todo[b]
      BY <2>1, <2>2
    <3>2. f \in 1..Len(st) /\ g \in 1..Len(st) BY <2>1, <2>2
    <3> HIDE DEF a, b
    <3>3. WaitsOnce(st) BY <1>4
    <3>4. f = g /\ a = b BY SMTT(40), <3>1, <3>2, <3>3, OnePlace
    <3> QED BY <3>4 DEF a, b
  <2> QED BY <2>1, <2>2, <2>3
<1>13. FrameNodes(ms, tt)
  <2>1. \A f \in 2..Len(tt) :
          /\ f \in 2..Len(st) /\ tt[f].kind = st[f].kind /\ tt[f].node = st[f].node
          /\ st[f].node \in 1..Len(ns)
    BY <1>1, <1>2
  <2>2. \A f \in 2..Len(tt) :
          /\ tt[f].kind # "nodes" => ms[tt[f].node].opened > 0
          /\ ms[tt[f].node].opened > 0 \/ ms[tt[f].node].kind = "NAMESPACE"
    BY SMTT(40), <2>1, <1>4, <1>9, <1>10 DEF FrameNodes
  <2>3. \A f, g \in 2..Len(tt) : tt[f].node = tt[g].node => f = g
    BY <2>1, <1>4 DEF FrameNodes
  <2> QED BY <2>2, <2>3 DEF FrameNodes
<1>14. OpenedOnce(ms)
  <2> SUFFICES ASSUME NEW n \in 1..Len(ms)
               PROVE  /\ ms[n].opened \in {0, 1}
                      /\ ms[n].opened = 1 => ms[n].body
                      /\ ms[n].owner # 0 => /\ ms[n].owner \in 1..Len(ms)
                                            /\ ms[ms[n].owner].opened > 0
    BY DEF OpenedOnce
  <2>1. /\ n \in 1..Len(ns) /\ (ns[n].opened = 1 => ns[n].body)
        /\ ns[n].owner # 0 => ns[n].owner \in 1..Len(ns) /\ ns[ns[n].owner].opened > 0
    BY <1>4 DEF OpenedOnce
  <2>2. ms[n].opened = 1 => ms[n].body
    <3>1. CASE n = d BY <3>1, <2>1, <1>9
    <3>2. CASE n # d BY <3>2, <2>1, <1>9
    <3> QED BY <3>1, <3>2
  <2> QED BY <2>1, <2>2, <1>9, <1>10
<1>15. MembersWait(ms, tt)
  <2> SUFFICES ASSUME NEW f \in 1..Len(st), st[f].kind = "decls",
                      NEW n \in 1..Len(ns), ns[n].owner = st[f].node
               PROVE  ms[n].opened = 0
    BY <1>2, <1>9 DEF MembersWait
  <2>1. ns[n].opened = 0 BY <1>4 DEF MembersWait
  <2>2. f \in 2..Len(st) /\ st[f].node \in 1..Len(ns) BY <1>1
  <2>3. n # d
    <3> SUFFICES ASSUME n = d PROVE FALSE OBVIOUS
    <3>1. ns[d].owner # 0 BY <2>2
    <3>2. st[l].kind # "nodes" /\ ns[d].owner = st[l].node BY <3>1, <1>5
    <3>3. l \in 2..Len(st) BY <3>2, <1>1
    <3>4. f = l BY <3>2, <3>3, <2>2, <1>4 DEF FrameNodes
    <3> QED BY <3>4, <1>6
  <2> QED BY <2>1, <2>3, <1>9
<1> QED BY <1>11, <1>12, <1>13, <1>14, <1>15 DEF Passing, tt

\* A loop is begun over the body of a node that has none yet.
LEMMA PushPassing ==
  ASSUME NEW st, NEW m, NEW ns \in Seq(Node), FramesOK(st, m, ns), Passing(ns, st),
         NEW g \in Frame, g.todo = <<>>, g.kind # "nodes" => ns[g.node].opened > 0,
         ns[g.node].opened > 0 \/ ns[g.node].kind = "NAMESPACE",
         \A f \in 2..Len(st) : st[f].node # g.node,
         g.kind = "decls" => \A n \in 1..Len(ns) : ns[n].owner = g.node => ns[n].opened = 0
  PROVE  Passing(ns, Append(st, g))
<1> DEFINE tt == Append(st, g)
<1>1. st \in Seq(Frame) /\ Len(st) \in Nat \ {0} BY FramesAre
<1>2. /\ Len(tt) = Len(st) + 1 /\ tt[Len(st)+1] = g
      /\ \A f \in 1..Len(st) : tt[f] = st[f]
  BY <1>1, PushIs
<1> HIDE DEF tt
<1>3. Len(g.todo) = 0 OBVIOUS
<1>4. \A f \in 1..Len(tt) : f \in 1..Len(st) \/ f = Len(st) + 1 BY <1>1, <1>2
<1>5. /\ Waiting(ns, st) /\ WaitsOnce(st) /\ FrameNodes(ns, st) /\ OpenedOnce(ns)
      /\ MembersWait(ns, st)
  BY DEF Passing
<1>6. \A f \in 1..Len(tt) : \A k \in 1..Len(tt[f].todo) : f \in 1..Len(st) /\ tt[f] = st[f]
  <2> TAKE f \in 1..Len(tt)
  <2>1. CASE f \in 1..Len(st) BY <2>1, <1>2
  <2>2. CASE f = Len(st) + 1
    <3>1. Len(tt[f].todo) = 0 BY <2>2, <1>2, <1>3
    <3> QED BY <3>1
  <2> QED BY <2>1, <2>2, <1>4
<1>7. Waiting(ns, tt) BY SMTT(40), <1>5, <1>6 DEF Waiting
<1>8. WaitsOnce(tt)
  <2> SUFFICES ASSUME NEW f \in 1..Len(tt), NEW h \in 1..Len(tt),
                      NEW j \in 1..Len(tt[f].todo), NEW k \in 1..Len(tt[h].todo),
                      tt[f].todo[j] = tt[h].todo[k]
               PROVE  f = h /\ j = k
    BY DEF WaitsOnce
  <2>1. f \in 1..Len(st) /\ tt[f] = st[f] /\ h \in 1..Len(st) /\ tt[h] = st[h] BY <1>6
  <2> QED BY SMTT(40), <2>1, <1>5 DEF WaitsOnce
<1>9. FrameNodes(ns, tt)
  <2>1. \A f \in 2..Len(tt) : f \in 2..Len(st) \/ f = Len(st) + 1 BY <1>1, <1>2
  <2>2. \A f \in 2..Len(st) : tt[f] = st[f] BY <1>1, <1>2
  <2>3. \A f \in 2..Len(tt) :
          /\ tt[f].kind # "nodes" => ns[tt[f].node].opened > 0
          /\ ns[tt[f].node].opened > 0 \/ ns[tt[f].node].kind = "NAMESPACE"
    BY <2>1, <2>2, <1>2, <1>5 DEF FrameNodes
  <2>4. \A f, h \in 2..Len(tt) : tt[f].node = tt[h].node => f = h
    BY <2>1, <2>2, <1>2, <1>5 DEF FrameNodes
  <2> QED BY <2>3, <2>4 DEF FrameNodes
<1>10. MembersWait(ns, tt) BY <1>2, <1>4, <1>5 DEF MembersWait
<1> QED BY <1>5, <1>7, <1>8, <1>9, <1>10 DEF Passing, tt

\* The innermost loop ends.
LEMMA FrontPassing ==
  ASSUME NEW st, NEW m, NEW ns \in Seq(Node), FramesOK(st, m, ns), Passing(ns, st), Len(st) > 1
  PROVE  Passing(ns, Front(st))
<1> DEFINE tt == Front(st)
<1>1. st \in Seq(Frame) /\ Len(st) \in Nat \ {0} BY FramesAre
<1>2. Len(tt) = Len(st) - 1 /\ \A f \in 1..Len(st)-1 : tt[f] = st[f] BY <1>1, FrontIs
<1> HIDE DEF tt
<1>3. \A f \in 1..Len(tt) : f \in 1..Len(st) /\ tt[f] = st[f] BY <1>1, <1>2
<1>4. \A f \in 2..Len(tt) : f \in 2..Len(st) /\ tt[f] = st[f] BY <1>1, <1>2
<1>5. /\ Waiting(ns, st) /\ WaitsOnce(st) /\ FrameNodes(ns, st) /\ OpenedOnce(ns)
      /\ MembersWait(ns, st)
  BY DEF Passing
<1>6. Waiting(ns, tt) BY SMTT(40), <1>3, <1>5 DEF Waiting
<1>7. WaitsOnce(tt)
  <2> SUFFICES ASSUME NEW f \in 1..Len(tt), NEW h \in 1..Len(tt),
                      NEW j \in 1..Len(tt[f].todo), NEW k \in 1..Len(tt[h].todo),
                      tt[f].todo[j] = tt[h].todo[k]
               PROVE  f = h /\ j = k
    BY DEF WaitsOnce
  <2>1. f \in 1..Len(st) /\ tt[f] = st[f] /\ h \in 1..Len(st) /\ tt[h] = st[h] BY <1>3
  <2> QED BY <2>1, <1>5 DEF WaitsOnce
<1>8. FrameNodes(ns, tt) BY <1>4, <1>5 DEF FrameNodes
<1>9. MembersWait(ns, tt) BY <1>3, <1>5 DEF MembersWait
<1> QED BY <1>5, <1>6, <1>7, <1>8, <1>9 DEF Passing, tt

\* The class that is read innermost has been read: its members are next.
LEMMA DefsPassing ==
  ASSUME NEW st, NEW m, NEW ns \in Seq(Node), FramesOK(st, m, ns), Passing(ns, st),
         st[Len(st)].kind = "decls"
  PROVE  Passing(ns, [st EXCEPT ![Len(st)].kind = "defs"])
<1> DEFINE tt == [st EXCEPT ![Len(st)].kind = "defs"]
<1>1. st \in Seq(Frame) /\ st # <<>> /\ Len(st) \in Nat BY FramesAre
<1>2. /\ Len(tt) = Len(st)
      /\ \A f \in 1..Len(st) :
           /\ tt[f].kind = IF f = Len(st) THEN "defs" ELSE st[f].kind
           /\ tt[f].node = st[f].node /\ tt[f].todo = st[f].todo
  BY <1>1, DefsIs
<1> HIDE DEF tt
<1>3. /\ Waiting(ns, st) /\ WaitsOnce(st) /\ FrameNodes(ns, st) /\ OpenedOnce(ns)
      /\ MembersWait(ns, st)
  BY DEF Passing
<1>4. \A f \in 1..Len(st) : (tt[f].kind = "nodes" <=> st[f].kind = "nodes")
                            /\ (tt[f].kind = "decls" => st[f].kind = "decls")
  BY <1>2
<1>5. Waiting(ns, tt) BY SMTT(40), <1>2, <1>3, <1>4 DEF Waiting
<1>6. WaitsOnce(tt)
  <2> SUFFICES ASSUME NEW f \in 1..Len(tt), NEW h \in 1..Len(tt),
                      NEW j \in 1..Len(tt[f].todo), NEW k \in 1..Len(tt[h].todo),
                      tt[f].todo[j] = tt[h].todo[k]
               PROVE  f = h /\ j = k
    BY DEF WaitsOnce
  <2>1. f \in 1..Len(st) /\ h \in 1..Len(st) BY <1>2
  <2>2. /\ j \in 1..Len(st[f].todo) /\ k \in 1..Len(st[h].todo)
        /\ st[f].todo[j] = st[h].todo[k]
    BY <2>1, <1>2
  <2>3. WaitsOnce(st) BY <1>3
  <2>4. \A x \in 1..Len(st[f].todo), y \in 1..Len(st[h].todo) :
          st[f].todo[x] = st[h].todo[y] => f = h /\ x = y
    BY <2>1, <2>3 DEF WaitsOnce
  <2> QED BY <2>2, <2>4
<1>7. \A f \in 2..Len(tt) : f \in 2..Len(st) /\ f \in 1..Len(st) BY <1>1, <1>2
<1>8. FrameNodes(ns, tt) BY <1>2, <1>3, <1>4, <1>7 DEF FrameNodes
<1>9. MembersWait(ns, tt) BY <1>2, <1>3, <1>4 DEF MembersWait
<1> QED BY <1>3, <1>5, <1>6, <1>8, <1>9 DEF Passing, tt
-----------------------------------------------------------------------------
\* What waits still does when more is put last.
LEMMA TodoWaits ==
  ASSUME NEW st \in Seq(Frame), st # <<>>, NEW n \in Nat
  PROVE  /\ WaitsIn(Todo(st, n), n)
         /\ \A x : WaitsIn(st, x) => WaitsIn(Todo(st, n), x)
<1> DEFINE tt == Todo(st, n)
           l == Len(st)
<1>1. /\ Len(tt) = Len(st)
      /\ \A f \in 1..Len(st) : tt[f].todo = IF f = l THEN Append(st[f].todo, n) ELSE st[f].todo
  BY TodoIs
<1>2. l \in 1..Len(st) /\ st[l] \in Frame OBVIOUS
<1> HIDE DEF tt, l
<1>3. st[l].todo \in Seq(Nat) BY <1>2, FrameFields
<1>4. /\ Len(st[l].todo) + 1 \in 1..Len(tt[l].todo) /\ tt[l].todo[Len(st[l].todo) + 1] = n
      /\ \A k \in 1..Len(st[l].todo) : k \in 1..Len(tt[l].todo) /\ tt[l].todo[k] = st[l].todo[k]
  <2>1. tt[l].todo = Append(st[l].todo, n) BY <1>1, <1>2
  <2> QED BY <2>1, <1>3
<1>5. WaitsIn(tt, n) BY <1>1, <1>2, <1>4 DEF WaitsIn
<1>6. ASSUME NEW x, WaitsIn(st, x) PROVE WaitsIn(tt, x)
  <2>1. PICK f \in 1..Len(st) : \E k \in 1..Len(st[f].todo) : st[f].todo[k] = x
    BY <1>6 DEF WaitsIn
  <2>2. \E k \in 1..Len(tt[f].todo) : tt[f].todo[k] = x
    <3>1. CASE f = l BY <3>1, <2>1, <1>4
    <3>2. CASE f # l
      <4>1. tt[f].todo = st[f].todo BY <3>2, <1>1
      <4> QED BY <4>1, <2>1
    <3> QED BY <3>1, <3>2
  <2> QED BY <2>2, <1>1 DEF WaitsIn
<1> QED BY <1>5, <1>6 DEF tt

\* Or when another is taken off.
LEMMA DoneWaits ==
  ASSUME NEW st \in Seq(Frame), st # <<>>, st[Len(st)].todo # <<>>, NEW x, WaitsIn(st, x),
         x # st[Len(st)].todo[1]
  PROVE  WaitsIn(Done(st), x)
<1> DEFINE tt == Done(st)
           l == Len(st)
<1>1. /\ Len(tt) = Len(st)
      /\ \A f \in 1..Len(st) : tt[f].todo = IF f = l THEN Tail(st[f].todo) ELSE st[f].todo
  BY DoneIs
<1>2. l \in 1..Len(st) /\ st[l] \in Frame OBVIOUS
<1>3. st[l].todo # <<>> /\ x # st[l].todo[1] BY DEF l
<1> HIDE DEF tt, l
<1>4. st[l].todo \in Seq(Nat) BY <1>2, FrameFields
<1>5. PICK f \in 1..Len(st) : \E k \in 1..Len(st[f].todo) : st[f].todo[k] = x
  BY DEF WaitsIn
<1>6. PICK k \in 1..Len(st[f].todo) : st[f].todo[k] = x BY <1>5
<1>7. \E j \in 1..Len(tt[f].todo) : tt[f].todo[j] = x
  <2>1. CASE f = l
    <3>1. tt[f].todo = Tail(st[l].todo) BY <2>1, <1>1, <1>2
    <3>2. k # 1 BY <2>1, <1>3, <1>6
    <3>3. k-1 \in 1..Len(tt[f].todo) /\ tt[f].todo[k-1] = st[l].todo[k]
      BY <3>1, <3>2, <2>1, <1>3, <1>4, <1>6
    <3> QED BY <3>3, <2>1, <1>6
  <2>2. CASE f # l
    <3>1. tt[f].todo = st[f].todo BY <2>2, <1>1
    <3> QED BY <3>1, <1>6
  <2> QED BY <2>1, <2>2
<1>8. WaitsIn(tt, x) BY <1>1, <1>5, <1>7 DEF WaitsIn
<1> QED BY <1>8 DEF tt

\* Or when a loop begins.
LEMMA PushWaits ==
  ASSUME NEW st \in Seq(Frame), NEW g \in Frame, NEW x, WaitsIn(st, x)
  PROVE  WaitsIn(Append(st, g), x)
<1> DEFINE tt == Append(st, g)
<1>1. Len(tt) = Len(st) + 1 /\ Len(st) \in Nat /\ \A f \in 1..Len(st) : tt[f] = st[f]
  BY PushIs
<1> HIDE DEF tt
<1>2. PICK f \in 1..Len(st) : \E k \in 1..Len(st[f].todo) : st[f].todo[k] = x
  BY DEF WaitsIn
<1>3. f \in 1..Len(tt) /\ tt[f] = st[f] BY <1>1
<1>4. WaitsIn(tt, x) BY <1>2, <1>3 DEF WaitsIn
<1> QED BY <1>4 DEF tt

\* Or when one ends that has nothing left to do.
LEMMA FrontWaits ==
  ASSUME NEW st \in Seq(Frame), Len(st) > 1, st[Len(st)].todo = <<>>, NEW x, WaitsIn(st, x)
  PROVE  WaitsIn(Front(st), x)
<1> DEFINE tt == Front(st)
<1>1. Len(tt) = Len(st) - 1 /\ Len(st) \in Nat /\ \A f \in 1..Len(st)-1 : tt[f] = st[f]
  BY FrontIs
<1> HIDE DEF tt
<1>2. PICK f \in 1..Len(st) : \E k \in 1..Len(st[f].todo) : st[f].todo[k] = x
  BY DEF WaitsIn
<1>3. f # Len(st)
  <2> SUFFICES ASSUME f = Len(st) PROVE FALSE OBVIOUS
  <2>1. Len(st[f].todo) = 0 OBVIOUS
  <2> QED BY <2>1, <1>2
<1>4. f \in 1..Len(tt) /\ tt[f] = st[f] BY <1>1, <1>3
<1>5. WaitsIn(tt, x) BY <1>2, <1>4 DEF WaitsIn
<1> QED BY <1>5 DEF tt

\* Or when a class has been read for the first time.
LEMMA DefsWaits ==
  ASSUME NEW st \in Seq(Frame), st # <<>>, NEW x, WaitsIn(st, x)
  PROVE  WaitsIn([st EXCEPT ![Len(st)].kind = "defs"], x)
<1> DEFINE tt == [st EXCEPT ![Len(st)].kind = "defs"]
<1>1. Len(tt) = Len(st) /\ \A f \in 1..Len(st) : tt[f].todo = st[f].todo BY DefsIs
<1> HIDE DEF tt
<1>2. WaitsIn(tt, x) BY <1>1 DEF WaitsIn
<1> QED BY <1>2 DEF tt
-----------------------------------------------------------------------------
\* A node that is added is a member of the class that is being read, if any,
\* and not opened; nothing happens to the others meanwhile.
Owned ==
  /\ \A n \in 1..Len(nodes') : n \notin NodeIds =>
       /\ nodes'[n].owner = IF Top.kind = "decls" THEN Top.node ELSE 0
       /\ nodes'[n].opened = 0
  /\ Len(nodes') # Len(nodes) => \A n \in NodeIds : nodes'[n] = nodes[n]

\* What Top and what waits in it are.
LEMMA TopIs ==
  ASSUME Shape, Passes
  PROVE  /\ stack \in Seq(Frame) /\ stack # <<>> /\ Len(stack) \in Nat \ {0}
         /\ Len(scopes) \in Nat /\ nodes \in Seq(Node) /\ Len(nodes) \in Nat
         /\ NodeIds = 1..Len(nodes) /\ New = Len(nodes) + 1 /\ Top = stack[Len(stack)]
         /\ Top.kind \in {"nodes", "decls", "defs"}
         /\ FramesOK(stack, Len(scopes), nodes) /\ Passing(nodes, stack)
         /\ ~WaitsIn(stack, New)
         /\ Top.kind # "nodes" =>
              /\ Top.node \in NodeIds /\ nodes[Top.node].opened > 0 /\ Len(stack) > 1
<1>1. /\ stack \in Seq(Frame) /\ stack # <<>> /\ Len(stack) \in Nat \ {0}
      /\ Len(scopes) \in Nat /\ nodes \in Seq(Node) /\ Len(nodes) \in Nat
      /\ NodeIds = 1..Len(nodes) /\ New = Len(nodes) + 1 /\ Top = stack[Len(stack)]
      /\ Top \in Frame
  BY ShapeTypes
<1>2. FramesOK(stack, Len(scopes), nodes) /\ Passing(nodes, stack) BY DEF Shape, Passes
<1>3. \A f \in 1..Len(stack) :
        /\ stack[f].kind # "nodes" => f \in 2..Len(stack)
        /\ f \in 2..Len(stack) => stack[f].node \in 1..Len(nodes)
        /\ \A k \in 1..Len(stack[f].todo) : stack[f].todo[k] \in 1..Len(nodes)
  BY <1>1, <1>2, FramesAre
<1>4. ~WaitsIn(stack, New)
  <2>1. New \notin 1..Len(nodes) BY <1>1
  <2> QED BY <2>1, <1>3 DEF WaitsIn
<1>5. ASSUME Top.kind # "nodes"
      PROVE  Top.node \in NodeIds /\ nodes[Top.node].opened > 0 /\ Len(stack) > 1
  <2>1. Len(stack) \in 1..Len(stack) BY <1>1
  <2>2. Len(stack) \in 2..Len(stack) BY <2>1, <1>1, <1>3, <1>5
  <2>3. FrameNodes(nodes, stack) BY <1>2 DEF Passing
  <2>4. nodes[Top.node].opened > 0 BY <2>2, <2>3, <1>1, <1>5 DEF FrameNodes
  <2>5. Top.node \in NodeIds BY <2>1, <2>2, <1>1, <1>3
  <2>6. Len(stack) > 1 BY <2>2, <1>1
  <2> QED BY <2>4, <2>5, <2>6
<1>6. Top.kind \in {"nodes", "decls", "defs"} BY <1>1, FrameFields
<1> QED BY <1>1, <1>2, <1>4, <1>5, <1>6

\* A declaration has been read, and waits if it has a definition.
LEMMA ReadPasses ==
  ASSUME Shape, Passes, pc = "run", Top.kind # "defs",
         NEW c \in Node, NEW later \in BOOLEAN, c.opened = 0,
         c.owner = IF Top.kind = "decls" THEN Top.node ELSE 0,
         c.body => later, later => c.body \/ c.kind = "CLASS",
         nodes' = Append(nodes, c), pc' = pc, diags => diags',
         stack' = IF later THEN Todo(stack, New) ELSE stack
  PROVE  Passes' /\ Owned
<1> DEFINE ms == Append(nodes, c)
<1>1. /\ stack \in Seq(Frame) /\ stack # <<>> /\ Len(stack) \in Nat \ {0}
      /\ Len(scopes) \in Nat /\ nodes \in Seq(Node) /\ Len(nodes) \in Nat
      /\ NodeIds = 1..Len(nodes) /\ New = Len(nodes) + 1 /\ Top = stack[Len(stack)]
      /\ Top.kind \in {"nodes", "decls", "defs"}
      /\ FramesOK(stack, Len(scopes), nodes) /\ Passing(nodes, stack)
      /\ ~WaitsIn(stack, New)
      /\ Top.kind # "nodes" => Top.node \in NodeIds /\ nodes[Top.node].opened > 0
  BY TopIs
<1>2. /\ ms \in Seq(Node) /\ NodesKept(nodes, ms) /\ Len(ms) = New /\ ms[New] = c
      /\ \A n \in 1..Len(nodes) : ms[n] = nodes[n]
  BY <1>1, NodeAdded
<1>3. nodes' = ms OBVIOUS
<1> HIDE DEF ms
<1>4. c.owner # 0 => c.owner \in 1..Len(nodes) /\ nodes[c.owner].opened > 0 BY <1>1
<1>5. Passing(ms, stack)
  <2>1. Passing(Append(nodes, c), stack) BY <1>1, <1>4, NodePassing
  <2> QED BY <2>1 DEF ms
<1>6. FramesOK(stack, Len(scopes), ms)
  <2>1. Len(scopes) <= Len(scopes) BY <1>1
  <2> QED BY <2>1, <1>1, <1>2, FramesMore
<1>7. ASSUME later PROVE Passes'
  <2> DEFINE tt == Todo(stack, New)
  <2>1. ms[New].owner = IF stack[Len(stack)].kind = "nodes" THEN 0 ELSE stack[Len(stack)].node
    BY <1>1, <1>2
  <2>2. ms[New].opened = 0 /\ (ms[New].body \/ ms[New].kind = "CLASS") /\ New \in Nat
    BY <1>1, <1>2, <1>7
  <2>3. Passing(ms, tt) BY <2>1, <2>2, <1>1, <1>2, <1>5, <1>6, TodoPassing
  <2>4. WaitsIn(tt, New) /\ \A x : WaitsIn(stack, x) => WaitsIn(tt, x)
    BY <2>2, <1>1, TodoWaits
  <2>5. stack' = tt BY <1>7
  <2> HIDE DEF tt
  <2>6. ASSUME NoneLost(nodes, stack) PROVE NoneLost(ms, tt)
    <3> SUFFICES ASSUME NEW n \in 1..Len(ms), ms[n].body, ms[n].opened = 0
                 PROVE  WaitsIn(tt, n)
      BY DEF NoneLost
    <3>1. CASE n = New BY <3>1, <2>4
    <3>2. CASE n # New
      <4>1. n \in 1..Len(nodes) BY <3>2, <1>1, <1>2
      <4> QED BY <4>1, <2>4, <2>6, <1>2 DEF NoneLost
    <3> QED BY <3>1, <3>2
  <2>7. ~diags => NoneLost(nodes, stack) BY DEF Passes
  <2> QED BY <2>3, <2>5, <2>6, <2>7, <1>3 DEF Passes, AtEnd
<1>8. ASSUME ~later PROVE Passes'
  <2>1. stack' = stack BY <1>8
  <2>2. ASSUME NoneLost(nodes, stack) PROVE NoneLost(ms, stack)
    <3> SUFFICES ASSUME NEW n \in 1..Len(ms), ms[n].body, ms[n].opened = 0
                 PROVE  WaitsIn(stack, n)
      BY DEF NoneLost
    <3>1. n # New BY <1>2, <1>8
    <3>2. n \in 1..Len(nodes) BY <3>1, <1>1, <1>2
    <3> QED BY <3>2, <2>2, <1>2 DEF NoneLost
  <2>3. ~diags => NoneLost(nodes, stack) BY DEF Passes
  <2> QED BY <2>1, <2>2, <2>3, <1>3, <1>5 DEF Passes, AtEnd
<1>9. Owned
  <2>1. \A n \in 1..Len(ms) : n \notin NodeIds => n = New BY <1>1, <1>2
  <2>2. \A n \in NodeIds : ms[n] = nodes[n] BY <1>1, <1>2
  <2> QED BY <2>1, <2>2, <1>2, <1>3 DEF Owned
<1> QED BY <1>7, <1>8, <1>9

\* A namespace is a node that is read at once.
LEMMA SpacePasses ==
  ASSUME Shape, Passes, NEW name \in Names, NamespaceDecl(name)
  PROVE  Passes' /\ Owned
<1> DEFINE c == NewNode("NAMESPACE", name, FALSE)
           g == NewFrame("nodes", Len(scopes'), New)
           ms == Append(nodes, c)
<1>1. /\ stack \in Seq(Frame) /\ stack # <<>> /\ Len(stack) \in Nat \ {0}
      /\ Len(scopes) \in Nat /\ nodes \in Seq(Node) /\ Len(nodes) \in Nat
      /\ NodeIds = 1..Len(nodes) /\ New = Len(nodes) + 1
      /\ FramesOK(stack, Len(scopes), nodes) /\ Passing(nodes, stack)
      /\ Top.kind # "nodes" => Top.node \in NodeIds /\ nodes[Top.node].opened > 0
  BY TopIs
<1>2. /\ nodes' = ms /\ stack' = Append(stack, g) /\ pc = "run" /\ pc' = pc
      /\ diags => diags'
  BY DEF NamespaceDecl, Reading
<1>3. /\ c \in Node /\ c.kind = "NAMESPACE" /\ c.body = FALSE /\ c.opened = 0
      /\ c.owner = (IF Top.kind = "decls" THEN Top.node ELSE 0)
  <2>1. name \in AllNames /\ "NAMESPACE" \in IdentKinds BY DEF AllNames, IdentKinds
  <2> QED BY <2>1, NewNodeIs
<1> HIDE DEF c
<1>4. Len(scopes') \in Nat
  <2>1. Shape' BY NamespaceShape
  <2>2. scopes' \in Seq(Scope) BY <2>1 DEF Shape, ScopesOK
  <2> QED BY <2>2
<1>5. g \in Frame /\ g.kind = "nodes" /\ g.node = New
  BY <1>1, <1>4 DEF NewFrame, Frame
<1>6. g.todo = <<>> BY DEF NewFrame
<1> HIDE DEF g
<1>7. /\ ms \in Seq(Node) /\ NodesKept(nodes, ms) /\ Len(ms) = New /\ ms[New] = c
      /\ \A n \in 1..Len(nodes) : ms[n] = nodes[n]
  BY <1>1, <1>3, NodeAdded
<1>8. Passing(ms, stack)
  <2>1. c.owner # 0 => c.owner \in 1..Len(nodes) /\ nodes[c.owner].opened > 0 BY <1>1, <1>3
  <2> QED BY <2>1, <1>1, <1>3, NodePassing
<1> HIDE DEF ms
<1>9. FramesOK(stack, Len(scopes), ms)
  <2>1. Len(scopes) <= Len(scopes) BY <1>1
  <2> QED BY <2>1, <1>1, <1>7, FramesMore
<1>10. Passing(ms, Append(stack, g))
  <2>1. ms[g.node].kind = "NAMESPACE" /\ g.kind # "decls" BY <1>3, <1>5, <1>7
  <2>2. \A f \in 2..Len(stack) : stack[f].node # g.node
    <3> TAKE f \in 2..Len(stack)
    <3>1. f \in 1..Len(stack) BY <1>1
    <3>2. stack[f].node \in 1..Len(nodes) BY <3>1, <1>1, FramesAre
    <3> QED BY <3>2, <1>1, <1>5
  <2> QED BY <2>1, <2>2, <1>5, <1>6, <1>7, <1>8, <1>9, PushPassing
<1>11. ASSUME NoneLost(nodes, stack) PROVE NoneLost(ms, Append(stack, g))
  <2> SUFFICES ASSUME NEW n \in 1..Len(ms), ms[n].body, ms[n].opened = 0
               PROVE  WaitsIn(Append(stack, g), n)
    BY DEF NoneLost
  <2>1. n # New BY <1>3, <1>7
  <2>2. n \in 1..Len(nodes) BY <2>1, <1>1, <1>7
  <2>3. WaitsIn(stack, n) BY <2>2, <1>7, <1>11 DEF NoneLost
  <2> QED BY <2>3, <1>1, <1>5, PushWaits
<1>12. ~diags => NoneLost(nodes, stack) BY DEF Passes
<1>13. Passes' BY <1>2, <1>10, <1>11, <1>12 DEF Passes, AtEnd
<1>14. Owned
  <2>1. \A n \in 1..Len(ms) : n \notin NodeIds => n = New BY <1>1, <1>7
  <2>2. \A n \in NodeIds : ms[n] = nodes[n] BY <1>1, <1>7
  <2> QED BY <2>1, <2>2, <1>2, <1>3, <1>7 DEF Owned
<1> QED BY <1>13, <1>14

\* What is parsed next has a body, was not parsed, and waits nowhere else.
LEMMA DefWaits ==
  ASSUME Shape, Passes, Defining
  PROVE  /\ Def \in NodeIds /\ nodes[Def].kind \in {"VAR", "FUNC", "CLASS"}
         /\ stack[Len(stack)].todo # <<>> /\ Def = stack[Len(stack)].todo[1]
         /\ nodes[Def].opened = 0 /\ (nodes[Def].body \/ nodes[Def].kind = "CLASS")
         /\ nodes[Def].owner = (IF Top.kind = "nodes" THEN 0 ELSE Top.node)
         /\ stack[Len(stack)].kind # "decls"
<1>1. Len(stack) \in 1..Len(stack) /\ Top = stack[Len(stack)]
  <2>1. Len(stack) \in Nat \ {0} /\ Top = stack[Len(stack)] BY TopIs
  <2> QED BY <2>1
<1>2. /\ Def \in NodeIds /\ nodes[Def].kind \in {"VAR", "FUNC", "CLASS"}
      /\ stack[Len(stack)].todo # <<>> /\ Def = stack[Len(stack)].todo[1]
      /\ 1 \in 1..Len(stack[Len(stack)].todo)
  BY DefIs
<1>3. Waiting(nodes, stack) BY DEF Passes, Passing
<1>4. /\ nodes[Def].opened = 0 /\ (nodes[Def].body \/ nodes[Def].kind = "CLASS")
      /\ nodes[Def].owner = (IF Top.kind = "nodes" THEN 0 ELSE Top.node)
  BY <1>1, <1>2, <1>3 DEF Waiting
<1>5. stack[Len(stack)].kind # "decls" BY <1>1 DEF Defining
<1> QED BY <1>2, <1>4, <1>5

\* The next definition is parsed, and opened.
LEMMA OpenedPasses ==
  ASSUME Shape, Passes, Defining, nodes[Def].body
  PROVE  LET ms == Opened(Def)
             tt == Done(stack)
         IN  /\ ms \in Seq(Node) /\ Len(ms) = Len(nodes) /\ NodesKept(nodes, ms)
             /\ ms[Def].opened = 1
             /\ \A n \in NodeIds : n # Def => ms[n].opened = nodes[n].opened
             /\ Passing(ms, tt) /\ FramesOK(tt, Len(scopes), ms)
             /\ NoneLost(nodes, stack) => NoneLost(ms, tt)
<1> DEFINE ms == Opened(Def)
           tt == Done(stack)
<1>1. /\ stack \in Seq(Frame) /\ stack # <<>> /\ Len(scopes) \in Nat /\ nodes \in Seq(Node)
      /\ NodeIds = 1..Len(nodes)
      /\ FramesOK(stack, Len(scopes), nodes) /\ Passing(nodes, stack)
  BY TopIs
<1>2. /\ Def \in NodeIds /\ stack[Len(stack)].todo # <<>> /\ Def = stack[Len(stack)].todo[1]
      /\ nodes[Def].opened = 0 /\ stack[Len(stack)].kind # "decls"
  BY DefWaits
<1>3. /\ ms \in Seq(Node) /\ Len(ms) = Len(nodes) /\ NodesKept(nodes, ms)
  BY <1>1, <1>2, OpenedIs
<1>4. \A n \in NodeIds : ms[n].opened = IF n = Def THEN nodes[n].opened + 1 ELSE nodes[n].opened
  BY <1>1, <1>2, OpenedIs
<1> HIDE DEF ms
<1>5. ms[Def].opened = 1 /\ \A n \in NodeIds : n # Def => ms[n].opened = nodes[n].opened
  BY <1>2, <1>4
<1>6. Passing(ms, tt) BY <1>1, <1>2, <1>3, <1>5, DonePassing
<1>7. FramesOK(tt, Len(scopes), ms)
  <2>1. FramesOK(tt, Len(scopes), nodes) BY <1>1, <1>2, FramesDone
  <2>2. Len(scopes) <= Len(scopes) BY <1>1
  <2> QED BY <2>1, <2>2, <1>1, <1>3, FramesMore
<1>8. ASSUME NoneLost(nodes, stack) PROVE NoneLost(ms, tt)
  <2> SUFFICES ASSUME NEW n \in 1..Len(ms), ms[n].body, ms[n].opened = 0
               PROVE  WaitsIn(tt, n)
    BY DEF NoneLost
  <2>1. n \in NodeIds /\ n # Def BY <1>1, <1>3, <1>5
  <2>2. nodes[n].body /\ nodes[n].opened = 0 BY <2>1, <1>1, <1>3, <1>5 DEF NodesKept
  <2>3. WaitsIn(stack, n) BY <2>1, <2>2, <1>1, <1>8 DEF NoneLost
  <2> QED BY <2>1, <2>3, <1>1, <1>2, DoneWaits
<1> QED BY <1>3, <1>5, <1>6, <1>7, <1>8 DEF ms

\* No node is added by a step that leaves their number.
LEMMA NoneOwned ==
  ASSUME Len(nodes') = Len(nodes)
  PROVE  Owned
BY DEF Owned, NodeIds

\* An initializer is parsed.
LEMMA ReadInitPasses ==
  ASSUME Shape, Passes, ReadInit
  PROVE  Passes' /\ Owned
<1>1. /\ Defining /\ nodes[Def].kind = "VAR" /\ nodes' = Opened(Def) /\ stack' = Done(stack)
      /\ pc = "run" /\ UNCHANGED <<diags, pc>>
  BY DEF ReadInit, Defining
<1>2. nodes[Def].body BY <1>1, DefWaits
<1>3. Passing(nodes', stack') /\ Len(nodes') = Len(nodes) BY <1>1, <1>2, OpenedPasses
<1>4. NoneLost(nodes, stack) => NoneLost(nodes', stack') BY <1>1, <1>2, OpenedPasses
<1>5. Passes' BY <1>1, <1>3, <1>4 DEF Passes, AtEnd
<1> QED BY <1>3, <1>5, NoneOwned

\* A body begins: its node is opened before the loop over it starts.
LEMMA OpenPasses ==
  ASSUME Shape, Passes, Defining, nodes[Def].body, NEW loop \in {"nodes", "decls"},
         nodes' = Opened(Def), pc' = pc, diags => diags',
         stack' = Append(Done(stack), NewFrame(loop, Len(scopes) + 1, Def))
  PROVE  Passes' /\ Owned
<1> DEFINE ms == Opened(Def)
           tt == Done(stack)
           g == NewFrame(loop, Len(scopes) + 1, Def)
<1>1. /\ stack \in Seq(Frame) /\ stack # <<>> /\ Len(scopes) \in Nat /\ nodes \in Seq(Node)
      /\ Len(stack) \in Nat /\ Len(nodes) \in Nat /\ NodeIds = 1..Len(nodes)
      /\ FramesOK(stack, Len(scopes), nodes) /\ Passing(nodes, stack)
  BY TopIs
<1>2. /\ Def \in NodeIds /\ nodes[Def].kind \in {"VAR", "FUNC", "CLASS"}
      /\ stack[Len(stack)].todo # <<>> /\ nodes[Def].opened = 0
  BY DefWaits
<1>3. /\ ms \in Seq(Node) /\ Len(ms) = Len(nodes) /\ NodesKept(nodes, ms)
  BY OpenedPasses
<1>4. ms[Def].opened = 1 /\ \A n \in NodeIds : n # Def => ms[n].opened = nodes[n].opened
  BY OpenedPasses
<1>5. Passing(ms, tt) /\ FramesOK(tt, Len(scopes), ms) BY OpenedPasses
<1>6. NoneLost(nodes, stack) => NoneLost(ms, tt) BY OpenedPasses
<1>7. /\ tt \in Seq(Frame) /\ Len(tt) = Len(stack)
      /\ \A f \in 1..Len(stack) : tt[f].node = stack[f].node
  BY <1>1, <1>2, DoneIs
<1>8. nodes' = ms /\ stack' = Append(tt, g) OBVIOUS
<1>9. g \in Frame /\ g.kind = loop /\ g.node = Def
  <2>1. Def \in Nat /\ Len(scopes) + 1 \in Nat BY <1>1, <1>2
  <2> QED BY <2>1 DEF NewFrame, Frame
<1>10. g.todo = <<>> BY DEF NewFrame
<1> HIDE DEF ms, tt, g
<1>11. \A f \in 2..Len(tt) : tt[f].node # g.node
  <2> TAKE f \in 2..Len(tt)
  <2>1. f \in 2..Len(stack) /\ f \in 1..Len(stack) /\ tt[f].node = stack[f].node
    BY <1>1, <1>7
  <2>2. nodes[stack[f].node].opened > 0 \/ nodes[stack[f].node].kind = "NAMESPACE"
    BY <2>1, <1>1 DEF Passing, FrameNodes
  <2> QED BY <2>1, <2>2, <1>2, <1>9
<1>12. \A n \in 1..Len(ms) : ms[n].owner = g.node => ms[n].opened = 0
  <2> SUFFICES ASSUME NEW n \in NodeIds, nodes[n].owner = Def
               PROVE  ms[n].opened = 0
    BY <1>1, <1>3, <1>9 DEF NodesKept
  <2>1. Def # 0 BY <1>1, <1>2
  <2>2. nodes[nodes[n].owner].opened > 0 BY <2>1, <1>1 DEF Passing, OpenedOnce
  <2> QED BY <2>2, <1>2
<1>13. Passing(ms, Append(tt, g))
  <2>1. ms[g.node].opened > 0 BY <1>4, <1>9
  <2> QED BY <2>1, <1>3, <1>5, <1>9, <1>10, <1>11, <1>12, PushPassing
<1>14. NoneLost(ms, tt) => NoneLost(ms, Append(tt, g))
  <2>1. \A x : WaitsIn(tt, x) => WaitsIn(Append(tt, g), x) BY <1>7, <1>9, PushWaits
  <2> QED BY <2>1 DEF NoneLost
<1>15. ~diags => NoneLost(nodes, stack) BY DEF Passes
<1>16. pc = "run" BY DEF Defining
<1>17. Passes' BY <1>6, <1>8, <1>13, <1>14, <1>15, <1>16 DEF Passes, AtEnd
<1> QED BY <1>3, <1>8, <1>17, NoneOwned

\* The body of a function begins.
LEMMA OpenFuncPasses ==
  ASSUME Shape, Passes, OpenFunc
  PROVE  Passes' /\ Owned
<1>1. /\ Defining /\ nodes[Def].kind = "FUNC" /\ nodes' = Opened(Def) /\ pc' = pc
      /\ stack' = Append(Done(stack), NewFrame("nodes", Len(scopes) + 1, Def))
      /\ diags => diags'
  BY DEF OpenFunc
<1>2. nodes[Def].body BY <1>1, DefWaits
<1> QED BY <1>1, <1>2, OpenPasses

\* The body of a class begins: the first pass over it.
LEMMA OpenClassPasses ==
  ASSUME Shape, Passes, OpenClass
  PROVE  Passes' /\ Owned
<1>1. /\ Defining /\ nodes[Def].body /\ nodes' = Opened(Def) /\ pc' = pc
      /\ stack' = Append(Done(stack), NewFrame("decls", Len(scopes) + 1, Def))
      /\ diags => diags'
  BY DEF OpenClass
<1> QED BY <1>1, OpenPasses

\* A body that is never closed is not opened, and the program is in error.
LEMMA UnclosedPasses ==
  ASSUME Shape, Passes, UnclosedFunc
  PROVE  Passes' /\ Owned
<1>1. /\ Defining /\ nodes' = nodes /\ stack' = Done(stack) /\ diags' = TRUE
      /\ pc = "run" /\ pc' = pc
  BY DEF UnclosedFunc, Defining
<1>2. /\ nodes \in Seq(Node) /\ FramesOK(stack, Len(scopes), nodes) /\ Passing(nodes, stack)
      /\ NodeIds = 1..Len(nodes)
  BY TopIs
<1>3. /\ Def \in NodeIds /\ stack[Len(stack)].todo # <<>> /\ Def = stack[Len(stack)].todo[1]
      /\ nodes[Def].opened = 0 /\ stack[Len(stack)].kind # "decls"
  BY <1>1, DefWaits
<1>4. NodesKept(nodes, nodes) BY <1>2, NodesKeptItself
<1>5. Passing(nodes, stack') BY <1>1, <1>2, <1>3, <1>4, DonePassing
<1>6. Passes' BY <1>1, <1>5 DEF Passes, AtEnd
<1> QED BY <1>1, <1>6, NoneOwned

\* A loop ends that has nothing left to do.
LEMMA FrontPasses ==
  ASSUME Shape, Passes, pc = "run", Len(stack) > 1, Top.todo = <<>>, stack' = Front(stack),
         nodes' = nodes, pc' = pc, diags => diags'
  PROVE  Passes' /\ Owned
<1>1. /\ stack \in Seq(Frame) /\ nodes \in Seq(Node)
      /\ FramesOK(stack, Len(scopes), nodes) /\ Passing(nodes, stack)
      /\ Top = stack[Len(stack)]
  BY TopIs
<1>2. Passing(nodes, stack') BY <1>1, FrontPassing
<1>3. \A x : WaitsIn(stack, x) => WaitsIn(stack', x) BY <1>1, FrontWaits
<1>4. ~diags => NoneLost(nodes, stack) BY DEF Passes
<1>5. Passes' BY <1>2, <1>3, <1>4 DEF Passes, NoneLost, AtEnd
<1> QED BY <1>5, NoneOwned

\* The body of a namespace or of a function ends.
LEMMA EndNodesPasses ==
  ASSUME Shape, Passes, EndNodes
  PROVE  Passes' /\ Owned
<1>1. /\ pc = "run" /\ Len(stack) > 1 /\ Top.todo = <<>> /\ stack' = Front(stack)
      /\ UNCHANGED <<nodes, diags, pc>>
  BY DEF EndNodes, Reading
<1> QED BY <1>1, FrontPasses

\* The first pass over a class ends and the second begins.
LEMMA EndDeclsPasses ==
  ASSUME Shape, Passes, EndDecls
  PROVE  Passes' /\ Owned
<1> DEFINE tt == [stack EXCEPT ![Len(stack)].kind = "defs"]
<1>1. /\ pc = "run" /\ Top.kind = "decls" /\ stack' = tt /\ UNCHANGED <<nodes, diags, pc>>
  BY DEF EndDecls, Reading
<1>2. /\ stack \in Seq(Frame) /\ stack # <<>> /\ nodes \in Seq(Node)
      /\ FramesOK(stack, Len(scopes), nodes) /\ Passing(nodes, stack)
      /\ Top = stack[Len(stack)]
  BY TopIs
<1>3. Passing(nodes, tt) BY <1>1, <1>2, DefsPassing
<1>4. \A x : WaitsIn(stack, x) => WaitsIn(tt, x) BY <1>2, DefsWaits
<1> HIDE DEF tt
<1>5. ~diags => NoneLost(nodes, stack) BY DEF Passes
<1>6. Passes' BY <1>1, <1>3, <1>4, <1>5 DEF Passes, NoneLost, AtEnd
<1> QED BY <1>1, <1>6, NoneOwned

\* The second pass over a class ends.
LEMMA EndClassPasses ==
  ASSUME Shape, Passes, NEW inst, EndClass(inst)
  PROVE  Passes' /\ Owned
<1>1. /\ pc = "run" /\ Top.kind = "defs" /\ Top.todo = <<>> /\ stack' = Front(stack)
      /\ UNCHANGED <<nodes, pc>> /\ (diags => diags')
  BY DEF EndClass, EndsDefs
<1>2. Len(stack) > 1 BY <1>1, TopIs
<1> QED BY <1>1, <1>2, FrontPasses

\* Nothing but pc changes: the parser goes no further.
LEMMA StopPasses ==
  ASSUME Shape, Passes, UNCHANGED <<nodes, stack, diags>>,
         pc' = "done" => pc = "done" \/ (Len(stack) = 1 /\ stack[1].todo = <<>>)
  PROVE  Passes' /\ Owned
<1>1. Passes' BY DEF Passes, AtEnd
<1> QED BY <1>1, NoneOwned

\* The second pass over a member of a class that is a class ends.
LEMMA EndMemberPasses ==
  ASSUME Shape, Passes, EndMemberClass
  PROVE  Passes' /\ Owned
<1>1. /\ pc = "run" /\ Top.kind = "defs" /\ Top.todo = <<>> /\ UNCHANGED <<nodes, diags>>
  BY DEF EndMemberClass, EndsDefs
<1>2. CASE nodes[Top.node].var
  <2>1. stack' = Front(stack) /\ pc' = pc BY <1>2 DEF EndMemberClass
  <2>2. Len(stack) > 1 BY <1>1, TopIs
  <2> QED BY <1>1, <2>1, <2>2, FrontPasses
<1>3. CASE ~nodes[Top.node].var
  <2>1. stack' = stack /\ pc' = "no_var" BY <1>3 DEF EndMemberClass
  <2> QED BY <1>1, <2>1, StopPasses
<1> QED BY <1>2, <1>3

\* The file ends where nothing waits.
LEMMA EndFilePasses ==
  ASSUME Shape, Passes, EndFile
  PROVE  Passes' /\ Owned
<1>1. /\ Len(stack) = 1 /\ UNCHANGED <<nodes, stack, diags>> /\ Top.kind # "defs"
      /\ Top.kind = "nodes" => Top.todo = <<>>
  BY DEF EndFile, Reading
<1>2. Top = stack[1] /\ stack[1].kind = "nodes" BY <1>1, TopIs DEF FramesOK
<1> QED BY <1>1, <1>2, StopPasses

\* A variable or a type definition is read, its initializer perhaps put off.
LEMMA VarDeclPasses ==
  ASSUME Shape, Passes, NEW name \in Names, NEW kind \in {"VAR", "TYPEDEF"}, NEW init \in BOOLEAN,
         VarDecl(name, kind, init)
  PROVE  Passes' /\ Owned
<1> DEFINE c == NewNode(kind, name, init)
<1>1. kind \in IdentKinds /\ name \in AllNames BY DEF IdentKinds, AllNames
<1>2. /\ c \in Node /\ c.opened = 0 /\ c.body = init
      /\ c.owner = (IF Top.kind = "decls" THEN Top.node ELSE 0)
  BY ZenonT(40), <1>1, NewNodeIs
<1>3. /\ pc = "run" /\ Top.kind # "defs" /\ nodes' = Append(nodes, c) /\ pc' = pc
      /\ (diags => diags') /\ stack' = IF init THEN Todo(stack, New) ELSE stack
  BY DEF VarDecl, Reading
<1> HIDE DEF c
<1> QED BY <1>2, <1>3, ReadPasses

\* A function is read, its body perhaps put off.
LEMMA FuncDeclPasses ==
  ASSUME Shape, Passes, NEW name \in Names, NEW p \in Protos, NEW body \in BOOLEAN,
         FuncDecl(name, p, body)
  PROVE  Passes' /\ Owned
<1> DEFINE s == Top.scope
           fname == IF IsTypeName(scopes, s, name) THEN "INVALID-FUNC-NAME" ELSE name
           i == Place(scopes[s].idents, NewIdent(fname, "FUNC", p.sig, New))
           d == NewNode("FUNC", fname, body)
           c == [d EXCEPT !.sig = p.sig, !.params = ParamNames(s, p.params), !.at = s, !.idx = i]
<1>1. /\ pc = "run" /\ Top.kind # "defs" /\ nodes' = Append(nodes, c) /\ pc' = pc
      /\ (diags => diags') /\ stack' = IF body THEN Todo(stack, New) ELSE stack
  BY DEF FuncDecl, Reading
<1>2. c \in Node
  <2>1. Shape' /\ nodes' \in Seq(Node) /\ Len(nodes) \in Nat
    BY FuncDeclShape, ShapeTypes DEF Shape
  <2>2. nodes \in Seq(Node) /\ Len(nodes') = Len(nodes) + 1 /\ nodes'[Len(nodes) + 1] = c
    <3>1. nodes \in Seq(Node) BY ShapeTypes
    <3> HIDE DEF c
    <3> QED BY <3>1, <1>1
  <2> HIDE DEF c
  <2> QED BY <2>1, <2>2
<1>3. /\ d \in Node /\ d.opened = 0 /\ d.body = body
      /\ d.owner = (IF Top.kind = "decls" THEN Top.node ELSE 0)
  <2>1. fname \in AllNames /\ "FUNC" \in IdentKinds BY DEF IdentKinds, AllNames
  <2> HIDE DEF fname
  <2> QED BY ZenonT(40), <2>1, NewNodeIs
<1> HIDE DEF d
<1>4. c.opened = d.opened /\ c.body = d.body /\ c.owner = d.owner BY <1>3 DEF Node
<1> HIDE DEF c
<1> QED BY <1>1, <1>2, <1>3, <1>4, ReadPasses

\* A class is read, its body perhaps put off.
LEMMA ClassDeclPasses ==
  ASSUME Shape, Passes, NEW name \in Names, NEW q, NEW body \in BOOLEAN,
         NEW inst \in Names \cup {"none"}, ClassDecl(name, q, body, inst)
  PROVE  Passes' /\ Owned
<1> DEFINE res == Qualified(q, Top.scope)
           i == Place(scopes[res].idents, NewIdent(name, "CLASS", 0, New))
           d == NewNode("CLASS", name, body)
           c == [d EXCEPT !.at = res, !.idx = i, !.var = inst # "none"]
           later == SkipDef \/ body
<1>1. /\ pc = "run" /\ Top.kind # "defs" /\ nodes' = Append(nodes, c) /\ pc' = pc
      /\ (diags => diags') /\ stack' = IF later THEN Todo(stack, New) ELSE stack
  BY DEF ClassDecl, Reading
<1>2. c \in Node
  <2>1. Shape' /\ nodes' \in Seq(Node) /\ Len(nodes) \in Nat
    BY ClassDeclShape, ShapeTypes DEF Shape
  <2>2. nodes \in Seq(Node) /\ Len(nodes') = Len(nodes) + 1 /\ nodes'[Len(nodes) + 1] = c
    <3>1. nodes \in Seq(Node) BY ShapeTypes
    <3> HIDE DEF c
    <3> QED BY <3>1, <1>1
  <2> HIDE DEF c
  <2> QED BY <2>1, <2>2
<1>3. /\ d \in Node /\ d.opened = 0 /\ d.body = body /\ d.kind = "CLASS"
      /\ d.owner = (IF Top.kind = "decls" THEN Top.node ELSE 0)
  <2>1. name \in AllNames /\ "CLASS" \in IdentKinds BY DEF IdentKinds, AllNames
  <2> QED BY ZenonT(40), <2>1, NewNodeIs
<1> HIDE DEF d
<1>4. c.opened = d.opened /\ c.body = d.body /\ c.owner = d.owner /\ c.kind = d.kind
  BY <1>3 DEF Node
<1>5. later \in BOOLEAN /\ (c.body => later) BY <1>3, <1>4 DEF SkipDef
<1> HIDE DEF c, later
<1> QED BY <1>1, <1>2, <1>3, <1>4, <1>5, ReadPasses

\* Each step keeps the order of the passes.
LEMMA NextPasses == Shape /\ Passes /\ [Next]_vars => Passes' /\ Owned
<1> SUFFICES ASSUME Shape, Passes, [Next]_vars PROVE Passes' /\ Owned OBVIOUS
<1>1. ASSUME NEW name \in Names, NEW kind \in {"VAR", "TYPEDEF"}, NEW init \in BOOLEAN,
             VarDecl(name, kind, init)
      PROVE  Passes' /\ Owned
  BY <1>1, VarDeclPasses
<1>2. ASSUME NEW name \in Names, NEW p \in Protos, NEW body \in BOOLEAN, FuncDecl(name, p, body)
      PROVE  Passes' /\ Owned
  BY <1>2, FuncDeclPasses
<1>3. ASSUME NEW name \in Names, NEW q, NEW body \in BOOLEAN, NEW inst \in Names \cup {"none"},
             ClassDecl(name, q, body, inst)
      PROVE  Passes' /\ Owned
  BY <1>3, ClassDeclPasses
<1>4. ASSUME NEW q, NEW name, UndefinedBase(q, name) PROVE Passes' /\ Owned
  BY <1>4, StopPasses DEF UndefinedBase
<1>5. ASSUME NEW name \in Names, NamespaceDecl(name) PROVE Passes' /\ Owned
  BY <1>5, SpacePasses
<1>6. CASE ReadInit BY <1>6, ReadInitPasses
<1>7. CASE OpenFunc BY <1>7, OpenFuncPasses
<1>8. CASE UnclosedFunc BY <1>8, UnclosedPasses
<1>9. CASE OpenClass BY <1>9, OpenClassPasses
<1>10. CASE NoBody BY <1>10, StopPasses DEF NoBody
<1>11. CASE EndNodes BY <1>11, EndNodesPasses
<1>12. CASE EndDecls BY <1>12, EndDeclsPasses
<1>13. CASE EndMemberClass BY <1>13, EndMemberPasses
<1>14. CASE EndFile BY <1>14, EndFilePasses
<1>15. ASSUME NEW inst, EndClass(inst) PROVE Passes' /\ Owned BY <1>15, EndClassPasses
<1>16. CASE UNCHANGED vars
  <2>1. UNCHANGED <<nodes, stack, diags>> /\ pc' = pc BY <1>16 DEF vars
  <2>2. pc' = "done" => pc = "done" \/ (Len(stack) = 1 /\ stack[1].todo = <<>>) BY <2>1
  <2> QED BY <2>1, <2>2, StopPasses
<1> QED
  BY <1>1, <1>2, <1>3, <1>4, <1>5, <1>6, <1>7, <1>8, <1>9, <1>10, <1>11, <1>12, <1>13, <1>14,
     <1>15, <1>16
  DEF Next

\* At first nothing waits.
LEMMA InitPasses == Init => Passes
<1> SUFFICES ASSUME Init PROVE Passes OBVIOUS
<1> DEFINE f == NewFrame("nodes", 1, 0)
<1>1. f.kind = "nodes" BY DEF NewFrame
<1>2. f.todo = <<>> BY DEF NewFrame
<1>3. stack = <<f>> /\ nodes = <<>> /\ pc = "run" BY DEF Init
<1> HIDE DEF f
<1>4. Len(stack) = 1 /\ stack[1] = f /\ Len(nodes) = 0 /\ Len(f.todo) = 0 BY <1>2, <1>3
<1>5. \A g \in 1..Len(stack) : stack[g] = f BY <1>4
<1>6. \A g \in 2..Len(stack) : FALSE BY <1>4
<1>7. \A n \in 1..Len(nodes) : FALSE BY <1>4
<1>8. Waiting(nodes, stack) BY <1>4, <1>5 DEF Waiting
<1>9. WaitsOnce(stack) BY <1>4, <1>5 DEF WaitsOnce
<1>10. FrameNodes(nodes, stack) BY <1>6 DEF FrameNodes
<1>11. OpenedOnce(nodes) /\ NoneLost(nodes, stack) BY <1>7 DEF OpenedOnce, NoneLost
<1>12. MembersWait(nodes, stack) BY <1>7 DEF MembersWait
<1> QED BY <1>3, <1>8, <1>9, <1>10, <1>11, <1>12 DEF Passes, Passing, AtEnd

\* The invariant of the two passes, which needs the shape of the state.
THEOREM PassesKept == Spec => [](Shape /\ Passes)
<1>1. Init => Shape /\ Passes BY InitShape, InitPasses
<1>2. Shape /\ Passes /\ [Next]_vars => Shape' /\ Passes' BY NextShape, NextPasses
<1> QED BY <1>1, <1>2, PTL DEF Spec

\* When a file has been read without an error, each initializer and body it
\* contains has been parsed exactly once.
THEOREM DefinitionsParsedOnce == Spec => []EachDefinedOnce
<1>1. Shape /\ Passes => EachDefinedOnce
  <2> SUFFICES ASSUME Shape, Passes, pc = "done", ~diags, NEW n \in NodeIds
               PROVE  nodes[n].opened = (IF nodes[n].body THEN 1 ELSE 0)
    BY DEF EachDefinedOnce
  <2>1. Len(stack) = 1 /\ Len(stack[1].todo) = 0
    <3>1. Len(stack) = 1 /\ stack[1].todo = <<>> BY DEF Passes, AtEnd
    <3> QED BY <3>1
  <2>2. ~WaitsIn(stack, n) BY <2>1 DEF WaitsIn
  <2>3. n \in 1..Len(nodes) BY DEF NodeIds
  <2>4. nodes[n].body => nodes[n].opened # 0 BY <2>2, <2>3 DEF Passes, NoneLost
  <2>5. nodes[n].opened \in {0, 1} /\ (nodes[n].opened = 1 => nodes[n].body)
    BY <2>3 DEF Passes, Passing, OpenedOnce
  <2> QED BY <2>4, <2>5
<1> QED BY <1>1, PassesKept, PTL

\* Once a member of a class has been defined no other is declared in it.
THEOREM MembersDeclaredFirst == Spec => MembersFirst
<1> DEFINE First == \A m \in NodeIds, n \in 1..Len(nodes') \ NodeIds :
                      /\ nodes[m].owner # 0
                      /\ nodes[m].opened > 0
                      => nodes'[n].owner # nodes[m].owner
<1>1. Shape /\ Passes /\ [Next]_vars => First
  <2> SUFFICES ASSUME Shape, Passes, [Next]_vars,
                      NEW m \in NodeIds, NEW n \in 1..Len(nodes') \ NodeIds,
                      nodes[m].owner # 0, nodes[m].opened > 0,
                      nodes'[n].owner = nodes[m].owner
               PROVE  FALSE
    OBVIOUS
  <2>1. Owned BY NextPasses
  <2>2. nodes'[n].owner = IF Top.kind = "decls" THEN Top.node ELSE 0 BY <2>1 DEF Owned
  <2>3. Top.kind = "decls" /\ nodes[m].owner = Top.node BY <2>2
  <2>4. Top = stack[Len(stack)] /\ Len(stack) \in 1..Len(stack) /\ NodeIds = 1..Len(nodes)
    <3>1. Len(stack) \in Nat \ {0} /\ Top = stack[Len(stack)] /\ NodeIds = 1..Len(nodes)
      BY TopIs
    <3> QED BY <3>1
  <2>5. nodes[m].opened = 0 BY <2>3, <2>4 DEF Passes, Passing, MembersWait
  <2> QED BY <2>5
<1>2. Init => Shape /\ Passes BY InitShape, InitPasses
<1>3. Shape /\ Passes /\ [Next]_vars => Shape' /\ Passes' BY NextShape, NextPasses
<1>4. MembersFirst <=> [][First]_vars BY PTL DEF MembersFirst
<1> HIDE DEF First
<1> QED BY <1>1, <1>2, <1>3, <1>4, PTL DEF Spec
-----------------------------------------------------------------------------
(***************************************************************************)
(* What the definitions leave behind: the definition and the scope of an   *)
(* identifier, the parameters in the scope of a function, the default      *)
(* arguments.  In a program without errors a definition that was parsed is *)
(* the one its identifier leads to.                                        *)
(***************************************************************************)
DefinedBy ==
  ~diags => \A n \in NodeIds :
    nodes[n].at # 0 /\ nodes[n].opened > 0 => IdentOf(n).def = n

FuncScopes ==
  \A s \in ScopeIds : scopes[s].kind = "FUNC" => scopes[s].node \in NodeIds

\* All that a function is given, or has parameters for, under any prototype.
ParamsOf(sig) ==
  UNION {p.defaults \cup 1..Len(p.params) : p \in {p \in Protos : p.sig = sig}}

GivenTrail ==
  ~diags => \A s \in ScopeIds : \A k \in 1..Len(scopes[s].idents) :
    LET ident == scopes[s].idents[k]
    IN  ident.kind = "FUNC" =>
          \A i \in ident.given : \A j \in ParamsOf(ident.sig) : i < j => j \in ident.given

Definitions ==
  /\ DefinedBy /\ ScopeOfDefinition
  /\ FuncScopes /\ BodySeesParams
  /\ GivenTrail

\* A step that defines nothing: identifiers keep their definitions, and new
\* scopes, which are of no function, hold none.
Quiet ==
  /\ diags => diags'
  /\ Len(scopes) <= Len(scopes')
  /\ \A s \in ScopeIds :
       /\ Len(scopes[s].idents) <= Len(scopes'[s].idents)
       /\ \A i \in 1..Len(scopes[s].idents) :
            /\ scopes'[s].idents[i].def = scopes[s].idents[i].def
            /\ scopes'[s].idents[i].scope = scopes[s].idents[i].scope
       /\ \A i \in 1..Len(scopes'[s].idents) :
            i > Len(scopes[s].idents) => scopes'[s].idents[i].scope = 0
  /\ \A s \in 1..Len(scopes') : s \notin ScopeIds =>
       scopes'[s].kind # "FUNC" /\ Len(scopes'[s].idents) = 0

\* Nor are nodes opened by it whose identifier has a definition.
QuietNodes ==
  /\ \A n \in NodeIds : nodes[n].at # 0 => nodes'[n].opened = nodes[n].opened
  /\ \A n \in 1..Len(nodes') : n \notin NodeIds => nodes'[n].opened = 0

\* Default arguments are kept, none, or checked by the step that adds them.
GivenKept ==
  /\ diags => diags'
  /\ \A s \in 1..Len(scopes') : \A k \in 1..Len(scopes'[s].idents) :
       LET ident == scopes'[s].idents[k]
       IN  \/ /\ s \in ScopeIds /\ k \in 1..Len(scopes[s].idents)
              /\ ident.given = scopes[s].idents[k].given
           \/ ident.given = {}
           \/ \E p \in Protos :
                /\ ident.kind = "FUNC" => ident.sig = p.sig
                /\ MissingDefault(ident.given, Len(p.params)) => diags'

\* The functions whose body is begun have the parameters in scope.
ParamsSeen ==
  \A s \in 1..Len(scopes') : s \notin ScopeIds /\ scopes'[s].kind = "FUNC" =>
    LET params == nodes[scopes'[s].node].params
    IN  /\ scopes'[s].node \in NodeIds
        /\ Len(params) <= Len(scopes'[s].idents)
        /\ \A i \in 1..Len(params) : scopes'[s].idents[i].name = params[i]

\* The lengths and the elements of the scopes of both states.
LEMMA ScopesAre ==
  ASSUME Shape, Shape', Grows
  PROVE  /\ Len(scopes) \in Nat /\ Len(scopes') \in Nat /\ Len(scopes) <= Len(scopes')
         /\ ScopeIds = 1..Len(scopes) /\ NodeIds = 1..Len(nodes)
         /\ Len(nodes) \in Nat /\ Len(nodes') \in Nat /\ Len(nodes) <= Len(nodes')
         /\ \A s \in ScopeIds : s \in 1..Len(scopes') /\ Len(scopes[s].idents) \in Nat
         /\ \A s \in 1..Len(scopes') : Len(scopes'[s].idents) \in Nat
         /\ \A s \in ScopeIds : \A k \in 1..Len(scopes[s].idents) :
              k \in 1..Len(scopes'[s].idents)
<1>1. /\ scopes \in Seq(Scope) /\ scopes' \in Seq(Scope)
      /\ nodes \in Seq(Node) /\ nodes' \in Seq(Node)
  BY DEF Shape, ScopesOK
<1>2. /\ Len(scopes) \in Nat /\ Len(scopes') \in Nat /\ Len(scopes) <= Len(scopes')
      /\ Len(nodes) \in Nat /\ Len(nodes') \in Nat /\ Len(nodes) <= Len(nodes')
  BY <1>1 DEF Grows, Grown, NodesKept
<1>3. \A s \in 1..Len(scopes) : Len(scopes[s].idents) \in Nat
  <2>1. \A s \in 1..Len(scopes) : scopes[s] \in Scope BY <1>1
  <2> QED BY <2>1, ScopeFields
<1>4. \A s \in 1..Len(scopes') : Len(scopes'[s].idents) \in Nat
  <2>1. \A s \in 1..Len(scopes') : scopes'[s] \in Scope BY <1>1
  <2> QED BY <2>1, ScopeFields
<1>5. \A s \in 1..Len(scopes) : s \in 1..Len(scopes') BY <1>2
<1>6. \A s \in 1..Len(scopes) : Len(scopes[s].idents) <= Len(scopes'[s].idents)
  BY DEF Grows, Grown
<1>7. \A s \in 1..Len(scopes) : \A k \in 1..Len(scopes[s].idents) : k \in 1..Len(scopes'[s].idents)
  BY <1>3, <1>4, <1>5, <1>6
<1> QED BY <1>2, <1>3, <1>4, <1>5, <1>7 DEF ScopeIds, NodeIds

\* A node keeps its identifier.
LEMMA IdentKept ==
  ASSUME Shape, Shape', Grows, NEW n \in NodeIds, nodes[n].at # 0
  PROVE  /\ nodes'[n].at = nodes[n].at /\ nodes'[n].idx = nodes[n].idx
         /\ nodes[n].at \in ScopeIds
         /\ nodes[n].idx \in 1..Len(scopes[nodes[n].at].idents)
         /\ IdentOf(n) = scopes[nodes[n].at].idents[nodes[n].idx]
         /\ IdentOf(n)' = scopes'[nodes[n].at].idents[nodes[n].idx]
<1>1. n \in 1..Len(nodes) BY DEF NodeIds
<1>2. nodes'[n].at = nodes[n].at /\ nodes'[n].idx = nodes[n].idx
  BY SMTT(40), <1>1 DEF Grows, NodesKept
<1>3. nodes[n].at \in ScopeIds /\ nodes[n].idx \in 1..Len(scopes[nodes[n].at].idents)
  BY <1>1 DEF Shape, PointersOK, ScopeIds
<1> QED BY <1>2, <1>3 DEF IdentOf

\* A quiet step keeps definitions and scopes with those who lead to them.
LEMMA QuietDefinitions ==
  ASSUME Shape, Shape', Grows, Quiet, QuietNodes, DefinedBy, ScopeOfDefinition
  PROVE  DefinedBy' /\ ScopeOfDefinition'
<1>1. /\ Len(scopes) \in Nat /\ Len(scopes') \in Nat
      /\ ScopeIds = 1..Len(scopes) /\ NodeIds = 1..Len(nodes)
      /\ \A s \in ScopeIds : s \in 1..Len(scopes') /\ Len(scopes[s].idents) \in Nat
      /\ \A s \in 1..Len(scopes') : Len(scopes'[s].idents) \in Nat
  BY ScopesAre
<1>2. DefinedBy'
  <2> SUFFICES ASSUME ~diags', NEW n \in 1..Len(nodes'), nodes'[n].at # 0, nodes'[n].opened > 0
               PROVE  IdentOf(n)'.def = n
    BY DEF DefinedBy, NodeIds
  <2>1. n \in NodeIds BY DEF QuietNodes
  <2>2. nodes[n].at # 0 BY <2>1, <1>1 DEF Grows, NodesKept
  <2>3. nodes[n].opened > 0 BY <2>1, <2>2 DEF QuietNodes
  <2>4. ~diags BY DEF Quiet
  <2>5. IdentOf(n).def = n BY <2>1, <2>2, <2>3, <2>4 DEF DefinedBy
  <2>6. /\ nodes[n].at \in ScopeIds /\ nodes[n].idx \in 1..Len(scopes[nodes[n].at].idents)
        /\ IdentOf(n) = scopes[nodes[n].at].idents[nodes[n].idx]
        /\ IdentOf(n)' = scopes'[nodes[n].at].idents[nodes[n].idx]
    BY <2>1, <2>2, IdentKept
  <2> QED BY <2>5, <2>6 DEF Quiet
<1>3. ScopeOfDefinition'
  <2> SUFFICES ASSUME NEW s \in 1..Len(scopes'), NEW i \in 1..Len(scopes'[s].idents),
                      scopes'[s].idents[i].scope # 0, ~diags'
               PROVE  scopes'[scopes'[s].idents[i].scope].node = scopes'[s].idents[i].def
    BY DEF ScopeOfDefinition, ScopeIds
  <2>1. s \in ScopeIds
    <3> SUFFICES ASSUME s \notin ScopeIds PROVE FALSE OBVIOUS
    <3>1. Len(scopes'[s].idents) = 0 BY DEF Quiet
    <3> QED BY <3>1
  <2>2. i \in 1..Len(scopes[s].idents)
    <3> SUFFICES ASSUME ~(i \in 1..Len(scopes[s].idents)) PROVE FALSE OBVIOUS
    <3>1. i > Len(scopes[s].idents) BY <2>1, <1>1
    <3> QED BY <3>1, <2>1 DEF Quiet
  <2> DEFINE t == scopes[s].idents[i].scope
  <2>3. scopes'[s].idents[i].def = scopes[s].idents[i].def /\ scopes'[s].idents[i].scope = t
    BY <2>1, <2>2 DEF Quiet
  <2>4. t # 0 /\ ~diags BY <2>3 DEF Quiet
  <2>5. scopes[t].node = scopes[s].idents[i].def BY <2>1, <2>2, <2>4 DEF ScopeOfDefinition
  <2>6. t \in 0..Len(scopes)
    <3>1. IdentsOK(scopes[s].idents, Len(scopes), Len(nodes), SpacesOf(scopes))
      BY <2>1, <1>1 DEF Shape, ScopesOK
    <3> QED BY <3>1, <2>2 DEF IdentsOK, IdentOK
  <2> HIDE DEF t
  <2>7. t \in 1..Len(scopes) BY <2>4, <2>6, <1>1
  <2>8. scopes'[t].node = scopes[t].node BY <2>7 DEF Grows, Grown
  <2> QED BY <2>3, <2>5, <2>8
<1> QED BY <1>2, <1>3

\* The definition that is parsed becomes that of its identifier, with the
\* scope that is added; if it had one, the program is in error.
LEMMA OpenDefinitions ==
  ASSUME Shape, Shape', Grows, Passes, Owned, Defining, DefinedBy, ScopeOfDefinition,
         nodes[Def].kind # "VAR",
         nodes' = Opened(Def), diags' = (diags \/ Redefined(Def)),
         Len(scopes') = Len(scopes) + 1, Defines(Def, Len(scopes) + 1, scopes'),
         scopes'[Len(scopes) + 1].node = Def,
         \A i \in 1..Len(scopes'[Len(scopes) + 1].idents) :
           scopes'[Len(scopes) + 1].idents[i].scope = 0
  PROVE  DefinedBy' /\ ScopeOfDefinition'
<1> DEFINE m == Len(scopes) + 1
           a == nodes[Def].at
           b == nodes[Def].idx
<1>1. /\ Len(scopes) \in Nat /\ Len(scopes') \in Nat
      /\ ScopeIds = 1..Len(scopes) /\ NodeIds = 1..Len(nodes)
      /\ nodes \in Seq(Node)
  BY ScopesAre, ShapeTypes
<1>2. Def \in NodeIds /\ Def # 0 /\ a # 0 BY DefIs, <1>1
<1>3. Len(nodes') = Len(nodes) /\ \A n \in NodeIds : n # Def => nodes'[n].opened = nodes[n].opened
  BY <1>1, <1>2, OpenedIs
<1>4. \A t \in ScopeIds : \A k \in 1..Len(scopes[t].idents) :
        /\ t = a /\ k = b => /\ scopes'[t].idents[k].def = Def
                             /\ scopes'[t].idents[k].scope = m
        /\ ~(t = a /\ k = b) => scopes'[t].idents[k] = scopes[t].idents[k]
  BY DEF Defines
<1>5. \A t \in ScopeIds : /\ Len(scopes'[t].idents) = Len(scopes[t].idents)
                         /\ scopes'[t].node = scopes[t].node
  BY DEF Defines
<1>6. ~diags' => ~diags /\ IdentOf(Def).def = 0 BY DEF Redefined
<1>7. scopes'[m].node = Def /\ \A i \in 1..Len(scopes'[m].idents) : scopes'[m].idents[i].scope = 0
  OBVIOUS
<1>8. \A s \in 1..Len(scopes') : s \in ScopeIds \/ s = m BY <1>1
<1> HIDE DEF m
<1>9. DefinedBy'
  <2> SUFFICES ASSUME ~diags', NEW n \in NodeIds, nodes'[n].at # 0, nodes'[n].opened > 0
               PROVE  IdentOf(n)'.def = n
    BY <1>1, <1>3 DEF DefinedBy, NodeIds
  <2>1. nodes[n].at # 0 BY <1>1 DEF Grows, NodesKept
  <2>2. /\ nodes[n].at \in ScopeIds /\ nodes[n].idx \in 1..Len(scopes[nodes[n].at].idents)
        /\ IdentOf(n) = scopes[nodes[n].at].idents[nodes[n].idx]
        /\ IdentOf(n)' = scopes'[nodes[n].at].idents[nodes[n].idx]
    BY <2>1, IdentKept
  <2>3. CASE n = Def BY <2>2, <2>3, <1>4
  <2>4. CASE n # Def
    <3>1. IdentOf(n).def = n BY <2>1, <2>4, <1>3, <1>6 DEF DefinedBy
    <3>2. ~(nodes[n].at = a /\ nodes[n].idx = b)
      <4> SUFFICES ASSUME nodes[n].at = a, nodes[n].idx = b PROVE FALSE OBVIOUS
      <4>1. IdentOf(Def) = IdentOf(n) BY DEF IdentOf
      <4>2. n = 0 BY <4>1, <3>1, <1>6
      <4> QED BY <4>2, <1>1
    <3>3. IdentOf(n)' = IdentOf(n) BY <3>2, <2>2, <1>4
    <3> QED BY <3>1, <3>3
  <2> QED BY <2>3, <2>4
<1>10. ScopeOfDefinition'
  <2> SUFFICES ASSUME NEW s \in 1..Len(scopes'), NEW i \in 1..Len(scopes'[s].idents),
                      scopes'[s].idents[i].scope # 0, ~diags'
               PROVE  scopes'[scopes'[s].idents[i].scope].node = scopes'[s].idents[i].def
    BY DEF ScopeOfDefinition, ScopeIds
  <2>1. s \in ScopeIds BY <1>7, <1>8
  <2>2. i \in 1..Len(scopes[s].idents) BY SMTT(40), <2>1, <1>5
  <2>3. CASE s = a /\ i = b BY <2>1, <2>2, <2>3, <1>4, <1>7
  <2>4. CASE ~(s = a /\ i = b)
    <3> DEFINE t == scopes[s].idents[i].scope
    <3>1. scopes'[s].idents[i] = scopes[s].idents[i] BY <2>1, <2>2, <2>4, <1>4
    <3>2. scopes[t].node = scopes[s].idents[i].def
      BY <3>1, <2>1, <2>2, <1>6 DEF ScopeOfDefinition
    <3>3. t \in 0..Len(scopes)
      <4>1. IdentsOK(scopes[s].idents, Len(scopes), Len(nodes), SpacesOf(scopes))
        BY <2>1, <1>1 DEF Shape, ScopesOK
      <4> QED BY <4>1, <2>2 DEF IdentsOK, IdentOK
    <3>4. t # 0 BY <3>1
    <3>5. t \in ScopeIds
      <4> HIDE DEF t
      <4> QED BY <3>3, <3>4, <1>1
    <3> QED BY <3>1, <3>2, <3>5, <1>5
  <2> QED BY <2>3, <2>4
<1> QED BY <1>9, <1>10

\* What is given to a function trails whether it is kept or was checked.
LEMMA GivenNext ==
  ASSUME Shape, Shape', Grows, GivenTrail, GivenKept
  PROVE  GivenTrail'
<1> SUFFICES ASSUME ~diags', NEW s \in 1..Len(scopes'), NEW k \in 1..Len(scopes'[s].idents),
                    scopes'[s].idents[k].kind = "FUNC",
                    NEW i \in scopes'[s].idents[k].given,
                    NEW j \in ParamsOf(scopes'[s].idents[k].sig), i < j
             PROVE  j \in scopes'[s].idents[k].given
  BY DEF GivenTrail, ScopeIds
<1> DEFINE ident == scopes'[s].idents[k]
<1>1. ~diags BY DEF GivenKept
<1>2. \/ /\ s \in ScopeIds /\ k \in 1..Len(scopes[s].idents)
         /\ ident.given = scopes[s].idents[k].given
      \/ ident.given = {}
      \/ \E p \in Protos :
           /\ ident.kind = "FUNC" => ident.sig = p.sig
           /\ MissingDefault(ident.given, Len(p.params)) => diags'
  BY DEF GivenKept
<1>3. CASE /\ s \in ScopeIds /\ k \in 1..Len(scopes[s].idents)
           /\ ident.given = scopes[s].idents[k].given
  <2>1. Same(scopes[s].idents[k], ident) BY <1>3 DEF Grows, Grown, ScopeIds
  <2>2. scopes[s].idents[k].kind = "FUNC" /\ scopes[s].idents[k].sig = ident.sig
    BY <2>1 DEF Same
  <2> QED BY <1>1, <1>3, <2>2 DEF GivenTrail
<1>4. ASSUME NEW p \in Protos, ident.sig = p.sig,
             MissingDefault(ident.given, Len(p.params)) => diags'
      PROVE  j \in ident.given
  <2>1. IdentsOK(scopes'[s].idents, Len(scopes'), Len(nodes'), SpacesOf(scopes'))
    BY DEF Shape, ScopesOK
  <2>2. i \in Nat /\ i # 0
    <3>1. IdentOK(ident, Len(scopes'), Len(nodes'), SpacesOf(scopes')) BY <2>1 DEF IdentsOK
    <3> QED BY <3>1 DEF IdentOK, Ident
  <2>3. PICK r \in Protos : r.sig = p.sig /\ j \in r.defaults \cup 1..Len(r.params)
    BY <1>4 DEF ParamsOf
  <2>4. Len(r.params) = Len(p.params) BY <2>3, ProtosAssumption
  <2>5. r.defaults \subseteq 1..Len(r.params) BY ProtoIs
  <2>6. j \in 1..Len(p.params) BY <2>3, <2>4, <2>5
  <2>7. Len(p.params) \in Nat
    <3>1. p.params \in Seq(Names) BY ProtoIs
    <3> QED BY <3>1
  <2>8. i \in 1..Len(p.params) BY <2>2, <2>6, <2>7
  <2>9. i \in ident.given OBVIOUS
  <2> HIDE DEF ident
  <2> QED BY <2>6, <2>8, <2>9, <1>4 DEF MissingDefault
<1>5. ident.kind = "FUNC" /\ i \in ident.given OBVIOUS
<1> HIDE DEF ident
<1> QED BY <1>2, <1>3, <1>4, <1>5 DEF ident

\* The scope of a function keeps its node and the names of its parameters.
LEMMA ParamsNext ==
  ASSUME Shape, Shape', Grows, FuncScopes, BodySeesParams, ParamsSeen
  PROVE  FuncScopes' /\ BodySeesParams'
<1>1. /\ ScopeIds = 1..Len(scopes) /\ NodeIds = 1..Len(nodes)
      /\ Len(nodes) \in Nat /\ Len(nodes') \in Nat /\ Len(nodes) <= Len(nodes')
      /\ \A s \in ScopeIds : Len(scopes[s].idents) \in Nat
      /\ \A s \in 1..Len(scopes') : Len(scopes'[s].idents) \in Nat
  BY ScopesAre
<1>2. ASSUME NEW s \in 1..Len(scopes'), scopes'[s].kind = "FUNC"
      PROVE  /\ scopes'[s].node \in NodeIds
             /\ Len(nodes[scopes'[s].node].params) <= Len(scopes'[s].idents)
             /\ \A i \in 1..Len(nodes[scopes'[s].node].params) :
                  scopes'[s].idents[i].name = nodes[scopes'[s].node].params[i]
  <2>1. CASE s \notin ScopeIds BY <1>2, <2>1 DEF ParamsSeen
  <2>2. CASE s \in ScopeIds
    <3> DEFINE n == scopes[s].node
               params == nodes[n].params
    <3>1. /\ scopes'[s].kind = scopes[s].kind /\ scopes'[s].node = n
          /\ Len(scopes[s].idents) <= Len(scopes'[s].idents)
          /\ \A i \in 1..Len(scopes[s].idents) : Same(scopes[s].idents[i], scopes'[s].idents[i])
      BY <1>1, <2>2 DEF Grows, Grown
    <3>2. n \in NodeIds BY <1>2, <2>2, <3>1 DEF FuncScopes
    <3>3. /\ Len(params) <= Len(scopes[s].idents)
          /\ \A i \in 1..Len(params) : scopes[s].idents[i].name = params[i]
      BY <1>2, <2>2, <3>1 DEF BodySeesParams
    <3>4. Len(params) \in Nat
      <4>1. nodes[n] \in Node BY <3>2, <1>1, ShapeTypes
      <4>2. params \in Seq(Names) BY <4>1, NodeFields
      <4> QED BY <4>2
    <3> HIDE DEF n, params
    <3>5. Len(params) <= Len(scopes'[s].idents) BY <1>1, <2>2, <3>1, <3>3, <3>4
    <3>6. \A i \in 1..Len(params) : scopes'[s].idents[i].name = params[i]
      <4> TAKE i \in 1..Len(params)
      <4>1. i \in 1..Len(scopes[s].idents) BY <1>1, <2>2, <3>3, <3>4
      <4> QED BY <4>1, <3>1, <3>3 DEF Same
    <3> QED BY <3>1, <3>2, <3>5, <3>6 DEF params
  <2> QED BY <2>1, <2>2
<1>3. \A n \in NodeIds : n \in 1..Len(nodes') /\ nodes'[n].params = nodes[n].params
  BY <1>1 DEF Grows, NodesKept
<1>4. FuncScopes' BY <1>2, <1>3 DEF FuncScopes, ScopeIds, NodeIds
<1>5. BodySeesParams'
  <2> SUFFICES ASSUME NEW s \in 1..Len(scopes'), scopes'[s].kind = "FUNC"
               PROVE  /\ Len(nodes'[scopes'[s].node].params) <= Len(scopes'[s].idents)
                      /\ \A i \in 1..Len(nodes'[scopes'[s].node].params) :
                           scopes'[s].idents[i].name = nodes'[scopes'[s].node].params[i]
    BY DEF BodySeesParams, ScopeIds
  <2>1. nodes'[scopes'[s].node].params = nodes[scopes'[s].node].params BY <1>2, <1>3
  <2> QED BY <2>1, <1>2
<1> QED BY <1>4, <1>5
-----------------------------------------------------------------------------
\* A node that is added, or nothing that happens to the nodes, is quiet.
LEMMA AddedQuiet ==
  ASSUME Owned, Len(nodes') # Len(nodes) \/ nodes' = nodes
  PROVE  QuietNodes
BY DEF Owned, QuietNodes, NodeIds

\* A step that leaves all definitions alone keeps what they left behind.
LEMMA QuietStep ==
  ASSUME Shape, Shape', Grows, Definitions, Quiet, QuietNodes, GivenKept, ParamsSeen
  PROVE  Definitions'
<1>1. DefinedBy' /\ ScopeOfDefinition' BY QuietDefinitions DEF Definitions
<1>2. GivenTrail' BY GivenNext DEF Definitions
<1>3. FuncScopes' /\ BodySeesParams' BY ParamsNext DEF Definitions
<1> QED BY <1>1, <1>2, <1>3 DEF Definitions

\* Identifiers that are merely declared are neither defined nor given anything.
LEMMA AppendedQuiet ==
  ASSUME Shape, Shape', Grows, Owned, Definitions, Appended(scopes, scopes'), diags => diags',
         QuietNodes
  PROVE  Definitions'
<1>1. /\ Len(scopes) \in Nat /\ ScopeIds = 1..Len(scopes)
      /\ \A s \in ScopeIds : Len(scopes[s].idents) \in Nat
      /\ \A s \in 1..Len(scopes') : Len(scopes'[s].idents) \in Nat
  BY ScopesAre
<1>2. Len(scopes') = Len(scopes) /\ \A s \in 1..Len(scopes') : s \in ScopeIds
  BY <1>1 DEF Appended
<1>3. Quiet
  <2>1. \A s \in ScopeIds :
          /\ Len(scopes[s].idents) <= Len(scopes'[s].idents)
          /\ \A i \in 1..Len(scopes[s].idents) : scopes'[s].idents[i] = scopes[s].idents[i]
          /\ \A i \in 1..Len(scopes'[s].idents) :
               i > Len(scopes[s].idents) => scopes'[s].idents[i].scope = 0
    BY <1>1 DEF Appended
  <2>2. Len(scopes) <= Len(scopes') BY <1>1, <1>2
  <2> QED BY <1>2, <2>1, <2>2 DEF Quiet
<1>4. GivenKept
  <2> SUFFICES ASSUME NEW s \in 1..Len(scopes'), NEW k \in 1..Len(scopes'[s].idents)
               PROVE  \/ /\ s \in ScopeIds /\ k \in 1..Len(scopes[s].idents)
                         /\ scopes'[s].idents[k].given = scopes[s].idents[k].given
                      \/ scopes'[s].idents[k].given = {}
    BY DEF GivenKept
  <2>1. s \in ScopeIds BY <1>2
  <2>2. k \in 1..Len(scopes[s].idents) \/ k > Len(scopes[s].idents) BY <2>1, <1>1
  <2> QED BY <2>1, <2>2, <1>1 DEF Appended
<1>5. ParamsSeen BY <1>2 DEF ParamsSeen
<1> QED BY <1>3, <1>4, <1>5, QuietStep

\* midpar_parse_func_decl: the default arguments are checked as they add up.
LEMMA FuncDeclDefinitions ==
  ASSUME Shape, Passes, Definitions, NEW name \in Names, NEW p \in Protos, NEW body \in BOOLEAN,
         FuncDecl(name, p, body)
  PROVE  Definitions'
<1>1. Shape' /\ Grows /\ Called(scopes, scopes') /\ GivenStep(scopes, scopes', p)
  BY FuncDeclShape
<1>2. Owned BY FuncDeclPasses
<1>3. /\ Len(scopes) \in Nat /\ ScopeIds = 1..Len(scopes) /\ Len(nodes) \in Nat
      /\ \A s \in ScopeIds : Len(scopes[s].idents) \in Nat
      /\ nodes \in Seq(Node)
  BY SMTT(40), <1>1, ScopesAre, ShapeTypes
<1>4. diags => diags' BY SMTT(40) DEF FuncDecl
<1>5. \E c : nodes' = Append(nodes, c) BY DEF FuncDecl
<1>6. Len(nodes') # Len(nodes) BY <1>3, <1>5
<1>7. QuietNodes BY <1>2, <1>6, AddedQuiet
<1>8. Len(scopes') = Len(scopes) /\ \A s \in 1..Len(scopes') : s \in ScopeIds
  BY <1>1, <1>3 DEF Called
<1>9. Quiet
  <2>1. \A s \in ScopeIds :
          /\ Len(scopes[s].idents) <= Len(scopes'[s].idents)
          /\ \A i \in 1..Len(scopes[s].idents) :
               /\ scopes'[s].idents[i].def = scopes[s].idents[i].def
               /\ scopes'[s].idents[i].scope = scopes[s].idents[i].scope
          /\ \A i \in 1..Len(scopes'[s].idents) :
               i > Len(scopes[s].idents) => scopes'[s].idents[i].scope = 0
    BY <1>1, <1>3 DEF Called
  <2>2. Len(scopes) <= Len(scopes') BY <1>3, <1>8
  <2> QED BY <1>4, <1>8, <2>1, <2>2 DEF Quiet
<1>10. GivenKept BY <1>1, <1>3, <1>4 DEF GivenKept, GivenStep
<1>11. ParamsSeen BY <1>8 DEF ParamsSeen
<1> QED BY <1>1, <1>7, <1>9, <1>10, <1>11, QuietStep

\* A declaration or the end of a class, with or without a node.
LEMMA DeclDefinitions ==
  ASSUME Shape, Passes, Definitions, [Next]_vars, Appended(scopes, scopes'), diags => diags',
         nodes' = nodes \/ \E c : nodes' = Append(nodes, c)
  PROVE  Definitions'
<1>1. Shape' /\ Grows BY NextShape
<1>2. Owned BY NextPasses
<1>3. nodes' = nodes \/ Len(nodes') # Len(nodes)
  <2>1. nodes \in Seq(Node) BY ShapeTypes
  <2>2. ASSUME NEW c, nodes' = Append(nodes, c) PROVE Len(nodes') # Len(nodes) BY <2>1, <2>2
  <2> QED BY <2>2
<1>4. QuietNodes BY <1>2, <1>3, AddedQuiet
<1> QED BY <1>1, <1>2, <1>4, AppendedQuiet

\* The scope of a namespace holds nothing yet.
LEMMA NamespaceDefinitions ==
  ASSUME Shape, Passes, Definitions, NEW name \in Names, NamespaceDecl(name)
  PROVE  Definitions'
<1>1. Shape' /\ Grows BY NamespaceShape
<1>2. Owned BY SpacePasses
<1> DEFINE c == NewScope("NAMESPACE", Top.scope, New, <<>>)
<1>3. PICK mid \in Seq(Scope) : Appended(scopes, mid) /\ scopes' = Append(mid, c)
  BY NamespaceShape
<1>4. c.kind = "NAMESPACE" BY DEF NewScope
<1>5. c.idents = <<>> BY DEF NewScope
<1> HIDE DEF c
<1>6. Len(c.idents) = 0 BY <1>5
<1>7. /\ Len(scopes) \in Nat /\ ScopeIds = 1..Len(scopes) /\ Len(nodes) \in Nat
      /\ \A s \in ScopeIds : Len(scopes[s].idents) \in Nat
      /\ nodes \in Seq(Node)
  BY <1>1, ScopesAre, ShapeTypes
<1>8. Len(mid) = Len(scopes) BY <1>3 DEF Appended
<1>9. /\ Len(scopes') = Len(scopes) + 1 /\ scopes'[Len(scopes) + 1] = c
      /\ \A s \in ScopeIds : scopes'[s] = mid[s]
  BY <1>3, <1>7, <1>8
<1>10. \A s \in ScopeIds :
         /\ Len(scopes[s].idents) <= Len(scopes'[s].idents)
         /\ \A i \in 1..Len(scopes[s].idents) : scopes'[s].idents[i] = scopes[s].idents[i]
         /\ \A i \in 1..Len(scopes'[s].idents) :
              i > Len(scopes[s].idents) => /\ scopes'[s].idents[i].scope = 0
                                           /\ scopes'[s].idents[i].given = {}
  BY <1>3, <1>7, <1>9 DEF Appended
<1>11. \A s \in 1..Len(scopes') : s \notin ScopeIds => scopes'[s] = c
  BY <1>7, <1>9
<1>12. diags => diags' BY DEF NamespaceDecl
<1>13. QuietNodes
  <2>1. \E d : nodes' = Append(nodes, d) BY DEF NamespaceDecl
  <2>2. Len(nodes') # Len(nodes) BY <2>1, <1>7
  <2> QED BY <2>2, <1>2, AddedQuiet
<1>14. Quiet
  <2>1. Len(scopes) <= Len(scopes') BY <1>7, <1>9
  <2> QED BY <2>1, <1>4, <1>6, <1>10, <1>11, <1>12 DEF Quiet
<1>15. GivenKept
  <2> SUFFICES ASSUME NEW s \in 1..Len(scopes'), NEW k \in 1..Len(scopes'[s].idents)
               PROVE  \/ /\ s \in ScopeIds /\ k \in 1..Len(scopes[s].idents)
                         /\ scopes'[s].idents[k].given = scopes[s].idents[k].given
                      \/ scopes'[s].idents[k].given = {}
    BY <1>12 DEF GivenKept
  <2>1. s \in ScopeIds
    <3> SUFFICES ASSUME s \notin ScopeIds PROVE FALSE OBVIOUS
    <3>1. Len(scopes'[s].idents) = 0 BY <1>6, <1>11
    <3> QED BY <3>1
  <2>2. k \in 1..Len(scopes[s].idents) \/ k > Len(scopes[s].idents) BY <2>1, <1>7
  <2> QED BY <2>1, <2>2, <1>10
<1>16. ParamsSeen BY <1>4, <1>11 DEF ParamsSeen
<1> QED BY <1>1, <1>13, <1>14, <1>15, <1>16, QuietStep

\* An initializer has no identifier that it defines.
LEMMA ReadInitDefinitions ==
  ASSUME Shape, Passes, Definitions, ReadInit
  PROVE  Definitions'
<1>1. Shape' /\ Grows /\ scopes' = scopes BY ReadInitShape
<1>2. Owned BY ReadInitPasses
<1>3. /\ scopes \in Seq(Scope) /\ nodes \in Seq(Node) /\ NodeIds = 1..Len(nodes)
  BY ShapeTypes
<1>4. Appended(scopes, scopes') BY <1>1, <1>3, AppendedItself
<1>5. Defining /\ nodes[Def].kind = "VAR" /\ nodes' = Opened(Def) /\ diags' = diags
  BY DEF ReadInit
<1>6. Def \in NodeIds BY <1>5, DefIs
<1>7. nodes[Def].at = 0
  <2>1. ~(nodes[Def].kind \in {"FUNC", "CLASS"}) BY <1>5
  <2> QED BY <2>1, <1>3, <1>6 DEF Shape, PointersOK
<1>8. Len(nodes') = Len(nodes) /\ \A n \in NodeIds : n # Def => nodes'[n].opened = nodes[n].opened
  BY <1>3, <1>5, <1>6, OpenedIs
<1>9. QuietNodes BY <1>3, <1>7, <1>8 DEF QuietNodes
<1> QED BY <1>1, <1>2, <1>4, <1>5, <1>9, AppendedQuiet

\* A body that begins gives no default arguments, to whatever is in its scope.
LEMMA OpenKept ==
  ASSUME Shape, Shape', Grows, Defines(Def, Len(scopes) + 1, scopes'), diags => diags',
         Len(scopes') = Len(scopes) + 1,
         \A i \in 1..Len(scopes'[Len(scopes) + 1].idents) :
           scopes'[Len(scopes) + 1].idents[i].given = {}
  PROVE  GivenKept
<1>1. Len(scopes) \in Nat /\ ScopeIds = 1..Len(scopes) BY ScopesAre
<1> SUFFICES ASSUME NEW s \in 1..Len(scopes'), NEW k \in 1..Len(scopes'[s].idents)
             PROVE  \/ /\ s \in ScopeIds /\ k \in 1..Len(scopes[s].idents)
                       /\ scopes'[s].idents[k].given = scopes[s].idents[k].given
                    \/ scopes'[s].idents[k].given = {}
  BY DEF GivenKept
<1>2. CASE s = Len(scopes) + 1 BY <1>2
<1>3. CASE s # Len(scopes) + 1
  <2>1. s \in ScopeIds BY <1>1, <1>3
  <2>2. k \in 1..Len(scopes[s].idents) BY <2>1 DEF Defines
  <2>3. CASE s = nodes[Def].at /\ k = nodes[Def].idx BY <2>1, <2>2, <2>3 DEF Defines
  <2>4. CASE ~(s = nodes[Def].at /\ k = nodes[Def].idx)
    <3>1. scopes'[s].idents[k] = scopes[s].idents[k] BY <2>1, <2>2, <2>4 DEF Defines
    <3> QED BY <2>1, <2>2, <3>1
  <2> QED BY <2>3, <2>4
<1> QED BY <1>2, <1>3

\* midpar_parse_func_body: the parameters are copied to its scope.
LEMMA OpenFuncDefinitions ==
  ASSUME Shape, Passes, Definitions, OpenFunc
  PROVE  Definitions'
<1> DEFINE m == Len(scopes) + 1
           params == nodes[Def].params
<1>1. Shape' /\ Grows BY OpenFuncShape
<1>2. /\ Len(scopes') = m /\ Defines(Def, m, scopes')
      /\ scopes'[m].kind = "FUNC" /\ scopes'[m].node = Def
      /\ scopes'[m].idents = ParamIdents(Def)
  BY OpenFuncShape
<1>3. Owned BY OpenFuncPasses
<1>4. /\ Defining /\ nodes[Def].kind = "FUNC" /\ nodes' = Opened(Def)
      /\ diags' = (diags \/ Redefined(Def))
  BY DEF OpenFunc
<1>5. /\ Len(scopes) \in Nat /\ ScopeIds = 1..Len(scopes) /\ nodes \in Seq(Node)
      /\ NodeIds = 1..Len(nodes)
  BY ShapeTypes
<1>6. Def \in NodeIds BY <1>4, DefIs
<1>7. /\ Len(scopes'[m].idents) = Len(params)
      /\ \A i \in 1..Len(params) : scopes'[m].idents[i] = NewIdent(params[i], "VAR", 0, Def)
  <2>1. m \in Nat BY <1>5
  <2> QED BY <2>1, <1>2, <1>6, ParamIdentsOK
<1>8. Len(params) \in Nat
  <2>1. nodes[Def] \in Node BY <1>5, <1>6
  <2>2. params \in Seq(Names) BY <2>1, NodeFields
  <2> QED BY <2>2
<1>9. \A i \in 1..Len(scopes'[m].idents) :
        /\ scopes'[m].idents[i].scope = 0 /\ scopes'[m].idents[i].given = {}
        /\ scopes'[m].idents[i].name = params[i]
  <2>1. \A i : LET ident == NewIdent(params[i], "VAR", 0, Def)
               IN  ident.scope = 0 /\ ident.given = {} /\ ident.name = params[i]
    BY DEF NewIdent
  <2> HIDE DEF m, params
  <2> QED BY <2>1, <1>7, Zenon
<1> HIDE DEF params
<1>10. DefinedBy' /\ ScopeOfDefinition'
  <2>1. nodes[Def].kind # "VAR" BY <1>4
  <2>2. \A i \in 1..Len(scopes'[m].idents) : scopes'[m].idents[i].scope = 0 BY <1>9
  <2> QED BY <2>1, <2>2, <1>1, <1>2, <1>3, <1>4, OpenDefinitions DEF Definitions
<1>11. GivenKept
  <2>1. \A i \in 1..Len(scopes'[m].idents) : scopes'[m].idents[i].given = {} BY <1>9
  <2> QED BY <2>1, <1>1, <1>2, <1>4, OpenKept
<1>12. ParamsSeen
  <2> SUFFICES ASSUME NEW s \in 1..Len(scopes'), s \notin ScopeIds
               PROVE  /\ scopes'[s].node \in NodeIds
                      /\ Len(nodes[scopes'[s].node].params) <= Len(scopes'[s].idents)
                      /\ \A i \in 1..Len(nodes[scopes'[s].node].params) :
                           scopes'[s].idents[i].name = nodes[scopes'[s].node].params[i]
    BY DEF ParamsSeen
  <2>1. s = m BY <1>2, <1>5
  <2>2. nodes[scopes'[s].node].params = params BY <2>1, <1>2 DEF params
  <2> QED BY <2>1, <2>2, <1>2, <1>6, <1>7, <1>8, <1>9
<1>13. GivenTrail' BY <1>1, <1>11, GivenNext DEF Definitions
<1>14. FuncScopes' /\ BodySeesParams' BY <1>1, <1>12, ParamsNext DEF Definitions
<1> QED BY <1>10, <1>13, <1>14 DEF Definitions

\* parse_class_body: the scope of the class is still empty.
LEMMA OpenClassDefinitions ==
  ASSUME Shape, Passes, Definitions, OpenClass
  PROVE  Definitions'
<1> DEFINE m == Len(scopes) + 1
<1>1. Shape' /\ Grows BY OpenClassShape
<1>2. /\ Len(scopes') = m /\ Defines(Def, m, scopes')
      /\ scopes'[m].kind = "CLASS" /\ scopes'[m].node = Def
      /\ scopes'[m].idents = <<>>
  BY OpenClassShape
<1>3. Owned BY OpenClassPasses
<1>4. /\ Defining /\ nodes[Def].kind = "CLASS" /\ nodes' = Opened(Def)
      /\ diags' = (diags \/ Redefined(Def))
  BY DEF OpenClass
<1>5. Len(scopes) \in Nat /\ ScopeIds = 1..Len(scopes) BY ShapeTypes
<1>6. Len(scopes'[m].idents) = 0 BY <1>2
<1>7. \A i \in 1..Len(scopes'[m].idents) : scopes'[m].idents[i].scope = 0 BY <1>6
<1>8. \A i \in 1..Len(scopes'[m].idents) : scopes'[m].idents[i].given = {} BY <1>6
<1>9. DefinedBy' /\ ScopeOfDefinition'
  <2>1. nodes[Def].kind # "VAR" BY <1>4
  <2> QED BY <2>1, <1>1, <1>2, <1>3, <1>4, <1>7, OpenDefinitions DEF Definitions
<1>10. GivenKept BY <1>1, <1>2, <1>4, <1>8, OpenKept
<1>11. ParamsSeen
  <2>1. \A s \in 1..Len(scopes') : s \notin ScopeIds => s = m BY <1>2, <1>5
  <2> QED BY <2>1, <1>2 DEF ParamsSeen
<1>12. GivenTrail' BY <1>1, <1>10, GivenNext DEF Definitions
<1>13. FuncScopes' /\ BodySeesParams' BY <1>1, <1>11, ParamsNext DEF Definitions
<1> QED BY <1>9, <1>12, <1>13 DEF Definitions

\* A function whose body is not closed: the program is in error from now on.
LEMMA UnclosedDefinitions ==
  ASSUME Shape, Passes, Definitions, UnclosedFunc
  PROVE  Definitions'
<1>1. Shape' /\ Grows /\ diags' = TRUE BY UnclosedFuncShape
<1>2. Len(scopes') = Len(scopes)
  <2> DEFINE tt == Define(Def, IdentOf(Def).scope)
  <2>1. scopes' = tt /\ Defining /\ nodes[Def].kind = "FUNC" BY DEF UnclosedFunc
  <2>2. scopes \in Seq(Scope) BY ShapeTypes
  <2>3. Len(tt) = Len(scopes) BY <2>2 DEF Define
  <2> QED BY <2>1, <2>3
<1>3. ParamsSeen BY <1>2 DEF ParamsSeen, ScopeIds
<1>4. FuncScopes' /\ BodySeesParams' BY <1>1, <1>3, ParamsNext DEF Definitions
<1>5. DefinedBy' BY <1>1 DEF DefinedBy
<1>6. ScopeOfDefinition' BY <1>1 DEF ScopeOfDefinition
<1>7. GivenTrail' BY <1>1 DEF GivenTrail
<1> QED BY <1>4, <1>5, <1>6, <1>7 DEF Definitions

\* Each step keeps what the definitions left behind.
LEMMA NextDefinitions == Shape /\ Passes /\ Definitions /\ [Next]_vars => Definitions'
<1> SUFFICES ASSUME Shape, Passes, Definitions, [Next]_vars PROVE Definitions' OBVIOUS
<1>1. ASSUME NEW name \in Names, NEW kind \in {"VAR", "TYPEDEF"}, NEW init \in BOOLEAN,
             VarDecl(name, kind, init)
      PROVE  Definitions'
  <2>1. Appended(scopes, scopes') BY <1>1, VarDeclShape
  <2>2. (diags => diags') /\ \E c : nodes' = Append(nodes, c) BY <1>1 DEF VarDecl
  <2> QED BY <2>1, <2>2, DeclDefinitions
<1>2. ASSUME NEW name \in Names, NEW p \in Protos, NEW body \in BOOLEAN, FuncDecl(name, p, body)
      PROVE  Definitions'
  BY <1>2, FuncDeclDefinitions
<1>3. ASSUME NEW name \in Names, NEW q, NEW body \in BOOLEAN, NEW inst \in Names \cup {"none"},
             ClassDecl(name, q, body, inst)
      PROVE  Definitions'
  <2>1. Appended(scopes, scopes') BY <1>3, ClassDeclShape
  <2>2. (diags => diags') /\ \E c : nodes' = Append(nodes, c) BY <1>3 DEF ClassDecl
  <2> QED BY <2>1, <2>2, DeclDefinitions
<1>4. ASSUME UNCHANGED <<scopes, nodes, diags>> PROVE Definitions'
  <2>1. scopes \in Seq(Scope) BY ShapeTypes
  <2>2. Appended(scopes, scopes') BY <2>1, <1>4, AppendedItself
  <2> QED BY <2>2, <1>4, DeclDefinitions
<1>5. ASSUME NEW name \in Names, NamespaceDecl(name) PROVE Definitions'
  BY <1>5, NamespaceDefinitions
<1>6. ASSUME NEW inst \in Names \cup {"none"}, EndClass(inst) PROVE Definitions'
  <2>1. Appended(scopes, scopes') /\ nodes' = nodes BY <1>6, EndClassShape
  <2>2. diags => diags' BY <1>6 DEF EndClass
  <2> QED BY <2>1, <2>2, DeclDefinitions
<1>7. CASE ReadInit BY <1>7, ReadInitDefinitions
<1>8. CASE OpenFunc BY <1>8, OpenFuncDefinitions
<1>9. CASE UnclosedFunc BY <1>9, UnclosedDefinitions
<1>10. CASE OpenClass BY <1>10, OpenClassDefinitions
<1>11. CASE NoBody \/ EndNodes \/ EndDecls \/ EndMemberClass \/ EndFile
  BY <1>4, <1>11 DEF NoBody, EndNodes, EndDecls, EndMemberClass, EndFile
<1>12. ASSUME NEW q, NEW name, UndefinedBase(q, name) PROVE Definitions'
  BY <1>4, <1>12 DEF UndefinedBase
<1>13. CASE UNCHANGED vars BY <1>4, <1>13 DEF vars
<1> QED
  BY <1>1, <1>2, <1>3, <1>5, <1>6, <1>7, <1>8, <1>9, <1>10, <1>11, <1>12, <1>13 DEF Next

\* At first there is only the root, with nothing in it.
LEMMA InitDefinitions == Init => Definitions
<1> SUFFICES ASSUME Init PROVE Definitions OBVIOUS
<1> DEFINE c == NewScope("ROOT", 0, 0, <<>>)
<1>1. c.kind = "ROOT" BY DEF NewScope
<1>2. c.idents = <<>> BY DEF NewScope
<1>3. scopes = <<c>> /\ nodes = <<>> BY DEF Init
<1> HIDE DEF c
<1>4. ScopeIds = {1} /\ scopes[1] = c /\ NodeIds = {} BY <1>3 DEF ScopeIds, NodeIds
<1>5. Len(c.idents) = 0 BY <1>2
<1>6. \A s \in ScopeIds : scopes[s].kind # "FUNC" /\ \A k \in 1..Len(scopes[s].idents) : FALSE
  BY <1>1, <1>4, <1>5
<1>7. DefinedBy BY <1>4 DEF DefinedBy
<1>8. ScopeOfDefinition BY <1>6 DEF ScopeOfDefinition
<1>9. FuncScopes BY <1>6 DEF FuncScopes
<1>10. BodySeesParams BY <1>6 DEF BodySeesParams
<1>11. GivenTrail BY <1>6 DEF GivenTrail
<1> QED BY <1>7, <1>8, <1>9, <1>10, <1>11 DEF Definitions

\* The invariant of the definitions, beside that of the passes.
THEOREM DefinitionsKept == Spec => [](Shape /\ Passes /\ Definitions)
<1>1. Init => Shape /\ Passes /\ Definitions BY InitShape, InitPasses, InitDefinitions
<1>2. Shape /\ Passes /\ Definitions /\ [Next]_vars => Shape' /\ Passes' /\ Definitions'
  BY NextShape, NextPasses, NextDefinitions
<1> QED BY <1>1, <1>2, PTL DEF Spec

\* In a program without errors no identifier is given two bodies: each that
\* was parsed is the definition its identifier leads to, which is one.
THEOREM NotDefinedTwice == Spec => []OneDefinition
<1>1. Definitions => OneDefinition
  <2> SUFFICES ASSUME Definitions, ~diags, NEW m \in NodeIds, NEW n \in NodeIds,
                      nodes[m].at # 0, nodes[m].at = nodes[n].at, nodes[m].idx = nodes[n].idx,
                      nodes[m].opened > 0, nodes[n].opened > 0
               PROVE  m = n
    BY DEF OneDefinition
  <2>1. IdentOf(m) = IdentOf(n) BY DEF IdentOf
  <2>2. IdentOf(m).def = m /\ IdentOf(n).def = n BY DEF Definitions, DefinedBy
  <2> QED BY <2>1, <2>2
<1> QED BY <1>1, DefinitionsKept, PTL

\* The scope of an identifier is that of its definition.
THEOREM ScopesOfDefinitions == Spec => []ScopeOfDefinition
<1>1. Definitions => ScopeOfDefinition BY DEF Definitions
<1> QED BY <1>1, DefinitionsKept, PTL

\* The scope of a function begins with its parameters, as they are named in
\* the declaration that is its definition.
THEOREM ParametersInScope == Spec => []BodySeesParams
<1>1. Definitions => BodySeesParams BY DEF Definitions
<1> QED BY <1>1, DefinitionsKept, PTL

\* The default arguments of a function in a program without errors are those
\* of its last parameters, whichever declarations gave them.
THEOREM DefaultsAreLast == Spec => []DefaultsTrail
<1>1. Shape /\ Definitions => DefaultsTrail
  <2> SUFFICES ASSUME Shape, Definitions, ~diags, NEW n \in NodeIds, nodes[n].kind = "FUNC",
                      IdentOf(n).kind = "FUNC", NEW i \in IdentOf(n).given,
                      NEW j \in ParamsOf(nodes[n].sig), i < j
               PROVE  j \in IdentOf(n).given
    BY DEF DefaultsTrail, ParamsOf
  <2> DEFINE s == nodes[n].at
             k == nodes[n].idx
  <2>1. s # 0 BY DEF Shape, PointersOK, NodeIds
  <2>2. /\ s \in ScopeIds /\ k \in 1..Len(scopes[s].idents)
        /\ IdentOf(n).sig = nodes[n].sig
    BY <2>1 DEF Shape, PointersOK, NodeIds, ScopeIds, IdentOf
  <2>3. scopes[s].idents[k] = IdentOf(n) BY DEF IdentOf
  <2> HIDE DEF s, k
  <2>4. GivenTrail BY DEF Definitions
  <2> QED BY <2>2, <2>3, <2>4 DEF GivenTrail
<1> QED BY <1>1, DefinitionsKept, PTL
================================================================================
