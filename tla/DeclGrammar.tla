----------------------------- MODULE DeclGrammar -----------------------------
(***************************************************************************)
(* What a declaration means by the grammar of C++, [dcl.decl] and          *)
(* [dcl.type.simple], read from the outside in and by splitting the tokens *)
(* at their brackets: the type a declarator gives its name is that of a    *)
(* smaller declarator over a larger base.  The properties compare it with  *)
(* what the program reads from the name outwards.                          *)
(***************************************************************************)
EXTENDS Driver

-----------------------------------------------------------------------------
(***************************************************************************)
(* A type as a chain from the outside to its base.                         *)
(***************************************************************************)
Link(kind) == [kind |-> kind, quals |-> {}, len |-> 0, spec |-> "none", params |-> <<>>]
Ptr(quals) == [Link("ptr") EXCEPT !.quals = quals]
Ref(refs) == Link(IF "BITWISE_AND" \in refs THEN "lv" ELSE "rv")
Array(len) == [Link("array") EXCEPT !.len = len]
Func(params) == [Link("func") EXCEPT !.params = params]
Base1(spec, quals) == [Link("base") EXCEPT !.spec = spec, !.quals = quals]

RefLinks == {Link("lv"), Link("rv")}

\* A reference to a reference collapses.
OverBase(chain, under) ==
  IF chain # <<>> /\ Last(chain) \in RefLinks /\ Head(under) \in RefLinks
  THEN Front(chain) \o (IF Link("lv") \in {Last(chain), Head(under)}
                        THEN <<Link("lv")>> ELSE <<Link("rv")>>) \o Tail(under)
  ELSE chain \o under

RECURSIVE Chain(_)
LayerChain(layer) ==
  LET n == Len(layer.dq)
      Ptrs(m) == [k \in 1..m |-> Ptr(layer.dq[k])]
  IN (IF layer.ref = {} THEN <<>> ELSE <<Ref(layer.ref)>>) \o
     (CASE layer.spec = "FPTR" ->
             Ptrs(n) \o <<Func([k \in 1..Len(layer.params) |-> Chain(layer.params[k])])>>
        [] layer.spec = "ARRAY" -> Ptrs(n - 1) \o <<Array(layer.len)>>
        [] OTHER -> Ptrs(n - 1) \o <<Base1(layer.spec, layer.dq[n])>>)

\* The chain of the layers of a midpar_Type.
Chain(layers) == FlattenSeq([n \in 1..Len(layers) |-> LayerChain(layers[n])])

-----------------------------------------------------------------------------
(***************************************************************************)
(* [dcl.type.simple]: which specifier a sign, a size and a specifier make. *)
(***************************************************************************)
Sizes == {<<"SHORT", "SHORT", "USHORT">>, <<"none", "INT", "UINT">>,
          <<"LONG", "LONG", "ULONG">>, <<"LONGLONG", "LONGLONG", "ULONGLONG">>}

SimpleTypes ==
  {<<{}, "none", s, s>> : s \in TypeSpecs}
    \cup {<<sign, z[1], s, IF "UNSIGNED" \in sign THEN z[3] ELSE z[2]>> :
            sign \in {{}, {"SIGNED"}, {"UNSIGNED"}}, z \in Sizes, s \in {"INT", "none"}}
    \cup {<<{"SIGNED"}, "none", "CHAR", "SCHAR">>, <<{"UNSIGNED"}, "none", "CHAR", "UCHAR">>,
          <<{}, "LONG", "DOUBLE", "LONGDOUBLE">>}

Count(type, from, to) == Cardinality({k \in from..to : Is(k, {type})})

\* No size, or one that is named as often as C++ allows.
SizeOf(from, to) ==
  CASE Count("SHORT", from, to) > 0 /\ Count("LONG", from, to) = 0 -> "SHORT"
    [] Count("SHORT", from, to) = 0 /\ Count("LONG", from, to) = 1 -> "LONG"
    [] Count("SHORT", from, to) = 0 /\ Count("LONG", from, to) = 2 -> "LONGLONG"
    [] Count("SHORT", from, to) = 0 /\ Count("LONG", from, to) = 0 -> "none"
    [] OTHER -> "bad"

\* Whether the tokens say anything at all about the type.
Typed(from, to) == \E k \in from..to : Is(k, TypeMods) \/ IsSpec(k)

SpecsOf(from, to) ==
  LET specs == {toks[k].type : k \in {j \in from..to : IsSpec(j)}}
      sign == {toks[k].type : k \in {j \in from..to : Is(j, {"SIGNED", "UNSIGNED"})}}
  IN IF ~Typed(from, to) THEN {}
     ELSE {row[4] : row \in {r \in SimpleTypes :
             r[1] = sign /\ r[2] = SizeOf(from, to) /\ specs \subseteq {r[3]}
               /\ (specs = {} => r[3] = "none")}}

\* The chains the base from..to may stand for: one, or none if it is wrong.
BaseChains(from, to) ==
  LET quals == {toks[k].type : k \in {j \in from..to : Is(j, DataQuals)}}
      names == {k \in from..to : IsTypeName(k)}
  IN IF names # {} THEN {Chain(NamedType(Min(names)))}
     ELSE {<<Base1(spec, quals)>> : spec \in SpecsOf(from, to)}

-----------------------------------------------------------------------------
(***************************************************************************)
(* [dcl.decl]: the chains that the declarator from..to puts over its base. *)
(* It may lack its name.                                                   *)
(***************************************************************************)
Opens(l, r, from, to, close) ==
  {k \in from..to : Is(k, {l}) /\ Twin(l, r, k) = close}

QualsEnd(from, to) ==
  CHOOSE e \in from-1..to :
    /\ \A k \in from..e : Is(k, DataQuals)
    /\ e = to \/ ~Is(e + 1, DataQuals)

QualsIn(from, to) == {toks[k].type : k \in from..to}

\* The commas between parameters, and the ends of the list.
Splits(open, close) ==
  {open, close} \cup
    {k \in open+1..close-1 : Is(k, {"COMMA"}) /\ Depth("L_PAREN", "R_PAREN", open + 1, k) = 0}

\* No pointer or reference to a reference, and no function that returns or
\* array that holds what it may not, except that the references an array may
\* not hold are not told from others.
Allowable(chain) ==
  \A n \in 1..Len(chain)-1 :
    /\ chain[n + 1] \in RefLinks => chain[n].kind \in {"array", "func"}
    /\ chain[n].kind = "func" => chain[n + 1].kind \notin {"array", "func"}
    /\ chain[n].kind = "array" => chain[n + 1].kind # "func"

RECURSIVE Declarator(_, _), Direct(_, _), ParamTypes(_, _), ParamLists(_, _)

Declarator(from, to) ==
  IF from <= to /\ Is(from, {PtrTok})
  THEN LET e == QualsEnd(from + 1, to)
       IN {d \o <<Ptr(QualsIn(from + 1, e))>> : d \in Declarator(e + 1, to)}
  ELSE IF from <= to /\ Is(from, RefToks)
  THEN {d \o <<Ref({toks[from].type})>> : d \in Declarator(from + 1, to)}
  ELSE Direct(from, to)

Direct(from, to) ==
  (IF from > to \/ (from = to /\ Is(from, {"IDENTIFIER"})) THEN {<<>>} ELSE {})
  \cup UNION {Declarator(from + 1, to - 1) : k \in Opens("L_PAREN", "R_PAREN", from, from, to)}
  \cup UNION {{d \o <<Array(Length(k + 1, to - 1).len)>> : d \in Direct(from, k - 1)} :
                k \in {j \in Opens("L_SQBRACKET", "R_SQBRACKET", from, to, to) :
                         /\ Length(j + 1, to - 1).how = "ok"
                         /\ Length(j + 1, to - 1).diags = <<>>}}
  \cup UNION {{d \o <<Func(params)>> : d \in Direct(from, k - 1), params \in ParamLists(k, to)} :
                k \in Opens("L_PAREN", "R_PAREN", from + 1, to, to)}

\* A base is as long as it can be.
ParamTypes(from, to) ==
  IF from > to THEN {}
  ELSE LET e == BaseEnd(from) - 1
       IN {type \in {OverBase(d, b) : d \in Declarator(e + 1, to), b \in BaseChains(from, e)} :
             Allowable(type)}

ParamLists(open, close) ==
  IF close = open + 1 THEN {<<>>}
  ELSE LET splits == SetToSortSeq(Splits(open, close), <)
           types == [n \in 1..Len(splits)-1 |-> ParamTypes(splits[n] + 1, splits[n + 1] - 1)]
       IN IF \E n \in DOMAIN types : types[n] = {} THEN {}
          ELSE {[n \in DOMAIN types |-> CHOOSE t \in types[n] : TRUE]}

-----------------------------------------------------------------------------
(***************************************************************************)
(* The properties.                                                         *)
(***************************************************************************)
\* The token behind the declarator that starts at from.
DeclaratorEnd(from) ==
  Min({k \in from..Len(toks) :
         \/ Is(k, {"END"})
         \/ Is(k, {"COMMA", "SEMICOLON"}) /\ Depth("L_PAREN", "R_PAREN", from, k) <= 0})

\* The parentheses that group, which open before the name.
Groups(from, to) ==
  {k \in from..to : Is(k, {"L_PAREN"}) /\ \A m \in from..k-1 : IsPart(m) \/ Is(m, {"L_PAREN"})}

\* The shapes the end of which is found: no group, or one with no suffix in it
\* and one behind it.  A parameter has no group of its own.
Simple(from, to) ==
  \/ \A k \in from..to : ~Is(k, {"L_PAREN"})
  \/ \E k \in Groups(from, to) :
       LET close == TwinParen(k)
       IN /\ Groups(from, to) = {k} /\ close \in k+1..to-1
          /\ \A m \in k+1..close-1 : IsPart(m) \/ Is(m, {"IDENTIFIER"})
          /\ Is(close + 1, {"L_PAREN", "L_SQBRACKET"})
          /\ \A m \in close+2..to : ~Is(m, {"L_PAREN"})

BaseLast(node) == node.insts[1].start - 1

\* Qualifiers that stand with a typedef name, which are lost, and modifiers
\* that do, which are applied.
Beside(node, S) ==
  /\ \E k \in node.start..BaseLast(node) : Is(k, S)
  /\ \E k \in node.start..BaseLast(node) : IsTypeName(k)

\* Whether the name of a type stands where the declarator's would: it names
\* nothing, and the pointers before it are not read.
NamesType(d) == Is(Center(d.start), {"IDENTIFIER"}) /\ d.name = 0 /\ Center(d.start) >= d.start

Comparable(node, d) ==
  /\ Simple(d.start, DeclaratorEnd(d.start) - 1)
  /\ ~Beside(node, DataQuals \cup TypeMods)
  /\ ~NamesType(d)

\* The types that an instance of a node has by the grammar.
Meanings(node, d) ==
  {OverBase(c, b) : c \in Declarator(d.start, DeclaratorEnd(d.start) - 1),
                b \in BaseChains(node.start, BaseLast(node))}

\* A declarator of a shape whose end is found is read up to its end, without
\* complaint if it is allowed, and gets the type that C++ gives it.
DeclaredTypes ==
  /\ phase = "end" =>
       \A n \in 1..Len(Last(nodes).insts) :
         LET node == Last(nodes)
             d == node.insts[n]
         IN Comparable(node, d) =>
              \A type \in Meanings(node, d) :
                Allowable(type) => /\ d.end = DeclaratorEnd(d.start)
                                   /\ d.diags = <<>>
                                   /\ Chain(d.layers) = type
  /\ phase = "crash" =>
       LET from == IF nodes # <<>> /\ Last(nodes).end = 0 THEN inst ELSE BaseEnd(at)
           to == DeclaratorEnd(from) - 1
       IN ~Simple(from, to) \/ Declarator(from, to) = {}

\* What is let pass: modifiers beside the name of a type, anything after one
\* that stands where the declarator should, volatile behind a reference, and
\* in a declarator that groups whatever is behind its name.
Tolerated(node, d) ==
  \/ Beside(node, TypeMods) \/ NamesType(d)
  \/ Groups(d.start, DeclaratorEnd(d.start)) # {}
  \/ \E k \in d.start..DeclaratorEnd(d.start) : Is(k, RefToks) /\ Is(k + 1, {"VOLATILE"})

\* A file that is accepted holds only declarations that the grammar knows, but
\* for those that the code is known to let pass.
AcceptedOnly ==
  phase = "exit" /\ status = 0 =>
    \A n \in 1..Len(nodes) : \A m \in 1..Len(nodes[n].insts) :
      LET d == nodes[n].insts[m]
      IN Tolerated(nodes[n], d) \/ \E type \in Meanings(nodes[n], d) : Allowable(type)

=============================================================================
