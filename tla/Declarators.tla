----------------------------- MODULE Declarators -----------------------------
(***************************************************************************)
(* How src/parser/type.c reads the type of a declarator: its base from     *)
(* left to right, then from the name outwards, a suffix on the right       *)
(* before the pointers and qualifiers on the left, and out of a            *)
(* parenthesis at a time.  The tokens are those of the tokenizer.          *)
(*                                                                         *)
(* A type is the sequence of its layers, the outermost first: what an      *)
(* array holds and what a function returns is the layer after it.  Names   *)
(* are those of one scope, without namespaces and templates.  The length   *)
(* of an array is a literal or the negation of a signed one; others are    *)
(* left to the expression parser.                                          *)
(***************************************************************************)
EXTENDS Tokenizer

VARIABLE idents  \* the identifiers of the root scope

-----------------------------------------------------------------------------
DataQuals == {"CONST", "VOLATILE"}
StorQuals == {"STATIC", "CONSTEXPR", "TYPEDEF"}
TypeMods == {"SHORT", "LONG", "SIGNED", "UNSIGNED"}
TypeSpecs == {"VOID", "CHAR", "WCHAR", "CHAR16", "CHAR32", "BOOL", "INT", "FLOAT",
              "DOUBLE", "AUTO"}
PtrTok == "MUL"
RefToks == {"BITWISE_AND", "LOGICAL_AND"}

\* midsema_find_ident: names are added once, so there is one at most.
Found(name) == {n \in 1..Len(idents) : idents[n].name = name}

\* midsema_is_type_name
IsTypeName(j) ==
  Is(j, {"IDENTIFIER"}) /\ \E n \in Found(toks[j].ident) : idents[n].kind = "TYPEDEF"

\* midsema_type_name_type
NamedType(j) == idents[CHOOSE n \in Found(toks[j].ident) : TRUE].type

\* dq: the qualifiers of each level of indirection, the outermost first.
Layer == [spec |-> "INVALID", dq |-> <<>>, ref |-> {}, len |-> 0, params |-> <<>>]

\* midpar_find_twin_generic: 0 if the bracket is not closed.
Depth(l, r, from, to) ==
  Cardinality({k \in from..to : Is(k, {l})}) - Cardinality({k \in from..to : Is(k, {r})})

Twin(l, r, left) ==
  LET twins == {k \in left+1..Len(toks) : Is(k, {r}) /\ Depth(l, r, left + 1, k) < 0}
  IN IF twins = {} THEN 0 ELSE Min(twins)

TwinParen(left) == Twin("L_PAREN", "R_PAREN", left)
TwinBracket(left) == Twin("L_SQBRACKET", "R_SQBRACKET", left)

-----------------------------------------------------------------------------
(***************************************************************************)
(* midpar_parse_base: qualifiers, modifiers and at most one specifier, in  *)
(* any order.  A second specifier ends the base.                           *)
(***************************************************************************)
IsSpec(j) == Is(j, TypeSpecs) \/ IsTypeName(j)

InBase(j) == Is(j, DataQuals \cup StorQuals \cup TypeMods) \/ IsSpec(j)

BaseEnd(start) ==
  CHOOSE e \in start..Len(toks) :
    /\ ~InBase(e) \/ (IsSpec(e) /\ \E k \in start..e-1 : IsSpec(k))
    /\ \A k \in start..e-1 :
         InBase(k) /\ ~(IsSpec(k) /\ \E m \in start..k-1 : IsSpec(m))

\* mods: the modifiers that were kept, and the last token of each.
NoMods == [m \in TypeMods \cup {"LONGLONG"} |-> 0]

\* How one modifier is taken: the new modifiers, and what is reported.
TakeMod(st, j) ==
  LET m == toks[j].type
      Has(x) == st.mods[x] # 0
      bad == ErrorAt("TYPE_UNSIGNABLE", j)
      other == IF m = "SIGNED" THEN "UNSIGNED" ELSE "SIGNED"
      again == IF Has(m) THEN <<DiagAt("WARNING", "UNNECESSARY_QUALIFIER", j)>> ELSE <<>>
      kept == [st EXCEPT !.mods[m] = j]
  IN CASE m \in {"SIGNED", "UNSIGNED"} ->
            [kept EXCEPT !.diags = @ \o again \o (IF Has(other) THEN <<bad>> ELSE <<>>)]
       [] m = "SHORT" ->
            [kept EXCEPT !.diags =
               @ \o (IF ~Has(m) /\ (Has("LONG") \/ Has("LONGLONG")) THEN <<bad>> ELSE again)]
       [] m = "LONG" /\ (Has("LONGLONG") \/ Has("SHORT")) ->
            [st EXCEPT !.diags = Append(@, bad)]
       [] m = "LONG" /\ Has("LONG") /\ ~Has("LONGLONG") /\ ~Has("SHORT") ->
            [st EXCEPT !.mods = [@ EXCEPT !["LONG"] = 0, !["LONGLONG"] = j]]
       [] OTHER -> kept

SignPairs == {<<"SCHAR", "UCHAR">>, <<"SHORT", "USHORT">>, <<"INT", "UINT">>,
              <<"LONG", "ULONG">>, <<"LONGLONG", "ULONGLONG">>}
SizePairs == {<<"SHORT", "INT", "SHORT">>, <<"SHORT", "UINT", "USHORT">>,
              <<"LONG", "INT", "LONG">>, <<"LONG", "UINT", "ULONG">>,
              <<"LONG", "DOUBLE", "LONGDOUBLE">>,
              <<"LONGLONG", "INT", "LONGLONG">>, <<"LONGLONG", "UINT", "ULONGLONG">>}

\* make_spec_signed and the others: what a modifier makes of a specifier, if
\* anything.
Made(mod, spec) ==
  LET Pick(n) == IF spec = "CHAR" THEN {<<"SCHAR", "UCHAR">>[n]}
                 ELSE {p[n] : p \in {q \in SignPairs : spec \in {q[1], q[2]}}}
  IN CASE mod = "SIGNED" -> Pick(1)
       [] mod = "UNSIGNED" -> Pick(2)
       [] OTHER -> {p[3] : p \in {q \in SizePairs : q[1] = mod /\ q[2] = spec}}

\* The modifiers that are applied, in their order: one sign and one size.
Applied(mods) ==
  LET First(choices) == SelectSeq(choices, LAMBDA m : mods[m] # 0)
      One(s) == IF s = <<>> THEN s ELSE <<Head(s)>>
  IN One(First(<<"SIGNED", "UNSIGNED">>)) \o One(First(<<"SHORT", "LONG", "LONGLONG">>))

Make(st, mod) ==
  LET made == Made(mod, st.spec)
  IN IF made # {} THEN [st EXCEPT !.spec = CHOOSE spec \in made : TRUE]
     ELSE [st EXCEPT !.diags = Append(@, ErrorAt("TYPE_UNSIGNABLE", st.mods[mod]))]

TokensOf(S, from, to) == {toks[k].type : k \in {q \in from..to : Is(q, S)}}

ModsOf(from, to) ==
  FoldLeft(TakeMod, [mods |-> NoMods, diags |-> <<>>],
           SelectSeq([n \in 1..to-from+1 |-> from + n - 1], LAMBDA j : Is(j, TypeMods)))

Sized(mods) == \E m \in {"SHORT", "LONG", "LONGLONG"} : mods[m] # 0

MadeSpec(spec, mods, diags) ==
  FoldLeft(Make, [spec |-> spec, mods |-> mods, diags |-> diags], Applied(mods))

\* The qualifiers that stand with a typedef name are dropped.
BaseLayers(specs, quals) ==
  IF \E k \in specs : IsTypeName(k) THEN NamedType(Min(specs))
  ELSE <<[Layer EXCEPT !.dq = <<quals>>,
            !.spec = IF specs = {} THEN "INT" ELSE toks[Min(specs)].type]>>

NoSpec(start, specs, mods) ==
  IF specs = {} /\ ~Sized(mods) THEN <<ErrorAt("MISSING_TYPESPEC", start)>> ELSE <<>>

BaseWith(layers, made, start, end) ==
  [layers |-> [layers EXCEPT ![1].spec = made.spec],
   quals |-> TokensOf(StorQuals, start, end - 1), end |-> end, diags |-> made.diags]

BaseOn(layers, st, missing, start, end) ==
  BaseWith(layers, MadeSpec(layers[1].spec, st.mods, st.diags \o missing), start, end)

BaseTo(specs, st, start, end) ==
  BaseOn(BaseLayers(specs, TokensOf(DataQuals, start, end - 1)), st,
         NoSpec(start, specs, st.mods), start, end)

BaseUpTo(start, end) ==
  BaseTo({k \in start..end-1 : IsSpec(k)}, ModsOf(start, end - 1), start, end)

ParseBase(start) == BaseUpTo(start, BaseEnd(start))

-----------------------------------------------------------------------------
(***************************************************************************)
(* The part of a declarator, from the token before its name.  how: "ok",   *)
(* "crash" for an assertion that fails, "expr" for a length that the       *)
(* expression parser would have to read.                                   *)
(***************************************************************************)
IsPart(j) == Is(j, DataQuals \cup RefToks \cup {PtrTok})

\* Mutant: a second reference is taken for the first.
RefErrorOnce(st, j) ==
  IF st.layer.dq # <<>> THEN <<ErrorAt("PTR_TO_REF", j)>>
  ELSE IF "CONST" \in st.pending THEN <<ErrorAt("MISPLACED_QUALIFIER", j)>>
  ELSE <<>>

RefError(st, j) ==
  IF st.layer.ref # {} THEN <<ErrorAt("TYPE_ALREADY_REF", j)>>
  ELSE IF st.layer.dq # <<>> THEN <<ErrorAt("PTR_TO_REF", j)>>
  ELSE IF "CONST" \in st.pending THEN <<ErrorAt("MISPLACED_QUALIFIER", j)>>
  ELSE <<>>

\* Mutant: the qualifiers of a pointer stay pending for the next.
TakePartKeeping(st, j) ==
  CASE Is(j, DataQuals) -> [st EXCEPT !.pending = @ \cup {toks[j].type}]
    [] Is(j, {PtrTok}) -> [st EXCEPT !.layer.dq = Append(@, st.pending)]
    [] OTHER ->
         IF RefError(st, j) # <<>> THEN [st EXCEPT !.diags = @ \o RefError(st, j)]
         ELSE [st EXCEPT !.layer.ref = {toks[j].type}]

TakePart(st, j) ==
  CASE Is(j, DataQuals) -> [st EXCEPT !.pending = @ \cup {toks[j].type}]
    [] Is(j, {PtrTok}) -> [st EXCEPT !.layer.dq = Append(@, st.pending), !.pending = {}]
    [] OTHER ->
         IF RefError(st, j) # <<>> THEN [st EXCEPT !.diags = @ \o RefError(st, j)]
         ELSE [st EXCEPT !.layer.ref = {toks[j].type}]

\* Where the tokens of the part end, from start down to min.
PartStop(start, min) ==
  IF start < min THEN start
  ELSE CHOOSE k \in min-1..start :
         (k = min - 1 \/ ~IsPart(k)) /\ \A m \in k+1..start : IsPart(m)

Scan(st, start, min) ==
  LET stop == PartStop(start, min)
  IN FoldLeft(TakePart, st, [n \in 1..start-stop |-> start + 1 - n])

\* set_array_len
IntToks == {"INT_LIT", "UINT_LIT", "LONG_LIT", "ULONG_LIT", "LONGLONG_LIT", "ULONGLONG_LIT"}
SignedToks == {"INT_LIT", "LONG_LIT", "LONGLONG_LIT"}
FloatToks == {LitToks[f] : f \in FloatTypes}

Length(from, to) ==
  LET neg == Is(from, {"SUB"}) /\ to = from + 1
      val == toks[to].val
  IN IF ~(from = to \/ neg) \/ ~Is(to, FloatToks \cup (IF neg THEN SignedToks ELSE IntToks))
     THEN [how |-> "expr", len |-> 0, diags |-> <<>>]
     ELSE IF Is(to, FloatToks) \/ (neg /\ val # 0)
     THEN [how |-> "ok", len |-> 0, diags |-> <<ErrorAt("BAD_ARRAY_LENGTH", from)>>]
     ELSE [how |-> "ok", len |-> val, diags |-> <<>>]

Failed(how, diags) == [layers |-> <<>>, end |-> 0, diags |-> diags, how |-> how]
Under(layer, rest) == [rest EXCEPT !.layers = <<layer>> \o @]

\* find_type_center: the name, or the token before where it would be.
Center(start) ==
  LET k == CHOOSE c \in start..Len(toks) :
             /\ ~(IsPart(c) \/ Is(c, {"L_PAREN"}))
             /\ \A m \in start..c-1 : IsPart(m) \/ Is(m, {"L_PAREN"})
  IN IF Is(k, {"IDENTIFIER"}) THEN k ELSE k - 1

HasName(start) == Is(Center(start), {"IDENTIFIER"}) /\ ~IsTypeName(Center(start))

\* add_base: the base goes under the last layer, whose levels come before its.
AddBase(part, base, start) ==
  LET top == Last(part.layers)
      under == Head(base.layers)
      joined == [under EXCEPT !.dq = top.dq \o @, !.ref = top.ref \cup @]
  IN [part EXCEPT !.layers = Front(@) \o <<joined>> \o Tail(base.layers),
        !.diags = @ \o (IF top.dq # <<>> /\ under.ref # {}
                        THEN <<ErrorAt("PTR_TO_REF", start)>> ELSE <<>>)]

RECURSIVE Loop(_, _, _, _), ArrayPart(_, _, _, _), Params(_, _), ParseTypeNoBase(_, _)

Start == [layer |-> Layer, pending |-> {}, diags |-> <<>>]
Part(start, min, ignore) == Loop(Start, start, min, ignore)

Diags(diags, part) == [part EXCEPT !.diags = diags \o @]

\* parse_array: the length, then the next dimension or what is on the left.
ArrayOf(st, length, rest) ==
  IF length.how # "ok" THEN Failed("expr", st.diags)
  ELSE Diags(st.diags \o length.diags,
             IF rest.how # "ok" THEN rest
             ELSE Under([st.layer EXCEPT !.spec = "ARRAY", !.len = length.len,
                                         !.dq = Append(@, st.pending)], rest))

ArrayTo(st, start, l, r, min) ==
  IF r = 0 THEN Failed("crash", st.diags)
  ELSE IF Is(r + 1, {"L_SQBRACKET"})
  THEN ArrayOf(st, Length(l + 1, r - 1), ArrayPart(Start, start, r + 1, min))
  ELSE ArrayOf(st, Length(l + 1, r - 1), [Part(start - 1, min, TRUE) EXCEPT !.end = r + 1])

ArrayPart(st, start, l, min) == ArrayTo(st, start, l, TwinBracket(l), min)

\* parse_fptr: what it returns stands on the left, its parameters on the right.
FptrOf(st, close, returns, params) ==
  IF close = 0 THEN Failed("crash", st.diags)
  ELSE IF returns.how # "ok" THEN Diags(st.diags, returns)
  ELSE IF params.how # "ok" THEN Failed(params.how, st.diags)
  ELSE Under([st.layer EXCEPT !.spec = "FPTR", !.params = params.types],
             [returns EXCEPT !.diags = st.diags \o @ \o params.diags, !.end = close + 1])

FptrTo(st, l, r, close, min) == FptrOf(st, close, Part(l - 1, min, FALSE), Params(r + 2, close))

NoParams(how) == [types |-> <<>>, diags |-> <<>>, how |-> how]

AddParam(base, type, rest) ==
  IF type.how # "ok" THEN NoParams(type.how)
  ELSE [rest EXCEPT !.types = <<type.layers>> \o @,
          !.diags = base.diags \o type.diags \o
                    (IF Is(type.end, {"COMMA", "R_PAREN"}) THEN <<>>
                     ELSE <<ErrorAt("MISSING_PAREN", type.end)>>) \o @]

ParamOf(base, type, close) == AddParam(base, type, Params(type.end + 1, close))
ParamOn(base, close) == ParamOf(base, ParseTypeNoBase(base.end, base), close)

Params(j, close) == IF j >= close THEN NoParams("ok") ELSE ParamOn(ParseBase(j), close)

\* parse_recursive_part_loop
Outwards(done, scanned, stop, twin, min) ==
  IF ~Is(stop, {"L_PAREN"}) THEN done
  ELSE IF twin = 0 THEN [done EXCEPT !.diags = Append(@, ErrorAt("MISSING_PAREN", stop))]
  ELSE IF Is(twin + 1, {"L_PAREN"}) THEN FptrTo(scanned, stop, twin, TwinParen(twin + 1), min)
  ELSE IF Is(twin + 1, {"L_SQBRACKET"}) THEN ArrayPart(scanned, stop, twin + 1, min)
  ELSE IF stop > min THEN Loop(scanned, stop - 1, min, FALSE)
  ELSE done

Around(scanned, stop, end, min) ==
  Outwards([layers |-> <<scanned.layer>>, end |-> end, diags |-> scanned.diags, how |-> "ok"],
           scanned, stop, TwinParen(stop), min)

PartEnd(start) == IF Is(start + 1, {"IDENTIFIER"}) THEN start + 2 ELSE start + 1

Loop(st, start, min, ignore) ==
  IF Is(PartEnd(start), {"L_SQBRACKET"}) /\ ~ignore
  THEN ArrayPart(st, start + 1, PartEnd(start), min)
  ELSE Around(Scan(st, start, min), PartStop(start, min), PartEnd(start), min)

\* midpar_parse_type_no_base; name is 0 for none.
TypeOver(base, part, start) ==
  IF part.how # "ok" THEN part ELSE AddBase(part, base, start)

ParseTypeNoBase(start, base) ==
  TypeOver(base, Part(IF HasName(start) THEN Center(start) - 1 ELSE Center(start), start, FALSE),
           start)

NameOf(start) == IF HasName(start) THEN Center(start) ELSE 0

=============================================================================
