-------------------------------- MODULE Driver --------------------------------
(***************************************************************************)
(* The phases of the compiler with the parser of the declarations of       *)
(* variables and typedefs (midpar_parse_node, var_decl.c).                 *)
(*                                                                         *)
(* A node that is no such declaration, or has an initializer, is the       *)
(* business of the modules Declarations and ExprParser: the machine stops  *)
(* in "other".  An assertion that fails stops it in "crash", a diagnostic  *)
(* whose line has no end in "overrun".                                     *)
(***************************************************************************)
EXTENDS Declarators, Phases

VARIABLES
  base,     \* the base of the declaration
  nodes     \* the declarations, each with its instances

parserVars == <<idents, base, nodes>>
vars == <<lexVars, phaseVars, parserVars>>

Tokenize == Tokenizing /\ UNCHANGED parserVars
PrintLexDiags == PrintingLexDiags /\ UNCHANGED parserVars
PrintParserDiags == PrintingParserDiags /\ UNCHANGED parserVars

-----------------------------------------------------------------------------
\* midpar_valid_type_start
ValidTypeStart(j) == Is(j, DataQuals \cup StorQuals \cup TypeMods) \/ IsSpec(j)

\* skip_typequals: the first token from j that is no qualifier.
PastQuals(j) == Min({k \in j..Len(toks) : ~Is(k, DataQuals \cup StorQuals)})

\* What stands behind the qualifiers is looked at before they are taken for a type's.
Classes == {"CLASS", "STRUCT", "UNION"}
IsDecl(j) == ~Is(PastQuals(j), Classes \cup {"NAMESPACE"}) /\ ValidTypeStart(j)

Halt(how, ds) ==
  /\ phase' = how /\ diags' = diags \o ds
  /\ UNCHANGED <<lexVars, idents, at, inst, base, nodes, printed, status>>

OtherNode ==
  /\ phase = "parse" /\ ~Is(at, {"END"}) /\ ~IsDecl(at)
  /\ Halt("other", <<>>)

\* Whether parse_type can be followed here.
Followed(type) == type.how = "ok" /\ ~Is(type.end, {"L_PAREN", "ASSIGN"})

\* midpar_decl_is_func reads the type; midpar_parse_var_decl reads its base again.
\* A base that goes on with a class or enum for its specifier is not followed.
Begin(b, type) ==
  IF Followed(type) /\ ~Is(b.end, Classes \cup {"ENUM"})
  THEN /\ phase' = "inst" /\ inst' = b.end /\ base' = b
       /\ nodes' = Append(nodes, [start |-> at, end |-> 0, insts |-> <<>>])
       /\ diags' = diags \o b.diags \o type.diags \o b.diags
       /\ UNCHANGED <<lexVars, idents, at, printed, status>>
  ELSE Halt(IF type.how = "crash" THEN "crash" ELSE "other", b.diags)

BeginWith(b) == Begin(b, ParseTypeNoBase(b.end, b))

StartDecl ==
  /\ phase = "parse" /\ ~Is(at, {"END"}) /\ IsDecl(at)
  /\ BeginWith(ParseBase(at))

IsVoid(type) == type.layers[1].spec = "VOID" /\ Len(type.layers[1].dq) = 1

\* midpar_parse_var_decl_inst, without initializer.
InstDiags(name, type) ==
  (IF name # 0 /\ IsVoid(type) THEN <<ErrorAt("BAD_VAR_DECLARATION", inst)>> ELSE <<>>)
  \o (IF name # 0 /\ Found(toks[name].ident) # {}
      THEN <<ErrorAt("BAD_IDENTIFIER", inst)>> ELSE <<>>)
  \o (IF type.layers[1].spec = "AUTO"
      THEN <<ErrorAt("BAD_VAR_DECLARATION", inst)>> ELSE <<>>)

AddIdent(name, type) ==
  IF name = 0 \/ Found(toks[name].ident) # {} THEN idents
  ELSE Append(idents, [name |-> toks[name].ident, type |-> type.layers,
                       kind |-> IF "TYPEDEF" \in base.quals THEN "TYPEDEF" ELSE "VAR"])

\* The list goes on after a comma, unless the declaration seems to end there.
Continues(e) == Is(e, {"COMMA"}) /\ ~Is(e + 1, {"SEMICOLON", "COMMA"})

\* Mutant: the comma is not stepped over.
AddInstAtComma(name, type) ==
  /\ diags' = diags \o type.diags \o InstDiags(name, type)
  /\ idents' = AddIdent(name, type)
  /\ nodes' = [nodes EXCEPT ![Len(nodes)].insts =
                 Append(@, [start |-> inst, end |-> type.end, layers |-> type.layers,
                            name |-> name, diags |-> type.diags])]
  /\ inst' = type.end
  /\ phase' = IF Continues(type.end) THEN "inst" ELSE "end"
  /\ UNCHANGED <<lexVars, at, base, printed, status>>

AddInst(name, type) ==
  /\ diags' = diags \o type.diags \o InstDiags(name, type)
  /\ idents' = AddIdent(name, type)
  /\ nodes' = [nodes EXCEPT ![Len(nodes)].insts =
                 Append(@, [start |-> inst, end |-> type.end, layers |-> type.layers,
                            name |-> name, diags |-> type.diags])]
  /\ inst' = IF Is(type.end, {"COMMA"}) THEN type.end + 1 ELSE type.end
  /\ phase' = IF Continues(type.end) THEN "inst" ELSE "end"
  /\ UNCHANGED <<lexVars, at, base, printed, status>>

TakeInst(name, type) ==
  IF Followed(type) /\ "CONSTEXPR" \notin base.quals
  THEN AddInst(name, type)
  ELSE Halt(IF type.how = "crash" THEN "crash" ELSE "other", <<>>)

ReadInst == phase = "inst" /\ TakeInst(NameOf(inst), ParseTypeNoBase(inst, base))

\* Mutant: the token that is no semicolon is passed over as if it were one.
EndDeclPast ==
  /\ phase = "end"
  /\ at' = inst + 1
  /\ nodes' = [nodes EXCEPT ![Len(nodes)].end = inst + 1]
  /\ diags' = IF Is(inst, {"SEMICOLON"}) THEN diags
              ELSE Append(diags, ErrorAt("MISSING_SEMICOLON", at))
  /\ phase' = "parse"
  /\ UNCHANGED <<lexVars, idents, inst, base, printed, status>>

\* Mutant: the semicolon is missed where it should stand.
EndDeclHere ==
  /\ phase = "end"
  /\ LET e == IF Is(inst, {"SEMICOLON"}) THEN inst + 1 ELSE inst
     IN /\ at' = e
        /\ nodes' = [nodes EXCEPT ![Len(nodes)].end = e]
  /\ diags' = IF Is(inst, {"SEMICOLON"}) THEN diags
              ELSE Append(diags, ErrorAt("MISSING_SEMICOLON", inst))
  /\ phase' = "parse"
  /\ UNCHANGED <<lexVars, idents, inst, base, printed, status>>

\* Without its semicolon, the declaration ends all the same.
EndDecl ==
  /\ phase = "end"
  /\ LET e == IF Is(inst, {"SEMICOLON"}) THEN inst + 1 ELSE inst
     IN /\ at' = e
        /\ nodes' = [nodes EXCEPT ![Len(nodes)].end = e]
  /\ diags' = IF Is(inst, {"SEMICOLON"}) THEN diags
              ELSE Append(diags, ErrorAt("MISSING_SEMICOLON", at))
  /\ phase' = "parse"
  /\ UNCHANGED <<lexVars, idents, inst, base, printed, status>>

-----------------------------------------------------------------------------
NoBase == [layers |-> <<>>, quals |-> {}, end |-> 0, diags |-> <<>>]

DriverStart(t) == PhasesStart(t) /\ idents = <<>> /\ base = NoBase /\ nodes = <<>>

Init == \E t \in Texts : DriverStart(t)

Stopped == phase \in {"exit", "other", "crash", "overrun"} \/ lexing \in {"overrun", "crash"}

Terminated == Stopped /\ UNCHANGED vars

Next == Tokenize \/ PrintLexDiags \/ OtherNode \/ StartDecl \/ ReadInst \/ EndDecl
          \/ PrintParserDiags \/ Terminated

Spec == Init /\ [][Next]_vars /\ WF_vars(Next)

-----------------------------------------------------------------------------
\* The phases keep to their bounds, and what the parser made of the tokens refers
\* to tokens and names that exist, each name once.
TypeOK ==
  /\ Bounded
  /\ \A n \in 1..Len(nodes) :
       nodes[n].end \in 0..Len(toks) /\ \A m \in 1..Len(nodes[n].insts) :
         nodes[n].insts[m].start <= nodes[n].insts[m].end
  /\ \A n \in 1..Len(idents) : Found(idents[n].name) = {n}

\* Printing the line of a diagnostic reads past a text that ends with a newline
\* only where a deduced type is missed behind it: no other diagnostic is about
\* the token END.
PrintsInside ==
  phase = "overrun" /\ text # <<>> /\ Last(text) = "\n" =>
    LET d == Last(Last(nodes).insts)
    IN d.start = Len(toks) /\ d.layers[1].spec = "AUTO"

=============================================================================
