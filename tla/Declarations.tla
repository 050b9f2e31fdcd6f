----------------------------- MODULE Declarations -----------------------------
(***************************************************************************)
(* How src/parser/ declares and defines names: midpar_parse_node and what  *)
(* it dispatches a declaration to (var_decl.c, func_decl.c, class.c,       *)
(* namespace.c), over the scopes and identifiers of src/sema/scope.c and   *)
(* src/sema/ident.c.  The members of a class are parsed in two passes: the *)
(* first declares them all, the second goes back to their definitions.     *)
(*                                                                         *)
(* The declarations are chosen as they are read.  A frame is an activation *)
(* of a loop over declarations: of a file, a namespace or a function body  *)
(* ("nodes"), of parse_decls ("decls") or of parse_defs ("defs").  Braces  *)
(* are balanced, except those of a function body at the end of the file.   *)
(***************************************************************************)
EXTENDS Naturals, Sequences, FiniteSets, SequencesExt

CONSTANTS
  Names,    \* the names that may be declared
  Protos,   \* the parameter lists of functions
  MaxNodes  \* bound on the declarations of the program

\* sig stands for the types of the parameters, which are named and distinct.
Proto == [sig : Nat, params : Seq(Names), defaults : SUBSET Nat]

ASSUME ProtosAssumption ==
  \A p \in Protos :
    /\ p \in Proto
    /\ IsInjective(p.params)
    /\ p.defaults \subseteq 1..Len(p.params)
    /\ \A q \in Protos : p.sig = q.sig => Len(p.params) = Len(q.params)

\* No name is "none" or stands for a name that was missing.
ASSUME NamesAssumption == Names \cap {"none", "INVALID-FUNC-NAME", "::"} = {}

ASSUME MaxNodesAssumption == MaxNodes \in Nat

VARIABLES
  scopes,  \* struct midsema_Scope, the root first, each after its parent
  nodes,   \* the AST nodes midpar_parse_node made, in order
  stack,   \* the frames, innermost last
  diags,   \* whether an error has been pushed to the diagnostics
  pc       \* "run", or how the parser came to an end

vars == <<scopes, nodes, stack, diags, pc>>

-----------------------------------------------------------------------------
IdentKinds == {"VAR", "TYPEDEF", "FUNC", "CLASS", "NAMESPACE"}
ScopeKinds == {"ROOT", "NAMESPACE", "CLASS", "FUNC"}

AllNames == Names \cup {"INVALID-FUNC-NAME"}

\* sig: of decl, a function.  given: the parameters with a default argument.
Ident == [name : AllNames, kind : IdentKinds, sig : Nat, decl : Nat,
          def : Nat, scope : Nat, given : SUBSET Nat]

Scope == [kind : ScopeKinds, parent : Nat, node : Nat, idents : Seq(Ident)]

\* at, idx: the IdentPtr of a class, param_scope->parent and ident_idx of a
\* function.  owner: the class it is a member of.  opened: how many times its
\* initializer or body was parsed.  var: whether a class has declarators.
Node == [kind : IdentKinds, name : AllNames, sig : Nat, params : Seq(Names),
         body : BOOLEAN, at : Nat, idx : Nat, owner : Nat, opened : Nat,
         var : BOOLEAN]

\* todo: the nodes whose definition the loop has yet to parse.
Frame == [kind : {"nodes", "decls", "defs"}, scope : Nat, node : Nat,
          todo : Seq(Nat)]

Top == Last(stack)

NewIdent(name, kind, sig, decl) ==
  [name |-> name, kind |-> kind, sig |-> sig, decl |-> decl, def |-> 0,
   scope |-> 0, given |-> {}]

NewScope(kind, parent, node, idents) ==
  [kind |-> kind, parent |-> parent, node |-> node, idents |-> idents]

NewFrame(kind, scope, node) ==
  [kind |-> kind, scope |-> scope, node |-> node, todo |-> <<>>]

SkipDef == Top.kind = "decls"

NewNode(kind, name, body) ==
  [kind |-> kind, name |-> name, sig |-> 0, params |-> <<>>, body |-> body,
   at |-> 0, idx |-> 0, owner |-> IF Top.kind = "decls" THEN Top.node ELSE 0,
   opened |-> 0, var |-> FALSE]
-----------------------------------------------------------------------------
(***************************************************************************)
(* are_idents_equiv, midsema_add_ident: an identifier that is equivalent   *)
(* to one of the scope is not added, whatever its kind; the old one, found *)
(* at Place, then stands for both.                                         *)
(***************************************************************************)
Equivalent(a, b) ==
  a.name = b.name /\ (a.kind = "FUNC" /\ b.kind = "FUNC" => a.sig = b.sig)

Clash(idents, ident) == \E i \in 1..Len(idents) : Equivalent(idents[i], ident)

\* Mutant: the first identifier of that name, whichever overload it is.
PlaceByName(idents, ident) ==
  IF Clash(idents, ident)
  THEN CHOOSE i \in 1..Len(idents) :
         /\ idents[i].name = ident.name
         /\ \A j \in 1..i-1 : idents[j].name # ident.name
  ELSE Len(idents) + 1

Place(idents, ident) ==
  IF Clash(idents, ident)
  THEN CHOOSE i \in 1..Len(idents) :
         /\ Equivalent(idents[i], ident)
         /\ \A j \in 1..i-1 : ~Equivalent(idents[j], ident)
  ELSE Len(idents) + 1

\* Mutant: the identifier is added whatever the scope holds.
AddIdentAlways(idents, ident) == Append(idents, ident)

AddIdent(idents, ident) ==
  IF Clash(idents, ident) THEN idents ELSE Append(idents, ident)

Declare(ss, s, ident) == [ss EXCEPT ![s].idents = AddIdent(@, ident)]

\* A scope and those around it, from 0 for none.
Chain[s \in 0..Len(scopes)] ==
  IF s = 0 THEN {} ELSE {s} \cup Chain[scopes[s].parent]

Nearest(S) == CHOOSE s \in S : \A t \in S : t <= s

\* midsema_find_ident: the first of that name in the nearest scope.
Named(idents, name) == {i \in 1..Len(idents) : idents[i].name = name}

Holders(ss, s, name) == {c \in Chain[s] : Named(ss[c].idents, name) # {}}

FindIdent(ss, s, name) ==
  LET idents == ss[Nearest(Holders(ss, s, name))].idents
  IN  idents[CHOOSE i \in Named(idents, name) :
               \A j \in Named(idents, name) : i <= j]

\* midsema_is_type_name: such a name is never the name of a declarator.
IsTypeName(ss, s, name) ==
  /\ Holders(ss, s, name) # {}
  /\ FindIdent(ss, s, name).kind \in {"CLASS", "TYPEDEF"}

Rnce(s) == {c \in Chain[s] : scopes[c].kind \in {"ROOT", "NAMESPACE", "CLASS"}}

NceIdents(c, name) ==
  {ident \in Range(scopes[c].idents) :
     ident.name = name /\ ident.kind \in {"CLASS", "NAMESPACE"}}

IdentScope(ident) ==
  IF ident.kind = "CLASS" THEN ident.scope
  ELSE CHOOSE c \in 1..Len(scopes) : scopes[c].node = ident.decl

\* midsema_resolve_scope: 0 stands for NULL.
ResolveScope(name, s) ==
  LET holders == {c \in Rnce(s) : NceIdents(c, name) # {}}
  IN  IF holders = {} THEN 0
      ELSE IdentScope(CHOOSE ident \in NceIdents(Nearest(holders), name) : TRUE)

\* midpar_parse_scope_res with at most one qualifier.
Qualified(q, s) ==
  CASE q = "none" -> s
    [] q = "::"   -> 1
    [] OTHER      -> IF ResolveScope(q, s) = 0 THEN Nearest(Rnce(s))
                     ELSE ResolveScope(q, s)

Unresolved(q, s) == q \in Names /\ ResolveScope(q, s) = 0
-----------------------------------------------------------------------------
Init ==
  /\ scopes = <<NewScope("ROOT", 0, 0, <<>>)>>
  /\ nodes = <<>>
  /\ stack = <<NewFrame("nodes", 1, 0)>>
  /\ diags = FALSE
  /\ pc = "run"

\* The loop of the innermost frame is at a declaration.
Reading == pc = "run" /\ Top.kind # "defs" /\ (Top.kind = "nodes" => Top.todo = <<>>)

Room == Len(nodes) < MaxNodes

\* Mutant: the number of the node before.
NewStale == Len(nodes)

New == Len(nodes) + 1

\* The node's definition is parsed next or, in the first pass, later.
Todo(fs, n) == [fs EXCEPT ![Len(fs)].todo = Append(@, n)]

(***************************************************************************)
(* midpar_parse_var_decl_inst: one declarator, which names nothing when    *)
(* its name is that of a type.  n is its node.                             *)
(***************************************************************************)
Declarator(ss, s, name, kind, n) ==
  IF IsTypeName(ss, s, name) THEN ss ELSE Declare(ss, s, NewIdent(name, kind, 0, n))

Redeclares(ss, s, name, kind, n) ==
  ~IsTypeName(ss, s, name) /\ Clash(ss[s].idents, NewIdent(name, kind, 0, n))

\* The declarator that follows the body of a class, or the ";" instead.
Instance(ss, s, inst, n) ==
  IF inst = "none" THEN ss ELSE Declarator(ss, s, inst, "VAR", n)

BadInstance(ss, s, inst, n) ==
  inst # "none" /\ Redeclares(ss, s, inst, "VAR", n)

VarDecl(name, kind, init) ==
  /\ Reading /\ Room
  /\ kind = "TYPEDEF" => ~init
  /\ scopes' = Declarator(scopes, Top.scope, name, kind, New)
  /\ diags' = (diags \/ Redeclares(scopes, Top.scope, name, kind, New))
  /\ nodes' = Append(nodes, NewNode(kind, name, init))
  /\ stack' = IF init THEN Todo(stack, New) ELSE stack
  /\ UNCHANGED pc

\* The parameters that get a name: those whose name is not that of a type.
ParamNames(s, params) ==
  LET upto[i \in 0..Len(params)] ==
        IF i = 0 THEN <<>>
        ELSE IF IsTypeName(scopes, s, params[i]) THEN upto[i-1]
        ELSE Append(upto[i-1], params[i])
  IN  upto[Len(params)]

\* Mutant: the loop stops before the last parameter.
MissingDefaultShort(given, n) ==
  \E i, j \in 1..n-1 : i < j /\ i \in given /\ j \notin given

\* missing_default_args: a parameter with none after one that has one.
MissingDefault(given, n) == \E i, j \in 1..n : i < j /\ i \in given /\ j \notin given

(***************************************************************************)
(* midpar_parse_func_decl: the parameters, whose names are kept for the    *)
(* body, the identifier, the default arguments.                            *)
(***************************************************************************)
FuncDecl(name, p, body) ==
  LET s == Top.scope
      fname == IF IsTypeName(scopes, s, name) THEN "INVALID-FUNC-NAME" ELSE name
      ident == NewIdent(fname, "FUNC", p.sig, New)
      idents == AddIdent(scopes[s].idents, ident)
      i == Place(scopes[s].idents, ident)
      given == idents[i].given \cup p.defaults
  IN  /\ Reading /\ Room
      /\ scopes' = [scopes EXCEPT ![s].idents = [idents EXCEPT ![i].given = given]]
      /\ diags' = \/ diags
                  \/ fname # name
                  \/ idents[i].given \cap p.defaults # {}
                  \/ MissingDefault(given, Len(p.params))
      /\ nodes' = Append(nodes, [NewNode("FUNC", fname, body) EXCEPT
                                   !.sig = p.sig, !.params = ParamNames(s, p.params),
                                   !.at = s, !.idx = i])
      /\ stack' = IF body THEN Todo(stack, New) ELSE stack
      /\ UNCHANGED pc

(***************************************************************************)
(* midpar_parse_class up to the end of its body, which the first pass only *)
(* skips, or to the ";" of a declaration.  In the first pass its           *)
(* declarators follow at once.                                             *)
(***************************************************************************)
ClassDecl(name, q, body, inst) ==
  LET res == Qualified(q, Top.scope)
      ident == NewIdent(name, "CLASS", 0, New)
      ss == Declare(scopes, res, ident)
      class == [NewNode("CLASS", name, body) EXCEPT
                  !.at = res, !.idx = Place(scopes[res].idents, ident),
                  !.var = inst # "none"]
      later == SkipDef \/ body
  IN  /\ Reading /\ Room
      /\ inst # "none" => SkipDef /\ body
      /\ scopes' = Instance(ss, Top.scope, inst, New)
      /\ diags' = \/ diags
                  \/ Unresolved(q, Top.scope)
                  \/ BadInstance(ss, Top.scope, inst, New)
      /\ nodes' = Append(nodes, class)
      /\ stack' = IF later THEN Todo(stack, New) ELSE stack
      /\ UNCHANGED pc

(***************************************************************************)
(* parse_class_inheritance: the base class is looked up before the class   *)
(* is declared, and dereferenced before it is known to be there.           *)
(***************************************************************************)
IsDefined(s, name) ==
  Holders(scopes, s, name) # {} /\ FindIdent(scopes, s, name).def # 0

UndefinedBase(q, base) ==
  /\ Reading
  /\ ~IsDefined(Qualified(q, Top.scope), base)
  /\ pc' = "no_base"
  /\ UNCHANGED <<scopes, nodes, stack, diags>>

\* midpar_parse_namespace: it has a scope of its own even when it is one
\* more part of a namespace, which is reported.
NamespaceDecl(name) ==
  LET s == Top.scope
      ident == [NewIdent(name, "NAMESPACE", 0, New) EXCEPT !.def = New]
  IN  /\ Reading /\ Room
      /\ scopes' = Append(Declare(scopes, s, ident),
                          NewScope("NAMESPACE", s, New, <<>>))
      /\ diags' = (diags \/ Clash(scopes[s].idents, ident))
      /\ nodes' = Append(nodes, NewNode("NAMESPACE", name, FALSE))
      /\ stack' = Append(stack, NewFrame("nodes", Len(scopes'), New))
      /\ UNCHANGED pc
-----------------------------------------------------------------------------
\* Mutant: the first pass over a class parses definitions too.
DefiningAtOnce == pc = "run" /\ Top.todo # <<>>

\* The loop has a definition to parse.
Defining == pc = "run" /\ Top.kind # "decls" /\ Top.todo # <<>>

Def == Head(Top.todo)

Done(fs) == [fs EXCEPT ![Len(fs)].todo = Tail(@)]

Opened(n) == [nodes EXCEPT ![n].opened = @ + 1]

\* midpar_func_ident, midsema_deref_identptr
IdentOf(n) == scopes[nodes[n].at].idents[nodes[n].idx]

\* Mutant: only a redefinition as the same kind of thing is reported.
RedefinedSameKind(n) == IdentOf(n).kind = nodes[n].kind /\ IdentOf(n).def # 0

\* add_func_def, add_class_def, setup_def_scope: twice reported if at all.
Redefined(n) == IdentOf(n).def # 0 \/ IdentOf(n).scope # 0

\* Mutant: the scope is set without the definition.
DefineScopeOnly(n, scope) ==
  [scopes EXCEPT ![nodes[n].at].idents[nodes[n].idx].scope = scope]

\* Their assignments: a later definition replaces the earlier one.
Define(n, scope) ==
  [scopes EXCEPT ![nodes[n].at].idents[nodes[n].idx] =
     [@ EXCEPT !.def = n, !.scope = scope]]

ReadInit ==
  /\ Defining /\ nodes[Def].kind = "VAR"
  /\ nodes' = Opened(Def)
  /\ stack' = Done(stack)
  /\ UNCHANGED <<scopes, diags, pc>>

\* Mutant: the parameters as the function was first declared.
ParamIdentsDeclared(n) ==
  LET params == nodes[IdentOf(n).decl].params
  IN  [i \in 1..Len(params) |-> NewIdent(params[i], "VAR", 0, n)]

\* copy_params_to_scope
ParamIdents(n) ==
  [i \in 1..Len(nodes[n].params) |-> NewIdent(nodes[n].params[i], "VAR", 0, n)]

\* midpar_parse_func_body, to the start of its loop.
OpenFunc ==
  LET s == nodes[Def].at
      def == Len(scopes) + 1
  IN  /\ Defining /\ nodes[Def].kind = "FUNC"
      /\ scopes' = Append(Define(Def, def), NewScope("FUNC", s, Def, ParamIdents(Def)))
      /\ diags' = (diags \/ Redefined(Def))
      /\ nodes' = Opened(Def)
      /\ stack' = Append(Done(stack), NewFrame("nodes", def, Def))
      /\ UNCHANGED pc

\* The body that is never closed: the function is defined without a scope,
\* and what is left of the file is read in its place.
UnclosedFunc ==
  /\ Defining /\ nodes[Def].kind = "FUNC"
  /\ Len(stack) = 1
  /\ scopes' = Define(Def, IdentOf(Def).scope)
  /\ diags' = TRUE
  /\ stack' = Done(stack)
  /\ UNCHANGED <<nodes, pc>>

\* parse_class_body, to the start of parse_decls.
OpenClass ==
  LET s == nodes[Def].at
      def == Len(scopes) + 1
  IN  /\ Defining /\ nodes[Def].kind = "CLASS" /\ nodes[Def].body
      /\ scopes' = Append(Define(Def, def), NewScope("CLASS", s, Def, <<>>))
      /\ diags' = (diags \/ Redefined(Def))
      /\ nodes' = Opened(Def)
      /\ stack' = Append(Done(stack), NewFrame("decls", def, Def))
      /\ UNCHANGED pc

\* The second pass takes a member class for defined where it was declared,
\* and looks for the end of a body that is not there.
NoBody ==
  /\ Defining /\ nodes[Def].kind = "CLASS" /\ ~nodes[Def].body
  /\ pc' = "no_body"
  /\ UNCHANGED <<scopes, nodes, stack, diags>>
-----------------------------------------------------------------------------
\* "}" of a namespace or a function.
EndNodes ==
  /\ Reading /\ Top.kind = "nodes" /\ Len(stack) > 1
  /\ stack' = Front(stack)
  /\ UNCHANGED <<scopes, nodes, diags, pc>>

\* Mutant: parse_defs stops one short of the last member.
EndDeclsShort ==
  /\ Reading /\ Top.kind = "decls"
  /\ stack' = [stack EXCEPT ![Len(stack)] =
                  [@ EXCEPT !.kind = "defs",
                            !.todo = IF @ = <<>> THEN @ ELSE Front(@)]]
  /\ UNCHANGED <<scopes, nodes, diags, pc>>

\* "}" of a class: parse_defs goes over the members again.
EndDecls ==
  /\ Reading /\ Top.kind = "decls"
  /\ stack' = [stack EXCEPT ![Len(stack)].kind = "defs"]
  /\ UNCHANGED <<scopes, nodes, diags, pc>>

EndsDefs == pc = "run" /\ Top.kind = "defs" /\ Top.todo = <<>>

Outer == stack[Len(stack) - 1]

\* midpar_parse_class goes on to the declarators, if any.
EndClass(inst) ==
  /\ EndsDefs /\ Outer.kind = "nodes"
  /\ stack' = Front(stack)
  /\ scopes' = Instance(scopes, Outer.scope, inst, Top.node)
  /\ diags' = (diags \/ BadInstance(scopes, Outer.scope, inst, Top.node))
  /\ UNCHANGED <<nodes, pc>>

\* midpar_parse_class_def goes on to them too: to self->var, which only the
\* first pass sets, and only for a class that has some.
EndMemberClass ==
  /\ EndsDefs /\ Outer.kind = "defs"
  /\ IF nodes[Top.node].var
     THEN stack' = Front(stack) /\ UNCHANGED pc
     ELSE pc' = "no_var" /\ UNCHANGED stack
  /\ UNCHANGED <<scopes, nodes, diags>>

EndFile ==
  /\ Reading /\ Len(stack) = 1
  /\ pc' = "done"
  /\ UNCHANGED <<scopes, nodes, stack, diags>>

Next ==
  \/ \E name \in Names :
       \/ \E kind \in {"VAR", "TYPEDEF"}, init \in BOOLEAN : VarDecl(name, kind, init)
       \/ \E p \in Protos, body \in BOOLEAN : FuncDecl(name, p, body)
       \/ \E q \in Names \cup {"none", "::"} :
            \/ \E body \in BOOLEAN, inst \in Names \cup {"none"} :
                 ClassDecl(name, q, body, inst)
            \/ UndefinedBase(q, name)
       \/ NamespaceDecl(name)
  \/ ReadInit \/ OpenFunc \/ UnclosedFunc \/ OpenClass \/ NoBody
  \/ EndNodes \/ EndDecls \/ EndMemberClass \/ EndFile
  \/ \E inst \in Names \cup {"none"} : EndClass(inst)

Spec == Init /\ [][Next]_vars
-----------------------------------------------------------------------------
ScopeIds == 1..Len(scopes)
NodeIds == 1..Len(nodes)

\* Types of the state; scopes form a tree with the root first.
TypeOK ==
  /\ scopes \in Seq(Scope) /\ scopes # <<>>
  /\ \A s \in ScopeIds : scopes[s].parent < s
  /\ nodes \in Seq(Node)
  /\ stack \in Seq(Frame) /\ stack # <<>>
  /\ \A f \in 1..Len(stack) :
       stack[f].scope \in ScopeIds /\ Range(stack[f].todo) \subseteq NodeIds
  /\ diags \in BOOLEAN
  /\ pc \in {"run", "done", "no_base", "no_body", "no_var"}

(***************************************************************************)
(* No scope holds two equivalent identifiers: what midsema_add_ident is    *)
(* for, and what lookups that stop at the first match rely on.             *)
(***************************************************************************)
NoTwoEquivalent ==
  \A s \in ScopeIds : \A i, j \in 1..Len(scopes[s].idents) :
    Equivalent(scopes[s].idents[i], scopes[s].idents[j]) => i = j

(***************************************************************************)
(* The comment on struct midsema_IdentPtr: it "only gets invalidated if    *)
(* the identifier's idx in its scope gets invalidated".  It never is: what *)
(* a function or class node points at goes by its name for good, whatever  *)
(* else is declared, and wherever the array of identifiers has moved.      *)
(***************************************************************************)
IdentPtrsValid ==
  \A n \in NodeIds : nodes[n].at # 0 =>
    /\ nodes[n].at \in ScopeIds
    /\ nodes[n].idx \in 1..Len(scopes[nodes[n].at].idents)
    /\ IdentOf(n).name = nodes[n].name
    /\ IdentOf(n).kind = "FUNC" /\ nodes[n].kind = "FUNC" => IdentOf(n).sig = nodes[n].sig

(***************************************************************************)
(* In a program that was accepted so far no identifier, overload or class, *)
(* has been given two bodies, however the declarations and the passes over *)
(* them were interleaved: not in the file, not by two members whose bodies *)
(* are parsed later, not by a class and a function of the same name.       *)
(***************************************************************************)
OneDefinition ==
  ~diags =>
    \A m, n \in NodeIds :
      /\ nodes[m].at # 0 /\ nodes[m].at = nodes[n].at /\ nodes[m].idx = nodes[n].idx
      /\ nodes[m].opened > 0 /\ nodes[n].opened > 0
      => m = n

(***************************************************************************)
(* The scope an identifier leads to is that of the node it says defines    *)
(* it: qualified lookups (the scope) and the code that goes through the    *)
(* definition's tree see the same class or function.                       *)
(***************************************************************************)
ScopeOfDefinition ==
  \A s \in ScopeIds : \A i \in 1..Len(scopes[s].idents) :
    LET ident == scopes[s].idents[i]
    IN  ident.scope # 0 /\ ~diags => scopes[ident.scope].node = ident.def

(***************************************************************************)
(* The body of a function sees the parameters as they are named where it   *)
(* is defined, not as in an earlier declaration of the function.           *)
(***************************************************************************)
BodySeesParams ==
  \A s \in ScopeIds : scopes[s].kind = "FUNC" =>
    LET params == nodes[scopes[s].node].params
    IN  /\ Len(params) <= Len(scopes[s].idents)
        /\ \A i \in 1..Len(params) : scopes[s].idents[i].name = params[i]

(***************************************************************************)
(* Default arguments add up over the declarations of a function; those of  *)
(* an accepted program always belong to its last parameters.               *)
(***************************************************************************)
DefaultsTrail ==
  ~diags =>
    \A n \in NodeIds : nodes[n].kind = "FUNC" =>
      LET given == IdentOf(n).given
          params == UNION {p.defaults \cup 1..Len(p.params) :
                             p \in {p \in Protos : p.sig = nodes[n].sig}}
      IN  IdentOf(n).kind = "FUNC" => \A i \in given : \A j \in params : i < j => j \in given

(***************************************************************************)
(* Two passes: once the body or initializer of a member of a class has     *)
(* been parsed, no other member is declared in that class body, so the     *)
(* definition could use them all ("int x = y; int y;" in class.c).         *)
(***************************************************************************)
MembersFirst ==
  [][\A m \in NodeIds, n \in 1..Len(nodes') \ NodeIds :
       /\ nodes[m].owner # 0
       /\ nodes[m].opened > 0
       => nodes'[n].owner # nodes[m].owner]_vars

(***************************************************************************)
(* When a file has been read without an error, each initializer and body   *)
(* it contains has been parsed exactly once: the first pass over a class   *)
(* skipped none for good, and the second repeated none.                    *)
(***************************************************************************)
EachDefinedOnce ==
  pc = "done" /\ ~diags =>
    \A n \in NodeIds : nodes[n].opened = (IF nodes[n].body THEN 1 ELSE 0)
=============================================================================
