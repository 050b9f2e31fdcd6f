------------------------------- MODULE Overloads -------------------------------
(***************************************************************************)
(* Overload resolution, src/sema/lookup.c: which function a call calls.    *)
(* The scopes to search are collected, by the place of the call and by the *)
(* classes of its arguments; the functions in them that could be called    *)
(* are sorted by the conversions their arguments need; the first is taken. *)
(***************************************************************************)
EXTENDS Types, Integers, FiniteSets, SequencesExt

CONSTANT Input   \* the calls, each with the declarations it is made among

(***************************************************************************)
(* A scope holds functions and classes in the order of their declaration.  *)
(* scope of a class: that of its body, 0 if it has none.  supers: its base *)
(* classes, those of the declaration seen first if it is said to be        *)
(* forward.  tor: a constructor.  how "method": the call of a member of an *)
(* object, whose constness is const; in the others this_quals is NULL.     *)
(***************************************************************************)
Ident == [kind : {"FUNC", "CLASS"}, of : Nat]

Scope == [type : {"ROOT", "NAMESPACE", "CLASS", "FUNC"}, parent : Nat,
          class : Nat, idents : Seq(Ident)]

Class == [name : STRING, scope : Nat, supers : Seq(Nat), forward : BOOLEAN,
          ctors : Seq(Nat)]

Func == [name : STRING, scope : Nat, tor : BOOLEAN, static : BOOLEAN,
         const : BOOLEAN, params : Seq(Type), variadic : BOOLEAN,
         defaults : SUBSET Nat, ret : Type]

Arg == [type : Type, valtype : ValueTypes]

How == {"unqualified", "qualified", "method", "operator"}

Call == [name : STRING, args : Seq(Arg), scope : Nat, how : How, const : BOOLEAN,
         scopes : Seq(Scope), classes : Seq(Class), funcs : Seq(Func)]

\* Scopes come after those around them, classes after their bases.  A function
\* is one identifier of its scope; constructors and destructors are none, and
\* are kept with their class.
WellFormed(c) ==
  /\ c.scope \in 1..Len(c.scopes)
  /\ \A s \in 1..Len(c.scopes) :
       /\ c.scopes[s].parent < s
       /\ c.scopes[s].parent = 0 <=> c.scopes[s].type = "ROOT"
       /\ c.scopes[s].type = "CLASS" => c.scopes[s].class \in 1..Len(c.classes)
       /\ \A ident \in Range(c.scopes[s].idents) :
            ident.of \in 1..Len(IF ident.kind = "FUNC" THEN c.funcs ELSE c.classes)
  /\ \A k \in 1..Len(c.classes) :
       /\ c.classes[k].scope \in 0..Len(c.scopes)
       /\ c.classes[k].scope # 0 => /\ c.scopes[c.classes[k].scope].type = "CLASS"
                                    /\ c.scopes[c.classes[k].scope].class = k
       /\ Range(c.classes[k].supers) \subseteq 1..k-1
       /\ Range(c.classes[k].ctors) \subseteq {f \in 1..Len(c.funcs) : c.funcs[f].tor}
  /\ \A f \in 1..Len(c.funcs) :
       /\ c.funcs[f].scope \in 1..Len(c.scopes)
       /\ ~c.funcs[f].tor =>
            \E n \in 1..Len(c.scopes[c.funcs[f].scope].idents) :
              \A s \in 1..Len(c.scopes) : \A i \in 1..Len(c.scopes[s].idents) :
                c.scopes[s].idents[i] = [kind |-> "FUNC", of |-> f]
                  <=> s = c.funcs[f].scope /\ i = n
  /\ \A a \in Range(c.args) :
       a.type.spec \in Named => a.type.class \in 1..Len(c.classes)

ASSUME InputAssumption == \A c \in Input : c \in Call /\ WellFormed(c)

VARIABLES
  call,    \* the call
  scopes,  \* the scopes collected so far
  climb,   \* the scope add_nmspace_scope is at, or 0
  supers,  \* the base classes add_super_classes has yet to visit, first last
  next,    \* the argument, scope or candidate the running loop is at
  cands,   \* the candidates
  viable,  \* those that can be called, later sorted
  ranges, part,   \* mid_qsort
  best,    \* the function that was found, or 0
  pc

vars == <<call, scopes, climb, supers, next, cands, viable, ranges, part, best, pc>>

-----------------------------------------------------------------------------
IsMethod(c, f) == c.scopes[c.funcs[f].scope].type = "CLASS"

\* midsema_func_takes_implicit_this(func, false)
TakesThis(c, f) == IsMethod(c, f) /\ ~c.funcs[f].tor /\ ~c.funcs[f].static

\* The first argument stands for this.
Shift(c, f) == IF c.how # "method" /\ TakesThis(c, f) THEN 1 ELSE 0

Stops(type) == type \in {"NAMESPACE", "ROOT"}

\* Mutant: a scope is searched as often as it is reached.
AddScopeAgain(s) == Append(scopes, s)

AddScope(s) == IF s \in Range(scopes) THEN scopes ELSE Append(scopes, s)

Init ==
  /\ call \in Input
  /\ IF call.how \in {"qualified", "method"}
     THEN scopes = <<call.scope>> /\ climb = 0 /\ pc = "search"
     ELSE scopes = <<>> /\ climb = call.scope /\ pc = "collect"
  /\ supers = <<>>
  /\ next = 1
  /\ cands = <<>> /\ viable = <<>>
  /\ ranges = <<>>
  /\ part = [left |-> 0, right |-> 0, i |-> 0, last |-> 0]
  /\ best = 0

\* add_nmspace_scope: out to the innermost enclosing namespace.
Climb ==
  LET s == call.scopes[climb]
  IN  /\ pc = "collect" /\ climb # 0
      /\ scopes' = IF Stops(s.type) \/ s.type = "CLASS" THEN AddScope(climb) ELSE scopes
      /\ climb' = IF Stops(s.type) THEN 0 ELSE s.parent
      /\ UNCHANGED <<call, supers, next, cands, viable, ranges, part, best, pc>>

\* add_super_classes: a base class, and what is around it, then its bases.
VisitSuper ==
  LET class == call.classes[Last(supers)]
  IN  /\ pc = "collect" /\ climb = 0 /\ supers # <<>>
      /\ climb' = class.scope
      /\ supers' = Front(supers) \o Reverse(class.supers)
      /\ UNCHANGED <<call, scopes, next, cands, viable, ranges, part, best, pc>>

\* get_assoc_scopes_class goes by the declaration of the class seen first.
VisitArg ==
  LET type == call.args[next].type
      class == call.classes[type.class]
  IN  /\ pc = "collect" /\ climb = 0 /\ supers = <<>>
      /\ next <= Len(call.args)
      /\ IF type.spec \in Named
         THEN /\ climb' = class.scope
              /\ supers' = IF class.forward THEN <<>> ELSE Reverse(class.supers)
         ELSE UNCHANGED <<climb, supers>>
      /\ next' = next + 1
      /\ UNCHANGED <<call, scopes, cands, viable, ranges, part, best, pc>>

EndCollect ==
  /\ pc = "collect" /\ climb = 0 /\ supers = <<>>
  /\ next > Len(call.args)
  /\ next' = 1
  /\ pc' = "search"
  /\ UNCHANGED <<call, scopes, climb, supers, cands, viable, ranges, part, best>>
-----------------------------------------------------------------------------
\* The candidates an identifier stands for: a function, or the constructors
\* of a class, unless operators are looked for.
Of(ident) ==
  CASE ident.kind = "FUNC" /\ call.funcs[ident.of].name = call.name -> <<ident.of>>
    [] /\ ident.kind = "CLASS" /\ call.how # "operator"
       /\ call.classes[ident.of].name = call.name
       /\ call.classes[ident.of].scope # 0 -> call.classes[ident.of].ctors
    [] OTHER -> <<>>

\* find_funcs_in_scope, find_op_overloads_in_scope: that of a class adds its
\* constructors, whatever the name.
Search ==
  LET scope == call.scopes[scopes[next]]
      ctors == IF scope.type = "CLASS" /\ call.how # "operator"
               THEN call.classes[scope.class].ctors ELSE <<>>
  IN  /\ pc = "search" /\ next <= Len(scopes)
      /\ cands' = cands \o ctors
                    \o FlattenSeq([i \in 1..Len(scope.idents) |-> Of(scope.idents[i])])
      /\ next' = next + 1
      /\ UNCHANGED <<call, scopes, climb, supers, viable, ranges, part, best, pc>>

EndSearch ==
  /\ pc = "search" /\ next > Len(scopes)
  /\ next' = 1
  /\ pc' = IF cands = <<>> THEN "done" ELSE "filter"
  /\ UNCHANGED <<call, scopes, climb, supers, cands, viable, ranges, part, best>>
-----------------------------------------------------------------------------
(***************************************************************************)
(* midsema_is_func_viable.  It takes the first argument for this whenever  *)
(* this is not given, though there may be none, and reads what is not      *)
(* there: the default argument of parameter -1, or the argument after the  *)
(* last one.                                                               *)
(***************************************************************************)
Given(c, f) == Len(c.args) - Shift(c, f)

\* func_params_viable
ParamsViable(c, f) ==
  LET func == c.funcs[f]
      n_params == Len(func.params)
  IN  \/ n_params = Given(c, f)
      \/ func.variadic /\ n_params < Given(c, f)
      \/ n_params > Given(c, f) /\ Given(c, f) + 1 \in func.defaults

ClassForThis(c, f) == Shift(c, f) = 1 => IsClass(c.args[1].type)

\* valid_this_arg goes by the class that f returns, not that of the argument.
ReturnsClass(c, f) == Shift(c, f) = 1 => c.funcs[f].ret.spec \in Named

ThisFits(c, f) ==
  LET func == c.funcs[f]
  IN  /\ c.how = "method" => TakesThis(c, f) /\ (c.const => func.const)
      /\ Shift(c, f) = 1 =>
           /\ c.classes[func.ret.class].scope = func.scope
           /\ c.args[1].type.quals[1] => func.const

Converts(c, f) ==
  \A i \in 1..Len(c.funcs[f].params), j \in 1..Len(c.args) :
    j = i + Shift(c, f) =>
      CanConvert(c.args[j].type, c.args[j].valtype, c.funcs[f].params[i])

Viable(c, f) ==
  /\ ParamsViable(c, f)
  /\ ClassForThis(c, f) /\ ReturnsClass(c, f) /\ ThisFits(c, f)
  /\ Converts(c, f)

\* A null pointer is followed to the class that f returns.
NoClass(c, f) == ParamsViable(c, f) /\ ClassForThis(c, f) /\ ~ReturnsClass(c, f)

Overread(c, f) ==
  \/ Given(c, f) < 0
  \/ Viable(c, f) /\ Shift(c, f) = 1 /\ Len(c.args) <= Len(c.funcs[f].params)

Fails(c, f) == NoClass(c, f) \/ Overread(c, f)

\* midsema_viable_funcs
Filter ==
  /\ pc = "filter" /\ next <= Len(cands)
  /\ ~Fails(call, cands[next])
  /\ viable' = IF Viable(call, cands[next])
               THEN Append(viable, cands[next]) ELSE viable
  /\ next' = next + 1
  /\ UNCHANGED <<call, scopes, climb, supers, cands, ranges, part, best, pc>>

FilterFails ==
  /\ pc = "filter" /\ next <= Len(cands)
  /\ Fails(call, cands[next])
  /\ pc' = IF NoClass(call, cands[next]) THEN "no_class" ELSE "overread"
  /\ UNCHANGED <<call, scopes, climb, supers, next, cands, viable, ranges, part, best>>
-----------------------------------------------------------------------------
\* An argument that no parameter of f stands for.
InVariadic(c, f, i) == i > Len(c.funcs[f].params)

Rank(c, f, i) == ConversionRank(c.args[i].type, c.funcs[f].params[i])

\* At argument i the conversion that f needs is better than that of g.
Closer(c, f, g, i) ==
  /\ ~InVariadic(c, f, i)
  /\ InVariadic(c, g, i) \/ Rank(c, f, i) < Rank(c, g, i)

\* Mutant: the sign is that of the first comment on the function.
CompareAsCommented(a, b, c) ==
  IF \E i \in 1..Len(c.args) : Closer(c, a, b, i) THEN 1
  ELSE IF \E i \in 1..Len(c.args) : Closer(c, b, a, i) THEN -1 ELSE 0

\* compare_viable_funcs: positive if b is better at some argument, and a at
\* none.  The argument that stands for this is not skipped.
Compare(a, b, c) ==
  IF \E i \in 1..Len(c.args) : Closer(c, a, b, i) THEN -1
  ELSE IF \E i \in 1..Len(c.args) : Closer(c, b, a, i) THEN 1 ELSE 0

Q == INSTANCE Qsort WITH Elems <- Nat, Infos <- Call, Comp <- Compare,
                         v <- viable, info <- call

EndFilter ==
  /\ pc = "filter" /\ next > Len(cands)
  /\ pc' = IF viable = <<>> THEN "done" ELSE "sort"
  /\ ranges' = IF viable = <<>> THEN <<>> ELSE Q!Whole(viable)
  /\ UNCHANGED <<call, scopes, climb, supers, next, cands, viable, part, best>>

Sort ==
  /\ pc = "sort"
  /\ Q!Next
  /\ UNCHANGED <<scopes, climb, supers, next, cands, best, pc>>

\* midsema_best_viable_func
Take ==
  /\ pc = "sort" /\ Q!Sorted
  /\ best' = viable[1]
  /\ pc' = "done"
  /\ UNCHANGED <<call, scopes, climb, supers, next, cands, viable, ranges, part>>

Next ==
  \/ Climb \/ VisitSuper \/ VisitArg \/ EndCollect
  \/ Search \/ EndSearch \/ Filter \/ FilterFails \/ EndFilter
  \/ Sort \/ Take

Spec == Init /\ [][Next]_vars /\ WF_vars(Next)
-----------------------------------------------------------------------------
\* Types of the state; what is numbered is there.
TypeOK ==
  /\ call \in Call /\ WellFormed(call)
  /\ scopes \in Seq(1..Len(call.scopes))
  /\ climb \in 0..Len(call.scopes)
  /\ supers \in Seq(1..Len(call.classes))
  /\ next \in Nat \ {0}
  /\ cands \in Seq(1..Len(call.funcs))
  /\ viable \in Seq(1..Len(call.funcs))
  /\ Q!TypeOK
  /\ best \in 0..Len(call.funcs)
  /\ pc \in {"collect", "search", "filter", "sort", "done", "no_class", "overread"}

(***************************************************************************)
(* What unqualified lookup and argument-dependent lookup are to search: a  *)
(* place's classes and innermost namespace; for an argument of a class,    *)
(* those of the class and of all its bases.                                *)
(***************************************************************************)
Enclosing(c, s) ==
  LET around[t \in 0..Len(c.scopes)] ==
        IF t = 0 THEN {} ELSE {t} \cup around[c.scopes[t].parent]
      stops == {t \in around[s] : Stops(c.scopes[t].type)}
  IN  {t \in around[s] :
         /\ c.scopes[t].type # "FUNC"
         /\ \A u \in stops : t >= u}

Bases(c, k) ==
  LET closure[d \in 1..Len(c.classes)] ==
        {d} \cup UNION {closure[e] : e \in Range(c.classes[d].supers)}
  IN  closure[k]

ArgClasses(c) == {a.type.class : a \in {a \in Range(c.args) : a.type.spec \in Named}}

ToSearch(c) ==
  IF c.how \in {"qualified", "method"} THEN {c.scope}
  ELSE Enclosing(c, c.scope)
         \cup UNION {Enclosing(c, c.classes[k].scope) :
                       k \in UNION {Bases(c, d) : d \in ArgClasses(c)}}

(***************************************************************************)
(* The candidates are the functions of that name in all the scopes that    *)
(* are to be searched, each once however often its scope is reached, and   *)
(* constructors.  Not so for a class that was declared before it was       *)
(* defined, whose first declaration has no bases.                          *)
(***************************************************************************)
Times(s, e) == Cardinality({i \in 1..Len(s) : s[i] = e})

CandidatesFound ==
  /\ pc \notin {"collect", "search"}
  /\ \A k \in ArgClasses(call) : ~call.classes[k].forward
  => \A f \in 1..Len(call.funcs) : ~call.funcs[f].tor =>
       Times(cands, f) =
         IF call.funcs[f].name = call.name /\ call.funcs[f].scope \in ToSearch(call)
         THEN 1 ELSE 0

(***************************************************************************)
(* Sorting loses no function and makes none up: those that can be called   *)
(* stay in the array, each as often as it was found.                       *)
(***************************************************************************)
ViableKept ==
  pc \in {"sort", "done"} =>
    \A f \in 1..Len(call.funcs) :
      Times(viable, f) = IF Viable(call, f) THEN Times(cands, f) ELSE 0

(***************************************************************************)
(* The function that is taken is a best one: of those that can be called,  *)
(* no other needs conversions that are all as good and somewhere better.   *)
(* In particular it is the best viable function of C++ when there is one,  *)
(* although the comparison, which cannot tell better from neither, orders  *)
(* the functions neither totally nor consistently.  Functions that take    *)
(* this as their first argument are compared with arguments that are not   *)
(* theirs.                                                                 *)
(***************************************************************************)
Needs(c, f, i) == IF InVariadic(c, f, i) THEN 4 ELSE Rank(c, f, i)

Better(c, f, g) ==
  /\ \A i \in 1..Len(c.args) : Needs(c, f, i) <= Needs(c, g, i)
  /\ \E i \in 1..Len(c.args) : Needs(c, f, i) < Needs(c, g, i)

NoneBetter ==
  /\ pc = "done"
  /\ \A f \in Range(viable) : Shift(call, f) = 0
  => \A f \in Range(viable) : ~Better(call, f, best)

(***************************************************************************)
(* Where this_quals is NULL, this is passed explicitly, as the header      *)
(* says: every candidate that takes this finds a first argument for it,    *)
(* and no argument past the last one is asked for.                         *)
(***************************************************************************)
ThisIsPassed == pc # "overread"

\* A call is always resolved in the end, or the compiler has failed: no loop,
\* least of all the recursion of the sort, goes on for ever.
Terminates == <>(pc \in {"done", "no_class", "overread"})
=============================================================================
