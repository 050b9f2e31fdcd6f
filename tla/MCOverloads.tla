------------------------------ MODULE MCOverloads ------------------------------
(***************************************************************************)
(* Overloads on two families of calls: of many functions in one scope,     *)
(* which differ in the conversions they need, and of few functions spread  *)
(* over namespaces, classes and their bases.                               *)
(***************************************************************************)
EXTENDS Overloads

CONSTANT MaxFuncs   \* bound on the functions of the first family

MCFuncOf(scope, params) ==
  [name |-> "f", scope |-> scope, tor |-> FALSE, static |-> FALSE, const |-> FALSE,
   params |-> params, variadic |-> FALSE, defaults |-> {}, ret |-> Plain("VOID")]

MCIdents(funcs, scope) ==
  SelectSeq([f \in 1..Len(funcs) |-> [kind |-> "FUNC", of |-> f]],
            LAMBDA ident : funcs[ident.of].scope = scope /\ ~funcs[ident.of].tor)

MCArg(type) == [type |-> type, valtype |-> "LVALUE"]
-----------------------------------------------------------------------------
\* For an int: exact match, promotion, conversion.
MCTypes == {Plain("INT"), Plain("CHAR"), Plain("FLOAT")}

MCPool ==
  {MCFuncOf(1, <<t, u>>) : t \in MCTypes, u \in MCTypes}
  \cup {[MCFuncOf(1, <<t>>) EXCEPT !.variadic = TRUE] : t \in {Plain("INT")}}
  \cup {[MCFuncOf(1, <<t, u, u>>) EXCEPT !.defaults = {3}] :
          t \in {Plain("FLOAT")}, u \in {Plain("CHAR")}}

MCRoot(funcs) ==
  [type |-> "ROOT", parent |-> 0, class |-> 0, idents |-> MCIdents(funcs, 1)]

MCRanked ==
  {[name |-> "f", args |-> <<MCArg(Plain("INT")), MCArg(Plain("INT"))>>,
    scope |-> 1, how |-> "unqualified", const |-> FALSE,
    scopes |-> <<MCRoot(funcs)>>, classes |-> <<>>, funcs |-> funcs] :
     funcs \in {fs \in BoundedSeq(MCPool, MaxFuncs) : IsInjective(fs)}}
-----------------------------------------------------------------------------
(***************************************************************************)
(* namespace 2 { class 1 }  namespace 4 { class 2 : class 1 }              *)
(* class 3 : class 2 { a function's body, 7 }  a function's body, 8        *)
(* class 4 is only declared.                                               *)
(***************************************************************************)
MCScopes(funcs) ==
  LET types == <<"ROOT", "NAMESPACE", "CLASS", "NAMESPACE", "CLASS", "CLASS", "FUNC", "FUNC">>
      parents == <<0, 1, 2, 1, 4, 1, 6, 1>>
      classes == <<0, 0, 1, 0, 2, 3, 0, 0>>
  IN  [s \in 1..8 |-> [type |-> types[s], parent |-> parents[s], class |-> classes[s],
                       idents |-> MCIdents(funcs, s)]]

MCClasses(forward) ==
  LET Declared(body, bases, tors) ==
        [name |-> "C", scope |-> body, supers |-> bases, forward |-> FALSE, ctors |-> tors]
  IN  <<Declared(3, <<>>, <<3>>), Declared(5, <<1>>, <<>>),
        [Declared(6, <<2>>, <<>>) EXCEPT !.forward = forward],
        Declared(0, <<>>, <<>>)>>

MCStruct(k) == [Plain("STRUCT") EXCEPT !.class = k]

MCCtor == [MCFuncOf(3, <<Plain("INT")>>) EXCEPT !.name = "C", !.tor = TRUE]

\* The class whose body scope s is.
MCClassOf(s) == CASE s = 3 -> 1 [] s = 5 -> 2 [] s = 6 -> 3 [] OTHER -> 0

MCSpread ==
  {[f EXCEPT !.static = static, !.const = const, !.ret = ret] :
     f \in {[MCFuncOf(s, p) EXCEPT !.defaults = d] :
              s \in 1..6, p \in {<<>>, <<Plain("INT")>>, <<MCStruct(3)>>}, d \in {{}, {1}}},
     static \in BOOLEAN, const \in BOOLEAN, ret \in {Plain("VOID"), MCStruct(3)}}

MCArgs ==
  {<<>>, <<MCArg(Plain("INT"))>>, <<MCArg(MCStruct(3))>>, <<MCArg(MCStruct(4))>>,
   <<MCArg(MCStruct(3)), MCArg(Plain("INT"))>>,
   <<MCArg([MCStruct(3) EXCEPT !.quals = <<FALSE, TRUE>>])>>}

MCPlaced ==
  {f \in MCSpread :
     /\ f.defaults # {} => f.params # <<>>
     /\ ~(f.static /\ f.const)
     /\ f.ret # Plain("VOID") => f.scope \in {5, 6}
     /\ MCClassOf(f.scope) = 0 => ~f.static /\ ~f.const /\ f.ret = Plain("VOID")}

MCSearched ==
  {[name |-> "f", args |-> args, scope |-> s, how |-> how, const |-> const,
    scopes |-> MCScopes(<<f, MCFuncOf(1, <<Plain("INT")>>), MCCtor>>),
    classes |-> MCClasses(forward),
    funcs |-> <<f, MCFuncOf(1, <<Plain("INT")>>), MCCtor>>] :
     f \in MCPlaced, args \in MCArgs, s \in {1, 2, 6, 7, 8}, how \in How,
     const \in BOOLEAN, forward \in BOOLEAN}

MCInput ==
  MCRanked
  \cup {c \in MCSearched :
          /\ c.how = "method" => c.scope = 6
          /\ c.how = "qualified" => c.scope \in {1, 2, 6}
          /\ c.const => c.how = "method"
          /\ c.how = "operator" => c.args # <<>>}
=============================================================================
