---------------------------- MODULE MCDeclarations ----------------------------
(***************************************************************************)
(* Declarations on every program of a few declarations of two names.       *)
(***************************************************************************)
EXTENDS Declarations

\* f(int x), f(int y), and f(int x, int y) with and without defaults.
MCProtos ==
  {[sig |-> 1, params |-> <<x>>, defaults |-> {}] : x \in Names}
  \cup {[sig |-> 2, params |-> SetToSeq(Names), defaults |-> d] : d \in {{}, {1}, {2}}}
-----------------------------------------------------------------------------
(***************************************************************************)
(* Not so: tests/scope_res.cpp has a class that both defines and declares  *)
(* a member class.  The second pass over the members takes either for a    *)
(* definition followed by declarators.                                     *)
(***************************************************************************)
MemberClassesParsed == ~diags => pc \notin {"no_body", "no_var"}

(***************************************************************************)
(* Not so: the comment on ident_idx in func_decl.h calls it "the           *)
(* identifier holding the function overload".  add_func_to_scope is given  *)
(* the identifier of anything else that has the name, and reports nothing. *)
(***************************************************************************)
IdentHoldsOverload ==
  ~diags => \A n \in NodeIds : nodes[n].kind = "FUNC" => IdentOf(n).kind = "FUNC"
=============================================================================
