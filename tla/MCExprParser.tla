----------------------------- MODULE MCExprParser -----------------------------
(***************************************************************************)
(* ExprParser on every statement made of a few tokens, ended by ";", with  *)
(* its results compared to the derivations of ExprGrammar.                 *)
(***************************************************************************)
EXTENDS ExprParser, ExprGrammar

CONSTANTS
  OpKinds, MaxOps,           \* tokens and length of the operator statements,
  BracketKinds, MaxBrackets  \* ... of the bracketed ones and the calls' inside

Lists(S, max) == UNION {[1..n -> S] : n \in 0..max}

MCInput ==
  {s \o <<"SEMICOLON", "END">> :
     s \in Lists(OpKinds, MaxOps) \cup Lists(BracketKinds, MaxBrackets)}
  \cup
  {<<"IDENTIFIER", "L_PAREN">> \o s \o <<"R_PAREN", "SEMICOLON", "END">> :
     s \in Lists(BracketKinds, MaxBrackets)}
-----------------------------------------------------------------------------
Sentence == Derivations(toks, Len(toks) - 2)

(***************************************************************************)
(* A statement of the C++ grammar is parsed without a diagnostic, into its *)
(* one derivation: parse_expr_impl gives each operator the operands that   *)
(* midsema_op_precedence and midsema_op_ltr_assoc entitle it to.           *)
(***************************************************************************)
GrammaticalParsed ==
  pc # "run" /\ Sentence # {} => pc = "done" /\ diags = 0 /\ Sentence = {result}

\* Whatever the tokens, the loop and its recursive calls come to an end.
Terminates == <>(pc # "run")
=============================================================================
