------------------------------ MODULE ExprGrammar ------------------------------
(***************************************************************************)
(* The expressions a token sequence s derives in the C++ expression        *)
(* grammar: one nonterminal per precedence level, an operand of an         *)
(* operator being derived from the operator's level or the next one as its *)
(* associativity says.  Derived top down and by exhaustive splitting, it   *)
(* shares nothing with the shunting yard but the operator tables of        *)
(* ExprOps; its trees are in the parser's postfix form.  Casts and typeid, *)
(* whose operands are not plain expressions, are left out.                 *)
(***************************************************************************)
EXTENDS ExprOps, Sequences, FiniteSets

PrefixToks ==
  {"SCOPE_RES", "INC", "DEC", "SUB", "ADD", "BITWISE_AND", "MUL", "BITWISE_NOT",
   "LOGICAL_NOT", "SIZEOF", "NEW", "DELETE", "THROW"}

Primary == 16
Postfix == 14
Assignment == 1

Leaf(s, i) == <<[type |-> s[i], tok |-> i, n |-> 0]>>
Tree(op, i, n) == <<[type |-> op, tok |-> i, n |-> n]>>

\* The trees of s[i..j] at level p or tighter, and the argument lists of s[i..j].
RECURSIVE Derive(_, _, _, _)
RECURSIVE DeriveArgs(_, _, _)

Binary(s, i, j, p) ==
  UNION { LET op == ExprType(s[k], FALSE)
              ltr == LtrAssoc(op)
          IN  { l \o r \o Tree(op, k, 2) :
                  l \in Derive(s, i, k - 1, IF ltr THEN p ELSE p + 1),
                  r \in Derive(s, k + 1, j, IF ltr THEN p + 1 ELSE p) }
          : k \in {m \in i+1..j-1 : /\ s[m] \in BinaryToks
                                    /\ Prec(ExprType(s[m], FALSE)) = p} }

Prefix(s, i, j, p) ==
  IF i < j /\ s[i] \in PrefixToks /\ Prec(ExprType(s[i], TRUE)) = p
  THEN {e \o Tree(ExprType(s[i], TRUE), i, 1) : e \in Derive(s, i + 1, j, p)}
  ELSE {}

Increment(s, i, j) ==
  IF i < j /\ s[j] \in {"INC", "DEC"}
  THEN {e \o Tree(ExprType(s[j], FALSE), j, 1) : e \in Derive(s, i, j - 1, Postfix)}
  ELSE {}

Subscript(s, i, j) ==
  IF i < j /\ s[j] = "R_SQBRACKET"
  THEN UNION { { e \o idx \o Tree("ARRAY_SUBSCR", k, 2) :
                   e \in Derive(s, i, k - 1, Postfix), idx \in Derive(s, k + 1, j - 1, 0) }
               : k \in {m \in i+1..j-1 : s[m] = "L_SQBRACKET"} }
  ELSE {}

Call(s, i, j) ==
  IF i < j /\ s[j] = "R_PAREN"
  THEN UNION { { e \o args.trees \o Tree("FUNC_CALL", k, 1 + args.n) :
                   e \in Derive(s, i, k - 1, Postfix), args \in DeriveArgs(s, k + 1, j - 1) }
               : k \in {m \in i+1..j-1 : s[m] = "L_PAREN"} }
  ELSE {}

Derive(s, i, j, p) ==
  IF i > j THEN {}
  ELSE IF p = Primary
  THEN IF i = j
       THEN IF s[i] \in OperandToks THEN {Leaf(s, i)} ELSE {}
       ELSE IF s[i] = "L_PAREN" /\ s[j] = "R_PAREN"
            THEN Derive(s, i + 1, j - 1, 0)
            ELSE {}
  ELSE Derive(s, i, j, p + 1) \cup Binary(s, i, j, p) \cup Prefix(s, i, j, p)
         \cup (IF p = Postfix
               THEN Increment(s, i, j) \cup Subscript(s, i, j) \cup Call(s, i, j)
               ELSE {})

DeriveArgs(s, i, j) ==
  IF i > j THEN {[trees |-> <<>>, n |-> 0]}
  ELSE {[trees |-> e, n |-> 1] : e \in Derive(s, i, j, Assignment)}
       \cup UNION { { [trees |-> init.trees \o e, n |-> init.n + 1] :
                        init \in {a \in DeriveArgs(s, i, k - 1) : a.n > 0},
                        e \in Derive(s, k + 1, j, Assignment) }
                    : k \in {m \in i+1..j-1 : s[m] = "COMMA"} }

\* The full expression s[1..n].
Derivations(s, n) == Derive(s, 1, n, 0)
=============================================================================
