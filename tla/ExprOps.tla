------------------------------- MODULE ExprOps -------------------------------
(***************************************************************************)
(* The operators of the expression parser: which tokens are operators      *)
(* (include/lexer/token_type.h), which expression type each becomes in the *)
(* two modes of the shunting yard (src/parser/expr.c), and the precedence, *)
(* associativity and arity of the expression types (src/sema/expr.c).      *)
(* Names are the enumerators without their MIDLEX_TOKENTYPE_ and           *)
(* MIDPAR_EXPRTYPE_ prefixes.                                              *)
(***************************************************************************)
EXTENDS Integers

OperandToks == {"LIT", "IDENTIFIER", "THIS"}   \* LIT: any literal token

\* Tokens above UNARYOP_START are unary only; + - * & are "can also be unary".
UnaryToks == {"INC", "DEC", "TYPEID", "CONSTCAST", "DYNAMICCAST",
              "REINTERPRETCAST", "STATICCAST", "SIZEOF", "BITWISE_NOT",
              "LOGICAL_NOT", "NEW", "DELETE", "THROW"}

AssignOps == {"ASSIGN", "MUL_ASSIGN", "DIV_ASSIGN", "MOD_ASSIGN", "ADD_ASSIGN",
              "SUB_ASSIGN", "LEFT_SHIFT_ASSIGN", "RIGHT_SHIFT_ASSIGN",
              "AND_ASSIGN", "XOR_ASSIGN", "OR_ASSIGN"}

BinaryToks == {"SCOPE_RES", "MEMB_SEL", "PTR_MEMB_SEL", "PTR_TO_MEMB_SEL",
               "PTR_TO_PTR_MEMB_SEL", "MUL", "DIV", "MOD", "ADD", "SUB",
               "LEFT_SHIFT", "RIGHT_SHIFT", "LT", "GT", "LTEQ", "GTEQ", "EQ",
               "NEQ", "BITWISE_AND", "BITWISE_XOR", "BITWISE_OR",
               "LOGICAL_AND", "LOGICAL_OR", "COMMA"} \cup AssignOps

OpToks == BinaryToks \cup UnaryToks            \* midlex_is_op
OpenToks == {"L_PAREN", "L_SQBRACKET"}
OtherToks == {"R_PAREN", "R_SQBRACKET", "L_CURLY", "R_CURLY", "COLON",
              "SEMICOLON", "ELLIPSIS", "CONDITIONAL", "INT", "END"}

Toks == OperandToks \cup OpToks \cup OpenToks \cup OtherToks

-----------------------------------------------------------------------------
(***************************************************************************)
(* The two token tables.  Every token they do not rename keeps its name.   *)
(***************************************************************************)
Mode0Name == [SCOPE_RES |-> "BIN_SCOPE_RES", INC |-> "POSTFIX_INC",
              DEC |-> "POSTFIX_DEC", L_PAREN |-> "FUNC_CALL",
              L_SQBRACKET |-> "ARRAY_SUBSCR"]

Mode1Name == [SCOPE_RES |-> "UNARY_SCOPE_RES", INC |-> "PREFIX_INC",
              DEC |-> "PREFIX_DEC", SUB |-> "UNARY_MINUS", ADD |-> "UNARY_PLUS",
              BITWISE_AND |-> "REF", MUL |-> "DEREF",
              L_PAREN |-> "FUNC_CALL", L_SQBRACKET |-> "ARRAY_SUBSCR"]

ExprType(t, mode) ==
  IF mode
  THEN IF t \in DOMAIN Mode1Name THEN Mode1Name[t] ELSE t
  ELSE IF t \in DOMAIN Mode0Name THEN Mode0Name[t] ELSE t

\* The tokens each table reports as unexpected (and converts all the same).
Unexpected0 == UnaryToks \ {"INC", "DEC"}
Unexpected1 == (BinaryToks \cup OpenToks)
                 \ {"SCOPE_RES", "SUB", "ADD", "BITWISE_AND", "MUL"}

IsUnexpected(t, mode) == IF mode THEN t \in Unexpected1 ELSE t \in Unexpected0

-----------------------------------------------------------------------------
\* midsema_op_precedence: the cases of the switch, in the order of "flipped".
Level == <<
  {"BIN_SCOPE_RES", "UNARY_SCOPE_RES"},
  {"MEMB_SEL", "PTR_MEMB_SEL", "ARRAY_SUBSCR", "FUNC_CALL", "POSTFIX_INC",
   "POSTFIX_DEC", "TYPEID", "CONSTCAST", "DYNAMICCAST", "REINTERPRETCAST",
   "STATICCAST"},
  {"SIZEOF", "PREFIX_INC", "PREFIX_DEC", "BITWISE_NOT", "LOGICAL_NOT",
   "UNARY_MINUS", "UNARY_PLUS", "REF", "DEREF", "NEW", "DELETE", "CAST"},
  {"PTR_TO_MEMB_SEL", "PTR_TO_PTR_MEMB_SEL"},
  {"MUL", "DIV", "MOD"},
  {"ADD", "SUB"},
  {"LEFT_SHIFT", "RIGHT_SHIFT"},
  {"LT", "GT", "LTEQ", "GTEQ"},
  {"EQ", "NEQ"},
  {"BITWISE_AND"},
  {"BITWISE_XOR"},
  {"BITWISE_OR"},
  {"LOGICAL_AND"},
  {"LOGICAL_OR"},
  {"CONDITIONAL", "THROW"} \cup AssignOps,
  {"COMMA"} >>

OpTypes == UNION {Level[f] : f \in 1..16}

Prec(op) == 16 - (CHOOSE f \in 1..16 : op \in Level[f])

LtrAssoc(op) == Prec(op) \notin {15, 13, 1}

\* has_enough_operands: what add_op_to_out takes from the output stack.  A
\* subscript is a binary expression type whose index is already in its args;
\* "CONDITIONAL" is never lexed, so ternary operators do not occur.
IsBinop(op) ==
  \/ op = "BIN_SCOPE_RES"
  \/ op \in BinaryToks \ {"SCOPE_RES"}

Arity(op) == IF IsBinop(op) THEN 2 ELSE 1

\* A switch has one case per enumerator: the levels are disjoint.
ASSUME LevelsDisjoint ==
  \A f, g \in 1..16 : f # g => Level[f] \cap Level[g] = {}
=============================================================================
