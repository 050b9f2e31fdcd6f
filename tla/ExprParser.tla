------------------------------ MODULE ExprParser ------------------------------
(***************************************************************************)
(* parse_expr_impl of src/parser/expr.c: a shunting yard over the token    *)
(* array that calls itself for a parenthesised sub-expression, for every   *)
(* argument of a call and for a subscript.  One activation of it is a      *)
(* frame: its two stacks, its mode and, while an operator is on its way    *)
(* through push_operator, that operator.  cur is the running activation,   *)
(* callers the suspended ones, outermost first.                            *)
(*                                                                         *)
(* An expression (struct midpar_Expr, a tree held by value) is kept in     *)
(* postfix form: the items of its arguments followed by its own item,      *)
(* which names its type, its token and the number of its arguments.        *)
(***************************************************************************)
EXTENDS ExprOps, Sequences, SequencesExt

CONSTANTS
  Input,    \* the token sequences the parser may be called on
  TopEnds   \* end_types of the call: default, vardecl, ... of end_types.h

TokenArray(s) ==
  /\ s \in Seq(Toks)
  /\ Len(s) > 0
  /\ \A i \in 1..Len(s) : s[i] = "END" <=> i = Len(s)

ASSUME InputAssumption == \A s \in Input : TokenArray(s)

ASSUME TopEndsAssumption == TopEnds \subseteq Toks \ {"END"}

VARIABLES
  toks,     \* the token array; the lexer ends it with an END token
  pos,      \* i, the token the running activation is at
  cur,      \* the running activation
  callers,  \* the activations waiting for it
  diags,    \* how many errors have been pushed to the diagnostics
  pc,       \* "run", or how parse_expr_impl came to an end
  result    \* the expression the outermost activation returned

vars == <<toks, pos, cur, callers, diags, pc, result>>

-----------------------------------------------------------------------------
Item == [type : OperandToks \cup OpTypes, tok : Nat, n : Nat]
Expr == Seq(Item)
Op == [type : OpTypes, tok : Nat, args : Expr, n : Nat]
NoOp == [type |-> "none", tok |-> 0, args |-> <<>>, n |-> 0]

Kinds == {"top", "sub", "arg", "subscr"}

Frame == [kind : Kinds, start : Nat, close : Nat, mode : BOOLEAN,
          out : Seq(Expr), ops : Seq(Op), pend : Op \cup {NoOp},
          phase : {"scan", "shift", "drain"}]

\* parse_expr_impl is entered with empty stacks and mode true.
NewFrame(kind, start, close) ==
  [kind |-> kind, start |-> start, close |-> close, mode |-> TRUE,
   out |-> <<>>, ops |-> <<>>, pend |-> NoOp, phase |-> "scan"]

Ends(kind) == CASE kind = "top"    -> TopEnds
                [] kind = "sub"    -> {"R_PAREN"}
                [] kind = "arg"    -> {"COMMA", "R_PAREN"}
                [] kind = "subscr" -> {"R_SQBRACKET"}

IsEndType(t) == t \in Ends(cur.kind)

(***************************************************************************)
(* midpar_find_twin_generic: the first closing token after left at which   *)
(* as many have closed as opened, before END; 0 stands for nullptr.  Only  *)
(* the two given token types are counted.                                  *)
(***************************************************************************)
Count(t, i, j) == Cardinality({k \in i..j : toks[k] = t})

IsTwin(left, l, r, i) ==
  /\ toks[i] = r
  /\ Count(r, left + 1, i - 1) = Count(l, left + 1, i - 1)

Twins(left, l, r) == {i \in left+1..Len(toks)-1 : IsTwin(left, l, r, i)}

\* Mutant: the next closing token, whatever was opened in between.
FindTwinNearest(left, l, r) ==
  LET closing == {i \in left+1..Len(toks)-1 : toks[i] = r}
  IN  IF closing = {} THEN 0 ELSE CHOOSE i \in closing : \A j \in closing : i <= j

FindTwin(left, l, r) ==
  IF Twins(left, l, r) = {} THEN 0
  ELSE CHOOSE i \in Twins(left, l, r) : \A j \in Twins(left, l, r) : i <= j

-----------------------------------------------------------------------------
(***************************************************************************)
(* add_op_to_out applied to the top of ops, and the pop that follows it:   *)
(* the operator takes its operands from the output stack and goes there,   *)
(* or is reported and lost when the stack holds too few.                   *)
(***************************************************************************)
Enough(f) == Len(f.out) >= Arity(Last(f.ops).type)

Node(op, operands) ==
  operands \o op.args
    \o <<[type |-> op.type, tok |-> op.tok, n |-> Arity(op.type) + op.n]>>

Operands(f) ==
  IF Arity(Last(f.ops).type) = 2
  THEN f.out[Len(f.out) - 1] \o f.out[Len(f.out)]
  ELSE f.out[Len(f.out)]

Reduced(f) ==
  IF Enough(f)
  THEN [f EXCEPT !.ops = Front(@),
                 !.out = Append(SubSeq(@, 1, Len(@) - Arity(Last(f.ops).type)),
                                Node(Last(f.ops), Operands(f)))]
  ELSE [f EXCEPT !.ops = Front(@)]

\* Mutant: an operator that lacks operands is dropped without a report.
ReduceUnreported == cur' = Reduced(cur) /\ UNCHANGED diags

Reduce ==
  /\ cur' = Reduced(cur)
  /\ diags' = IF Enough(cur) THEN diags ELSE diags + 1

\* Mutants of the loop test: equal operators always reduce, or never.
MustReduceEqual(f) ==
  f.ops # <<>> /\ Prec(Last(f.ops).type) >= Prec(f.pend.type)

MustReduceAbove(f) ==
  f.ops # <<>> /\ Prec(Last(f.ops).type) > Prec(f.pend.type)

\* The loop test of push_operator.
MustReduce(f) ==
  /\ f.ops # <<>>
  /\ LET top == Prec(Last(f.ops).type)
         prec == Prec(f.pend.type)
     IN  top > prec \/ (top = prec /\ LtrAssoc(f.pend.type))

\* Mutant: an operand is expected after a call or a subscript.
PostfixOpsIncDec == {"POSTFIX_INC", "POSTFIX_DEC"}

\* mode after an operator: only after these does a binary operator follow.
PostfixOps == {"FUNC_CALL", "ARRAY_SUBSCR", "POSTFIX_INC", "POSTFIX_DEC"}
-----------------------------------------------------------------------------
Init ==
  /\ toks \in Input
  /\ pos = 1
  /\ cur = NewFrame("top", 1, 0)
  /\ callers = <<>>
  /\ diags = 0
  /\ pc = "run"
  /\ result = <<>>

Scanning == pc = "run" /\ cur.phase = "scan" /\ ~IsEndType(toks[pos])

\* A literal, identifier or this where an operand is expected.
Operand ==
  /\ Scanning
  /\ toks[pos] \in OperandToks
  /\ cur.mode
  /\ cur' = [cur EXCEPT
               !.out = Append(@, <<[type |-> toks[pos], tok |-> pos, n |-> 0]>>),
               !.mode = FALSE]
  /\ pos' = pos + 1
  /\ UNCHANGED <<toks, callers, diags, pc, result>>

\* ... and where an operator is expected: reported and dropped.
UnexpectedOperand ==
  /\ Scanning
  /\ toks[pos] \in OperandToks
  /\ ~cur.mode
  /\ diags' = diags + 1
  /\ pos' = pos + 1
  /\ UNCHANGED <<toks, cur, callers, pc, result>>

NewOp(mode) ==
  [type |-> ExprType(toks[pos], mode), tok |-> pos, args |-> <<>>, n |-> 0]

Complaint(mode) == IF IsUnexpected(toks[pos], mode) THEN 1 ELSE 0

\* push_operator is called on an operator token: op_tok_to_expr.
Operator ==
  /\ Scanning
  /\ toks[pos] \in OpToks
  /\ cur' = [cur EXCEPT !.pend = NewOp(cur.mode), !.phase = "shift"]
  /\ diags' = diags + Complaint(cur.mode)
  /\ UNCHANGED <<toks, pos, callers, pc, result>>

\* "(" where an operand is expected: parse_subexpr.
OpenSubexpr ==
  /\ Scanning
  /\ toks[pos] = "L_PAREN"
  /\ cur.mode
  /\ diags' = IF FindTwin(pos, "L_PAREN", "R_PAREN") = 0 THEN diags + 1 ELSE diags
  /\ callers' = Append(callers, cur)
  /\ cur' = NewFrame("sub", pos + 1, 0)
  /\ pos' = pos + 1
  /\ UNCHANGED <<toks, pc, result>>

\* "(" after an operand: parse_func_call_args, up to its first argument.
OpenCall ==
  /\ Scanning
  /\ toks[pos] = "L_PAREN"
  /\ ~cur.mode
  /\ LET twin == FindTwin(pos, "L_PAREN", "R_PAREN")
         rparen == IF twin = 0 THEN pos ELSE twin
         call == [cur EXCEPT !.pend = NewOp(FALSE), !.phase = "shift"]
     IN  /\ diags' = IF twin = 0 THEN diags + 1 ELSE diags
         /\ IF pos + 1 < rparen
            THEN /\ callers' = Append(callers, call)
                 /\ cur' = NewFrame("arg", pos + 1, rparen)
                 /\ pos' = pos + 1
            ELSE /\ cur' = call
                 /\ pos' = rparen
                 /\ UNCHANGED callers
  /\ UNCHANGED <<toks, pc, result>>

\* "[": parse_arr_subscr, up to its index.
OpenSubscript ==
  /\ Scanning
  /\ toks[pos] = "L_SQBRACKET"
  /\ LET twin == FindTwin(pos, "L_SQBRACKET", "R_SQBRACKET")
         r_bracket == IF twin = 0 THEN pos ELSE twin
         subscr == [cur EXCEPT !.pend = NewOp(cur.mode), !.phase = "shift"]
     IN  /\ diags' = diags + Complaint(cur.mode) + (IF twin = 0 THEN 1 ELSE 0)
         /\ callers' = Append(callers, subscr)
         /\ cur' = NewFrame("subscr", pos + 1, r_bracket)
         /\ pos' = pos + 1
  /\ UNCHANGED <<toks, pc, result>>

\* Mutants: END is passed over like the rest; a token is passed over in place.
SkipPastEnd ==
  /\ Scanning
  /\ toks[pos] \in OtherToks
  /\ pos' = pos + 1
  /\ UNCHANGED <<toks, cur, callers, diags, pc, result>>

SkipInPlace ==
  /\ Scanning
  /\ toks[pos] \in OtherToks \ {"END"}
  /\ UNCHANGED <<toks, pos, cur, callers, diags, pc, result>>

\* Any other token matches no branch of the loop and is passed over.
Skip ==
  /\ Scanning
  /\ toks[pos] \in OtherToks \ {"END"}
  /\ pos' = pos + 1
  /\ UNCHANGED <<toks, cur, callers, diags, pc, result>>

\* So is END: the loop goes on to read past the token array.
RunOff ==
  /\ Scanning
  /\ toks[pos] = "END"
  /\ pc' = "overrun"
  /\ UNCHANGED <<toks, pos, cur, callers, diags, result>>

\* One turn of the loop of push_operator.
ShiftReduce ==
  /\ pc = "run" /\ cur.phase = "shift"
  /\ MustReduce(cur)
  /\ Reduce
  /\ UNCHANGED <<toks, pos, callers, pc, result>>

\* Its end: the operator goes on the stack, and mode is set from it.
Shift ==
  /\ pc = "run" /\ cur.phase = "shift"
  /\ ~MustReduce(cur)
  /\ cur' = [cur EXCEPT !.ops = Append(@, cur.pend), !.pend = NoOp,
                        !.phase = "scan",
                        !.mode = cur.pend.type \notin PostfixOps]
  /\ pos' = pos + 1
  /\ UNCHANGED <<toks, callers, diags, pc, result>>

EndExpr ==
  /\ pc = "run" /\ cur.phase = "scan"
  /\ IsEndType(toks[pos])
  /\ cur' = [cur EXCEPT !.phase = "drain"]
  /\ UNCHANGED <<toks, pos, callers, diags, pc, result>>

\* The operators that are left are popped, last in first out.
Drain ==
  /\ pc = "run" /\ cur.phase = "drain"
  /\ cur.ops # <<>>
  /\ Reduce
  /\ UNCHANGED <<toks, pos, callers, pc, result>>

Drained == pc = "run" /\ cur.phase = "drain" /\ cur.ops = <<>>

\* "mismatched operators and operands": MID_CRASH.
Crash ==
  /\ Drained
  /\ Len(cur.out) # 1
  /\ pc' = "crash"
  /\ UNCHANGED <<toks, pos, cur, callers, diags, result>>

Returning(kind) == Drained /\ Len(cur.out) = 1 /\ cur.kind = kind

Return ==
  /\ Returning("top")
  /\ result' = cur.out[1]
  /\ pc' = "done"
  /\ UNCHANGED <<toks, pos, cur, callers, diags>>

\* Back in the loop of the caller, which pushes the sub-expression.
ReturnSubexpr ==
  /\ Returning("sub")
  /\ cur' = [Last(callers) EXCEPT !.out = Append(@, cur.out[1]), !.mode = FALSE]
  /\ callers' = Front(callers)
  /\ pos' = pos + 1
  /\ UNCHANGED <<toks, diags, pc, result>>

WithArg(f) == [f EXCEPT !.pend.args = @ \o cur.out[1], !.pend.n = @ + 1]

\* Back in the loop of parse_func_call_args, which has another argument ...
NextArg ==
  /\ Returning("arg")
  /\ pos + 1 < cur.close
  /\ callers' = Append(Front(callers), WithArg(Last(callers)))
  /\ cur' = NewFrame("arg", pos + 1, cur.close)
  /\ pos' = pos + 1
  /\ UNCHANGED <<toks, diags, pc, result>>

\* ... or ends, and the caller goes on from the ")" that was looked up.
LastArg ==
  /\ Returning("arg")
  /\ pos + 1 >= cur.close
  /\ cur' = WithArg(Last(callers))
  /\ callers' = Front(callers)
  /\ pos' = cur.close
  /\ UNCHANGED <<toks, diags, pc, result>>

ReturnSubscript ==
  /\ Returning("subscr")
  /\ cur' = WithArg(Last(callers))
  /\ callers' = Front(callers)
  /\ pos' = cur.close
  /\ UNCHANGED <<toks, diags, pc, result>>

Next ==
  \/ Operand \/ UnexpectedOperand \/ Operator
  \/ OpenSubexpr \/ OpenCall \/ OpenSubscript
  \/ Skip \/ RunOff
  \/ ShiftReduce \/ Shift
  \/ EndExpr \/ Drain \/ Crash
  \/ Return \/ ReturnSubexpr \/ NextArg \/ LastArg \/ ReturnSubscript

Spec == Init /\ [][Next]_vars /\ WF_vars(Next)
-----------------------------------------------------------------------------
\* Types of the state; the parser never leaves the token array.
TypeOK ==
  /\ TokenArray(toks)
  /\ pos \in 1..Len(toks)
  /\ cur \in Frame
  /\ callers \in Seq(Frame)
  /\ diags \in Nat
  /\ pc \in {"run", "done", "crash", "overrun"}
  /\ result \in Expr

(***************************************************************************)
(* Operand accounting.  As long as nothing was reported, in every          *)
(* activation the output stack holds one expression for each binary        *)
(* operator that still waits for its right operand, and one more when an   *)
(* operand has just been read (mode false): what parse_expr_impl relies on *)
(* when it takes out.arr[0] for the whole expression.                      *)
(***************************************************************************)
Binaries(ops) == {i \in 1..Len(ops) : Arity(ops[i].type) = 2}

Balanced(f) ==
  Len(f.out) = Cardinality(Binaries(f.ops)) + (IF f.mode THEN 0 ELSE 1)

OperandBalance ==
  diags = 0 => Balanced(cur) /\ \A i \in 1..Len(callers) : Balanced(callers[i])

(***************************************************************************)
(* The operator stack of every activation is sorted by precedence, with    *)
(* equals only where the operator associates to the right: what makes it   *)
(* right to pop it last in first out once the tokens are used up.          *)
(***************************************************************************)
Under(a, b) ==
  \/ Prec(a.type) < Prec(b.type)
  \/ Prec(a.type) = Prec(b.type) /\ ~LtrAssoc(b.type)

Sorted(ops) == \A i, j \in 1..Len(ops) : i < j => Under(ops[i], ops[j])

OpsSorted == Sorted(cur.ops) /\ \A i \in 1..Len(callers) : Sorted(callers[i].ops)

(***************************************************************************)
(* MID_CRASH ends the compiler before the diagnostics are printed, so a    *)
(* crash that was not reported leaves the user with nothing.  It happens   *)
(* only for an expression without any operand, operator or bracket, such   *)
(* as an empty initializer; every other mismatch has been reported.        *)
(***************************************************************************)
SilentCrashOnlyIfEmpty ==
  pc = "crash" /\ diags = 0 => \A k \in cur.start..pos-1 : toks[k] \in OtherToks

\* Behind each token of s, the closing brackets that are still due, innermost last.
CloseToks == {"R_PAREN", "R_SQBRACKET"}
Closer(t) == IF t = "L_PAREN" THEN "R_PAREN" ELSE "R_SQBRACKET"

Due(s) ==
  LET due[n \in 0..Len(s)] ==
        IF n = 0 THEN <<>>
        ELSE IF s[n] \in OpenToks THEN Append(due[n - 1], Closer(s[n]))
        ELSE IF s[n] \in CloseToks /\ due[n - 1] # <<>> THEN Front(due[n - 1])
        ELSE due[n - 1]
  IN due

ProperlyNested(s) ==
  /\ \A n \in 1..Len(s) :
       s[n] \in CloseToks => Due(s)[n - 1] # <<>> /\ Last(Due(s)[n - 1]) = s[n]
  /\ Due(s)[Len(s)] = <<>>

\* Outside of all brackets, there is a token that ends the expression.
Ended(s) == \E n \in 1..Len(s) : s[n] \in TopEnds /\ Due(s)[n - 1] = <<>>

(***************************************************************************)
(* When the brackets nest and an end token is outside of them,             *)
(* parse_expr_impl goes through the tokens once, left to right, and does   *)
(* not run past their end.  (The ")" a call jumps to is looked up by       *)
(* counting parentheses only: with "f(a[b)]" it goes back, or on past the  *)
(* statement.)                                                             *)
(***************************************************************************)
NestedReadOnce ==
  [][ProperlyNested(toks) /\ Ended(toks) => pos' >= pos /\ pc' # "overrun"]_vars
=============================================================================
