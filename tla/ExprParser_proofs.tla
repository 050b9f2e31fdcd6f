--------------------------- MODULE ExprParser_proofs ---------------------------
(***************************************************************************)
(* Proofs about ExprParser, for every set of token arrays and every set of *)
(* end types: the type invariant, the operand accounting, the order of the *)
(* operator stacks, that an unreported crash has read nothing, and that    *)
(* tokens whose brackets nest are read once, left to right.                *)
(***************************************************************************)
EXTENDS ExprParser, Arithmetic, FiniteSetTheorems, SequenceTheorems, TLAPS

-----------------------------------------------------------------------------
(***************************************************************************)
(* The inductive invariant.  Beside the types it says how an activation    *)
(* and its caller fit together: who waits in which phase, that a position  *)
(* to return to is inside the token array, that a draining activation is   *)
(* at an end token.                                                        *)
(***************************************************************************)
Placed(f) ==
  /\ f.phase = "shift" => f.pend \in Op
  /\ f.kind \in {"arg", "subscr"} => f.close \in 1..Len(toks)-1

Fits(f, caller) ==
  /\ f.kind # "top"
  /\ f.kind = "sub" => caller.phase = "scan" /\ caller.mode
  /\ f.kind \in {"arg", "subscr"} => caller.phase = "shift"

Linked ==
  /\ Placed(cur)
  /\ \A i \in 1..Len(callers) : Placed(callers[i])
  /\ callers = <<>> => cur.kind = "top"
  /\ callers # <<>> => Fits(cur, callers[Len(callers)])
  /\ \A i \in 2..Len(callers) : Fits(callers[i], callers[i-1])
  /\ callers # <<>> => callers[1].kind = "top"

AtToken ==
  /\ cur.phase = "shift" => pos < Len(toks)
  /\ cur.phase = "drain" => toks[pos] \in Ends(cur.kind)

TypeInv == TypeOK /\ Linked /\ AtToken

\* While an operator is pushed, the mode is still the one it was read in.
ModeFits(f) ==
  f.phase = "shift" =>
    (f.pend.type \in PostfixOps \/ Arity(f.pend.type) = 2 <=> ~f.mode)

CallersCounted ==
  \A i \in 1..Len(callers) : Balanced(callers[i]) /\ ModeFits(callers[i])

BalanceInv == diags = 0 => Balanced(cur) /\ ModeFits(cur) /\ CallersCounted

CallersSorted == \A i \in 1..Len(callers) : Sorted(callers[i].ops)

\* An activation with two empty stacks has read nothing but skipped tokens.
NothingRead ==
  diags = 0 /\ cur.phase # "shift" /\ cur.out = <<>> /\ cur.ops = <<>>
    => \A k \in cur.start..pos-1 : toks[k] \in OtherToks

CrashInv == pc = "crash" => cur.phase = "drain" /\ cur.ops = <<>> /\ Len(cur.out) # 1

IInv == TypeInv /\ BalanceInv /\ OpsSorted /\ NothingRead /\ CrashInv

-----------------------------------------------------------------------------
(***************************************************************************)
(* The operator tables.                                                    *)
(***************************************************************************)
\* Every operator has a precedence between 0 and 15 (sema/expr.h says so).
LEMMA PrecType == \A op \in OpTypes : Prec(op) \in 0..15
<1> SUFFICES ASSUME NEW op \in OpTypes PROVE Prec(op) \in 0..15
  OBVIOUS
<1>1. \E f \in 1..16 : op \in Level[f]
  BY DEF OpTypes
<1>. DEFINE lvl == CHOOSE f \in 1..16 : op \in Level[f]
<1>2. lvl \in 1..16
  BY <1>1
<1>3. Prec(op) = 16 - lvl
  BY DEF Prec
<1>. HIDE DEF lvl
<1>. QED
  BY <1>2, <1>3

\* An operator token becomes, in either mode, an expression type that has one.
LEMMA ExprTypeOp ==
  \A t \in OpToks \cup OpenToks, m \in BOOLEAN : ExprType(t, m) \in OpTypes
<1> SUFFICES ASSUME NEW t \in OpToks \cup OpenToks, NEW m \in BOOLEAN
             PROVE  \E f \in 1..16 : ExprType(t, m) \in Level[f]
  BY DEF OpTypes
<1>. QED
  BY DEF OpToks, OpenToks, BinaryToks, UnaryToks, AssignOps, ExprType, Mode0Name,
         Mode1Name, Level

\* An operator that is not reported fits the mode it was read in: the binary and
\* postfix ones belong to mode false, the prefix ones to mode true.
LEMMA ModeOfOp ==
  \A t \in OpToks \cup OpenToks, m \in BOOLEAN :
    ~IsUnexpected(t, m) =>
      (ExprType(t, m) \in PostfixOps \/ Arity(ExprType(t, m)) = 2 <=> ~m)
BY DEF OpToks, OpenToks, BinaryToks, UnaryToks, AssignOps, ExprType, Mode0Name,
       Mode1Name, IsUnexpected, Unexpected0, Unexpected1, PostfixOps, Arity, IsBinop

LEMMA ArityType == \A op : Arity(op) \in {1, 2}
BY DEF Arity

LEMMA PostfixArity == \A op \in PostfixOps : Arity(op) = 1
BY DEF PostfixOps, Arity, IsBinop, BinaryToks, AssignOps

-----------------------------------------------------------------------------
(***************************************************************************)
(* Stacks.                                                                 *)
(***************************************************************************)
LEMMA TopOfStack ==
  ASSUME NEW S, NEW s \in Seq(S), s # <<>>
  PROVE  /\ Last(s) \in S
         /\ Last(s) = s[Len(s)]
         /\ Front(s) \in Seq(S)
         /\ Len(s) \in Nat \ {0}
         /\ Len(Front(s)) = Len(s) - 1
         /\ \A i \in 1..Len(s)-1 : Front(s)[i] = s[i]
<1>1. Len(s) \in Nat \ {0}
  BY EmptySeq
<1>2. \A i \in 1..Len(s) : s[i] \in S
  BY ElementOfSeq
<1>. DEFINE m == Len(s) - 1
<1>3. m \in Nat /\ \A i \in 1..m : s[i] \in S
  BY <1>1, <1>2
<1>4. Front(s) = SubSeq(s, 1, m) /\ Last(s) = s[m + 1] /\ Len(s) = m + 1
  BY <1>1 DEF Front, Last
<1>. HIDE DEF m
<1>5. /\ SubSeq(s, 1, m) \in Seq(S)
      /\ Len(SubSeq(s, 1, m)) = IF 1 <= m THEN m - 1 + 1 ELSE 0
      /\ \A i \in 1..m-1+1 : SubSeq(s, 1, m)[i] = s[1 + i - 1]
  BY <1>3, SubSeqProperties
<1>. QED
  BY <1>1, <1>2, <1>3, <1>4, <1>5

LEMMA PushOnStack ==
  ASSUME NEW S, NEW s \in Seq(S), NEW e \in S
  PROVE  /\ Append(s, e) \in Seq(S)
         /\ Append(s, e) # <<>>
         /\ Len(Append(s, e)) = Len(s) + 1
         /\ \A i \in 1..Len(s) : Append(s, e)[i] = s[i]
         /\ Append(s, e)[Len(s) + 1] = e
OBVIOUS

\* How the binary operators of a stack change when it is pushed and popped.
LEMMA BinariesFinite ==
  ASSUME NEW ops \in Seq(Op)
  PROVE  IsFiniteSet(Binaries(ops)) /\ Cardinality(Binaries(ops)) \in Nat
<1>1. IsFiniteSet(1..Len(ops))
  BY FS_Interval
<1>2. Binaries(ops) \in SUBSET (1..Len(ops))
  BY DEF Binaries
<1>3. IsFiniteSet(Binaries(ops))
  BY <1>1, <1>2, FS_Subset
<1>. QED
  BY <1>3, FS_CardinalityType

LEMMA BinariesPush ==
  ASSUME NEW ops \in Seq(Op), NEW op \in Op
  PROVE  Cardinality(Binaries(Append(ops, op)))
           = Cardinality(Binaries(ops)) + (IF Arity(op.type) = 2 THEN 1 ELSE 0)
<1>1. CASE Arity(op.type) = 2
  <2>1. Binaries(Append(ops, op)) = Binaries(ops) \cup {Len(ops) + 1}
    BY <1>1, PushOnStack DEF Binaries
  <2>2. Len(ops) + 1 \notin Binaries(ops)
    BY DEF Binaries
  <2>. QED
    BY <1>1, <2>1, <2>2, BinariesFinite, FS_AddElement
<1>2. CASE Arity(op.type) # 2
  <2>1. Binaries(Append(ops, op)) = Binaries(ops)
    BY <1>2, PushOnStack DEF Binaries
  <2>. QED
    BY <1>2, <2>1, BinariesFinite
<1>. QED
  BY <1>1, <1>2

LEMMA BinariesPop ==
  ASSUME NEW ops \in Seq(Op), ops # <<>>
  PROVE  Cardinality(Binaries(Front(ops)))
           = Cardinality(Binaries(ops)) - (IF Arity(Last(ops).type) = 2 THEN 1 ELSE 0)
<1>1. CASE Arity(Last(ops).type) = 2
  <2>1. Binaries(Front(ops)) = Binaries(ops) \ {Len(ops)}
    BY SMTT(40), <1>1, TopOfStack DEF Binaries
  <2>2. Len(ops) \in Binaries(ops)
    <3>1. Len(ops) \in Nat \ {0} /\ Last(ops) = ops[Len(ops)]
      BY TopOfStack
    <3>2. Len(ops) \in 1..Len(ops)
      BY <3>1
    <3>. QED
      BY <1>1, <3>1, <3>2 DEF Binaries
  <2>. QED
    BY <1>1, <2>1, <2>2, BinariesFinite, FS_RemoveElement
<1>2. CASE Arity(Last(ops).type) # 2
  <2>1. Binaries(Front(ops)) = Binaries(ops)
    BY SMTT(40), <1>2, TopOfStack DEF Binaries
  <2>. QED
    BY <1>2, <2>1, BinariesFinite
<1>. QED
  BY <1>1, <1>2

LEMMA BinariesEmpty == Cardinality(Binaries(<<>>)) = 0
<1>1. Binaries(<<>>) = {}
  BY DEF Binaries
<1>. QED
  BY <1>1, FS_EmptySet

\* Popping keeps a stack sorted; so does pushing where push_operator pushes.
LEMMA SortedPop ==
  ASSUME NEW ops \in Seq(Op), ops # <<>>, Sorted(ops)
  PROVE  Sorted(Front(ops))
<1>1. /\ Len(Front(ops)) = Len(ops) - 1
      /\ \A i \in 1..Len(ops)-1 : Front(ops)[i] = ops[i]
      /\ Len(ops) \in Nat
  BY TopOfStack
<1>2. SUFFICES ASSUME NEW i \in 1..Len(ops)-1, NEW j \in 1..Len(ops)-1, i < j
               PROVE  \/ Prec(ops[i].type) < Prec(ops[j].type)
                      \/ Prec(ops[i].type) = Prec(ops[j].type) /\ ~LtrAssoc(ops[j].type)
  BY <1>1 DEF Sorted
<1>3. i \in 1..Len(ops) /\ j \in 1..Len(ops)
  BY <1>1
<1>. QED
  BY <1>2, <1>3 DEF Sorted, Under

LEMMA UnderTransitive ==
  ASSUME NEW a \in Op, NEW b \in Op, NEW c \in Op, Under(a, b), Under(b, c)
  PROVE  Under(a, c)
<1>1. Prec(a.type) \in Int /\ Prec(b.type) \in Int /\ Prec(c.type) \in Int
  BY PrecType DEF Op
<1>2. LtrAssoc(b.type) <=> Prec(b.type) \notin {15, 13, 1}
  BY DEF LtrAssoc
<1>. QED
  BY <1>1, <1>2 DEF Under

LEMMA SortedPush ==
  ASSUME NEW ops \in Seq(Op), NEW op \in Op, Sorted(ops),
         ops # <<>> => Under(Last(ops), op)
  PROVE  Sorted(Append(ops, op))
<1>1. Len(ops) \in Nat /\ \A i \in 1..Len(ops) : ops[i] \in Op
  OBVIOUS
<1>2. \A i, j \in 1..Len(ops) : i < j => Under(ops[i], ops[j])
  BY DEF Sorted
<1>3. ASSUME NEW i \in 1..Len(ops)
      PROVE  Under(ops[i], op)
  <2>1. ops # <<>> /\ Len(ops) \in 1..Len(ops) /\ Last(ops) = ops[Len(ops)]
    BY <1>1 DEF Last
  <2>2. CASE i = Len(ops)
    BY <2>1, <2>2
  <2>3. CASE i < Len(ops)
    BY <1>1, <1>2, <2>1, <2>3, UnderTransitive
  <2>. QED
    BY <1>1, <2>2, <2>3
<1>4. /\ Len(Append(ops, op)) = Len(ops) + 1
      /\ \A i \in 1..Len(ops) : Append(ops, op)[i] = ops[i]
      /\ Append(ops, op)[Len(ops) + 1] = op
  BY PushOnStack
<1>5. ASSUME NEW i \in 1..Len(ops)+1, NEW j \in 1..Len(ops)+1, i < j
      PROVE  Under(Append(ops, op)[i], Append(ops, op)[j])
  <2>1. CASE j = Len(ops) + 1
    BY <1>1, <1>3, <1>4, <1>5, <2>1
  <2>2. CASE j # Len(ops) + 1
    <3>1. i \in 1..Len(ops) /\ j \in 1..Len(ops)
      BY <1>1, <1>5, <2>2
    <3>. QED
      BY <1>2, <1>4, <1>5, <3>1
  <2>. QED
    BY <2>1, <2>2
<1>. QED
  BY <1>4, <1>5 DEF Sorted

LEMMA SortedShift ==
  ASSUME NEW f \in Frame, f.pend \in Op, Sorted(f.ops), ~MustReduce(f)
  PROVE  Sorted(Append(f.ops, f.pend))
<1>1. f.ops \in Seq(Op)
  BY DEF Frame
<1>2. Prec(f.pend.type) \in 0..15
  BY PrecType DEF Op
<1>3. ASSUME f.ops # <<>>
      PROVE  Under(Last(f.ops), f.pend)
  <2>1. Last(f.ops) \in Op
    BY <1>1, <1>3, TopOfStack
  <2>2. Prec(Last(f.ops).type) \in 0..15
    BY <2>1, PrecType DEF Op
  <2>. QED
    BY <1>2, <1>3, <2>2 DEF MustReduce, Under
<1>. QED
  BY <1>1, <1>3, SortedPush

-----------------------------------------------------------------------------
\* A twin that was found is a closing token behind the opening one, before END.
LEMMA FindTwinType ==
  ASSUME TokenArray(toks), NEW left \in 1..Len(toks), NEW l, NEW r
  PROVE  FindTwin(left, l, r) # 0 => FindTwin(left, l, r) \in left+1..Len(toks)-1
<1>. DEFINE T == Twins(left, l, r)
<1>1. Len(toks) \in Nat
  BY DEF TokenArray
<1>2. T \subseteq left+1..Len(toks)-1
  BY DEF Twins
<1>3. ASSUME T # {}
      PROVE  (CHOOSE i \in T : \A j \in T : i <= j) \in T
  <2>1. T \subseteq Nat
    BY <1>1, <1>2
  <2>. QED
    BY <1>3, <2>1, NatMin
<1>. QED
  BY <1>2, <1>3 DEF FindTwin

-----------------------------------------------------------------------------
(***************************************************************************)
(* Activations.                                                            *)
(***************************************************************************)
LEMMA NodeType ==
  ASSUME NEW op \in Op, NEW operands \in Expr
  PROVE  Node(op, operands) \in Expr
<1>1. op.args \in Seq(Item) /\ op.type \in OpTypes /\ op.tok \in Nat /\ op.n \in Nat
  BY DEF Op, Expr
<1>2. Arity(op.type) + op.n \in Nat
  BY <1>1, ArityType
<1>3. <<[type |-> op.type, tok |-> op.tok, n |-> Arity(op.type) + op.n]>> \in Seq(Item)
  BY <1>1, <1>2 DEF Item
<1>4. operands \o op.args \in Seq(Item)
  BY <1>1, ConcatProperties DEF Expr
<1>. QED
  BY <1>3, <1>4, ConcatProperties DEF Node, Expr

\* What add_op_to_out and the pop do to an activation.
LEMMA ReducedType ==
  ASSUME NEW f \in Frame, f.ops # <<>>
  PROVE  /\ Reduced(f) \in Frame
         /\ Reduced(f).kind = f.kind
         /\ Reduced(f).start = f.start
         /\ Reduced(f).close = f.close
         /\ Reduced(f).mode = f.mode
         /\ Reduced(f).pend = f.pend
         /\ Reduced(f).phase = f.phase
         /\ Reduced(f).ops = Front(f.ops)
         /\ Enough(f) => /\ Len(Reduced(f).out) = Len(f.out) - Arity(Last(f.ops).type) + 1
                         /\ Reduced(f).out # <<>>
<1>1. f.ops \in Seq(Op) /\ f.out \in Seq(Expr)
  BY DEF Frame
<1>2. Front(f.ops) \in Seq(Op) /\ Last(f.ops) \in Op
  BY <1>1, TopOfStack
<1>. DEFINE a == Arity(Last(f.ops).type)
            below == SubSeq(f.out, 1, Len(f.out) - a)
            node == Node(Last(f.ops), Operands(f))
<1>3. a \in {1, 2}
  BY ArityType
<1>4. ASSUME Enough(f)
      PROVE  /\ below \in Seq(Expr)
             /\ Len(below) = Len(f.out) - a
             /\ node \in Expr
  <2>1. Len(f.out) >= a /\ Len(f.out) \in Nat
    BY <1>1, <1>4 DEF Enough
  <2>2. \A i \in 1..Len(f.out) : f.out[i] \in Expr
    BY <1>1
  <2>. DEFINE m == Len(f.out) - a
  <2>3. m \in Nat /\ m <= Len(f.out) /\ \A i \in 1..m : f.out[i] \in Expr
    BY <1>3, <2>1, <2>2
  <2>. HIDE DEF m
  <2>4. SubSeq(f.out, 1, m) \in Seq(Expr) /\ Len(SubSeq(f.out, 1, m)) = m
    BY <2>3, SubSeqProperties
  <2>5. Operands(f) \in Expr
    <3>1. CASE a = 2
      <4>1. f.out[Len(f.out) - 1] \in Seq(Item) /\ f.out[Len(f.out)] \in Seq(Item)
        BY SMTT(40), <2>1, <2>2, <3>1 DEF Expr
      <4>. QED
        BY <3>1, <4>1, ConcatProperties DEF Operands, Expr
    <3>2. CASE a = 1
      BY <2>1, <2>2, <3>2 DEF Operands
    <3>. QED
      BY <1>3, <3>1, <3>2
  <2>. QED
    BY <1>2, <2>4, <2>5, NodeType DEF m
<1>. HIDE DEF a, below, node
<1>5. CASE Enough(f)
  <2>1. Reduced(f) = [f EXCEPT !.ops = Front(f.ops), !.out = Append(below, node)]
    BY <1>5 DEF Reduced, below, node, a, Frame
  <2>2. /\ Append(below, node) \in Seq(Expr)
        /\ Append(below, node) # <<>>
        /\ Len(Append(below, node)) = Len(f.out) - a + 1
    BY <1>4, <1>5, PushOnStack
  <2>. QED
    BY <1>2, <2>1, <2>2 DEF Frame, a
<1>6. CASE ~Enough(f)
  BY <1>2, <1>6 DEF Reduced, Frame
<1>. QED
  BY <1>5, <1>6

LEMMA NewFrameType ==
  ASSUME NEW kind \in Kinds, NEW start \in Nat, NEW close \in Nat
  PROVE  NewFrame(kind, start, close) \in Frame
BY DEF NewFrame, Frame, NoOp

LEMMA NewFrameCounted ==
  ASSUME NEW kind, NEW start, NEW close
  PROVE  /\ Balanced(NewFrame(kind, start, close))
         /\ ModeFits(NewFrame(kind, start, close))
         /\ Sorted(NewFrame(kind, start, close).ops)
BY BinariesEmpty DEF NewFrame, Balanced, ModeFits, Sorted

\* The operator an operator token becomes.
LEMMA NewOpType ==
  ASSUME NEW mode \in BOOLEAN, pos \in Nat, toks[pos] \in OpToks \cup OpenToks
  PROVE  NewOp(mode) \in Op
BY ExprTypeOp DEF NewOp, Op, Expr

\* An argument goes to the operator the caller is about to push.
LEMMA WithArgType ==
  ASSUME NEW f \in Frame, f.pend \in Op, cur.out[1] \in Expr
  PROVE  /\ WithArg(f) \in Frame
         /\ WithArg(f).pend \in Op
         /\ WithArg(f).pend.type = f.pend.type
         /\ WithArg(f) = [f EXCEPT !.pend = WithArg(f).pend]
<1>1. f.pend.args \o cur.out[1] \in Expr /\ f.pend.n + 1 \in Nat
  BY ConcatProperties DEF Op, Expr
<1>2. WithArg(f).pend = [f.pend EXCEPT !.args = @ \o cur.out[1], !.n = @ + 1]
  BY DEF WithArg, Frame, Op
<1>3. WithArg(f) = [f EXCEPT !.pend = WithArg(f).pend]
  BY DEF WithArg, Frame, Op
<1>4. WithArg(f).pend \in Op /\ WithArg(f).pend.type = f.pend.type
  BY <1>1, <1>2 DEF Op
<1>. QED
  BY <1>3, <1>4 DEF Frame

-----------------------------------------------------------------------------
(***************************************************************************)
(* What a step leaves of the invariant when it only replaces the running   *)
(* activation, calls another one, or returns to its caller.                *)
(***************************************************************************)
LEMMA StepInside ==
  ASSUME TypeInv, UNCHANGED <<toks, callers>>,
         cur'.kind = cur.kind, Placed(cur)'
  PROVE  /\ Linked'
         /\ CallersCounted => CallersCounted'
         /\ CallersSorted => CallersSorted'
BY DEF TypeInv, Linked, Placed, Fits, CallersCounted, CallersSorted

LEMMA StepCalls ==
  ASSUME TypeInv, UNCHANGED toks, NEW g \in Frame, callers' = Append(callers, g),
         g.kind = cur.kind, Fits(cur', g), Placed(cur)',
         g.phase = "shift" => g.pend \in Op, g.close = cur.close
  PROVE  /\ Linked'
         /\ callers' \in Seq(Frame)
         /\ CallersCounted /\ Balanced(g) /\ ModeFits(g) => CallersCounted'
         /\ CallersSorted /\ Sorted(g.ops) => CallersSorted'
<1>1. callers \in Seq(Frame) /\ Len(callers) \in Nat
  BY DEF TypeInv, TypeOK
<1>2. /\ callers' \in Seq(Frame)
      /\ callers' # <<>>
      /\ Len(callers') = Len(callers) + 1
      /\ \A i \in 1..Len(callers) : callers'[i] = callers[i]
      /\ callers'[Len(callers) + 1] = g
  BY <1>1, PushOnStack
<1>3. \A i \in 1..Len(callers) : Placed(callers[i])
  BY DEF TypeInv, Linked
<1>4. Placed(cur)
  BY DEF TypeInv, Linked
<1>5. \A i \in 1..Len(callers)+1 : Placed(callers'[i])
  BY <1>1, <1>2, <1>3, <1>4 DEF Placed
<1>6. \A i \in 2..Len(callers)+1 : Fits(callers'[i], callers'[i-1])
  <2>. SUFFICES ASSUME NEW i \in 2..Len(callers)+1
                PROVE  Fits(callers'[i], callers'[i-1])
    OBVIOUS
  <2>1. CASE i = Len(callers) + 1
    <3>1. Len(callers) \in 1..Len(callers) /\ callers # <<>>
      BY <1>1, <2>1
    <3>2. Fits(cur, callers[Len(callers)])
      BY <3>1 DEF TypeInv, Linked
    <3>3. callers'[i] = g /\ callers'[i-1] = callers[Len(callers)]
      BY <1>1, <1>2, <2>1, <3>1
    <3>. QED
      BY <3>2, <3>3 DEF Fits
  <2>2. CASE i # Len(callers) + 1
    <3>1. i \in 2..Len(callers) /\ i \in 1..Len(callers) /\ i - 1 \in 1..Len(callers)
      BY <1>1, <2>2
    <3>. QED
      BY <1>2, <3>1 DEF TypeInv, Linked
  <2>. QED
    BY <2>1, <2>2
<1>7. callers'[1].kind = "top"
  <2>1. CASE callers = <<>>
    BY <1>2, <2>1 DEF TypeInv, Linked
  <2>2. CASE callers # <<>>
    <3>1. 1 \in 1..Len(callers)
      BY <1>1, <2>2
    <3>. QED
      BY <1>2, <2>2, <3>1 DEF TypeInv, Linked
  <2>. QED
    BY <2>1, <2>2
<1>8. Linked'
  BY <1>1, <1>2, <1>5, <1>6, <1>7 DEF Linked, Placed, Fits
<1>9. CallersCounted /\ Balanced(g) /\ ModeFits(g) => CallersCounted'
  BY <1>1, <1>2 DEF CallersCounted
<1>10. CallersSorted /\ Sorted(g.ops) => CallersSorted'
  BY <1>1, <1>2 DEF CallersSorted
<1>. QED
  BY <1>2, <1>8, <1>9, <1>10

LEMMA StepReturns ==
  ASSUME TypeInv, UNCHANGED toks, callers # <<>>, callers' = Front(callers),
         cur'.kind = Last(callers).kind, Placed(cur)'
  PROVE  /\ Linked'
         /\ callers' \in Seq(Frame)
         /\ CallersCounted => CallersCounted'
         /\ CallersSorted => CallersSorted'
<1>1. callers \in Seq(Frame)
  BY DEF TypeInv, TypeOK
<1>2. /\ callers' \in Seq(Frame)
      /\ Len(callers) \in Nat \ {0}
      /\ Len(callers') = Len(callers) - 1
      /\ \A i \in 1..Len(callers)-1 : callers'[i] = callers[i]
      /\ Last(callers) = callers[Len(callers)]
  BY <1>1, TopOfStack
<1>3. Len(callers') \in Nat /\ Len(callers') < Len(callers)
  BY <1>2
<1>4. \A i \in 1..Len(callers') : Placed(callers'[i])
  BY <1>2, <1>3 DEF TypeInv, Linked
<1>5. \A i \in 2..Len(callers') : Fits(callers'[i], callers'[i-1])
  <2>. SUFFICES ASSUME NEW i \in 2..Len(callers')
                PROVE  Fits(callers'[i], callers'[i-1])
    OBVIOUS
  <2>1. i \in 2..Len(callers) /\ i \in 1..Len(callers)-1 /\ i - 1 \in 1..Len(callers)-1
    BY <1>2, <1>3
  <2>. QED
    BY <1>2, <2>1 DEF TypeInv, Linked
<1>6. callers' = <<>> => cur'.kind = "top"
  <2>. SUFFICES ASSUME callers' = <<>> PROVE cur'.kind = "top"
    OBVIOUS
  <2>1. Len(callers) = 1
    BY <1>2, <1>3
  <2>. QED
    BY <1>2, <2>1 DEF TypeInv, Linked
<1>7. callers' # <<>> => Fits(cur', callers'[Len(callers')]) /\ callers'[1].kind = "top"
  <2>. SUFFICES ASSUME callers' # <<>>
                PROVE  Fits(cur', callers'[Len(callers')]) /\ callers'[1].kind = "top"
    OBVIOUS
  <2>1. Len(callers') \in Nat \ {0}
    BY <1>2, <1>3
  <2>2. /\ 1 \in 1..Len(callers)-1
        /\ Len(callers) \in 2..Len(callers)
        /\ Len(callers') \in 1..Len(callers)-1
    BY <1>2, <2>1
  <2>3. Fits(callers[Len(callers)], callers[Len(callers)-1])
    BY <2>2 DEF TypeInv, Linked
  <2>. QED
    BY <1>2, <2>2, <2>3 DEF Fits, TypeInv, Linked
<1>8. Linked'
  BY <1>4, <1>5, <1>6, <1>7 DEF Linked, Placed, Fits
<1>9. (CallersCounted => CallersCounted') /\ (CallersSorted => CallersSorted')
  BY <1>2, <1>3 DEF CallersCounted, CallersSorted
<1>. QED
  BY <1>2, <1>8, <1>9

-----------------------------------------------------------------------------
(***************************************************************************)
(* One step per action.                                                    *)
(***************************************************************************)
LEMMA AtPos ==
  ASSUME TypeInv
  PROVE  /\ Len(toks) \in Nat
         /\ pos \in Nat
         /\ pos \in 1..Len(toks)
         /\ toks[pos] \in Toks
         /\ toks[pos] # "END" => pos \in 1..Len(toks)-1 /\ pos + 1 \in 1..Len(toks)
         /\ toks[pos] \in OperandToks \cup OpToks \cup OpenToks => toks[pos] # "END"
         /\ toks[pos] \in Ends(cur.kind) => toks[pos] # "END"
<1>1. /\ Len(toks) \in Nat
      /\ pos \in 1..Len(toks)
      /\ toks[pos] \in Toks
      /\ toks[pos] = "END" <=> pos = Len(toks)
  BY DEF TypeInv, TypeOK, TokenArray
<1>2. "END" \notin OperandToks \cup OpToks \cup OpenToks
  BY DEF OperandToks, OpToks, OpenToks, BinaryToks, UnaryToks, AssignOps
<1>3. cur.kind \in Kinds
  BY DEF TypeInv, TypeOK, Frame
<1>4. "END" \notin Ends(cur.kind)
  BY <1>3, TopEndsAssumption DEF Ends, Kinds
<1>. QED
  BY <1>1, <1>2, <1>4

LEMMA InitInv == Init => IInv
<1>. SUFFICES ASSUME Init PROVE IInv
  OBVIOUS
<1>1. TokenArray(toks) /\ Len(toks) \in Nat \ {0}
  BY InputAssumption DEF Init, TokenArray
<1>2. cur \in Frame
  BY NewFrameType DEF Init, Kinds
<1>3. TypeInv
  BY <1>1, <1>2 DEF Init, TypeInv, TypeOK, Linked, Placed, AtToken, NewFrame, Expr
<1>4. BalanceInv
  BY NewFrameCounted DEF Init, BalanceInv, CallersCounted
<1>5. OpsSorted
  BY NewFrameCounted DEF Init, OpsSorted
<1>6. NothingRead /\ CrashInv
  BY DEF Init, NothingRead, CrashInv, NewFrame
<1>. QED
  BY <1>3, <1>4, <1>5, <1>6 DEF IInv

LEMMA OperandStep == IInv /\ Operand => IInv'
<1>. SUFFICES ASSUME IInv, Operand PROVE IInv'
  OBVIOUS
<1>. USE DEF Operand
<1>1. TypeInv /\ cur \in Frame /\ cur.mode = TRUE
  BY DEF IInv, TypeInv, TypeOK, Frame
<1>. DEFINE leaf == <<[type |-> toks[pos], tok |-> pos, n |-> 0]>>
<1>2. leaf \in Expr
  BY <1>1, AtPos DEF Expr, Item
<1>3. cur.out \in Seq(Expr)
  BY <1>1 DEF Frame
<1>. HIDE DEF leaf
<1>4. /\ Append(cur.out, leaf) \in Seq(Expr)
      /\ Append(cur.out, leaf) # <<>>
      /\ Len(Append(cur.out, leaf)) = Len(cur.out) + 1
  BY <1>2, <1>3, PushOnStack
<1>5. cur' = [cur EXCEPT !.out = Append(cur.out, leaf), !.mode = FALSE]
  BY <1>1 DEF leaf, Frame
<1>6. /\ cur' \in Frame
      /\ cur'.kind = cur.kind /\ cur'.close = cur.close /\ cur'.ops = cur.ops
      /\ cur'.phase = "scan" /\ cur'.mode = FALSE
      /\ cur'.out = Append(cur.out, leaf)
  BY <1>1, <1>4, <1>5 DEF Frame, Scanning
<1>7. Placed(cur)'
  BY <1>1, <1>6 DEF TypeInv, Linked, Placed
<1>8. /\ Linked'
      /\ CallersCounted => CallersCounted'
      /\ CallersSorted => CallersSorted'
  BY <1>1, <1>6, <1>7, StepInside
<1>9. TypeInv'
  BY <1>1, <1>6, <1>8, AtPos DEF TypeInv, TypeOK, AtToken
<1>10. BalanceInv'
  <2>1. Cardinality(Binaries(cur.ops)) \in Nat /\ Len(cur.out) \in Nat
    BY <1>1, <1>3, BinariesFinite DEF Frame
  <2>. QED
    BY <1>1, <1>4, <1>6, <1>8, <2>1 DEF IInv, BalanceInv, Balanced, ModeFits
<1>11. OpsSorted'
  BY <1>6, <1>8 DEF IInv, OpsSorted, CallersSorted
<1>12. NothingRead' /\ CrashInv'
  BY <1>4, <1>6 DEF NothingRead, CrashInv, Scanning
<1>. QED
  BY <1>9, <1>10, <1>11, <1>12 DEF IInv

\* The steps that leave both stacks, the mode and the callers alone.
LEMMA PassingStep ==
  ASSUME IInv, pc = "run", UNCHANGED <<toks, cur, callers, result>>,
         diags' \in Nat, diags' >= diags, pos' \in 1..Len(toks), cur.phase = "scan",
         pc' \in {"run", "overrun"}
  PROVE  TypeInv' /\ BalanceInv' /\ OpsSorted' /\ CrashInv'
<1>1. TypeInv'
  BY DEF IInv, TypeInv, TypeOK, Linked, Placed, AtToken
<1>2. BalanceInv'
  BY DEF IInv, BalanceInv, CallersCounted, TypeInv, TypeOK
<1>3. OpsSorted' /\ CrashInv'
  BY DEF IInv, OpsSorted, CrashInv
<1>. QED
  BY <1>1, <1>2, <1>3

LEMMA UnexpectedOperandStep == IInv /\ UnexpectedOperand => IInv'
<1>. SUFFICES ASSUME IInv, UnexpectedOperand PROVE IInv'
  OBVIOUS
<1>1. TypeInv /\ diags \in Nat
  BY DEF IInv, TypeInv, TypeOK
<1>2. pos + 1 \in 1..Len(toks)
  BY <1>1, AtPos DEF UnexpectedOperand
<1>3. TypeInv' /\ BalanceInv' /\ OpsSorted' /\ CrashInv'
  BY <1>1, <1>2, PassingStep DEF UnexpectedOperand, Scanning
<1>4. NothingRead'
  BY <1>1 DEF NothingRead, UnexpectedOperand
<1>. QED
  BY <1>3, <1>4 DEF IInv

LEMMA SkipStep == IInv /\ Skip => IInv'
<1>. SUFFICES ASSUME IInv, Skip PROVE IInv'
  OBVIOUS
<1>1. TypeInv /\ diags \in Nat
  BY DEF IInv, TypeInv, TypeOK
<1>2. pos + 1 \in 1..Len(toks) /\ pos \in Nat
  BY <1>1, AtPos DEF Skip
<1>3. TypeInv' /\ BalanceInv' /\ OpsSorted' /\ CrashInv'
  BY <1>1, <1>2, PassingStep DEF Skip, Scanning
<1>4. NothingRead'
  <2>1. cur.start \in Nat
    BY <1>1 DEF TypeInv, TypeOK, Frame
  <2>2. \A k \in cur.start..pos : k \in cur.start..pos-1 \/ k = pos
    BY <1>2, <2>1
  <2>. QED
    BY <1>2, <2>2 DEF IInv, NothingRead, Skip
<1>. QED
  BY <1>3, <1>4 DEF IInv

LEMMA RunOffStep == IInv /\ RunOff => IInv'
<1>. SUFFICES ASSUME IInv, RunOff PROVE IInv'
  OBVIOUS
<1>1. TypeInv /\ diags \in Nat /\ pos \in 1..Len(toks)
  BY DEF IInv, TypeInv, TypeOK
<1>2. TypeInv' /\ BalanceInv' /\ OpsSorted' /\ CrashInv'
  BY <1>1, PassingStep DEF RunOff, Scanning
<1>3. NothingRead'
  BY DEF IInv, NothingRead, RunOff
<1>. QED
  BY <1>2, <1>3 DEF IInv

LEMMA OperatorStep == IInv /\ Operator => IInv'
<1>. SUFFICES ASSUME IInv, Operator PROVE IInv'
  OBVIOUS
<1>. USE DEF Operator
<1>1. TypeInv /\ cur \in Frame /\ diags \in Nat /\ cur.mode \in BOOLEAN
  BY DEF IInv, TypeInv, TypeOK, Frame
<1>2. pos \in Nat /\ pos \in 1..Len(toks)-1
  BY <1>1, AtPos
<1>3. NewOp(cur.mode) \in Op /\ NewOp(cur.mode).type = ExprType(toks[pos], cur.mode)
  BY <1>1, <1>2, NewOpType DEF NewOp
<1>4. /\ cur' \in Frame
      /\ cur'.kind = cur.kind /\ cur'.close = cur.close
      /\ cur'.ops = cur.ops /\ cur'.out = cur.out /\ cur'.mode = cur.mode
      /\ cur'.pend = NewOp(cur.mode) /\ cur'.phase = "shift"
  BY <1>1, <1>3 DEF Frame
<1>5. Placed(cur)'
  BY <1>1, <1>3, <1>4 DEF TypeInv, Linked, Placed
<1>6. /\ Linked'
      /\ CallersCounted => CallersCounted'
      /\ CallersSorted => CallersSorted'
  BY <1>1, <1>4, <1>5, StepInside
<1>7. diags' \in Nat /\ (diags' = 0 => diags = 0 /\ ~IsUnexpected(toks[pos], cur.mode))
  BY <1>1 DEF Complaint
<1>8. TypeInv'
  BY <1>1, <1>2, <1>4, <1>6, <1>7 DEF TypeInv, TypeOK, AtToken
<1>9. BalanceInv'
  <2>1. diags' = 0 => ModeFits(cur')
    BY <1>1, <1>3, <1>4, <1>7, ModeOfOp DEF ModeFits
  <2>2. diags' = 0 => Balanced(cur')
    BY <1>4, <1>7 DEF IInv, BalanceInv, Balanced
  <2>. QED
    BY <1>6, <1>7, <2>1, <2>2 DEF IInv, BalanceInv
<1>10. OpsSorted'
  BY <1>4, <1>6 DEF IInv, OpsSorted, CallersSorted
<1>11. NothingRead' /\ CrashInv'
  BY <1>4 DEF NothingRead, CrashInv, Scanning
<1>. QED
  BY <1>8, <1>9, <1>10, <1>11 DEF IInv

LEMMA EndExprStep == IInv /\ EndExpr => IInv'
<1>. SUFFICES ASSUME IInv, EndExpr PROVE IInv'
  OBVIOUS
<1>. USE DEF EndExpr
<1>1. TypeInv /\ cur \in Frame
  BY DEF IInv, TypeInv, TypeOK
<1>2. /\ cur' \in Frame
      /\ cur'.kind = cur.kind /\ cur'.close = cur.close /\ cur'.start = cur.start
      /\ cur'.ops = cur.ops /\ cur'.out = cur.out /\ cur'.mode = cur.mode
      /\ cur'.phase = "drain"
  BY <1>1 DEF Frame
<1>3. Placed(cur)'
  BY <1>1, <1>2 DEF TypeInv, Linked, Placed
<1>4. /\ Linked'
      /\ CallersCounted => CallersCounted'
      /\ CallersSorted => CallersSorted'
  BY <1>1, <1>2, <1>3, StepInside
<1>5. TypeInv'
  BY <1>1, <1>2, <1>4 DEF TypeInv, TypeOK, AtToken, IsEndType, Ends
<1>6. BalanceInv'
  BY <1>2, <1>4 DEF IInv, BalanceInv, Balanced, ModeFits
<1>7. OpsSorted'
  BY <1>2, <1>4 DEF IInv, OpsSorted, CallersSorted
<1>8. NothingRead' /\ CrashInv'
  BY <1>2 DEF IInv, NothingRead, CrashInv
<1>. QED
  BY <1>5, <1>6, <1>7, <1>8 DEF IInv

LEMMA CrashStep == IInv /\ Crash => IInv'
BY DEF IInv, Crash, Drained, TypeInv, TypeOK, Linked, Placed, AtToken, BalanceInv,
       CallersCounted, OpsSorted, NothingRead, CrashInv

LEMMA ReturnStep == IInv /\ Return => IInv'
<1>. SUFFICES ASSUME IInv, Return PROVE IInv'
  OBVIOUS
<1>. USE DEF Return
<1>1. cur.out[1] \in Expr
  BY DEF IInv, TypeInv, TypeOK, Frame, Returning
<1>. QED
  BY <1>1 DEF IInv, TypeInv, TypeOK, Linked, Placed, AtToken, BalanceInv,
              CallersCounted, OpsSorted, NothingRead, CrashInv

\* Popping an operator, on the way to push another one or at the end.
LEMMA ReduceStep ==
  ASSUME IInv, pc = "run", cur.phase # "scan", cur.ops # <<>>, Reduce,
         UNCHANGED <<toks, pos, callers, pc, result>>
  PROVE  IInv'
<1>. USE DEF Reduce
<1>1. TypeInv /\ cur \in Frame /\ diags \in Nat
  BY DEF IInv, TypeInv, TypeOK
<1>2. /\ cur' \in Frame
      /\ cur'.kind = cur.kind /\ cur'.close = cur.close
      /\ cur'.mode = cur.mode /\ cur'.pend = cur.pend /\ cur'.phase = cur.phase
      /\ cur'.ops = Front(cur.ops)
      /\ Enough(cur) => /\ Len(cur'.out) = Len(cur.out) - Arity(Last(cur.ops).type) + 1
                        /\ cur'.out # <<>>
  BY <1>1, ReducedType
<1>3. Placed(cur)'
  BY <1>1, <1>2 DEF TypeInv, Linked, Placed
<1>4. /\ Linked'
      /\ CallersCounted => CallersCounted'
      /\ CallersSorted => CallersSorted'
  BY <1>1, <1>2, <1>3, StepInside
<1>5. diags' \in Nat /\ (diags' = 0 => diags = 0 /\ Enough(cur))
  BY <1>1
<1>6. TypeInv'
  BY <1>1, <1>2, <1>4, <1>5 DEF TypeInv, TypeOK, AtToken
<1>7. BalanceInv'
  <2>1. cur.ops \in Seq(Op) /\ cur.out \in Seq(Expr)
    BY <1>1 DEF Frame
  <2>. DEFINE a == Arity(Last(cur.ops).type)
  <2>2. /\ Cardinality(Binaries(cur.ops)) \in Nat
        /\ Cardinality(Binaries(cur'.ops))
             = Cardinality(Binaries(cur.ops)) - (IF a = 2 THEN 1 ELSE 0)
    BY <1>2, <2>1, BinariesFinite, BinariesPop
  <2>3. a \in {1, 2} /\ Len(cur.out) \in Nat
    BY <2>1, ArityType
  <2>4. diags' = 0 => Balanced(cur')
    BY <1>2, <1>5, <2>2, <2>3 DEF IInv, BalanceInv, Balanced
  <2>5. diags' = 0 => ModeFits(cur')
    BY <1>2, <1>5 DEF IInv, BalanceInv, ModeFits
  <2>. QED
    BY <1>4, <1>5, <2>4, <2>5 DEF IInv, BalanceInv
<1>8. OpsSorted'
  <2>1. cur.ops \in Seq(Op) /\ Sorted(cur.ops)
    BY <1>1 DEF Frame, IInv, OpsSorted
  <2>2. Sorted(cur'.ops)
    BY <1>2, <2>1, SortedPop
  <2>. QED
    BY <1>4, <2>2 DEF IInv, OpsSorted, CallersSorted
<1>9. NothingRead' /\ CrashInv'
  BY <1>2, <1>5 DEF NothingRead, CrashInv
<1>. QED
  BY <1>6, <1>7, <1>8, <1>9 DEF IInv

LEMMA ShiftReduceStep == IInv /\ ShiftReduce => IInv'
BY ReduceStep DEF ShiftReduce, MustReduce

LEMMA DrainStep == IInv /\ Drain => IInv'
BY ReduceStep DEF Drain

LEMMA ShiftStep == IInv /\ Shift => IInv'
<1>. SUFFICES ASSUME IInv, Shift PROVE IInv'
  OBVIOUS
<1>. USE DEF Shift
<1>1. TypeInv /\ cur \in Frame /\ cur.pend \in Op /\ pos < Len(toks)
  BY DEF IInv, TypeInv, TypeOK, Linked, Placed, AtToken
<1>2. cur.ops \in Seq(Op) /\ cur.out \in Seq(Expr) /\ cur.mode \in BOOLEAN
  BY <1>1 DEF Frame
<1>. DEFINE postfix == cur.pend.type \in PostfixOps
            ops == Append(cur.ops, cur.pend)
<1>3. ops \in Seq(Op) /\ ops # <<>>
  BY <1>1, <1>2, PushOnStack
<1>4. cur' = [cur EXCEPT !.ops = ops, !.pend = NoOp, !.phase = "scan", !.mode = ~postfix]
  BY <1>1 DEF Frame
<1>. HIDE DEF ops
<1>5. /\ cur' \in Frame
      /\ cur'.kind = cur.kind /\ cur'.close = cur.close
      /\ cur'.ops = ops /\ cur'.out = cur.out
      /\ cur'.mode = ~postfix /\ cur'.phase = "scan"
  BY ZenonT(40), <1>1, <1>3, <1>4 DEF Frame
<1>6. Placed(cur)'
  BY <1>1, <1>5 DEF TypeInv, Linked, Placed
<1>7. /\ Linked'
      /\ CallersCounted => CallersCounted'
      /\ CallersSorted => CallersSorted'
  BY <1>1, <1>5, <1>6, StepInside
<1>8. TypeInv'
  BY <1>1, <1>5, <1>7, AtPos DEF TypeInv, TypeOK, AtToken
<1>9. BalanceInv'
  <2>1. /\ Cardinality(Binaries(cur.ops)) \in Nat
        /\ Cardinality(Binaries(ops))
             = Cardinality(Binaries(cur.ops)) + (IF Arity(cur.pend.type) = 2 THEN 1 ELSE 0)
    BY <1>1, <1>2, BinariesFinite, BinariesPush DEF ops
  <2>2. postfix => Arity(cur.pend.type) # 2
    BY PostfixArity
  <2>3. Len(cur.out) \in Nat
    BY <1>2
  <2>4. ASSUME diags = 0
        PROVE  Balanced(cur')
    <3>1. Len(cur.out) = Cardinality(Binaries(cur.ops)) + (IF cur.mode THEN 0 ELSE 1)
      BY <2>4 DEF IInv, BalanceInv, Balanced
    <3>2. postfix \/ Arity(cur.pend.type) = 2 <=> ~cur.mode
      BY <2>4 DEF IInv, BalanceInv, ModeFits
    <3>3. Len(cur.out) = Cardinality(Binaries(ops)) + (IF ~postfix THEN 0 ELSE 1)
      BY <1>2, <2>1, <2>2, <2>3, <3>1, <3>2
    <3>. QED
      BY <1>5, <3>3 DEF Balanced
  <2>. QED
    BY <1>5, <1>7, <2>4 DEF IInv, BalanceInv, ModeFits
<1>10. OpsSorted'
  <2>1. Sorted(ops)
    BY <1>1, SortedShift DEF IInv, OpsSorted, ops
  <2>. QED
    BY <1>5, <1>7, <2>1 DEF IInv, OpsSorted, CallersSorted
<1>11. NothingRead' /\ CrashInv'
  BY <1>3, <1>5 DEF NothingRead, CrashInv
<1>. QED
  BY <1>8, <1>9, <1>10, <1>11 DEF IInv

LEMMA OpenSubexprStep == IInv /\ OpenSubexpr => IInv'
<1>. SUFFICES ASSUME IInv, OpenSubexpr PROVE IInv'
  OBVIOUS
<1>. USE DEF OpenSubexpr
<1>1. TypeInv /\ cur \in Frame /\ diags \in Nat /\ cur.phase = "scan"
  BY DEF IInv, TypeInv, TypeOK, Scanning
<1>2. pos \in Nat /\ pos + 1 \in 1..Len(toks)
  BY <1>1, AtPos DEF OpenToks
<1>3. /\ cur' \in Frame /\ cur'.kind = "sub" /\ cur'.phase = "scan"
      /\ cur'.start = pos + 1
      /\ Balanced(cur') /\ ModeFits(cur') /\ Sorted(cur'.ops)
  BY SMTT(40), <1>2, NewFrameType, NewFrameCounted DEF Kinds, NewFrame
<1>4. Placed(cur)' /\ Fits(cur', cur)
  BY <1>1, <1>3 DEF Placed, Fits
<1>5. /\ Linked'
      /\ callers' \in Seq(Frame)
      /\ CallersCounted /\ Balanced(cur) /\ ModeFits(cur) => CallersCounted'
      /\ CallersSorted /\ Sorted(cur.ops) => CallersSorted'
  BY <1>1, <1>4, StepCalls
<1>6. diags' \in Nat /\ (diags' = 0 => diags = 0)
  BY <1>1
<1>7. TypeInv'
  BY <1>1, <1>2, <1>3, <1>5, <1>6 DEF TypeInv, TypeOK, AtToken
<1>8. BalanceInv'
  BY <1>3, <1>5, <1>6 DEF IInv, BalanceInv
<1>9. OpsSorted'
  BY <1>3, <1>5 DEF IInv, OpsSorted, CallersSorted
<1>10. NothingRead' /\ CrashInv'
  BY <1>2, <1>3 DEF NothingRead, CrashInv, Scanning
<1>. QED
  BY <1>7, <1>8, <1>9, <1>10 DEF IInv

\* The activation that calls parse_expr_impl for an argument or an index.
LEMMA SuspendedType ==
  ASSUME NEW f \in Frame, NEW op \in Op
  PROVE  LET g == [f EXCEPT !.pend = op, !.phase = "shift"]
         IN  /\ g \in Frame
             /\ g.kind = f.kind /\ g.close = f.close /\ g.start = f.start
             /\ g.ops = f.ops /\ g.out = f.out /\ g.mode = f.mode
             /\ g.pend = op /\ g.phase = "shift"
BY DEF Frame

LEMMA OpenCallStep == IInv /\ OpenCall => IInv'
<1>. SUFFICES ASSUME IInv, OpenCall PROVE IInv'
  OBVIOUS
<1>1. /\ TypeInv /\ cur \in Frame /\ diags \in Nat /\ cur.mode = FALSE
      /\ pc = "run" /\ pc' = "run" /\ toks' = toks /\ result' = result
  BY DEF IInv, TypeInv, TypeOK, OpenCall, Scanning, Frame
<1>2. /\ pos \in Nat /\ Len(toks) \in Nat
      /\ pos \in 1..Len(toks)-1 /\ pos + 1 \in 1..Len(toks)
  BY <1>1, AtPos DEF OpenCall, OpenToks
<1>. DEFINE twin == FindTwin(pos, "L_PAREN", "R_PAREN")
            rparen == IF twin = 0 THEN pos ELSE twin
            call == [cur EXCEPT !.pend = NewOp(FALSE), !.phase = "shift"]
<1>3. rparen \in 1..Len(toks)-1
  <2>1. twin # 0 => twin \in pos+1..Len(toks)-1
    BY <1>1, <1>2, FindTwinType DEF TypeInv, TypeOK
  <2>. QED
    BY <1>2, <2>1
<1>4. /\ diags' \in Nat /\ (diags' = 0 => diags = 0)
      /\ \/ /\ pos + 1 < rparen
            /\ callers' = Append(callers, call)
            /\ cur' = NewFrame("arg", pos + 1, rparen)
            /\ pos' = pos + 1
         \/ /\ cur' = call
            /\ pos' = rparen
            /\ callers' = callers
  BY <1>1 DEF OpenCall
<1>5. NewOp(FALSE) \in Op /\ NewOp(FALSE).type = "FUNC_CALL"
  <2>1. toks[pos] = "L_PAREN"
    BY DEF OpenCall
  <2>2. ExprType("L_PAREN", FALSE) = "FUNC_CALL"
    BY DEF ExprType, Mode0Name
  <2>3. NewOp(FALSE) \in Op
    BY <1>2, <2>1, NewOpType DEF OpenToks
  <2>. QED
    BY <2>1, <2>2, <2>3 DEF NewOp
<1>6. /\ call \in Frame
      /\ call.kind = cur.kind /\ call.close = cur.close
      /\ call.ops = cur.ops /\ call.out = cur.out /\ call.mode = FALSE
      /\ call.pend = NewOp(FALSE) /\ call.phase = "shift"
  BY <1>1, <1>5, SuspendedType
<1>7. (Balanced(cur) => Balanced(call)) /\ ModeFits(call) /\ (Sorted(cur.ops) => Sorted(call.ops))
  BY <1>1, <1>5, <1>6 DEF Balanced, ModeFits, PostfixOps
<1>. HIDE DEF twin, rparen, call
<1>8. CASE /\ pos + 1 < rparen
           /\ callers' = Append(callers, call)
           /\ cur' = NewFrame("arg", pos + 1, rparen)
           /\ pos' = pos + 1
  <2>1. /\ cur' \in Frame /\ cur'.kind = "arg" /\ cur'.phase = "scan"
        /\ cur'.start = pos + 1 /\ cur'.close = rparen
        /\ Balanced(cur') /\ ModeFits(cur') /\ Sorted(cur'.ops)
    BY SMTT(40), <1>2, <1>3, <1>8, NewFrameType, NewFrameCounted DEF Kinds, NewFrame
  <2>2. Placed(cur)' /\ Fits(cur', call)
    BY <1>1, <1>3, <1>6, <2>1 DEF Placed, Fits
  <2>3. /\ Linked'
        /\ callers' \in Seq(Frame)
        /\ CallersCounted /\ Balanced(call) /\ ModeFits(call) => CallersCounted'
        /\ CallersSorted /\ Sorted(call.ops) => CallersSorted'
    BY <1>1, <1>5, <1>6, <1>8, <2>2, StepCalls
  <2>4. TypeInv'
    BY <1>1, <1>2, <1>4, <1>8, <2>1, <2>3 DEF TypeInv, TypeOK, AtToken
  <2>5. BalanceInv'
    BY <1>4, <1>7, <2>1, <2>3 DEF IInv, BalanceInv
  <2>6. OpsSorted'
    BY <1>7, <2>1, <2>3 DEF IInv, OpsSorted, CallersSorted
  <2>7. NothingRead' /\ CrashInv'
    BY <1>1, <1>2, <1>8, <2>1 DEF NothingRead, CrashInv
  <2>. QED
    BY <2>4, <2>5, <2>6, <2>7 DEF IInv
<1>9. CASE cur' = call /\ pos' = rparen /\ callers' = callers
  <2>1. Placed(cur)'
    BY <1>1, <1>5, <1>6, <1>9 DEF TypeInv, Linked, Placed
  <2>2. /\ Linked'
        /\ CallersCounted => CallersCounted'
        /\ CallersSorted => CallersSorted'
    BY <1>1, <1>6, <1>9, <2>1, StepInside
  <2>3. TypeInv'
    BY <1>1, <1>2, <1>3, <1>4, <1>6, <1>9, <2>2 DEF TypeInv, TypeOK, AtToken
  <2>4. BalanceInv'
    BY <1>4, <1>7, <1>9, <2>2 DEF IInv, BalanceInv
  <2>5. OpsSorted'
    BY <1>7, <1>9, <2>2 DEF IInv, OpsSorted, CallersSorted
  <2>6. NothingRead' /\ CrashInv'
    BY <1>1, <1>6, <1>9 DEF NothingRead, CrashInv
  <2>. QED
    BY <2>3, <2>4, <2>5, <2>6 DEF IInv
<1>. QED
  BY <1>4, <1>8, <1>9

LEMMA OpenSubscriptStep == IInv /\ OpenSubscript => IInv'
<1>. SUFFICES ASSUME IInv, OpenSubscript PROVE IInv'
  OBVIOUS
<1>1. /\ TypeInv /\ cur \in Frame /\ diags \in Nat /\ cur.mode \in BOOLEAN
      /\ pc = "run" /\ pc' = "run" /\ toks' = toks /\ result' = result
  BY DEF IInv, TypeInv, TypeOK, OpenSubscript, Scanning, Frame
<1>2. /\ pos \in Nat /\ Len(toks) \in Nat
      /\ pos \in 1..Len(toks)-1 /\ pos + 1 \in 1..Len(toks)
  BY <1>1, AtPos DEF OpenSubscript, OpenToks
<1>. DEFINE twin == FindTwin(pos, "L_SQBRACKET", "R_SQBRACKET")
            r_bracket == IF twin = 0 THEN pos ELSE twin
            subscr == [cur EXCEPT !.pend = NewOp(cur.mode), !.phase = "shift"]
<1>3. r_bracket \in 1..Len(toks)-1
  <2>1. twin # 0 => twin \in pos+1..Len(toks)-1
    BY <1>1, <1>2, FindTwinType DEF TypeInv, TypeOK
  <2>. QED
    BY <1>2, <2>1
<1>4. /\ diags' \in Nat
      /\ diags' = 0 => diags = 0 /\ ~IsUnexpected(toks[pos], cur.mode)
      /\ callers' = Append(callers, subscr)
      /\ cur' = NewFrame("subscr", pos + 1, r_bracket)
      /\ pos' = pos + 1
  BY <1>1 DEF OpenSubscript, Complaint
<1>5. NewOp(cur.mode) \in Op /\ NewOp(cur.mode).type = ExprType(toks[pos], cur.mode)
  BY <1>1, <1>2, NewOpType DEF OpenSubscript, OpenToks, NewOp
<1>6. /\ subscr \in Frame
      /\ subscr.kind = cur.kind /\ subscr.close = cur.close
      /\ subscr.ops = cur.ops /\ subscr.out = cur.out /\ subscr.mode = cur.mode
      /\ subscr.pend = NewOp(cur.mode) /\ subscr.phase = "shift"
  BY ZenonT(40), <1>1, <1>5, SuspendedType
<1>7. /\ Balanced(cur) => Balanced(subscr)
      /\ diags' = 0 => ModeFits(subscr)
      /\ Sorted(cur.ops) => Sorted(subscr.ops)
  <2>1. toks[pos] \in OpToks \cup OpenToks
    BY DEF OpenSubscript, OpenToks
  <2>2. diags' = 0 => ModeFits(subscr)
    BY <1>1, <1>4, <1>5, <1>6, <2>1, ModeOfOp DEF ModeFits
  <2>. QED
    BY <1>6, <2>2 DEF Balanced
<1>. HIDE DEF twin, r_bracket, subscr
<1>8. /\ cur' \in Frame /\ cur'.kind = "subscr" /\ cur'.phase = "scan"
      /\ cur'.start = pos + 1 /\ cur'.close = r_bracket
      /\ Balanced(cur') /\ ModeFits(cur') /\ Sorted(cur'.ops)
  <2>1. "subscr" \in Kinds /\ pos + 1 \in Nat /\ r_bracket \in Nat
    BY <1>2, <1>3 DEF Kinds
  <2>2. cur' \in Frame /\ Balanced(cur') /\ ModeFits(cur') /\ Sorted(cur'.ops)
    BY <1>4, <2>1, NewFrameType, NewFrameCounted
  <2>. QED
    BY <1>4, <2>2 DEF NewFrame
<1>9. Placed(cur)' /\ Fits(cur', subscr)
  BY <1>1, <1>3, <1>6, <1>8 DEF Placed, Fits
<1>10. /\ Linked'
       /\ callers' \in Seq(Frame)
       /\ CallersCounted /\ Balanced(subscr) /\ ModeFits(subscr) => CallersCounted'
       /\ CallersSorted /\ Sorted(subscr.ops) => CallersSorted'
  BY <1>1, <1>4, <1>5, <1>6, <1>9, StepCalls
<1>11. TypeInv'
  BY <1>1, <1>2, <1>4, <1>8, <1>10 DEF TypeInv, TypeOK, AtToken
<1>12. BalanceInv'
  BY <1>4, <1>7, <1>8, <1>10 DEF IInv, BalanceInv
<1>13. OpsSorted'
  BY <1>7, <1>8, <1>10 DEF IInv, OpsSorted, CallersSorted
<1>14. NothingRead' /\ CrashInv'
  BY <1>1, <1>2, <1>4, <1>8 DEF NothingRead, CrashInv
<1>. QED
  BY <1>11, <1>12, <1>13, <1>14 DEF IInv

\* What an activation other than the outermost one knows of its caller.
LEMMA CallerFacts ==
  ASSUME IInv, NEW kind \in Kinds \ {"top"}, Returning(kind)
  PROVE  /\ callers # <<>>
         /\ Last(callers) \in Frame
         /\ Placed(Last(callers))
         /\ Fits(cur, Last(callers))
         /\ CallersCounted => Balanced(Last(callers)) /\ ModeFits(Last(callers))
         /\ CallersSorted => Sorted(Last(callers).ops)
         /\ cur.out[1] \in Expr
         /\ pos + 1 \in 1..Len(toks)
         /\ kind \in {"arg", "subscr"} => cur.close \in 1..Len(toks)-1
<1>1. TypeInv /\ callers \in Seq(Frame) /\ cur \in Frame
  BY DEF IInv, TypeInv, TypeOK
<1>2. callers # <<>>
  BY <1>1 DEF TypeInv, Linked, Returning
<1>3. /\ Last(callers) \in Frame
      /\ Last(callers) = callers[Len(callers)]
      /\ Len(callers) \in Nat \ {0}
  BY <1>1, <1>2, TopOfStack
<1>4. Len(callers) \in 1..Len(callers)
  BY <1>3
<1>5. Placed(Last(callers)) /\ Fits(cur, Last(callers))
  BY <1>1, <1>2, <1>3, <1>4 DEF TypeInv, Linked
<1>6. /\ CallersCounted => Balanced(Last(callers)) /\ ModeFits(Last(callers))
      /\ CallersSorted => Sorted(Last(callers).ops)
  BY <1>3, <1>4 DEF CallersCounted, CallersSorted
<1>7. cur.out \in Seq(Expr) /\ Len(cur.out) = 1
  BY <1>1 DEF Frame, Returning
<1>8. pos + 1 \in 1..Len(toks)
  <2>1. toks[pos] \in Ends(cur.kind)
    BY <1>1 DEF TypeInv, AtToken, Returning, Drained
  <2>. QED
    BY <1>1, <2>1, AtPos
<1>9. kind \in {"arg", "subscr"} => cur.close \in 1..Len(toks)-1
  BY <1>1 DEF TypeInv, Linked, Placed, Returning
<1>. QED
  BY <1>2, <1>3, <1>5, <1>6, <1>7, <1>8, <1>9

LEMMA ReturnSubexprStep == IInv /\ ReturnSubexpr => IInv'
<1>. SUFFICES ASSUME IInv, ReturnSubexpr PROVE IInv'
  OBVIOUS
<1>1. /\ TypeInv /\ diags \in Nat /\ pc = "run" /\ pc' = "run" /\ pos' = pos + 1
      /\ UNCHANGED <<toks, diags, result>> /\ callers' = Front(callers)
      /\ Returning("sub") /\ "sub" \in Kinds \ {"top"}
  BY DEF IInv, TypeInv, TypeOK, ReturnSubexpr, Returning, Drained, Kinds
<1>. DEFINE f == Last(callers)
            out == Append(f.out, cur.out[1])
<1>2. /\ callers # <<>> /\ f \in Frame /\ Placed(f) /\ Fits(cur, f)
      /\ CallersCounted => Balanced(f) /\ ModeFits(f)
      /\ CallersSorted => Sorted(f.ops)
      /\ cur.out[1] \in Expr
      /\ pos + 1 \in 1..Len(toks)
  BY <1>1, CallerFacts
<1>3. f.phase = "scan" /\ f.mode = TRUE
  BY <1>1, <1>2 DEF Fits, Returning, Frame
<1>4. cur' = [f EXCEPT !.out = out, !.mode = FALSE]
  BY <1>2 DEF ReturnSubexpr, Frame
<1>. HIDE DEF f
<1>5. f.out \in Seq(Expr)
  BY <1>2 DEF Frame
<1>6. out \in Seq(Expr) /\ out # <<>> /\ Len(out) = Len(f.out) + 1
  BY <1>2, <1>5, PushOnStack
<1>. HIDE DEF out
<1>7. /\ cur' \in Frame
      /\ cur'.kind = f.kind /\ cur'.close = f.close
      /\ cur'.ops = f.ops /\ cur'.out = out
      /\ cur'.mode = FALSE /\ cur'.phase = "scan"
  BY <1>2, <1>3, <1>4, <1>6 DEF Frame
<1>8. Placed(cur)'
  BY <1>1, <1>2, <1>7 DEF Placed
<1>9. /\ Linked'
      /\ callers' \in Seq(Frame)
      /\ CallersCounted => CallersCounted'
      /\ CallersSorted => CallersSorted'
  BY <1>1, <1>2, <1>7, <1>8, StepReturns DEF f
<1>10. TypeInv'
  BY <1>1, <1>2, <1>7, <1>9 DEF TypeInv, TypeOK, AtToken
<1>11. BalanceInv'
  <2>1. f.ops \in Seq(Op) /\ Len(f.out) \in Nat
    BY <1>2, <1>5 DEF Frame
  <2>2. Cardinality(Binaries(f.ops)) \in Nat
    BY <2>1, BinariesFinite
  <2>3. Balanced(f) => Balanced(cur')
    BY <1>3, <1>6, <1>7, <2>1, <2>2 DEF Balanced
  <2>. QED
    BY <1>1, <1>2, <1>7, <1>9, <2>3 DEF IInv, BalanceInv, ModeFits
<1>12. OpsSorted'
  BY <1>2, <1>7, <1>9 DEF IInv, OpsSorted, CallersSorted
<1>13. NothingRead' /\ CrashInv'
  BY <1>1, <1>6, <1>7 DEF NothingRead, CrashInv
<1>. QED
  BY <1>10, <1>11, <1>12, <1>13 DEF IInv

\* The caller goes on from the closing token it had looked up.
LEMMA ResumeStep ==
  ASSUME IInv, NEW kind \in {"arg", "subscr"}, Returning(kind),
         cur' = WithArg(Last(callers)), callers' = Front(callers), pos' = cur.close,
         UNCHANGED <<toks, diags, pc, result>>
  PROVE  IInv'
<1>1. TypeInv /\ pc = "run" /\ kind \in Kinds \ {"top"} /\ cur.kind = kind
  BY DEF IInv, Returning, Drained, Kinds
<1>. DEFINE f == Last(callers)
<1>2. /\ callers # <<>> /\ f \in Frame /\ Placed(f) /\ Fits(cur, f)
      /\ CallersCounted => Balanced(f) /\ ModeFits(f)
      /\ CallersSorted => Sorted(f.ops)
      /\ cur.out[1] \in Expr
      /\ cur.close \in 1..Len(toks)-1
  BY <1>1, CallerFacts
<1>. HIDE DEF f
<1>3. f.phase = "shift" /\ f.pend \in Op
  BY <1>1, <1>2 DEF Fits, Placed
<1>4. /\ WithArg(f) \in Frame
      /\ WithArg(f).pend \in Op
      /\ WithArg(f).pend.type = f.pend.type
      /\ WithArg(f) = [f EXCEPT !.pend = WithArg(f).pend]
  BY <1>2, <1>3, WithArgType
<1>5. cur' = WithArg(f)
  BY DEF f
<1>6. /\ cur' \in Frame
      /\ cur'.kind = f.kind /\ cur'.close = f.close
      /\ cur'.ops = f.ops /\ cur'.out = f.out
      /\ cur'.mode = f.mode /\ cur'.phase = "shift"
      /\ cur'.pend \in Op /\ cur'.pend.type = f.pend.type
  BY <1>2, <1>3, <1>4, <1>5 DEF Frame
<1>7. Placed(cur)'
  BY <1>2, <1>6 DEF Placed
<1>8. /\ Linked'
      /\ callers' \in Seq(Frame)
      /\ CallersCounted => CallersCounted'
      /\ CallersSorted => CallersSorted'
  BY <1>1, <1>2, <1>6, <1>7, StepReturns DEF f
<1>9. TypeInv'
  <2>1. Len(toks) \in Nat /\ cur.close < Len(toks) /\ cur.close \in 1..Len(toks)
    BY <1>1, <1>2, AtPos
  <2>. QED
    BY <1>1, <1>6, <1>8, <2>1 DEF TypeInv, TypeOK, AtToken
<1>10. BalanceInv'
  BY <1>2, <1>3, <1>6, <1>8 DEF IInv, BalanceInv, Balanced, ModeFits
<1>11. OpsSorted'
  BY <1>2, <1>6, <1>8 DEF IInv, OpsSorted, CallersSorted
<1>12. NothingRead' /\ CrashInv'
  BY <1>1, <1>6 DEF NothingRead, CrashInv
<1>. QED
  BY <1>9, <1>10, <1>11, <1>12 DEF IInv

LEMMA LastArgStep == IInv /\ LastArg => IInv'
BY ResumeStep DEF LastArg

LEMMA ReturnSubscriptStep == IInv /\ ReturnSubscript => IInv'
BY ResumeStep DEF ReturnSubscript

\* The top of the callers is replaced, and waits for another activation.
LEMMA StepRepeats ==
  ASSUME TypeInv, UNCHANGED toks, callers # <<>>, NEW g \in Frame,
         callers' = Append(Front(callers), g), g.kind = Last(callers).kind,
         Fits(cur', g), Placed(cur)', Placed(g)
  PROVE  /\ Linked'
         /\ callers' \in Seq(Frame)
         /\ CallersCounted /\ Balanced(g) /\ ModeFits(g) => CallersCounted'
         /\ CallersSorted /\ Sorted(g.ops) => CallersSorted'
<1>1. callers \in Seq(Frame)
  BY DEF TypeInv, TypeOK
<1>. DEFINE below == Front(callers)
            n == Len(callers)
<1>2. /\ below \in Seq(Frame)
      /\ n \in Nat \ {0}
      /\ Len(below) = n - 1
      /\ \A i \in 1..n-1 : below[i] = callers[i]
      /\ Last(callers) = callers[n]
  BY <1>1, TopOfStack
<1>. HIDE DEF below, n
<1>3. /\ callers' \in Seq(Frame)
      /\ callers' # <<>>
      /\ Len(callers') = Len(below) + 1
      /\ \A i \in 1..Len(below) : callers'[i] = below[i]
      /\ callers'[Len(below) + 1] = g
  BY <1>2, PushOnStack DEF below
<1>4. Len(callers') = n /\ callers'[n] = g /\ \A i \in 1..n-1 : callers'[i] = callers[i]
  BY <1>2, <1>3
<1>5. /\ \A i \in 1..n : Placed(callers[i])
      /\ \A i \in 2..n : Fits(callers[i], callers[i-1])
      /\ callers[1].kind = "top"
  BY <1>1, <1>2 DEF TypeInv, Linked, n
<1>6. \A i \in 1..n : i # n => i \in 1..n-1
  BY <1>2
<1>7. \A i \in 1..n : Placed(callers'[i])
  BY <1>4, <1>5, <1>6
<1>8. \A i \in 2..n : Fits(callers'[i], callers'[i-1])
  <2>. SUFFICES ASSUME NEW i \in 2..n PROVE Fits(callers'[i], callers'[i-1])
    OBVIOUS
  <2>1. Fits(callers[i], callers[i-1])
    BY <1>5
  <2>2. i - 1 \in 1..n-1 /\ callers'[i-1] = callers[i-1]
    BY <1>2, <1>4
  <2>3. CASE i = n
    BY <1>2, <1>4, <2>1, <2>2, <2>3 DEF Fits
  <2>4. CASE i # n
    BY <1>2, <1>4, <1>6, <2>1, <2>2, <2>4
  <2>. QED
    BY <2>3, <2>4
<1>9. callers'[1].kind = "top"
  <2>1. CASE n = 1
    BY <1>2, <1>4, <1>5, <2>1
  <2>2. CASE n # 1
    BY <1>2, <1>4, <1>5, <2>2
  <2>. QED
    BY <2>1, <2>2
<1>10. Linked'
  BY <1>2, <1>3, <1>4, <1>7, <1>8, <1>9 DEF Linked, Placed, Fits
<1>11. CallersCounted /\ Balanced(g) /\ ModeFits(g) => CallersCounted'
  BY <1>4, <1>6 DEF CallersCounted, n
<1>12. CallersSorted /\ Sorted(g.ops) => CallersSorted'
  BY <1>4, <1>6 DEF CallersSorted, n
<1>. QED
  BY <1>3, <1>10, <1>11, <1>12

LEMMA NextArgStep == IInv /\ NextArg => IInv'
<1>. SUFFICES ASSUME IInv, NextArg PROVE IInv'
  OBVIOUS
<1>1. /\ TypeInv /\ diags \in Nat /\ pc = "run" /\ pc' = "run" /\ pos' = pos + 1
      /\ UNCHANGED <<toks, diags, result>>
      /\ callers' = Append(Front(callers), WithArg(Last(callers)))
      /\ cur' = NewFrame("arg", pos + 1, cur.close)
      /\ Returning("arg") /\ "arg" \in Kinds \ {"top"} /\ cur.kind = "arg"
  BY DEF IInv, TypeInv, TypeOK, NextArg, Returning, Drained, Kinds
<1>. DEFINE f == Last(callers)
<1>2. /\ callers # <<>> /\ f \in Frame /\ Placed(f) /\ Fits(cur, f)
      /\ CallersCounted => Balanced(f) /\ ModeFits(f)
      /\ CallersSorted => Sorted(f.ops)
      /\ cur.out[1] \in Expr
      /\ pos + 1 \in 1..Len(toks)
      /\ cur.close \in 1..Len(toks)-1
  BY <1>1, CallerFacts
<1>. DEFINE g == WithArg(f)
<1>3. f.phase = "shift" /\ f.pend \in Op
  BY <1>1, <1>2 DEF Fits, Placed
<1>4. /\ g \in Frame
      /\ g.pend \in Op
      /\ g.pend.type = f.pend.type
      /\ g = [f EXCEPT !.pend = g.pend]
  BY <1>2, <1>3, WithArgType
<1>. HIDE DEF g
<1>5. /\ g.kind = f.kind /\ g.close = f.close /\ g.ops = f.ops /\ g.out = f.out
      /\ g.mode = f.mode /\ g.phase = "shift"
  BY <1>2, <1>3, <1>4 DEF Frame
<1>6. /\ cur' \in Frame /\ cur'.kind = "arg" /\ cur'.close = cur.close
      /\ cur'.start = pos + 1 /\ cur'.phase = "scan"
      /\ Balanced(cur') /\ ModeFits(cur') /\ Sorted(cur'.ops)
  <2>1. pos + 1 \in Nat /\ cur.close \in Nat /\ "arg" \in Kinds
    BY <1>1, <1>2
  <2>2. cur' \in Frame /\ Balanced(cur') /\ ModeFits(cur') /\ Sorted(cur'.ops)
    BY <1>1, <2>1, NewFrameType, NewFrameCounted
  <2>. QED
    BY <1>1, <2>2 DEF NewFrame
<1>7. Placed(cur)' /\ Placed(g) /\ Fits(cur', g)
  BY <1>1, <1>2, <1>4, <1>5, <1>6 DEF Placed, Fits
<1>8. /\ Linked'
      /\ callers' \in Seq(Frame)
      /\ CallersCounted /\ Balanced(g) /\ ModeFits(g) => CallersCounted'
      /\ CallersSorted /\ Sorted(g.ops) => CallersSorted'
  BY <1>1, <1>2, <1>4, <1>5, <1>7, StepRepeats DEF g
<1>9. TypeInv'
  BY <1>1, <1>2, <1>6, <1>8 DEF TypeInv, TypeOK, AtToken
<1>10. (Balanced(f) => Balanced(g)) /\ (ModeFits(f) => ModeFits(g))
  BY <1>3, <1>4, <1>5 DEF Balanced, ModeFits
<1>11. BalanceInv'
  BY <1>1, <1>2, <1>6, <1>8, <1>10 DEF IInv, BalanceInv
<1>12. OpsSorted'
  BY <1>2, <1>5, <1>6, <1>8 DEF IInv, OpsSorted, CallersSorted
<1>13. NothingRead' /\ CrashInv'
  BY <1>1, <1>2, <1>6 DEF NothingRead, CrashInv
<1>. QED
  BY <1>9, <1>11, <1>12, <1>13 DEF IInv

LEMMA StutterStep == IInv /\ UNCHANGED vars => IInv'
BY DEF vars, IInv, TypeInv, TypeOK, Linked, Placed, AtToken, BalanceInv,
       CallersCounted, OpsSorted, NothingRead, CrashInv

LEMMA NextInv == IInv /\ [Next]_vars => IInv'
BY OperandStep, UnexpectedOperandStep, OperatorStep, OpenSubexprStep, OpenCallStep,
   OpenSubscriptStep, SkipStep, RunOffStep, ShiftReduceStep, ShiftStep, EndExprStep,
   DrainStep, CrashStep, ReturnStep, ReturnSubexprStep, NextArgStep, LastArgStep,
   ReturnSubscriptStep, StutterStep DEF Next

-----------------------------------------------------------------------------
(***************************************************************************)
(* Nested brackets: what is due behind each token, and what one token does *)
(* to it.                                                                  *)
(***************************************************************************)
\* What is due behind each token of an array, and that it is what Due says.
DueStep(due, s, n) ==
  due[n] = IF s[n] \in OpenToks THEN Append(due[n - 1], Closer(s[n]))
           ELSE IF s[n] \in CloseToks /\ due[n - 1] # <<>> THEN Front(due[n - 1])
           ELSE due[n - 1]

LEMMA DueIs ==
  ASSUME NEW s, Len(s) \in Nat
  PROVE  /\ Due(s) \in [0..Len(s) -> Seq(CloseToks)]
         /\ Due(s)[0] = <<>>
         /\ \A n \in 1..Len(s) : DueStep(Due(s), s, n)
<1> DEFINE Made(d, n) == IF s[n] \in OpenToks THEN Append(d, Closer(s[n]))
                         ELSE IF s[n] \in CloseToks /\ d # <<>> THEN Front(d)
                         ELSE d
           next == [n \in 0+1..Len(s) |-> [d \in Seq(CloseToks) |-> Made(d, n)]]
           IsDue(f) == f = [n \in 0..Len(s) |->
                              IF n = 0 THEN <<>>
                              ELSE IF s[n] \in OpenToks THEN Append(f[n - 1], Closer(s[n]))
                              ELSE IF s[n] \in CloseToks /\ f[n - 1] # <<>> THEN Front(f[n - 1])
                              ELSE f[n - 1]]
           due == CHOOSE f : IsDue(f)
<1>1. Due(s) = due BY DEF Due
<1>2. ASSUME NEW n, NEW d \in Seq(CloseToks) PROVE Made(d, n) \in Seq(CloseToks)
  <2>1. Closer(s[n]) \in CloseToks BY DEF Closer, CloseToks
  <2>2. Append(d, Closer(s[n])) \in Seq(CloseToks)
    <3> HIDE DEF CloseToks
    <3> QED BY <2>1
  <2>3. d # <<>> => Front(d) \in Seq(CloseToks) BY TopOfStack
  <2> QED BY <2>2, <2>3
<1>3. next \in [0+1..Len(s) -> [Seq(CloseToks) -> Seq(CloseToks)]]
  <2> HIDE DEF Made
  <2> QED BY <1>2
<1>4. PICK f \in [0..Len(s) -> Seq(CloseToks)] : Iteration(f, 0, Len(s), <<>>, next)
  <2>1. <<>> \in Seq(CloseToks) /\ 0 \in Int /\ Len(s) \in Int OBVIOUS
  <2> HIDE DEF next
  <2> QED BY <1>3, <2>1, Iterates
<1>5. \A n \in 0..Len(s) : f[n] = IF n = 0 THEN <<>> ELSE Made(f[n - 1], n)
  <2>1. f = [n \in 0..Len(s) |-> IF n = 0 THEN <<>> ELSE next[n][f[n - 1]]]
    <3> HIDE DEF next
    <3> QED BY <1>4 DEF Iteration
  <2>2. ASSUME NEW n \in 0..Len(s), n # 0 PROVE next[n][f[n - 1]] = Made(f[n - 1], n)
    <3>1. n \in 0+1..Len(s) /\ n - 1 \in 0..Len(s) BY <2>2
    <3>2. f[n - 1] \in Seq(CloseToks) BY <3>1
    <3> HIDE DEF Made
    <3> QED BY <3>1, <3>2
  <2> HIDE DEF next, Made
  <2> QED BY <2>1, <2>2
<1>6. IsDue(f)
  <2>1. f = [n \in 0..Len(s) |-> f[n]] OBVIOUS
  <2> QED BY <1>5, <2>1
<1>7. IsDue(due)
  <2> HIDE DEF IsDue
  <2> QED BY <1>6
<1>8. due = f
  <2>1. DOMAIN due = 0..Len(s) BY <1>7
  <2> DEFINE T == {n \in 0..Len(s) : due[n] # f[n]}
  <2>2. T = {}
    <3>1. SUFFICES ASSUME T # {} PROVE FALSE OBVIOUS
    <3>2. T \subseteq Nat OBVIOUS
    <3>3. PICK n \in T : \A m \in T : n <= m BY <3>1, <3>2, NatMin
    <3>4. n # 0 BY <1>6, <1>7, <3>3
    <3>5. n - 1 \in 0..Len(s) /\ ~(n <= n - 1) BY <3>3, <3>4
    <3>6. due[n - 1] = f[n - 1] BY <3>3, <3>5
    <3>7. due[n] = Made(due[n - 1], n)
      <4> HIDE DEF due
      <4> QED BY <1>7, <3>3, <3>4
    <3>8. f[n] = Made(f[n - 1], n)
      <4> HIDE DEF Made
      <4> QED BY <1>5, <3>3, <3>4
    <3>9. due[n] = f[n]
      <4> HIDE DEF Made, due
      <4> QED BY SMTT(40), <3>6, <3>7, <3>8
    <3> QED BY <3>3, <3>9
  <2>3. due = [n \in 0..Len(s) |-> due[n]] BY <1>7
  <2> HIDE DEF due
  <2> QED BY SMTT(40), <2>2, <2>3
<1> HIDE DEF due
<1>9. ASSUME NEW n \in 1..Len(s) PROVE DueStep(f, s, n)
  <2>1. f[n] = Made(f[n - 1], n)
    <3>1. n \in 0..Len(s) /\ n # 0 OBVIOUS
    <3> HIDE DEF Made
    <3> QED BY <1>5, <3>1
  <2> QED BY <2>1 DEF DueStep
<1>10. f[0] = <<>> BY <1>5
<1> QED BY <1>1, <1>4, <1>8, <1>9, <1>10

\* A stack of closing tokens.
Stack(d) == d \in Seq(CloseToks)

\* What one token does to the tokens that are due, when the brackets nest.
Kept(d, e) == e = d
Pushed(d, e, r) ==
  /\ Len(e) = Len(d) + 1
  /\ \A k \in 1..Len(d) : e[k] = d[k]
  /\ e[Len(e)] = r
Popped(d, e, r) ==
  /\ Len(d) = Len(e) + 1
  /\ \A k \in 1..Len(e) : e[k] = d[k]
  /\ d[Len(d)] = r

LEMMA DueTypes ==
  ASSUME NEW s, Len(s) \in Nat, NEW n \in 0..Len(s)
  PROVE  Stack(Due(s)[n]) /\ Len(Due(s)[n]) \in Nat
<1> DEFINE due == Due(s)
<1>1. due \in [0..Len(s) -> Seq(CloseToks)] BY DueIs
<1> HIDE DEF due
<1>2. due[n] \in Seq(CloseToks) BY <1>1
<1> QED BY <1>2 DEF due, Stack

LEMMA DueMoves ==
  ASSUME NEW s, Len(s) \in Nat, ProperlyNested(s), NEW n \in 1..Len(s)
  PROVE  /\ s[n] \notin OpenToks \cup CloseToks => Kept(Due(s)[n - 1], Due(s)[n])
         /\ s[n] \in OpenToks => Pushed(Due(s)[n - 1], Due(s)[n], Closer(s[n]))
         /\ s[n] \in CloseToks => Popped(Due(s)[n - 1], Due(s)[n], s[n])
<1> DEFINE due == Due(s)
           d == due[n - 1]
<1>1. DueStep(due, s, n) BY DueIs
<1>2. s[n] \in CloseToks => d # <<>> /\ Last(d) = s[n] BY DEF ProperlyNested
<1>3. d \in Seq(CloseToks)
  <2>1. n - 1 \in 0..Len(s) OBVIOUS
  <2> HIDE DEF due
  <2>2. Stack(Due(s)[n - 1]) BY <2>1, DueTypes
  <2> QED BY <2>2 DEF Stack, due
<1>4. \A t \in CloseToks : t \notin OpenToks BY DEF CloseToks, OpenToks
<1>5. \A t \in OpenToks : Closer(t) \in CloseToks BY DEF Closer, CloseToks
<1> HIDE DEF d, due
<1>6. s[n] \notin OpenToks \cup CloseToks => due[n] = d
  BY <1>1, <1>2 DEF DueStep, d
<1>7. s[n] \in OpenToks => due[n] = Append(d, Closer(s[n]))
  BY <1>1 DEF DueStep, d
<1>8. s[n] \in CloseToks => due[n] = Front(d)
  BY <1>1, <1>2, <1>4 DEF DueStep, d
<1>9. s[n] \in OpenToks => Pushed(d, due[n], Closer(s[n]))
  BY <1>3, <1>5, <1>7, PushOnStack DEF Pushed
<1>10. s[n] \in CloseToks => Popped(d, due[n], s[n])
  <2>1. SUFFICES ASSUME s[n] \in CloseToks PROVE Popped(d, due[n], s[n]) OBVIOUS
  <2>2. /\ Last(d) = d[Len(d)] /\ Len(d) \in Nat \ {0} /\ Len(Front(d)) = Len(d) - 1
        /\ \A i \in 1..Len(d)-1 : Front(d)[i] = d[i]
    BY <1>2, <1>3, <2>1, TopOfStack
  <2> QED BY <1>2, <1>8, <2>1, <2>2 DEF Popped
<1> QED BY <1>6, <1>9, <1>10 DEF Kept, d, due

\* A token changes the number of due tokens by one at most, and none below the last.
LEMMA DueNear ==
  ASSUME NEW s, Len(s) \in Nat, ProperlyNested(s), NEW n \in 1..Len(s)
  PROVE  /\ Len(Due(s)[n]) - Len(Due(s)[n - 1]) \in {-1, 0, 1}
         /\ Len(Due(s)[n]) < Len(Due(s)[n - 1]) <=> s[n] \in CloseToks
         /\ \A k \in 1..Len(Due(s)[n]) :
              k <= Len(Due(s)[n - 1]) => Due(s)[n][k] = Due(s)[n - 1][k]
<1> DEFINE d == Due(s)[n - 1]
           e == Due(s)[n]
<1>1. Len(d) \in Nat /\ Len(e) \in Nat
  <2>1. n - 1 \in 0..Len(s) /\ n \in 0..Len(s) OBVIOUS
  <2> QED BY <2>1, DueTypes
<1>2. /\ s[n] \notin OpenToks \cup CloseToks => Kept(d, e)
      /\ s[n] \in OpenToks => Pushed(d, e, Closer(s[n]))
      /\ s[n] \in CloseToks => Popped(d, e, s[n])
  BY DueMoves
<1>3. \A t \in CloseToks : t \notin OpenToks BY DEF CloseToks, OpenToks
<1> HIDE DEF d, e
<1>4. CASE s[n] \notin OpenToks \cup CloseToks
  BY <1>1, <1>2, <1>4 DEF Kept, d, e
<1>5. CASE s[n] \in OpenToks
  BY <1>1, <1>2, <1>3, <1>5 DEF Pushed, d, e
<1>6. CASE s[n] \in CloseToks
  BY <1>1, <1>2, <1>6 DEF Popped, d, e
<1> QED BY <1>4, <1>5, <1>6

\* What is due outside of the tokens from a to b stays due behind each of them.
LEMMA DuePrefix ==
  ASSUME NEW s, Len(s) \in Nat, ProperlyNested(s), NEW a \in 0..Len(s), NEW b \in a..Len(s),
         NEW m \in Nat, \A n \in a..b : Len(Due(s)[n]) >= m
  PROVE  \A n \in a..b : \A k \in 1..m : Due(s)[n][k] = Due(s)[a][k]
<1> DEFINE due == Due(s)
           T == {n \in a..b : \E k \in 1..m : due[n][k] # due[a][k]}
<1>1. SUFFICES ASSUME T # {} PROVE FALSE OBVIOUS
<1>2. T \subseteq Nat OBVIOUS
<1>3. PICK n \in T : \A i \in T : n <= i
  <2> HIDE DEF T
  <2> QED BY <1>1, <1>2, NatMin
<1>4. n \in a..b /\ n # a OBVIOUS
<1>5. n \in 1..Len(s) /\ n - 1 \in a..b BY <1>4
<1>6. PICK k \in 1..m : due[n][k] # due[a][k] BY <1>3
<1>7. due[n - 1][k] = due[a][k]
  <2>1. n - 1 \notin T
    <3> HIDE DEF T
    <3> QED BY <1>3, <1>4
  <2> QED BY <1>5, <1>6, <2>1
<1>8. Len(due[n]) \in Nat /\ Len(due[n - 1]) \in Nat
  <2>1. n \in 0..Len(s) /\ n - 1 \in 0..Len(s) BY <1>5
  <2> QED BY <2>1, DueTypes
<1>9. Len(due[n]) >= m /\ Len(due[n - 1]) >= m BY <1>4, <1>5
<1>10. \A i \in 1..Len(due[n]) : i <= Len(due[n - 1]) => due[n][i] = due[n - 1][i]
  BY ZenonT(40), <1>5, DueNear
<1> HIDE DEF due
<1>11. k \in 1..Len(due[n]) /\ k <= Len(due[n - 1]) BY SMTT(40), <1>6, <1>8, <1>9
<1> QED BY <1>6, <1>7, <1>10, <1>11

-----------------------------------------------------------------------------
(***************************************************************************)
(* The twin of a bracket.  How often a token is due is what a count of it  *)
(* and of the token that opens it makes: so counting one kind finds, in    *)
(* nested brackets, the token that closes the bracket.                     *)
(***************************************************************************)
\* How often a token is due.
Dues(d, r) == {k \in 1..Len(d) : d[k] = r}

LEMMA DuesFinite ==
  ASSUME NEW d, Len(d) \in Nat, NEW r
  PROVE  IsFiniteSet(Dues(d, r)) /\ Cardinality(Dues(d, r)) \in Nat
<1>1. IsFiniteSet(1..Len(d)) BY FS_Interval
<1>2. Dues(d, r) \in SUBSET (1..Len(d)) BY DEF Dues
<1>3. IsFiniteSet(Dues(d, r)) BY <1>1, <1>2, FS_Subset
<1> QED BY <1>3, FS_CardinalityType

LEMMA DuesPushed ==
  ASSUME NEW d, NEW e, NEW r, NEW q, Len(d) \in Nat, Pushed(d, e, q)
  PROVE  Cardinality(Dues(e, r)) = Cardinality(Dues(d, r)) + (IF q = r THEN 1 ELSE 0)
<1>1. /\ Len(e) = Len(d) + 1
      /\ \A k \in 1..Len(d) : e[k] = d[k]
      /\ e[Len(d) + 1] = q
  BY DEF Pushed
<1>2. CASE q = r
  <2>1. Dues(e, r) = Dues(d, r) \cup {Len(d) + 1} BY <1>1, <1>2 DEF Dues
  <2>2. Len(d) + 1 \notin Dues(d, r) BY DEF Dues
  <2> QED BY <1>2, <2>1, <2>2, DuesFinite, FS_AddElement
<1>3. CASE q # r
  <2>1. Dues(e, r) = Dues(d, r) BY <1>1, <1>3 DEF Dues
  <2> QED BY <1>3, <2>1, DuesFinite
<1> QED BY <1>2, <1>3

\* Each opening token adds the token that closes it to those due, and that takes it away.
LEMMA DuesStep ==
  ASSUME NEW s, Len(s) \in Nat, ProperlyNested(s), NEW n \in 1..Len(s), NEW l \in OpenToks
  PROVE  Cardinality(Dues(Due(s)[n], Closer(l)))
           = Cardinality(Dues(Due(s)[n - 1], Closer(l)))
               + (IF s[n] = l THEN 1 ELSE 0) - (IF s[n] = Closer(l) THEN 1 ELSE 0)
<1> DEFINE d == Due(s)[n - 1]
           e == Due(s)[n]
           r == Closer(l)
<1>1. Len(d) \in Nat /\ Len(e) \in Nat
  <2>1. n - 1 \in 0..Len(s) /\ n \in 0..Len(s) OBVIOUS
  <2> QED BY <2>1, DueTypes
<1>2. /\ s[n] \notin OpenToks \cup CloseToks => Kept(d, e)
      /\ s[n] \in OpenToks => Pushed(d, e, Closer(s[n]))
      /\ s[n] \in CloseToks => Popped(d, e, s[n])
  BY DueMoves
<1>3. /\ \A t \in CloseToks : t \notin OpenToks
      /\ \A t \in OpenToks : Closer(t) = Closer(l) <=> t = l
      /\ r \in CloseToks
  BY DEF CloseToks, OpenToks, Closer
<1> HIDE DEF d, e, r
<1>4. Cardinality(Dues(d, r)) \in Nat /\ Cardinality(Dues(e, r)) \in Nat
  BY <1>1, DuesFinite
<1>5. CASE s[n] \notin OpenToks \cup CloseToks
  <2>1. e = d BY <1>2, <1>5 DEF Kept
  <2>2. s[n] # l /\ s[n] # r BY <1>3, <1>5
  <2> QED BY <1>4, <2>1, <2>2 DEF d, e, r
<1>6. CASE s[n] \in OpenToks
  <2>1. Pushed(d, e, Closer(s[n])) BY <1>2, <1>6
  <2>2. Cardinality(Dues(e, r))
          = Cardinality(Dues(d, r)) + (IF Closer(s[n]) = r THEN 1 ELSE 0)
    BY <1>1, <2>1, DuesPushed
  <2>3. s[n] # r /\ (Closer(s[n]) = r <=> s[n] = l) BY <1>3, <1>6 DEF r
  <2> QED BY <1>4, <2>2, <2>3 DEF d, e, r
<1>7. CASE s[n] \in CloseToks
  <2>1. Pushed(e, d, s[n]) BY <1>1, <1>2, <1>7 DEF Popped, Pushed
  <2>2. Cardinality(Dues(d, r))
          = Cardinality(Dues(e, r)) + (IF s[n] = r THEN 1 ELSE 0)
    BY <1>1, <2>1, DuesPushed
  <2>3. s[n] # l BY <1>3, <1>7
  <2> QED BY <1>4, <2>2, <2>3 DEF d, e, r
<1> QED BY <1>5, <1>6, <1>7

LEMMA CountStep ==
  ASSUME NEW t, NEW a \in Nat, NEW n \in Nat, a <= n
  PROVE  /\ Count(t, a, n - 1) \in Nat
         /\ Count(t, a, n) = Count(t, a, n - 1) + (IF toks[n] = t THEN 1 ELSE 0)
<1> DEFINE K == {k \in a..n-1 : toks[k] = t}
           M == {k \in a..n : toks[k] = t}
<1>1. IsFiniteSet(K)
  <2>1. IsFiniteSet(a..n-1) BY FS_Interval
  <2>2. K \in SUBSET (a..n-1) OBVIOUS
  <2> QED BY <2>1, <2>2, FS_Subset
<1>2. n \notin K OBVIOUS
<1>3. M = IF toks[n] = t THEN K \cup {n} ELSE K OBVIOUS
<1> HIDE DEF K, M
<1>4. Cardinality(K) \in Nat BY <1>1, FS_CardinalityType
<1>5. Cardinality(M) = Cardinality(K) + (IF toks[n] = t THEN 1 ELSE 0)
  BY <1>1, <1>2, <1>3, <1>4, FS_AddElement
<1> QED BY <1>4, <1>5 DEF Count, K, M

LEMMA CountNone ==
  ASSUME NEW t, NEW a \in Nat
  PROVE  Count(t, a + 1, a) = 0
<1>1. {k \in a+1..a : toks[k] = t} = {} OBVIOUS
<1> QED BY <1>1, FS_EmptySet DEF Count

\* How often a token is due behind b and behind a differ by what was opened between.
LEMMA DuesBalance ==
  ASSUME Len(toks) \in Nat, ProperlyNested(toks), NEW l \in OpenToks,
         NEW a \in 0..Len(toks), NEW b \in a..Len(toks)
  PROVE  Cardinality(Dues(Due(toks)[b], Closer(l))) - Cardinality(Dues(Due(toks)[a], Closer(l)))
           = Count(l, a + 1, b) - Count(Closer(l), a + 1, b)
<1> DEFINE r == Closer(l)
           N(n) == Cardinality(Dues(Due(toks)[n], r))
           T == {n \in a..b : N(n) - N(a) # Count(l, a + 1, n) - Count(r, a + 1, n)}
<1>1. SUFFICES ASSUME T # {} PROVE FALSE OBVIOUS
<1>2. T \subseteq Nat OBVIOUS
<1>3. PICK n \in T : \A i \in T : n <= i
  <2> HIDE DEF T
  <2> QED BY <1>1, <1>2, NatMin
<1>4. \A i \in 0..Len(toks) : N(i) \in Nat BY DueTypes, DuesFinite
<1>5. n # a
  <2>1. SUFFICES ASSUME n = a PROVE FALSE OBVIOUS
  <2>2. Count(l, a + 1, a) = 0 /\ Count(r, a + 1, a) = 0 BY CountNone
  <2>3. N(n) - N(a) # Count(l, a + 1, n) - Count(r, a + 1, n) OBVIOUS
  <2>4. N(a) \in Nat BY <1>4
  <2> HIDE DEF T, N, r
  <2> QED BY <2>1, <2>2, <2>3, <2>4
<1>6. n \in a..b /\ n \in 1..Len(toks) /\ n - 1 \in a..b /\ a + 1 <= n BY <1>5
<1>7. N(n - 1) - N(a) = Count(l, a + 1, n - 1) - Count(r, a + 1, n - 1)
  <2>1. n - 1 \notin T
    <3> HIDE DEF T
    <3> QED BY <1>3, <1>6
  <2> QED BY <1>6, <2>1
<1>8. N(n) = N(n - 1) + (IF toks[n] = l THEN 1 ELSE 0) - (IF toks[n] = r THEN 1 ELSE 0)
  BY <1>6, DuesStep
<1>9. /\ Count(l, a + 1, n - 1) \in Nat
      /\ Count(l, a + 1, n) = Count(l, a + 1, n - 1) + (IF toks[n] = l THEN 1 ELSE 0)
      /\ Count(r, a + 1, n - 1) \in Nat
      /\ Count(r, a + 1, n) = Count(r, a + 1, n - 1) + (IF toks[n] = r THEN 1 ELSE 0)
  BY <1>6, CountStep
<1>10. N(n) - N(a) # Count(l, a + 1, n) - Count(r, a + 1, n) OBVIOUS
<1>11. N(n) \in Nat /\ N(n - 1) \in Nat /\ N(a) \in Nat
  <2>1. n \in 0..Len(toks) /\ n - 1 \in 0..Len(toks) /\ a \in 0..Len(toks) BY <1>6
  <2> HIDE DEF N
  <2> QED BY <1>4, <2>1
<1> HIDE DEF N, r, T
<1>12. PICK x \in Int, y \in Int : /\ x = (IF toks[n] = l THEN 1 ELSE 0)
                                  /\ y = (IF toks[n] = r THEN 1 ELSE 0)
  OBVIOUS
<1>13. PICK p \in Nat, q \in Nat, c \in Nat, d \in Nat :
         p = N(n - 1) /\ q = N(a) /\ c = Count(l, a + 1, n - 1) /\ d = Count(r, a + 1, n - 1)
  BY <1>9, <1>11
<1>14. p - q = c - d BY <1>7, <1>13
<1>15. /\ N(n) - N(a) = (p + x - y) - q
       /\ Count(l, a + 1, n) - Count(r, a + 1, n) = (c + x) - (d + y)
  BY <1>8, <1>9, <1>12, <1>13
<1>16. (p + x - y) - q = (c + x) - (d + y) BY <1>14
<1> QED BY <1>10, <1>15, <1>16

\* The token at c closes the k-th bracket that is open behind h.
ClosedAt(s, k, h, c) ==
  /\ c \in h+1..Len(s)
  /\ Len(Due(s)[c]) < k
  /\ \A n \in h..c-1 : Len(Due(s)[n]) >= k

\* Whatever is open is closed somewhere.
LEMMA ClosedSomewhere ==
  ASSUME NEW s, Len(s) \in Nat, ProperlyNested(s), NEW h \in 0..Len(s),
         NEW k \in 1..Len(Due(s)[h])
  PROVE  \E c \in h+1..Len(s) : ClosedAt(s, k, h, c)
<1> DEFINE T == {n \in h..Len(s) : Len(Due(s)[n]) < k}
<1>1. T \subseteq Nat OBVIOUS
<1>2. Len(s) \in T
  <2>1. Due(s)[Len(s)] = <<>> BY DEF ProperlyNested
  <2> QED BY <2>1
<1>3. PICK c \in T : \A i \in T : c <= i
  <2>1. T # {} BY <1>2
  <2> HIDE DEF T
  <2> QED BY <1>1, <2>1, NatMin
<1>4. c \in h..Len(s) /\ Len(Due(s)[c]) < k OBVIOUS
<1>5. Len(Due(s)[h]) \in Nat BY DueTypes
<1>6. c # h BY <1>4, <1>5
<1>7. ASSUME NEW n \in h..c-1 PROVE Len(Due(s)[n]) >= k
  <2>1. n \in h..Len(s) /\ ~(c <= n) BY <1>4
  <2>2. n \notin T
    <3> HIDE DEF T
    <3> QED BY <1>3, <2>1
  <2>3. Len(Due(s)[n]) \in Nat BY <2>1, DueTypes
  <2> QED BY <2>1, <2>2, <2>3
<1> QED BY <1>4, <1>6, <1>7 DEF ClosedAt

\* midpar_find_twin_generic counts one kind of bracket only; when all kinds nest, what
\* it finds is the token that closes the bracket at a.
LEMMA TwinCloses ==
  ASSUME TokenArray(toks), ProperlyNested(toks), NEW a \in 1..Len(toks),
         toks[a] \in OpenToks
  PROVE  /\ FindTwin(a, toks[a], Closer(toks[a])) \in a+1..Len(toks)-1
         /\ ClosedAt(toks, Len(Due(toks)[a]), a, FindTwin(a, toks[a], Closer(toks[a])))
<1> DEFINE l == toks[a]
           r == Closer(l)
           due == Due(toks)
           m == Len(due[a])
           N(n) == Cardinality(Dues(due[n], r))
<1>1. Len(toks) \in Nat /\ toks[Len(toks)] = "END" BY DEF TokenArray
<1>2. /\ l \in OpenToks /\ r \in CloseToks /\ "END" \notin CloseToks
  BY DEF OpenToks, CloseToks, Closer
<1>3. \A n \in 0..Len(toks) : Len(due[n]) \in Nat BY <1>1, DueTypes
<1>4. m \in Nat \ {0} /\ due[a][m] = r
  <2>1. Pushed(due[a - 1], due[a], r) BY <1>1, <1>2, DueMoves
  <2>2. a - 1 \in 0..Len(toks) BY <1>1
  <2>3. Len(due[a - 1]) \in Nat BY <1>3, <2>2
  <2> QED BY <2>1, <2>3 DEF Pushed
<1>5. PICK c \in a+1..Len(toks) : ClosedAt(toks, m, a, c)
  <2>1. a \in 0..Len(toks) /\ m \in 1..m BY <1>1, <1>4
  <2> QED BY <1>1, <2>1, ClosedSomewhere
<1>6. Len(due[c]) < m /\ \A n \in a..c-1 : Len(due[n]) >= m BY <1>5 DEF ClosedAt
<1>7. ASSUME NEW n \in a..c-1 PROVE \A k \in 1..m : due[n][k] = due[a][k]
  <2>1. a \in 0..Len(toks) /\ c - 1 \in a..Len(toks) /\ m \in Nat BY <1>1, <1>4
  <2>2. \A i \in a..c-1 : \A k \in 1..m : due[i][k] = due[a][k]
    <3> HIDE DEF m, due
    <3> QED BY ZenonT(40), <1>1, <1>6, <2>1, DuePrefix DEF due
  <2> QED BY <2>2
<1>8. ASSUME NEW n \in a+1..c
      PROVE  /\ Count(r, a + 1, n - 1) \in Nat /\ Count(l, a + 1, n - 1) \in Nat
             /\ N(n - 1) \in Nat /\ N(a) \in Nat
             /\ N(n - 1) - N(a) = Count(l, a + 1, n - 1) - Count(r, a + 1, n - 1)
  <2>1. a \in 0..Len(toks) /\ n - 1 \in a..Len(toks) /\ n - 1 \in 0..Len(toks) BY <1>1
  <2>2. N(n - 1) \in Nat /\ N(a) \in Nat BY <1>3, <2>1, DuesFinite
  <2>3. Count(r, a + 1, n - 1) \in Nat /\ Count(l, a + 1, n - 1) \in Nat
    BY <2>1, CountStep
  <2>4. N(n - 1) - N(a) = Count(l, a + 1, n - 1) - Count(r, a + 1, n - 1)
    BY <1>1, <1>2, <2>1, DuesBalance
  <2> QED BY <2>2, <2>3, <2>4
<1>9. c \in 1..Len(toks) /\ c - 1 \in 0..Len(toks) /\ c - 1 \in a..c-1 /\ c \in 0..Len(toks)
  BY <1>1
<1>10. Len(due[c]) \in Nat /\ Len(due[c - 1]) \in Nat BY <1>3, <1>9
<1>11. toks[c] \in CloseToks /\ Len(due[c - 1]) = m
  <2>1. Len(due[c]) - Len(due[c - 1]) \in {-1, 0, 1} BY <1>1, <1>9, DueNear
  <2>2. Len(due[c]) < Len(due[c - 1]) <=> toks[c] \in CloseToks BY <1>1, <1>9, DueNear
  <2>3. Len(due[c - 1]) >= m BY <1>6, <1>9
  <2> HIDE DEF due, m
  <2> QED BY SMTT(40), <1>4, <1>6, <1>10, <2>1, <2>2, <2>3
<1>12. toks[c] = r
  <2>1. Popped(due[c - 1], due[c], toks[c]) BY <1>1, <1>9, <1>11, DueMoves
  <2>2. due[c - 1][m] = toks[c] BY <1>11, <2>1 DEF Popped
  <2>3. due[c - 1][m] = due[a][m] BY <1>4, <1>7, <1>9
  <2> QED BY <1>4, <2>2, <2>3
<1>13. c \in a+1..Len(toks)-1
  <2>1. c # Len(toks) BY <1>1, <1>2, <1>11
  <2> QED BY <1>1, <2>1
<1>14. c \in Twins(a, l, r)
  <2>1. Dues(due[c - 1], r) = Dues(due[a], r)
    <3>1. \A k \in 1..m : due[c - 1][k] = due[a][k] BY <1>7, <1>9
    <3> HIDE DEF due, r
    <3> QED BY <1>11, <3>1 DEF Dues
  <2>2. N(c - 1) = N(a) BY <2>1
  <2>3. Count(r, a + 1, c - 1) = Count(l, a + 1, c - 1)
    <3> HIDE DEF N, r, l
    <3> QED BY <1>8, <2>2
  <2> QED BY <1>12, <1>13, <2>3 DEF Twins, IsTwin
<1>15. ASSUME NEW i \in Twins(a, l, r), i < c PROVE FALSE
  <2>1. i \in a+1..c-1 /\ toks[i] = r /\ Count(r, a + 1, i - 1) = Count(l, a + 1, i - 1)
    BY <1>1, <1>15 DEF Twins, IsTwin
  <2>2. i \in 1..Len(toks) /\ i - 1 \in 0..Len(toks) /\ i - 1 \in a..c-1 /\ i \in a+1..c
        /\ i \in 0..Len(toks)
    BY <1>1, <2>1
  <2>3. Popped(due[i - 1], due[i], r) BY <1>1, <1>2, <2>1, <2>2, DueMoves
  <2>4. Len(due[i]) >= m BY <1>6, <2>1
  <2>5. Len(due[i]) \in Nat /\ Len(due[i - 1]) \in Nat BY <1>3, <2>2
  <2> DEFINE e == due[i - 1]
             top == Len(due[i - 1])
  <2>6. top > m /\ e[top] = r BY <2>3, <2>4, <2>5 DEF Popped
  <2>7. \A k \in 1..m : e[k] = due[a][k] BY <1>7, <2>2
  <2>8. Dues(due[a], r) \cup {top} \in SUBSET Dues(e, r) /\ top \notin Dues(due[a], r)
    <3> HIDE DEF due, r
    <3> QED BY SMTT(40), <1>4, <2>5, <2>6, <2>7 DEF Dues
  <2>9. IsFiniteSet(Dues(due[a], r)) /\ IsFiniteSet(Dues(e, r))
    <3>1. a \in 0..Len(toks) BY <1>1
    <3> QED BY <1>3, <2>2, <3>1, DuesFinite
  <2>10. N(a) + 1 <= N(i - 1)
    <3> DEFINE D == Dues(due[a], r)
               E == Dues(e, r)
    <3>1. D \cup {top} \in SUBSET E /\ top \notin D /\ IsFiniteSet(D) /\ IsFiniteSet(E)
      BY <2>8, <2>9
    <3> HIDE DEF D, E, top
    <3>2. Cardinality(D \cup {top}) = Cardinality(D) + 1 BY <3>1, FS_AddElement
    <3>3. Cardinality(D \cup {top}) <= Cardinality(E) BY <3>1, FS_Subset
    <3> QED BY <3>2, <3>3 DEF D, E
  <2>11. N(i - 1) = N(a)
    <3> HIDE DEF N, r, l
    <3> QED BY <1>8, <2>1, <2>2
  <2>12. N(a) \in Nat
    <3> HIDE DEF N, r, l
    <3> QED BY <1>8, <2>2
  <2> HIDE DEF N
  <2> QED BY <2>10, <2>11, <2>12
<1>16. FindTwin(a, l, r) = c
  <2> DEFINE T == Twins(a, l, r)
  <2>1. c \in T /\ \A i \in T : ~(i < c) BY <1>14, <1>15
  <2>2. T \subseteq Nat BY <1>1 DEF Twins
  <2>3. T # {} /\ FindTwin(a, l, r) = CHOOSE i \in T : \A j \in T : i <= j
    BY <1>14 DEF FindTwin
  <2>4. \A i \in T : c <= i BY <2>1, <2>2, <1>13
  <2> HIDE DEF T
  <2>5. \A i \in T : (\A j \in T : i <= j) => i = c BY <2>1, <2>2, <2>4
  <2> QED BY <2>1, <2>3, <2>4, <2>5
<1> QED BY <1>5, <1>13, <1>16

-----------------------------------------------------------------------------
(***************************************************************************)
(* The activations inside the outermost one, each with the bracket it is   *)
(* in: what it was called for and, where that was looked up, its end.      *)
(***************************************************************************)
Act == [kind : Kinds \ {"top"}, close : Nat]

Closing(kind) == IF kind = "subscr" THEN "R_SQBRACKET" ELSE "R_PAREN"

\* Behind the token at h, the k-th activation awaits the token that is k-th due.
Awaits(s, acts, h) ==
  /\ acts \in Seq(Act)
  /\ h \in 0..Len(s)
  /\ Len(Due(s)[h]) = Len(acts)
  /\ \A k \in 1..Len(acts) : Due(s)[h][k] = Closing(acts[k].kind)
  /\ \A k \in 1..Len(acts) : acts[k].kind # "sub" => ClosedAt(s, k, h, acts[k].close)

\* The end token outside of all brackets is still ahead.
EndAhead(s, h) == \E n \in h+1..Len(s) : s[n] \in TopEnds /\ Due(s)[n - 1] = <<>>

\* The same of the token behind h.
LEMMA DueMovesOn ==
  ASSUME NEW s, Len(s) \in Nat, ProperlyNested(s), NEW h \in 0..Len(s), h + 1 \in 1..Len(s)
  PROVE  /\ s[h + 1] \notin OpenToks \cup CloseToks => Kept(Due(s)[h], Due(s)[h + 1])
         /\ s[h + 1] \in OpenToks => Pushed(Due(s)[h], Due(s)[h + 1], Closer(s[h + 1]))
         /\ s[h + 1] \in CloseToks => Popped(Due(s)[h], Due(s)[h + 1], s[h + 1])
<1> DEFINE n == h + 1
<1>1. n \in 1..Len(s) /\ n - 1 = h OBVIOUS
<1> HIDE DEF n
<1>2. /\ s[n] \notin OpenToks \cup CloseToks => Kept(Due(s)[n - 1], Due(s)[n])
      /\ s[n] \in OpenToks => Pushed(Due(s)[n - 1], Due(s)[n], Closer(s[n]))
      /\ s[n] \in CloseToks => Popped(Due(s)[n - 1], Due(s)[n], s[n])
  BY <1>1, DueMoves
<1> QED BY <1>1, <1>2 DEF n

LEMMA EndStaysAhead ==
  ASSUME NEW s, Len(s) \in Nat, NEW h \in 0..Len(s), EndAhead(s, h),
         s[h + 1] \in TopEnds => Due(s)[h] # <<>>
  PROVE  h + 1 \in 1..Len(s) /\ EndAhead(s, h + 1)
<1>1. PICK n \in h+1..Len(s) : s[n] \in TopEnds /\ Due(s)[n - 1] = <<>> BY DEF EndAhead
<1>2. n # h + 1 BY <1>1
<1>3. n \in h+1+1..Len(s) BY <1>2
<1> QED BY <1>1, <1>3 DEF EndAhead

\* The ends that were looked up are still ahead as long as nothing of theirs is closed.
LEMMA StillClosed ==
  ASSUME NEW s, Len(s) \in Nat, NEW h \in Nat, NEW k \in Nat, NEW c, ClosedAt(s, k, h, c),
         Len(Due(s)[h + 1]) >= k, Len(Due(s)[h + 1]) \in Nat
  PROVE  ClosedAt(s, k, h + 1, c)
<1>1. c \in h+1..Len(s) /\ Len(Due(s)[c]) < k /\ \A n \in h..c-1 : Len(Due(s)[n]) >= k
  BY DEF ClosedAt
<1>2. c # h + 1 BY <1>1
<1>3. c \in h+1+1..Len(s) BY <1>1, <1>2
<1>4. \A n \in h+1..c-1 : n \in h..c-1 OBVIOUS
<1> QED BY <1>1, <1>3, <1>4 DEF ClosedAt

\* Passing a token that is no bracket.
LEMMA PassPlain ==
  ASSUME NEW s, Len(s) \in Nat, ProperlyNested(s), NEW acts, NEW h, Awaits(s, acts, h),
         h + 1 \in 1..Len(s), s[h + 1] \notin OpenToks \cup CloseToks
  PROVE  Awaits(s, acts, h + 1)
<1>1. /\ acts \in Seq(Act) /\ h \in 0..Len(s)
      /\ Len(Due(s)[h]) = Len(acts)
      /\ \A k \in 1..Len(acts) : Due(s)[h][k] = Closing(acts[k].kind)
      /\ \A k \in 1..Len(acts) : acts[k].kind # "sub" => ClosedAt(s, k, h, acts[k].close)
  BY DEF Awaits
<1>2. Due(s)[h + 1] = Due(s)[h]
  BY <1>1, DueMovesOn DEF Kept
<1>3. ASSUME NEW k \in 1..Len(acts), acts[k].kind # "sub"
      PROVE  ClosedAt(s, k, h + 1, acts[k].close)
  <2>1. ClosedAt(s, k, h, acts[k].close) BY <1>1, <1>3
  <2>2. Len(acts) \in Nat /\ h \in Nat /\ k \in Nat BY <1>1
  <2>3. Len(Due(s)[h + 1]) = Len(acts) BY <1>1, <1>2
  <2>4. Len(Due(s)[h + 1]) >= k /\ Len(Due(s)[h + 1]) \in Nat BY <2>2, <2>3
  <2> QED BY <2>1, <2>2, <2>4, StillClosed
<1>4. h + 1 \in 0..Len(s) OBVIOUS
<1> QED BY <1>1, <1>2, <1>3, <1>4 DEF Awaits

\* Passing an opening token, for which an activation is added.
LEMMA PassOpen ==
  ASSUME NEW s, Len(s) \in Nat, ProperlyNested(s), NEW acts, NEW h, Awaits(s, acts, h),
         h + 1 \in 1..Len(s), s[h + 1] \in OpenToks, NEW a \in Act,
         Closing(a.kind) = Closer(s[h + 1]),
         a.kind # "sub" => ClosedAt(s, Len(Due(s)[h + 1]), h + 1, a.close)
  PROVE  Awaits(s, Append(acts, a), h + 1)
<1>1. /\ acts \in Seq(Act) /\ h \in 0..Len(s)
      /\ Len(Due(s)[h]) = Len(acts)
      /\ \A k \in 1..Len(acts) : Due(s)[h][k] = Closing(acts[k].kind)
      /\ \A k \in 1..Len(acts) : acts[k].kind # "sub" => ClosedAt(s, k, h, acts[k].close)
  BY DEF Awaits
<1>2. Len(acts) \in Nat /\ h \in Nat BY <1>1
<1>3. Pushed(Due(s)[h], Due(s)[h + 1], Closer(s[h + 1])) BY <1>1, DueMovesOn
<1> DEFINE e == Due(s)[h + 1]
           more == Append(acts, a)
<1>4. /\ Len(e) = Len(acts) + 1
      /\ \A k \in 1..Len(acts) : e[k] = Due(s)[h][k]
      /\ e[Len(acts) + 1] = Closer(s[h + 1])
  BY <1>1, <1>3 DEF Pushed
<1>5. /\ more \in Seq(Act) /\ Len(more) = Len(acts) + 1
      /\ \A k \in 1..Len(acts) : more[k] = acts[k]
      /\ more[Len(acts) + 1] = a
  BY <1>1, PushOnStack
<1>6. ASSUME NEW k \in 1..Len(acts), acts[k].kind # "sub"
      PROVE  ClosedAt(s, k, h + 1, acts[k].close)
  <2>1. ClosedAt(s, k, h, acts[k].close) BY <1>1, <1>6
  <2>2. k \in Nat /\ Len(e) >= k /\ Len(e) \in Nat BY <1>2, <1>4
  <2> QED BY <1>2, <2>1, <2>2, StillClosed
<1>7. h + 1 \in 0..Len(s) OBVIOUS
<1> HIDE DEF e, more
<1>8. ASSUME NEW k \in 1..Len(more)
      PROVE  /\ e[k] = Closing(more[k].kind)
             /\ more[k].kind # "sub" => ClosedAt(s, k, h + 1, more[k].close)
  <2>1. CASE k = Len(acts) + 1 BY <1>4, <1>5, <2>1 DEF e
  <2>2. CASE k # Len(acts) + 1
    <3>1. k \in 1..Len(acts) BY <1>2, <1>5, <2>2
    <3> QED BY <1>1, <1>4, <1>5, <1>6, <3>1
  <2> QED BY <2>1, <2>2
<1> QED BY <1>4, <1>5, <1>7, <1>8 DEF Awaits, e, more

\* A closing token is the one the innermost activation awaits; passing it ends that.
LEMMA CloseAwaited ==
  ASSUME NEW s, Len(s) \in Nat, ProperlyNested(s), NEW acts, NEW h, Awaits(s, acts, h),
         h + 1 \in 1..Len(s), s[h + 1] \in CloseToks
  PROVE  /\ acts # <<>>
         /\ s[h + 1] = Closing(acts[Len(acts)].kind)
         /\ acts[Len(acts)].kind # "sub" => acts[Len(acts)].close = h + 1
<1>1. /\ acts \in Seq(Act) /\ h \in 0..Len(s)
      /\ Len(Due(s)[h]) = Len(acts)
      /\ \A k \in 1..Len(acts) : Due(s)[h][k] = Closing(acts[k].kind)
      /\ \A k \in 1..Len(acts) : acts[k].kind # "sub" => ClosedAt(s, k, h, acts[k].close)
  BY DEF Awaits
<1>2. Len(acts) \in Nat /\ h \in Nat /\ h + 1 \in 0..Len(s) BY <1>1
<1>3. Popped(Due(s)[h], Due(s)[h + 1], s[h + 1]) BY <1>1, DueMovesOn
<1>4. Len(Due(s)[h + 1]) \in Nat BY <1>2, DueTypes
<1>5. Len(acts) \in 1..Len(acts) /\ Len(Due(s)[h + 1]) < Len(acts)
  BY <1>1, <1>2, <1>3, <1>4 DEF Popped
<1>6. s[h + 1] = Closing(acts[Len(acts)].kind) BY <1>1, <1>3, <1>5 DEF Popped
<1>7. ASSUME acts[Len(acts)].kind # "sub" PROVE acts[Len(acts)].close = h + 1
  <2> DEFINE c == acts[Len(acts)].close
  <2>1. ClosedAt(s, Len(acts), h, c) BY <1>1, <1>5, <1>7
  <2> HIDE DEF c
  <2>2. c \in h+1..Len(s) /\ \A n \in h..c-1 : Len(Due(s)[n]) >= Len(acts)
    BY <2>1 DEF ClosedAt
  <2>3. h + 1 \notin h..c-1 BY <1>2, <1>4, <1>5, <2>2
  <2> QED BY <1>2, <2>2, <2>3 DEF c
<1> QED BY <1>5, <1>6, <1>7

LEMMA PassClose ==
  ASSUME NEW s, Len(s) \in Nat, ProperlyNested(s), NEW acts, NEW h, Awaits(s, acts, h),
         h + 1 \in 1..Len(s), s[h + 1] \in CloseToks
  PROVE  Awaits(s, Front(acts), h + 1)
<1>1. /\ acts \in Seq(Act) /\ h \in 0..Len(s)
      /\ Len(Due(s)[h]) = Len(acts)
      /\ \A k \in 1..Len(acts) : Due(s)[h][k] = Closing(acts[k].kind)
      /\ \A k \in 1..Len(acts) : acts[k].kind # "sub" => ClosedAt(s, k, h, acts[k].close)
  BY DEF Awaits
<1>2. Len(acts) \in Nat /\ h \in Nat /\ h + 1 \in 0..Len(s) BY <1>1
<1>3. Popped(Due(s)[h], Due(s)[h + 1], s[h + 1]) BY <1>1, DueMovesOn
<1>4. acts # <<>> BY CloseAwaited
<1> DEFINE less == Front(acts)
           e == Due(s)[h + 1]
<1>5. /\ less \in Seq(Act) /\ Len(less) = Len(acts) - 1
      /\ \A k \in 1..Len(acts)-1 : less[k] = acts[k]
  BY <1>1, <1>4, TopOfStack
<1>6. Len(e) \in Nat BY <1>2, DueTypes
<1>7. Len(acts) = Len(e) + 1 /\ \A k \in 1..Len(e) : e[k] = Due(s)[h][k]
  BY <1>1, <1>3 DEF Popped
<1> HIDE DEF less, e
<1>8. ASSUME NEW k \in 1..Len(less)
      PROVE  /\ e[k] = Closing(less[k].kind)
             /\ less[k].kind # "sub" => ClosedAt(s, k, h + 1, less[k].close)
  <2>1. k \in 1..Len(acts) /\ less[k] = acts[k] /\ k \in 1..Len(e) /\ k \in Nat
    BY <1>2, <1>5, <1>6, <1>7
  <2>2. e[k] = Closing(less[k].kind) BY <1>1, <1>7, <2>1
  <2>3. ASSUME less[k].kind # "sub" PROVE ClosedAt(s, k, h + 1, less[k].close)
    <3>1. ClosedAt(s, k, h, less[k].close) BY <1>1, <2>1, <2>3
    <3>2. Len(Due(s)[h + 1]) >= k /\ Len(Due(s)[h + 1]) \in Nat BY <1>6, <2>1 DEF e
    <3> QED BY <1>2, <2>1, <3>1, <3>2, StillClosed
  <2> QED BY <2>2, <2>3
<1>9. Len(e) = Len(less) BY <1>2, <1>5, <1>6, <1>7
<1> QED BY <1>2, <1>5, <1>8, <1>9 DEF Awaits, less, e

-----------------------------------------------------------------------------
(***************************************************************************)
(* The activations of the state, and the token they are behind: an         *)
(* operator that is pushed has been read, and its token is still at pos.   *)
(***************************************************************************)
ActOf(f) == [kind |-> f.kind, close |-> f.close]
Inner(k) == IF k < Len(callers) THEN callers[k + 1] ELSE cur
Waiting == [k \in 1..Len(callers) |-> ActOf(Inner(k))]
Read == IF cur.phase = "shift" THEN pos ELSE pos - 1

Nested ==
  /\ ProperlyNested(toks)
  /\ Awaits(toks, Waiting, Read)
  /\ EndAhead(toks, Read)

\* Popping what was pushed.
LEMMA FrontAppended ==
  ASSUME NEW S, NEW s \in Seq(S), NEW e \in S
  PROVE  Front(Append(s, e)) = s
<1> DEFINE t == Append(s, e)
<1>1. /\ t \in Seq(S) /\ t # <<>> /\ Len(t) = Len(s) + 1 /\ Len(s) \in Nat
      /\ \A i \in 1..Len(s) : t[i] = s[i]
  BY PushOnStack
<1> HIDE DEF t
<1>2. /\ Front(t) \in Seq(S) /\ Len(Front(t)) = Len(s)
      /\ \A i \in 1..Len(s) : Front(t)[i] = t[i]
  <2>1. /\ Front(t) \in Seq(S) /\ Len(Front(t)) = Len(t) - 1
        /\ \A i \in 1..Len(t)-1 : Front(t)[i] = t[i]
    BY <1>1, TopOfStack
  <2>2. Len(t) - 1 = Len(s) BY <1>1
  <2> QED BY <2>1, <2>2
<1>3. Front(t) = s BY <1>1, <1>2, SeqEqual
<1> QED BY <1>3 DEF t

LEMMA WaitingType ==
  ASSUME TypeInv
  PROVE  /\ Waiting \in Seq(Act) /\ Len(Waiting) = Len(callers) /\ Len(callers) \in Nat
         /\ cur.kind # "top" => Waiting # <<>> /\ Waiting[Len(Waiting)] = ActOf(cur)
         /\ cur.kind = "top" => Waiting = <<>>
<1>1. cur \in Frame /\ callers \in Seq(Frame) /\ Len(callers) \in Nat
  BY DEF TypeInv, TypeOK
<1>2. /\ callers = <<>> => cur.kind = "top"
      /\ callers # <<>> => cur.kind # "top"
      /\ \A i \in 2..Len(callers) : callers[i].kind # "top"
  BY DEF TypeInv, Linked, Fits
<1>3. ASSUME NEW k \in 1..Len(callers) PROVE ActOf(Inner(k)) \in Act
  <2>1. callers # <<>> BY <1>1
  <2>2. CASE k < Len(callers)
    <3>1. k + 1 \in 2..Len(callers) /\ callers[k + 1] \in Frame BY <1>1, <2>2
    <3> QED BY <1>2, <2>2, <3>1 DEF Inner, ActOf, Act, Frame
  <2>3. CASE ~(k < Len(callers))
    BY <1>1, <1>2, <2>1, <2>3 DEF Inner, ActOf, Act, Frame
  <2> QED BY <2>2, <2>3
<1>4. Waiting \in [1..Len(callers) -> Act] BY <1>3 DEF Waiting
<1>5. Waiting \in Seq(Act) /\ Len(Waiting) = Len(callers) BY <1>1, <1>4
<1>6. ASSUME callers # <<>> PROVE Waiting[Len(callers)] = ActOf(cur)
  <2>1. Len(callers) \in 1..Len(callers) BY <1>1, <1>6
  <2>2. Inner(Len(callers)) = cur BY <1>1 DEF Inner
  <2> QED BY <2>1, <2>2 DEF Waiting
<1>7. callers = <<>> <=> Waiting = <<>> BY <1>1, <1>5
<1> QED BY <1>1, <1>2, <1>5, <1>6, <1>7

\* How a step changes them that stays inside the running activation, ...
LEMMA WaitingInside ==
  ASSUME UNCHANGED callers, cur'.kind = cur.kind, cur'.close = cur.close
  PROVE  Waiting' = Waiting
<1>1. \A k : ActOf(Inner(k))' = ActOf(Inner(k)) BY DEF ActOf, Inner
<1> QED BY <1>1 DEF Waiting

\* ... calls another, ...
LEMMA WaitingCall ==
  ASSUME TypeInv, TypeInv', NEW g \in Frame, callers' = Append(callers, g),
         g.kind = cur.kind, g.close = cur.close
  PROVE  Waiting' = Append(Waiting, ActOf(cur'))
<1>1. callers \in Seq(Frame) /\ Len(callers) \in Nat BY DEF TypeInv, TypeOK
<1>2. Waiting \in Seq(Act) /\ Len(Waiting) = Len(callers) BY WaitingType
<1>3. Waiting' \in Seq(Act) /\ Len(Waiting') = Len(callers') /\ callers' # <<>>
  <2>1. (Waiting \in Seq(Act) /\ Len(Waiting) = Len(callers))' BY WaitingType, PTL
  <2> QED BY <1>1, <2>1, PushOnStack
<1>4. /\ Len(callers') = Len(callers) + 1
      /\ \A i \in 1..Len(callers) : callers'[i] = callers[i]
      /\ callers'[Len(callers) + 1] = g
  BY <1>1, PushOnStack
<1>5. \A k \in 1..Len(callers)+1 :
        Waiting'[k] = IF k < Len(callers) + 1 THEN ActOf(callers'[k + 1]) ELSE ActOf(cur')
  BY <1>4 DEF Waiting, Inner, ActOf
<1>6. \A k \in 1..Len(callers) :
        Waiting[k] = IF k < Len(callers) THEN ActOf(callers[k + 1]) ELSE ActOf(cur)
  BY DEF Waiting, Inner
<1>7. ActOf(g) = ActOf(cur) BY DEF ActOf
<1>8. ActOf(cur') \in Act
  <2>1. Len(callers) + 1 \in 1..Len(Waiting') BY <1>1, <1>3, <1>4
  <2>2. Waiting'[Len(callers) + 1] \in Act BY <1>3, <2>1
  <2>3. Waiting'[Len(callers) + 1] = ActOf(cur') BY <1>1, <1>5
  <2> QED BY <2>2, <2>3
<1> DEFINE more == Append(Waiting, ActOf(cur'))
<1>9. /\ more \in Seq(Act) /\ Len(more) = Len(callers) + 1
      /\ \A i \in 1..Len(callers) : more[i] = Waiting[i]
      /\ more[Len(callers) + 1] = ActOf(cur')
  BY <1>2, <1>8, PushOnStack
<1> HIDE DEF more
<1>10. ASSUME NEW k \in 1..Len(callers)+1 PROVE Waiting'[k] = more[k]
  <2>1. CASE k = Len(callers) + 1 BY <1>1, <1>5, <1>9, <2>1
  <2>2. CASE k = Len(callers)
    <3>1. k \in 1..Len(callers) /\ k < Len(callers) + 1 BY <1>1, <2>2
    <3>2. Waiting'[k] = ActOf(g) BY <1>4, <1>5, <2>2, <3>1
    <3>3. Waiting[k] = ActOf(cur) BY <1>1, <1>6, <2>2, <3>1
    <3> QED BY <1>7, <1>9, <3>1, <3>2, <3>3
  <2>3. CASE k < Len(callers)
    <3>1. k \in 1..Len(callers) /\ k + 1 \in 1..Len(callers) /\ k < Len(callers) + 1
      BY <1>1, <2>3
    <3>2. Waiting'[k] = ActOf(callers[k + 1]) BY <1>4, <1>5, <3>1
    <3>3. Waiting[k] = ActOf(callers[k + 1]) BY <1>6, <2>3, <3>1
    <3> QED BY <1>9, <3>1, <3>2, <3>3
  <2> QED BY <1>1, <2>1, <2>2, <2>3
<1>11. Waiting' = more BY <1>3, <1>4, <1>9, <1>10, SeqEqual
<1> QED BY <1>11 DEF more

\* ... or returns.
LEMMA WaitingReturn ==
  ASSUME TypeInv, TypeInv', callers # <<>>, callers' = Front(callers),
         cur'.kind = Last(callers).kind, cur'.close = Last(callers).close
  PROVE  Waiting' = Front(Waiting)
<1>1. callers \in Seq(Frame) BY DEF TypeInv, TypeOK
<1>2. Waiting \in Seq(Act) /\ Len(Waiting) = Len(callers) BY WaitingType
<1>3. /\ Len(callers) \in Nat \ {0} /\ Len(callers') = Len(callers) - 1
      /\ \A i \in 1..Len(callers)-1 : callers'[i] = callers[i]
      /\ Last(callers) = callers[Len(callers)]
  BY <1>1, TopOfStack
<1>4. Waiting' \in Seq(Act) /\ Len(Waiting') = Len(callers) - 1
  <2>1. (Waiting \in Seq(Act) /\ Len(Waiting) = Len(callers))' BY WaitingType, PTL
  <2> QED BY <1>3, <2>1
<1> DEFINE less == Front(Waiting)
<1>5. /\ less \in Seq(Act) /\ Len(less) = Len(callers) - 1
      /\ \A i \in 1..Len(callers)-1 : less[i] = Waiting[i]
  <2>1. Waiting # <<>> BY <1>2, <1>3
  <2> QED BY <1>2, <2>1, TopOfStack
<1>6. \A k \in 1..Len(callers)-1 :
        Waiting'[k] = IF k < Len(callers) - 1 THEN ActOf(callers'[k + 1]) ELSE ActOf(cur')
  BY <1>3 DEF Waiting, Inner, ActOf
<1>7. \A k \in 1..Len(callers) :
        Waiting[k] = IF k < Len(callers) THEN ActOf(callers[k + 1]) ELSE ActOf(cur)
  BY DEF Waiting, Inner
<1>8. ActOf(cur') = ActOf(callers[Len(callers)]) BY <1>3 DEF ActOf
<1> HIDE DEF less
<1>9. ASSUME NEW k \in 1..Len(callers)-1 PROVE Waiting'[k] = less[k]
  <2>1. k \in 1..Len(callers) /\ k < Len(callers) BY <1>3
  <2>2. Waiting[k] = ActOf(callers[k + 1]) BY <1>7, <2>1
  <2>3. CASE k < Len(callers) - 1
    <3>1. k + 1 \in 1..Len(callers)-1 BY <1>3, <2>3
    <3> QED BY <1>3, <1>5, <1>6, <2>2, <2>3, <3>1
  <2>4. CASE k = Len(callers) - 1
    <3>1. k + 1 = Len(callers) /\ ~(k < Len(callers) - 1) BY <1>3, <2>4
    <3> QED BY <1>5, <1>6, <1>8, <2>2, <3>1
  <2> QED BY <1>3, <2>3, <2>4
<1>10. Waiting' = less BY <1>4, <1>5, <1>9, SeqEqual
<1> QED BY <1>10 DEF less

\* The caller gets an argument, and calls for another up to the same end.
LEMMA WaitingRepeat ==
  ASSUME TypeInv, TypeInv', callers # <<>>, NEW g \in Frame,
         callers' = Append(Front(callers), g), g.kind = Last(callers).kind,
         g.close = Last(callers).close, cur'.kind = cur.kind, cur'.close = cur.close
  PROVE  Waiting' = Waiting
<1>1. callers \in Seq(Frame) BY DEF TypeInv, TypeOK
<1>2. Waiting \in Seq(Act) /\ Len(Waiting) = Len(callers) BY WaitingType
<1> DEFINE below == Front(callers)
<1>3. /\ Len(callers) \in Nat \ {0} /\ Len(below) = Len(callers) - 1 /\ below \in Seq(Frame)
      /\ \A i \in 1..Len(callers)-1 : below[i] = callers[i]
      /\ Last(callers) = callers[Len(callers)]
  BY <1>1, TopOfStack
<1>4. /\ Len(callers') = Len(callers)
      /\ \A i \in 1..Len(callers)-1 : callers'[i] = callers[i]
      /\ callers'[Len(callers)] = g
  <2>1. callers' = Append(below, g) OBVIOUS
  <2> HIDE DEF below
  <2>2. /\ Len(callers') = Len(below) + 1
        /\ \A i \in 1..Len(below) : callers'[i] = below[i]
        /\ callers'[Len(below) + 1] = g
    BY <1>3, <2>1, PushOnStack
  <2> QED BY <1>3, <2>2
<1>5. ASSUME NEW i \in 1..Len(callers) PROVE ActOf(callers'[i]) = ActOf(callers[i])
  <2>1. i \in 1..Len(callers)-1 \/ i = Len(callers) BY <1>3
  <2> QED BY <1>3, <1>4, <2>1 DEF ActOf
<1>6. ActOf(cur') = ActOf(cur) BY DEF ActOf
<1>7. ASSUME NEW k \in 1..Len(callers) PROVE ActOf(Inner(k))' = ActOf(Inner(k))
  <2>1. CASE k < Len(callers)
    <3>1. k + 1 \in 1..Len(callers) BY <1>3, <2>1
    <3>2. ActOf(callers'[k + 1]) = ActOf(callers[k + 1]) BY <1>5, <3>1
    <3> QED BY <1>4, <2>1, <3>2 DEF Inner, ActOf
  <2>2. CASE ~(k < Len(callers)) BY <1>4, <1>6, <2>2 DEF Inner, ActOf
  <2> QED BY <2>1, <2>2
<1> QED BY <1>4, <1>7 DEF Waiting

-----------------------------------------------------------------------------
\* What a step keeps and shows: reading goes on from where it was.
ReadOn == Nested' /\ pos' >= pos /\ pc' # "overrun"

LEMMA MovedOn ==
  ASSUME Nested, UNCHANGED toks, NEW w, NEW h, Waiting' = w, Read' = h,
         Awaits(toks, w, h), EndAhead(toks, h), pos' >= pos, pc' # "overrun"
  PROVE  ReadOn
BY DEF ReadOn, Nested

\* While an activation scans, a closing token is its end, and END is not reached.
LEMMA ScanAhead ==
  ASSUME TypeInv, Nested, Scanning
  PROVE  /\ Len(toks) \in Nat /\ pos - 1 \in 0..Len(toks) /\ pos - 1 + 1 = pos
         /\ pos \in 1..Len(toks) /\ pos \in Nat
         /\ Awaits(toks, Waiting, pos - 1)
         /\ EndAhead(toks, pos)
         /\ toks[pos] \notin CloseToks
         /\ toks[pos] # "END"
<1>1. Len(toks) \in Nat /\ pos \in 1..Len(toks) /\ pos \in Nat BY AtPos
<1>2. pos - 1 \in 0..Len(toks) /\ pos - 1 + 1 = pos BY <1>1
<1>3. ProperlyNested(toks) /\ Awaits(toks, Waiting, pos - 1) /\ EndAhead(toks, pos - 1)
  BY DEF Nested, Read, Scanning
<1>4. /\ Waiting \in Seq(Act)
      /\ cur.kind # "top" => Waiting # <<>> /\ Waiting[Len(Waiting)] = ActOf(cur)
      /\ cur.kind = "top" => Waiting = <<>>
  BY WaitingType
<1>5. cur.kind \in Kinds BY DEF TypeInv, TypeOK, Frame
<1>6. toks[pos] \notin CloseToks
  <2>1. SUFFICES ASSUME toks[pos] \in CloseToks PROVE FALSE OBVIOUS
  <2>2. Waiting # <<>> /\ toks[pos] = Closing(Waiting[Len(Waiting)].kind)
    <3> DEFINE h == pos - 1
    <3>1. h + 1 = pos /\ Awaits(toks, Waiting, h) BY <1>2, <1>3
    <3> HIDE DEF h
    <3> QED BY <1>1, <1>3, <2>1, <3>1, CloseAwaited
  <2>3. cur.kind # "top" /\ toks[pos] = Closing(cur.kind) BY <1>4, <2>2 DEF ActOf
  <2> QED BY <1>5, <2>3 DEF Closing, Scanning, IsEndType, Ends, Kinds
<1>7. toks[pos] \in TopEnds => Due(toks)[pos - 1] # <<>>
  <2>1. SUFFICES ASSUME toks[pos] \in TopEnds PROVE Due(toks)[pos - 1] # <<>> OBVIOUS
  <2>2. cur.kind # "top" BY <2>1 DEF Scanning, IsEndType, Ends
  <2>3. Len(Waiting) # 0 BY <1>4, <2>2, EmptySeq
  <2>4. Len(Due(toks)[pos - 1]) = Len(Waiting) BY <1>3 DEF Awaits
  <2> QED BY <2>3, <2>4
<1>8. EndAhead(toks, pos)
  <2> DEFINE h == pos - 1
  <2>1. h \in 0..Len(toks) /\ h + 1 = pos /\ EndAhead(toks, h) BY <1>2, <1>3
  <2>2. toks[h + 1] \in TopEnds => Due(toks)[h] # <<>> BY <1>7, <2>1
  <2> HIDE DEF h
  <2> QED BY <1>1, <2>1, <2>2, EndStaysAhead
<1>9. toks[pos] # "END"
  <2>1. pos < Len(toks) BY <1>1, <1>8 DEF EndAhead
  <2> QED BY <1>1, <2>1 DEF TypeInv, TypeOK, TokenArray
<1> QED BY <1>1, <1>2, <1>3, <1>6, <1>8, <1>9

LEMMA ScanPlain ==
  ASSUME TypeInv, Nested, Scanning, toks[pos] \notin OpenToks
  PROVE  Awaits(toks, Waiting, pos) /\ EndAhead(toks, pos)
<1> DEFINE h == pos - 1
<1>1. /\ Len(toks) \in Nat /\ h + 1 = pos /\ pos \in 1..Len(toks)
      /\ Awaits(toks, Waiting, h) /\ EndAhead(toks, pos) /\ toks[pos] \notin CloseToks
  BY ScanAhead
<1>2. ProperlyNested(toks) BY DEF Nested
<1> HIDE DEF h
<1> QED BY <1>1, <1>2, PassPlain

LEMMA ScanOpen ==
  ASSUME TypeInv, Nested, Scanning, toks[pos] \in OpenToks, NEW a \in Act,
         Closing(a.kind) = Closer(toks[pos]),
         a.kind # "sub" => a.close = FindTwin(pos, toks[pos], Closer(toks[pos]))
  PROVE  Awaits(toks, Append(Waiting, a), pos) /\ EndAhead(toks, pos)
<1> DEFINE h == pos - 1
<1>1. /\ Len(toks) \in Nat /\ h + 1 = pos /\ pos \in 1..Len(toks)
      /\ Awaits(toks, Waiting, h) /\ EndAhead(toks, pos)
  BY ScanAhead
<1>2. ProperlyNested(toks) /\ TokenArray(toks) BY DEF Nested, TypeInv, TypeOK
<1>3. a.kind # "sub" => ClosedAt(toks, Len(Due(toks)[pos]), pos, a.close)
  BY <1>1, <1>2, TwinCloses
<1> HIDE DEF h
<1> QED BY <1>1, <1>2, <1>3, PassOpen

\* A closing token ends the innermost activation, at the end that was looked up for it;
\* a comma ends an argument, and its call goes on.
LEMMA DrainedAhead ==
  ASSUME TypeInv, Nested, Drained, cur.kind # "top"
  PROVE  /\ Len(toks) \in Nat /\ pos \in Nat /\ pos \in 1..Len(toks)
         /\ EndAhead(toks, pos)
         /\ toks[pos] \in CloseToks =>
              /\ Awaits(toks, Front(Waiting), pos)
              /\ cur.kind # "sub" => cur.close = pos
         /\ toks[pos] \notin OpenToks \cup CloseToks => Awaits(toks, Waiting, pos)
<1> DEFINE h == pos - 1
<1>1. Len(toks) \in Nat /\ pos \in 1..Len(toks) /\ pos \in Nat BY AtPos
<1>2. h \in 0..Len(toks) /\ h + 1 = pos BY <1>1
<1>3. ProperlyNested(toks) /\ Awaits(toks, Waiting, h) /\ EndAhead(toks, h)
  BY DEF Nested, Read, Drained
<1>4. Waiting \in Seq(Act) /\ Waiting # <<>> /\ Waiting[Len(Waiting)] = ActOf(cur)
  BY WaitingType
<1> HIDE DEF h
<1>5. EndAhead(toks, pos)
  <2>1. Len(Due(toks)[h]) = Len(Waiting) BY <1>3 DEF Awaits
  <2>2. Len(Waiting) # 0 BY <1>4, EmptySeq
  <2>3. Due(toks)[h] # <<>> BY <2>1, <2>2
  <2> QED BY <1>1, <1>2, <1>3, <2>3, EndStaysAhead
<1>6. ASSUME toks[pos] \in CloseToks
      PROVE  Awaits(toks, Front(Waiting), pos) /\ (cur.kind # "sub" => cur.close = pos)
  <2>1. Awaits(toks, Front(Waiting), pos) BY <1>1, <1>2, <1>3, <1>6, PassClose
  <2>2. Waiting[Len(Waiting)].kind # "sub" => Waiting[Len(Waiting)].close = pos
    BY <1>1, <1>2, <1>3, <1>6, CloseAwaited
  <2> QED BY <1>4, <2>1, <2>2 DEF ActOf
<1>7. toks[pos] \notin OpenToks \cup CloseToks => Awaits(toks, Waiting, pos)
  BY <1>1, <1>2, <1>3, PassPlain
<1> QED BY <1>1, <1>5, <1>6, <1>7

-----------------------------------------------------------------------------
\* One step per action: what was passed nests, and reading goes on from there.
LEMMA OperandNested == ASSUME IInv, Nested, Operand PROVE ReadOn
<1>1. TypeInv /\ cur \in Frame /\ toks[pos] \notin OpenToks /\ Scanning /\ pos \in Nat
  BY AtPos DEF IInv, TypeInv, TypeOK, Operand, OperandToks, OpenToks
<1>2. cur'.kind = cur.kind /\ cur'.close = cur.close /\ cur'.phase = "scan"
  BY <1>1 DEF Operand, Scanning, Frame
<1>3. Waiting' = Waiting BY <1>2, WaitingInside DEF Operand
<1>4. Read' = pos BY <1>1, <1>2 DEF Read, Operand
<1>5. Awaits(toks, Waiting, pos) /\ EndAhead(toks, pos) BY <1>1, ScanPlain
<1>6. UNCHANGED toks /\ pos' >= pos /\ pc' # "overrun" BY <1>1 DEF Operand, Scanning
<1> QED BY <1>3, <1>4, <1>5, <1>6, MovedOn

LEMMA PassingNested ==
  ASSUME IInv, Nested, UnexpectedOperand \/ Skip
  PROVE  ReadOn
<1>1. /\ TypeInv /\ Scanning /\ pos \in Nat /\ pos' = pos + 1
      /\ UNCHANGED <<toks, cur, callers, pc>>
  BY AtPos DEF IInv, UnexpectedOperand, Skip
<1>2. toks[pos] \notin OpenToks
  BY DEF UnexpectedOperand, Skip, OperandToks, OpenToks, OtherToks
<1>3. Waiting' = Waiting BY <1>1, WaitingInside
<1>4. Read' = pos BY <1>1 DEF Read, Scanning
<1>5. Awaits(toks, Waiting, pos) /\ EndAhead(toks, pos) BY <1>1, <1>2, ScanPlain
<1>6. pos' >= pos /\ pc' # "overrun" BY <1>1 DEF Scanning
<1> QED BY <1>1, <1>3, <1>4, <1>5, <1>6, MovedOn

LEMMA RunOffNested == ASSUME IInv, Nested, RunOff PROVE FALSE
BY ScanAhead DEF IInv, RunOff

LEMMA OperatorNested == ASSUME IInv, Nested, Operator PROVE ReadOn
<1>1. /\ TypeInv /\ cur \in Frame /\ Scanning /\ pos \in Nat
      /\ UNCHANGED <<toks, pos, callers, pc>>
  BY AtPos DEF IInv, TypeInv, TypeOK, Operator
<1>2. toks[pos] \notin OpenToks
  BY DEF Operator, OpToks, OpenToks, BinaryToks, UnaryToks, AssignOps
<1>3. cur'.kind = cur.kind /\ cur'.close = cur.close /\ cur'.phase = "shift"
  BY <1>1 DEF Operator, Frame
<1>4. Waiting' = Waiting BY <1>1, <1>3, WaitingInside
<1>5. Read' = pos BY <1>1, <1>3 DEF Read
<1>6. Awaits(toks, Waiting, pos) /\ EndAhead(toks, pos) BY <1>1, <1>2, ScanPlain
<1>7. pos' >= pos /\ pc' # "overrun" BY <1>1 DEF Scanning
<1> QED BY <1>1, <1>4, <1>5, <1>6, <1>7, MovedOn

\* The steps that read no token: it is at pos that they leave off.
LEMMA InPlaceNested ==
  ASSUME IInv, Nested, UNCHANGED <<toks, callers>>, cur'.kind = cur.kind,
         cur'.close = cur.close, Read' = Read, pos' >= pos, pc' # "overrun"
  PROVE  ReadOn
<1>1. Waiting' = Waiting BY WaitingInside
<1> QED BY <1>1, MovedOn DEF Nested

LEMMA ReduceNested == ASSUME IInv, Nested, ShiftReduce \/ Drain PROVE ReadOn
<1>1. /\ cur \in Frame /\ pos \in Nat /\ cur.ops # <<>> /\ cur' = Reduced(cur)
      /\ pc = "run" /\ UNCHANGED <<toks, pos, callers, pc>>
  BY AtPos DEF IInv, TypeInv, TypeOK, ShiftReduce, Drain, Reduce, MustReduce
<1>2. cur'.kind = cur.kind /\ cur'.close = cur.close /\ cur'.phase = cur.phase
  BY <1>1, ReducedType
<1>3. Read' = Read BY <1>1, <1>2 DEF Read
<1> QED BY <1>1, <1>2, <1>3, InPlaceNested

LEMMA ShiftNested == ASSUME IInv, Nested, Shift PROVE ReadOn
<1>1. cur \in Frame /\ pos \in Nat BY AtPos DEF IInv, TypeInv, TypeOK
<1>2. cur'.kind = cur.kind /\ cur'.close = cur.close /\ cur'.phase = "scan"
  BY <1>1 DEF Shift, Frame
<1>3. Read' = Read /\ pos' >= pos BY <1>1, <1>2 DEF Read, Shift
<1> QED BY <1>2, <1>3, InPlaceNested DEF Shift

LEMMA EndExprNested == ASSUME IInv, Nested, EndExpr PROVE ReadOn
<1>1. cur \in Frame /\ pos \in Nat BY AtPos DEF IInv, TypeInv, TypeOK
<1>2. cur'.kind = cur.kind /\ cur'.close = cur.close /\ cur'.phase = "drain"
  BY <1>1 DEF EndExpr, Frame
<1>3. Read' = Read /\ pos' >= pos BY <1>1, <1>2 DEF Read, EndExpr
<1> QED BY <1>2, <1>3, InPlaceNested DEF EndExpr

LEMMA FinalNested == ASSUME IInv, Nested, Crash \/ Return PROVE ReadOn
<1>1. pos \in Nat BY AtPos DEF IInv
<1>2. UNCHANGED <<toks, callers, cur, pos>> /\ pc' # "overrun" BY DEF Crash, Return
<1>3. Read' = Read BY <1>2 DEF Read
<1> QED BY <1>1, <1>2, <1>3, InPlaceNested

LEMMA OpenSubexprNested == ASSUME IInv, Nested, OpenSubexpr PROVE ReadOn
<1>1. TypeInv /\ TypeInv' /\ cur \in Frame /\ Scanning /\ pos \in Nat /\ pc = "run"
  BY AtPos, OpenSubexprStep DEF IInv, TypeInv, TypeOK, OpenSubexpr, Scanning
<1>2. cur'.kind = "sub" /\ cur'.close = 0 /\ cur'.phase = "scan"
  BY DEF OpenSubexpr, NewFrame
<1>3. Waiting' = Append(Waiting, ActOf(cur')) BY <1>1, WaitingCall DEF OpenSubexpr
<1> DEFINE a == ActOf(cur')
<1>4. a \in Act /\ a.kind = "sub" BY <1>2 DEF ActOf, Act, Kinds
<1>5. toks[pos] \in OpenToks /\ Closing("sub") = Closer(toks[pos])
  BY DEF OpenSubexpr, OpenToks, Closing, Closer
<1> HIDE DEF a
<1>6. Awaits(toks, Append(Waiting, a), pos) /\ EndAhead(toks, pos)
  BY <1>1, <1>4, <1>5, ScanOpen
<1>7. Read' = pos BY <1>1, <1>2 DEF Read, OpenSubexpr
<1>8. UNCHANGED toks /\ pos' >= pos /\ pc' # "overrun" BY <1>1 DEF OpenSubexpr
<1>9. Waiting' = Append(Waiting, a) BY <1>3 DEF a
<1> QED BY <1>6, <1>7, <1>8, <1>9, MovedOn

\* The ")" of the call is found; with no argument in between, it is the next token.
LEMMA OpenCallNested == ASSUME IInv, Nested, OpenCall PROVE ReadOn
<1>1. /\ TypeInv /\ TypeInv' /\ cur \in Frame /\ Scanning /\ pos \in Nat /\ pc = "run"
      /\ UNCHANGED <<toks, pc>> /\ toks[pos] = "L_PAREN" /\ ProperlyNested(toks)
      /\ TokenArray(toks) /\ pos \in 1..Len(toks) /\ Len(toks) \in Nat
  BY AtPos, OpenCallStep DEF IInv, TypeInv, TypeOK, OpenCall, Scanning, Nested
<1>2. toks[pos] \in OpenToks /\ Closer(toks[pos]) = "R_PAREN" /\ Closing("arg") = "R_PAREN"
  BY <1>1 DEF OpenToks, Closer, Closing
<1> DEFINE twin == FindTwin(pos, "L_PAREN", "R_PAREN")
           call == [cur EXCEPT !.pend = NewOp(FALSE), !.phase = "shift"]
           act == [kind |-> "arg", close |-> twin]
<1>3. twin \in pos+1..Len(toks)-1 /\ ClosedAt(toks, Len(Due(toks)[pos]), pos, twin)
  BY <1>1, <1>2, TwinCloses
<1>4. IF pos + 1 < twin
      THEN /\ callers' = Append(callers, call)
           /\ cur' = NewFrame("arg", pos + 1, twin)
           /\ pos' = pos + 1
      ELSE cur' = call /\ pos' = twin /\ UNCHANGED callers
  <2>1. twin # 0 BY <1>1, <1>3
  <2> HIDE DEF twin
  <2> QED BY <2>1 DEF OpenCall, twin
<1>5. call.kind = cur.kind /\ call.close = cur.close /\ call.phase = "shift"
  BY <1>1 DEF Frame
<1>6. act \in Act /\ act.kind = "arg" /\ act.close = twin
  <2>1. twin \in Nat BY <1>1, <1>3
  <2> HIDE DEF twin
  <2> QED BY <2>1 DEF Act, Kinds
<1>7. Awaits(toks, Append(Waiting, act), pos) /\ EndAhead(toks, pos)
  <2> HIDE DEF act
  <2> QED BY <1>1, <1>2, <1>6, ScanOpen
<1>8. CASE pos + 1 < twin
  <2>1. callers' = Append(callers, call) /\ cur' = NewFrame("arg", pos + 1, twin) /\ pos' = pos + 1
    BY <1>4, <1>8
  <2>2. ActOf(cur') = act /\ cur'.phase = "scan" BY <2>1 DEF NewFrame, ActOf
  <2>3. call \in Frame
    <3>1. NewOp(FALSE) \in Op BY <1>1, <1>2, NewOpType
    <3> QED BY <1>1, <3>1 DEF Frame
  <2> HIDE DEF act, call, twin
  <2>4. Waiting' = Append(Waiting, act) BY <1>1, <1>5, <2>1, <2>2, <2>3, WaitingCall
  <2>5. Read' = pos BY <1>1, <2>1, <2>2 DEF Read
  <2>6. pos' >= pos /\ pc' # "overrun" BY <1>1, <2>1
  <2> QED BY <1>1, <1>7, <2>4, <2>5, <2>6, MovedOn
<1>9. CASE ~(pos + 1 < twin)
  <2>1. twin = pos + 1 /\ pos + 1 \in 1..Len(toks)
    <3> HIDE DEF twin
    <3> QED BY <1>1, <1>3, <1>9
  <2>2. cur' = call /\ pos' = pos + 1 /\ UNCHANGED callers BY <1>4, <1>9, <2>1
  <2>3. toks[pos + 1] \in CloseToks
    <3>1. Len(Due(toks)[pos + 1]) < Len(Due(toks)[pos]) BY <1>3, <2>1 DEF ClosedAt
    <3> DEFINE n == pos + 1
    <3>2. n \in 1..Len(toks) /\ n - 1 = pos BY <1>1, <2>1
    <3>3. Len(Due(toks)[n]) < Len(Due(toks)[n - 1]) BY <3>1, <3>2
    <3> HIDE DEF n
    <3>4. toks[n] \in CloseToks BY <1>1, <3>2, <3>3, DueNear
    <3> QED BY <3>4 DEF n
  <2> DEFINE more == Append(Waiting, act)
  <2>4. Front(more) = Waiting
    <3>1. Waiting \in Seq(Act) BY <1>1, WaitingType
    <3> HIDE DEF act
    <3> QED BY <1>6, <3>1, FrontAppended
  <2> HIDE DEF act, call, twin, more
  <2>5. Awaits(toks, Front(more), pos + 1)
    <3>1. Awaits(toks, more, pos) BY <1>7 DEF more
    <3> QED BY <1>1, <2>1, <2>3, <3>1, PassClose
  <2>6. EndAhead(toks, pos + 1)
    <3>1. pos \in 0..Len(toks) BY <1>1
    <3>2. Due(toks)[pos] # <<>>
      <4>1. Len(Due(toks)[pos + 1]) < Len(Due(toks)[pos]) BY <1>3, <2>1 DEF ClosedAt
      <4>2. Len(Due(toks)[pos + 1]) \in Nat
        <5>1. pos + 1 \in 0..Len(toks) BY <2>1
        <5> QED BY <1>1, <5>1, DueTypes
      <4> QED BY <4>1, <4>2
    <3> QED BY <1>1, <1>7, <3>1, <3>2, EndStaysAhead
  <2>7. Waiting' = Waiting BY <1>5, <2>2, WaitingInside
  <2>8. Read' = pos + 1 BY <1>5, <2>2 DEF Read
  <2>9. pos' >= pos /\ pc' # "overrun" BY <1>1, <2>2
  <2> QED BY <1>1, <2>4, <2>5, <2>6, <2>7, <2>8, <2>9, MovedOn
<1> QED BY <1>8, <1>9

LEMMA OpenSubscriptNested == ASSUME IInv, Nested, OpenSubscript PROVE ReadOn
<1>1. /\ TypeInv /\ TypeInv' /\ cur \in Frame /\ Scanning /\ pos \in Nat /\ pc = "run"
      /\ UNCHANGED <<toks, pc>> /\ toks[pos] = "L_SQBRACKET" /\ ProperlyNested(toks)
      /\ TokenArray(toks) /\ pos \in 1..Len(toks) /\ Len(toks) \in Nat /\ cur.mode \in BOOLEAN
  BY AtPos, OpenSubscriptStep DEF IInv, TypeInv, TypeOK, OpenSubscript, Scanning, Nested, Frame
<1>2. /\ toks[pos] \in OpenToks /\ Closer(toks[pos]) = "R_SQBRACKET"
      /\ Closing("subscr") = "R_SQBRACKET"
  BY <1>1 DEF OpenToks, Closer, Closing
<1> DEFINE twin == FindTwin(pos, "L_SQBRACKET", "R_SQBRACKET")
           subscr == [cur EXCEPT !.pend = NewOp(cur.mode), !.phase = "shift"]
           act == [kind |-> "subscr", close |-> twin]
<1>3. twin \in pos+1..Len(toks)-1 BY <1>1, <1>2, TwinCloses
<1>4. callers' = Append(callers, subscr) /\ cur' = NewFrame("subscr", pos + 1, twin) /\ pos' = pos + 1
  <2>1. twin # 0 BY <1>1, <1>3
  <2> HIDE DEF twin
  <2> QED BY <2>1 DEF OpenSubscript, twin
<1>5. subscr.kind = cur.kind /\ subscr.close = cur.close BY <1>1 DEF Frame
<1>6. act \in Act /\ act.kind = "subscr" /\ act.close = twin
  <2>1. twin \in Nat BY <1>1, <1>3
  <2> HIDE DEF twin
  <2> QED BY <2>1 DEF Act, Kinds
<1>7. Awaits(toks, Append(Waiting, act), pos) /\ EndAhead(toks, pos)
  <2> HIDE DEF act
  <2> QED BY <1>1, <1>2, <1>6, ScanOpen
<1>8. ActOf(cur') = act /\ cur'.phase = "scan" BY <1>4 DEF NewFrame, ActOf
<1>9. subscr \in Frame
  <2>1. NewOp(cur.mode) \in Op BY <1>1, <1>2, NewOpType
  <2> QED BY <1>1, <2>1 DEF Frame
<1> HIDE DEF act, subscr, twin
<1>10. Waiting' = Append(Waiting, act) BY <1>1, <1>4, <1>5, <1>8, <1>9, WaitingCall
<1>11. Read' = pos BY <1>1, <1>4, <1>8 DEF Read
<1>12. pos' >= pos /\ pc' # "overrun" BY <1>1, <1>4
<1> QED BY <1>1, <1>7, <1>10, <1>11, <1>12, MovedOn

LEMMA ReturnSubexprNested == ASSUME IInv, Nested, ReturnSubexpr PROVE ReadOn
<1>1. /\ TypeInv /\ TypeInv' /\ cur \in Frame /\ pos \in Nat /\ pc = "run"
      /\ Returning("sub") /\ cur.kind = "sub" /\ Drained
      /\ UNCHANGED <<toks, pc>> /\ callers' = Front(callers) /\ pos' = pos + 1
  BY AtPos, ReturnSubexprStep DEF IInv, TypeInv, TypeOK, ReturnSubexpr, Returning, Drained
<1>2. callers # <<>> /\ Last(callers) \in Frame /\ Fits(cur, Last(callers))
  BY <1>1, CallerFacts DEF Kinds
<1>3. /\ cur'.kind = Last(callers).kind /\ cur'.close = Last(callers).close
      /\ cur'.phase = "scan"
  BY <1>1, <1>2 DEF ReturnSubexpr, Fits, Frame
<1>4. toks[pos] \in CloseToks
  BY <1>1 DEF TypeInv, AtToken, Drained, Ends, CloseToks
<1>5. Awaits(toks, Front(Waiting), pos) /\ EndAhead(toks, pos)
  BY <1>1, <1>4, DrainedAhead
<1>6. Waiting' = Front(Waiting) BY <1>1, <1>2, <1>3, WaitingReturn
<1>7. Read' = pos BY <1>1, <1>3 DEF Read
<1>8. pos' >= pos /\ pc' # "overrun" BY <1>1
<1> QED BY <1>1, <1>5, <1>6, <1>7, <1>8, MovedOn

\* At a ")" the last argument ends, so what has another argument is at a comma.
LEMMA NextArgNested == ASSUME IInv, Nested, NextArg PROVE ReadOn
<1>1. /\ TypeInv /\ TypeInv' /\ pos \in Nat /\ pc = "run" /\ pos + 1 < cur.close
      /\ Returning("arg") /\ cur.kind = "arg" /\ Drained
      /\ UNCHANGED <<toks, pc>> /\ pos' = pos + 1
      /\ callers' = Append(Front(callers), WithArg(Last(callers)))
      /\ cur' = NewFrame("arg", pos + 1, cur.close)
  BY AtPos, NextArgStep DEF IInv, NextArg, Returning, Drained
<1>2. /\ callers # <<>> /\ Last(callers) \in Frame /\ Fits(cur, Last(callers))
      /\ Placed(Last(callers)) /\ cur.out[1] \in Expr
  BY <1>1, CallerFacts DEF Kinds
<1> DEFINE g == WithArg(Last(callers))
<1>3. g \in Frame /\ g.kind = Last(callers).kind /\ g.close = Last(callers).close
  <2>1. Last(callers).pend \in Op BY <1>1, <1>2 DEF Fits, Placed
  <2>2. g \in Frame BY <1>2, <2>1, WithArgType
  <2>3. g.kind = Last(callers).kind /\ g.close = Last(callers).close
    BY <1>2 DEF WithArg, Frame
  <2> QED BY <2>2, <2>3
<1>4. cur'.kind = cur.kind /\ cur'.close = cur.close /\ cur'.phase = "scan"
  BY <1>1 DEF NewFrame
<1>5. Waiting' = Waiting
  <2>1. callers' = Append(Front(callers), g) BY <1>1
  <2> HIDE DEF g
  <2> QED BY <1>1, <1>2, <1>3, <1>4, <2>1, WaitingRepeat
<1>6. toks[pos] \in {"COMMA", "R_PAREN"} BY <1>1 DEF TypeInv, AtToken, Drained, Ends
<1>7. /\ toks[pos] \in CloseToks => cur.close = pos
      /\ toks[pos] \notin OpenToks \cup CloseToks => Awaits(toks, Waiting, pos)
      /\ EndAhead(toks, pos)
  <2>1. cur.kind # "top" /\ cur.kind # "sub" BY <1>1
  <2> QED BY <1>1, <2>1, DrainedAhead
<1>8. toks[pos] = "COMMA" BY <1>1, <1>6, <1>7 DEF CloseToks
<1>9. Awaits(toks, Waiting, pos) BY <1>7, <1>8 DEF OpenToks, CloseToks
<1>10. Read' = pos BY <1>1, <1>4 DEF Read
<1>11. pos' >= pos /\ pc' # "overrun" BY <1>1
<1> QED BY <1>1, <1>5, <1>7, <1>9, <1>10, <1>11, MovedOn

\* The call or subscript is resumed at the closing token that was looked up: it is the
\* one at pos, or the one behind the comma at pos.
LEMMA ResumeNested ==
  ASSUME IInv, Nested, IInv', NEW kind \in {"arg", "subscr"}, Returning(kind),
         cur' = WithArg(Last(callers)), callers' = Front(callers), pos' = cur.close,
         UNCHANGED <<toks, pc>>, kind = "arg" => pos + 1 >= cur.close
  PROVE  ReadOn
<1>1. /\ TypeInv /\ TypeInv' /\ pos \in Nat /\ pc = "run" /\ Len(toks) \in Nat
      /\ cur.kind = kind /\ kind \in Kinds \ {"top"} /\ Drained /\ ProperlyNested(toks)
      /\ pos \in 1..Len(toks)
  BY AtPos DEF IInv, Returning, Drained, Kinds, Nested
<1>2. /\ callers # <<>> /\ Last(callers) \in Frame /\ Fits(cur, Last(callers))
  BY <1>1, CallerFacts
<1>3. /\ cur'.kind = Last(callers).kind /\ cur'.close = Last(callers).close
      /\ cur'.phase = "shift"
  BY <1>1, <1>2 DEF WithArg, Fits, Frame
<1>4. Waiting' = Front(Waiting) BY <1>1, <1>2, <1>3, WaitingReturn
<1>5. Read' = cur.close /\ pc' # "overrun" BY <1>1, <1>3 DEF Read
<1>6. /\ EndAhead(toks, pos)
      /\ toks[pos] \in CloseToks => Awaits(toks, Front(Waiting), pos) /\ cur.close = pos
      /\ toks[pos] \notin OpenToks \cup CloseToks => Awaits(toks, Waiting, pos)
  <2>1. cur.kind # "top" /\ cur.kind # "sub" BY <1>1
  <2> QED BY <1>1, <2>1, DrainedAhead
<1>7. CASE toks[pos] \in CloseToks
  <2>1. pos' >= pos /\ Read' = pos BY <1>1, <1>5, <1>6, <1>7
  <2> QED BY <1>4, <1>5, <1>6, <1>7, <2>1, MovedOn
<1>8. CASE toks[pos] \notin CloseToks
  <2>1. toks[pos] = "COMMA" /\ kind = "arg"
    BY <1>1, <1>8 DEF TypeInv, AtToken, Drained, Ends, CloseToks
  <2>2. Awaits(toks, Waiting, pos) BY <1>6, <2>1 DEF OpenToks, CloseToks
  <2>3. Waiting \in Seq(Act) /\ Waiting # <<>> /\ Waiting[Len(Waiting)] = ActOf(cur)
    BY <1>1, WaitingType
  <2>4. Len(Waiting) \in Nat \ {0} /\ Len(Waiting) \in 1..Len(Waiting)
    <3>1. Len(Waiting) \in Nat \ {0} BY <2>3, EmptySeq
    <3> QED BY <3>1
  <2>5. ClosedAt(toks, Len(Waiting), pos, cur.close)
    <3>1. Waiting[Len(Waiting)].kind # "sub" /\ Waiting[Len(Waiting)].close = cur.close
      BY <1>1, <2>3 DEF ActOf
    <3> QED BY <2>2, <2>4, <3>1 DEF Awaits
  <2>6. /\ cur.close = pos + 1 /\ pos + 1 \in 1..Len(toks)
        /\ Len(Due(toks)[pos + 1]) < Len(Waiting)
    BY <1>1, <2>1, <2>5 DEF ClosedAt
  <2>7. Len(Due(toks)[pos]) = Len(Waiting) BY <2>2 DEF Awaits
  <2>8. toks[pos + 1] \in CloseToks
    <3> DEFINE n == pos + 1
    <3>1. n \in 1..Len(toks) /\ n - 1 = pos BY <1>1, <2>6
    <3>2. Len(Due(toks)[n]) < Len(Due(toks)[n - 1]) BY <2>6, <2>7, <3>1
    <3> HIDE DEF n
    <3>3. toks[n] \in CloseToks BY <1>1, <3>1, <3>2, DueNear
    <3> QED BY <3>3 DEF n
  <2>9. Awaits(toks, Front(Waiting), pos + 1) BY <1>1, <2>2, <2>6, <2>8, PassClose
  <2>10. EndAhead(toks, pos + 1)
    <3>1. pos \in 0..Len(toks) BY <1>1
    <3>2. Due(toks)[pos] # <<>> BY <2>4, <2>7
    <3> QED BY <1>1, <1>6, <3>1, <3>2, EndStaysAhead
  <2>11. pos' >= pos /\ Read' = pos + 1 BY <1>1, <1>5, <2>6
  <2> QED BY <1>4, <1>5, <2>9, <2>10, <2>11, MovedOn
<1> QED BY <1>7, <1>8

LEMMA LastArgNested == ASSUME IInv, Nested, LastArg PROVE ReadOn
BY ResumeNested, LastArgStep DEF LastArg

LEMMA ReturnSubscriptNested == ASSUME IInv, Nested, ReturnSubscript PROVE ReadOn
BY ResumeNested, ReturnSubscriptStep DEF ReturnSubscript

LEMMA NextNested == ASSUME IInv, Nested, Next PROVE ReadOn
BY OperandNested, PassingNested, OperatorNested, OpenSubexprNested, OpenCallNested,
   OpenSubscriptNested, RunOffNested, ReduceNested, ShiftNested, EndExprNested,
   FinalNested, ReturnSubexprNested, NextArgNested, LastArgNested,
   ReturnSubscriptNested DEF Next

\* Before anything is read, no activation is inside a bracket.
LEMMA InitNested == ASSUME Init, ProperlyNested(toks), Ended(toks) PROVE Nested
<1>1. Len(toks) \in Nat BY InputAssumption DEF Init, TokenArray
<1>2. Waiting = <<>>
  <2>1. 1..Len(callers) = {} BY DEF Init
  <2> QED BY <2>1 DEF Waiting
<1>3. Read = 0 BY DEF Init, Read, NewFrame
<1>4. Due(toks)[0] = <<>> BY <1>1, DueIs
<1>5. Awaits(toks, <<>>, 0) BY <1>1, <1>4 DEF Awaits
<1>6. EndAhead(toks, 0) BY DEF Ended, EndAhead
<1> QED BY <1>2, <1>3, <1>5, <1>6 DEF Nested


-----------------------------------------------------------------------------
(***************************************************************************)
(* The theorems, for every Input of token arrays and every TopEnds.        *)
(***************************************************************************)
\* The parser and the activations it is made of keep to the invariant above.
THEOREM Inductive == Spec => []IInv
<1>. QED
  BY InitInv, NextInv, PTL DEF Spec

\* parse_expr_impl keeps i inside the token array until it runs off at END, and
\* only ever pops an operator that is there.
THEOREM TypeCorrect == Spec => []TypeOK
<1>1. IInv => TypeOK
  BY DEF IInv, TypeInv
<1>. QED
  BY <1>1, Inductive, PTL

\* Without a diagnostic, the output stack of each activation of parse_expr_impl
\* holds the operands its binary operators are owed.
THEOREM OperandsBalance == Spec => []OperandBalance
<1>1. IInv => OperandBalance
  BY DEF IInv, BalanceInv, CallersCounted, OperandBalance
<1>. QED
  BY <1>1, Inductive, PTL

\* The loop of push_operator keeps the operator stack in order of precedence.
THEOREM StacksSorted == Spec => []OpsSorted
<1>1. IInv => OpsSorted
  BY DEF IInv
<1>. QED
  BY <1>1, Inductive, PTL

\* parse_expr_impl reaches MID_CRASH without a diagnostic only for an expression
\* of which every token was passed over.
THEOREM SilentCrash == Spec => []SilentCrashOnlyIfEmpty
<1>1. IInv => SilentCrashOnlyIfEmpty
  <2>. SUFFICES ASSUME IInv, pc = "crash", diags = 0
                PROVE  \A k \in cur.start..pos-1 : toks[k] \in OtherToks
    BY DEF SilentCrashOnlyIfEmpty
  <2>1. cur.phase = "drain" /\ cur.ops = <<>> /\ Len(cur.out) # 1
    BY DEF IInv, CrashInv
  <2>2. Len(cur.out) \in {0, 1} /\ cur.out \in Seq(Expr)
    <3>1. cur.out \in Seq(Expr)
      BY DEF IInv, TypeInv, TypeOK, Frame
    <3>2. Len(cur.out) = Cardinality(Binaries(<<>>)) + (IF cur.mode THEN 0 ELSE 1)
      BY <2>1 DEF IInv, BalanceInv, Balanced
    <3>. QED
      BY <3>1, <3>2, BinariesEmpty
  <2>3. cur.out = <<>>
    BY <2>1, <2>2
  <2>. QED
    BY <2>1, <2>3 DEF IInv, NothingRead
<1>. QED
  BY <1>1, Inductive, PTL

\* When the brackets of the tokens nest and an end token is outside of them,
\* parse_expr_impl reads on only, and never past the token array: what a counting of
\* one kind of bracket finds is then where the innermost activation ends.
THEOREM NestedReadsOnce == Spec => NestedReadOnce
<1> DEFINE Good == ProperlyNested(toks) /\ Ended(toks)
           Inv == IInv /\ (Good => Nested)
<1>1. Init => Inv BY InitInv, InitNested
<1>2. Inv /\ [Next]_vars => Inv'
  <2>1. ASSUME Inv, [Next]_vars PROVE IInv' BY <2>1, NextInv
  <2>2. ASSUME Inv, [Next]_vars, Good' PROVE Nested'
    <3>1. toks' = toks
      BY <2>2 DEF Next, vars, Operand, UnexpectedOperand, Operator, OpenSubexpr, OpenCall,
         OpenSubscript, Skip, RunOff, ShiftReduce, Shift, EndExpr, Drain, Crash, Return,
         ReturnSubexpr, NextArg, LastArg, ReturnSubscript
    <3>2. Good BY <2>2, <3>1
    <3>3. CASE Next BY <2>2, <3>2, <3>3, NextNested DEF ReadOn
    <3>4. CASE UNCHANGED vars
      BY <2>2, <3>2, <3>4 DEF Nested, Waiting, Inner, ActOf, Read, vars
    <3> QED BY <2>2, <3>3, <3>4
  <2> QED BY <2>1, <2>2
<1>3. Inv /\ [Next]_vars => [Good => pos' >= pos /\ pc' # "overrun"]_vars
  BY NextNested DEF ReadOn
<1> QED BY <1>1, <1>2, <1>3, PTL DEF Spec, NestedReadOnce
=============================================================================
