# A formal model of mcppc

mcppc (the Mid C++ Compiler) is an early C++ front end in about 26,000 lines of
C23: a tokenizer, a recursive parser that does its semantic analysis as it goes,
and the numbers it folds constants with. Everything runs in one thread of one
process. What is hard about it is not concurrency but *order and accounting*: a
parser that calls itself in the middle of two stacks, classes that are read
twice, identifiers held by index in arrays that grow, numbers that carry from
word to word, comparisons a sort relies on. A sample program (`tests/*.cpp`)
takes one path through each of them; the models take every path up to a bound,
and the proofs every path.

Paths below are relative to the root of the repository.

## 1. The system

`src/main.c` runs the phases one after another: tokenize the file, print the
diagnostics, parse nodes until `END`, print the diagnostics, perhaps log the
tree. The call of the code generator is commented out. The phases share one
diagnostics array; `print_diags` stops the compiler once it holds an error.

| component | code | state | operations | what makes it correct |
|---|---|---|---|---|
| expression parser | `src/parser/expr.c`, `src/sema/expr.c`, `src/parser/find_twin.c` | per activation: output stack, operator stack, mode; the position; the diagnostics | `midpar_parse_expr` and, called by it, sub-expressions, call arguments, subscripts | the tree is the one of the C++ grammar; every operator finds its operands or is reported; the parser stays inside the tokens and ends |
| declarations and scopes | `src/parser/{ast,var_decl,func_decl,class,namespace,scope}.c`, `src/sema/{scope,ident}.c` | tree of scopes with arrays of identifiers; nodes with pairs (scope, index); the pending definitions of a class | declare and define variables, typedefs, functions, classes, namespaces; resolve a qualifier | one identifier per name (per overload), one definition per identifier, nodes keep pointing at their identifier, class members are all declared before one is defined |
| arbitrary width integers | `src/apint.c` | words, least significant first; bits past the width are zero | about 60 calls: construct, resize, arithmetic, divide, shift, compare | a number of *n* bits in two's complement, whatever its words |
| arbitrary precision floats | `src/apfloat.c` | format, sign, exponent, mantissa (two of the integers above) | convert, round, add, multiply, divide | each result is the exact one, rounded once |
| tokenizer | `src/lexer/tokenize.c`, `src/utf8.c` | index, line, column, tokens | one token at a time, by its first characters | the longest operator; a position that names the character |
| literals | `src/literal.c` | none | text to number, character or string | the type an integer literal gets is the first that holds it |
| types in declarations | `src/parser/type.c`, `src/types.c` | position left and right of the declarator | read a declarator outwards from its name | layers in the order of the declarator grammar |
| type checking, conversions | `src/sema/typecheck.c`, `src/sema/type.c`, `src/sema/var.c` | types written into the tree | type, value category, implicit conversion of each node | conversions ranked as C++ ranks them |
| overload resolution | `src/sema/lookup.c`, `src/sort.c` | list of candidates | filter by name and viability, sort by conversion ranks | the first candidate is the best viable one, or none is |
| templates | `src/parser/template.c`, `src/sema/template.c` | instances of a template, each with scopes of its own | instantiate: copy tree and scopes, parse again | a copy refers into itself; one instance per list of arguments |
| class properties | `src/sema/class.c`, `src/sema/class_lit.c` | none (reads finished classes) | trivial, literal, aggregate, constructible | the definitions of the standard the comments quote |
| constant evaluation | `src/sema/expr_eval.c` | none | folds an expression | agrees with the operators' definitions |
| containers and allocation | `include/generics/*.h`, `src/dynstr.c`, `src/parser/allocator.c` | length, capacity, chunks | push, insert, reserve, shrink | length below capacity below what was allocated; stable addresses where promised |
| driver and diagnostics | `src/main.c`, `src/cmd.c`, `src/diag.c` | options, diagnostics | the phases, cleaning and printing of diagnostics | an error is never cleaned away |
| code generation | `src/cgllvm/` | LLVM values | never called | out of scope |
| log of the syntax tree | `src/parser/ast_log.c` | none | prints | out of scope: output |

How they interact: every parser function takes the token array, a position it
advances through a pointer, the scope it declares into, and the diagnostics.
The declarations call the expression parser for initializers, default arguments
and bodies; the expression parser calls type checking on the finished tree,
which calls overload resolution, conversion and constant evaluation, which call
the two number libraries. A class body is the one place where work is put off:
`parse_decls` records where each definition starts and `parse_defs` goes back.

Behaviours that tests hardly reach, each with its line in `PROJECT.json`
("hazards"): reduction between operators of equal or neighbouring precedence in
every order; positions that two nested activations both advance; stacks that no
longer fit together after an error; redefinitions that are reported and still
replace what was there; default arguments that add up over declarations;
carries, borrows and guessed quotient digits that few operands produce; results
written over operands still to be read; a comparison that is no order; bits of a
mantissa that are gone before the rounding looks at them.

## 2. The modules

| module | models | role |
|---|---|---|
| `ExprOps` | `token_type.h`, the two token tables of `expr.c`, `midsema_op_precedence`, associativity, arity | constants of the parser |
| `ExprParser` | `parse_expr_impl` and everything it calls | state machine |
| `ExprGrammar` | the expression grammar of C++ over the same precedences, as a recursive reference parser | reference, TLC only |
| `MCExprParser` | the inputs of the run | model checking |
| `ExprParser_proofs` | theorems about `ExprParser` | proofs |
| `Declarations` | the declaring and defining part of the parser over scopes and identifiers | state machine |
| `MCDeclarations` | the parameter lists of the runs, two properties that do not hold | model checking |
| `Declarations_proofs` | theorems about `Declarations`: types, identifiers, pointers, the two passes, definitions and default arguments | proofs |
| `Words` | the operations of `apint.c` on arrays of words | functions |
| `WordsDiv` | division of words by one digit and by several | functions |
| `APInt` | a client with two integers that makes any sequence of calls | state machine |
| `FixedInt` | what `apint.h` promises: arithmetic modulo 2^n | abstract specification |
| `MCAPInt` | the calls each run makes, three promises that are broken | model checking |
| `Words_proofs` | what each operation of `Words` does to the number its words stand for | proofs |
| `APInt_proofs` | the same of division and of the questions, and theorems about `APInt` | proofs |
| `Types` | types as conversions see them, `midsema_can_convert`, `midsema_conversion_rank` | functions |
| `Qsort` | `mid_qsort` of `sort.c`, its recursion as a stack of ranges | state machine |
| `Overloads` | `sema/lookup.c`: scopes to search, candidates, viability, the best one | state machine, instantiates `Qsort` |
| `MCOverloads` | the calls of the runs | model checking |
| `Qsort_proofs`, `Overloads_proofs` | theorems about the two | proofs |
| `Floats` | `src/apfloat.c` over mantissas of `Words` and `WordsDiv` | functions |
| `Folding` | the arithmetic of `src/sema/expr_eval.c`, with conversions and result types | state machine over `Floats` |
| `MCNumbers` | the values of the run, what the results should be | model checking, with `MCAPInt` |
| `Tokenizer` | `src/lexer/tokenize.c` over texts of bytes, integer literals of `literal.c` | state machine |
| `Declarators` | how `src/parser/type.c` reads a type | functions over the tokens |
| `Phases` | `main` and `print_diags` over the tokenizer and any parser | abstract specification of the compiler |
| `Driver` | the same with the parser of variables and typedefs | state machine, composes `Phases` and `Declarators` |
| `DeclGrammar` | declarators by the grammar of C++, the properties that compare | reference, TLC only |
| `MCFrontEnd` | the source files of the run | model checking |
| `FrontEnd_proofs` | theorems about `Tokenizer`: bounds, symbols, gaps, operators, positions, integer literals; about `Phases`: exit status, diagnostics, bounds | proofs |
| `Arithmetic` | least and greatest numbers of a set, functions defined step by step, powers of two, for the proofs of five components | proofs |

### ExprParser

`cur` is the running activation of `parse_expr_impl` (its local variables
`out`, `ops`, `mode`, and `pend`, the operator inside `push_operator`),
`callers` the activations that wait for it, `pos` the index `i` they all share.
An expression tree is kept as its postfix order, so that comparing two trees is
comparing two sequences.

* One turn of the loop is one action, named for the branch: `Operand`,
  `UnexpectedOperand`, `Operator`, `OpenSubexpr`, `OpenCall`, `OpenSubscript`,
  `Skip`. `push_operator` is a loop of its own and therefore two actions,
  `ShiftReduce` and `Shift`; the loop that empties the operator stack is
  `Drain`.
* A recursive call is `Open...` (the caller is put aside, a fresh frame starts)
  and a return is `ReturnSubexpr`, `NextArg`, `LastArg` or `ReturnSubscript`,
  one for each place the call returns to.
* `Crash` is `MID_CRASH` on an output stack that does not hold one expression,
  `RunOff` the read past the last token that an end token of the wrong kind
  would lead to.
* Left out: the value of a literal, the spelling of a name, `midpar_skip_expr`
  (it only moves the position). The conditional operator is in the precedence
  table and is never lexed, so no ternary operator occurs.

### Declarations

`scopes` is the tree of `struct midsema_Scope`, each with its array of
identifiers; `nodes` the syntax nodes; `stack` the loops over declarations that
are running: of a file, a namespace or a function body (`"nodes"`), of the
first pass over a class (`"decls"`) and of the second (`"defs"`). A frame's
`todo` holds the nodes whose definition it has yet to parse: at most one in a
`"nodes"` frame, where the definition follows at once, all of the class in a
`"decls"` frame.

The program text is not fixed beforehand: each action that reads a declaration
chooses it, so that TLC explores every program of up to `MaxNodes`
declarations. The types of a parameter list are one number (`sig`), since
`are_idents_equiv` only compares them. `VarDecl`, `FuncDecl`, `ClassDecl` and
`NamespaceDecl` are the `midpar_parse_*` functions up to the end of the
declaration, `ReadInit`, `OpenFunc` and `OpenClass` the parts that parse a
definition, `EndNodes`, `EndDecls`, `EndClass` and `EndMemberClass` closing
braces. `no_base`, `no_body` and `no_var` are the three places where a null
pointer is followed.

Left out: templates, enums, constructors, destructors, `= default` and
`= delete`, overloaded operators, access specifiers, expressions, return
statements; braces are balanced, except those of a function body at the end of
the file (`UnclosedFunc`); at most one qualifier, only on a class head; a base
class that is defined changes nothing in this state. The scope that holds a
function's parameters is folded into the node's `params`.

### Words, WordsDiv, APInt, FixedInt

`Words` and `WordsDiv` translate the bodies of `apint.c` over words of
`WordBits` bits, `% 2^WordBits` where C wraps. `APInt` keeps two integers and a
client that makes any call of `Ops` on them, with outputs in place where the
header allows it; its actions are the kinds of call (a new value for `a`, a
question, a copy, the full product, quotient and remainder together).
`FixedInt` is the same client over plain integers: it knows the width and the
value and nothing of words. `Implements` of `APInt` is the refinement: with `a.n`
for the width and `Value(a)` for the number, every step of `APInt` is a step
of `FixedInt`.

A shift of a word by its whole width is undefined in C; `Words` chooses any of
the results the builds produce. `midint_nip_ufullmul` writes twice the words of
its operands even if the output has one less; the action is guarded by
`FullMulFits`, the condition under which it stays inside.

The client does not make calls that are known to break their promise at a
width: `Broken` lists them, width by width, and section 5 says which
of them contradict a line of the repository. Not modelled: printing,
`clear_bits`, `is_smax`, `assign_simm`, the unmasked
result of `midint_nip_mul_uimm`, shifts by an integer instead of a number;
`count_trailing_zeroes`, which only the floats call, is in `Floats`.

### Floats, Folding

`Floats` translates `apfloat.c` operation by operation, for kinds of any number
of bits (`MantBits`, `ExpBits`) and on the mantissas of `Words`: a product of
one word is computed as `midint_ufullmul` computes it, a quotient of two words
by the broken long division of `WordsDiv`, and counting trailing zeroes has the
two faults of `count_trailing_zeroes`. A failed assertion gives a float of
category `ABORTED`, a loop that does not end one of category `HUNG`.

`Folding` is the constant evaluation: `val` is the value so far, with its type;
`eval_arith_binop` applies an operator with a literal or constexpr variable on
the right, after converting both sides to the type that
`typecheck_arith_bin_op_expr` gives the result; `eval_unaryop` leaves the
operand's width and kind, and changes its type only; `typecheck_constexpr_var`
converts to the type of a variable, and `NextExpr` starts anew. The rounding
mode `rmode` comes from the command line.

`MCNumbers` says what should come out. `Regular` steps are those the code takes
to their end on well-formed numbers; what it does not, is named beside it:

* a sum that is exact and no longer than the lesser operand (`Cancels`) fails the
  assertion on the mantissa's width: `double d = 3.0 - 2.0;` ends the compiler;
* a conversion from `double` to `float` does the same, whatever the value, and
  so does one of an integer with just the bits of the mantissa to a float
  (`ConversionEnds`): `constexpr float x = 1.5;` and `constexpr float x = 8388608;`;
* operands a word apart (`FarApart`) may leave a mantissa for which counting
  trailing zeroes does not end;
* an infinity or a NaN to an integer, a division by zero of integers, any shift
  (the amount is used as an address), `~` of a float, a literal just below a
  power of two.

`FoldsFaithfully` excepts the sums that have the wrong sign (`SumWrong`:
`0.0 + 5.0` is -5, `-3.0 + 2.0` is -5), quotients (`QuotientFaithful`: those of
long mantissas are of other numbers, those of a lesser mantissa by a greater lose
a bit, exact ones are rounded up or down by one in these modes) and integers that
are extended as the type they become is signed (`KeepsValue`: `0 + s` is 65535
for a short of -1). Nothing is said of what becomes of an infinity or a NaN.

Left out: the logarithms, which nothing calls after start-up; printing, and
conversion to doubles of the host; `a += a` and the like, of one object, which
the evaluation does not make; the kind `HALF`, which no type has; an operand on
the right that is an expression itself (its value is one of those that a
constexpr variable can hold); `!` and the comparisons, at which the type checker
stops; pointers, arrays, strings, structs and functions in constant expressions.

### Types, Qsort, Overloads

A behaviour of `Overloads` resolves one `call`, which carries the declarations
it is made among: scopes, classes with their bases, functions. The phases of
`midsema_find_func`, `midsema_find_method` and `midsema_find_op_overload` follow
one another: `Climb`, `VisitSuper` and `VisitArg` are the turns of
`add_nmspace_scope`, `add_super_classes` and `get_assoc_scopes` (`climb` and
`supers` are the call stack of these), `Search` one scope's candidates, `Filter`
one candidate's viability, `Sort` a step of the quicksort, `Take` the result.
`Qsort` is `mid_qsort` for any comparison; `Overloads` instantiates it with
`compare_viable_funcs`. A range of `Qsort!ranges` is a call of `mid_qsort_impl`
that is to come, `part` the one whose loop is running.

`no_class` and `overread` are the two places where the code reads what is not
there (a class that a return type does not name, an argument that was not
passed); nothing is resolved after them.

Left out: `volatile`, which is treated as `const` is; function pointers, enums
and references to functions among the types; templates; how a call is found in
an expression and what is reported when nothing can be called.

### Tokenizer, Phases, Declarators, Driver, DeclGrammar

These five model the compiler from the bytes of a file to its exit status, for
files of variable declarations and typedefs. `text` is the file, `i` the index of
`read_tokens`, `pos` and `lineStart` the position that is kept beside it,
`toks`, `symtbl` and `lexDiags` what it fills. One round of its loop is one
action, named for the branch that takes it: `LineComment`, `BlockComment`,
blanks and newlines, numbers, character and string literals, names and keywords,
operators, unknown characters, the end. The branches are tried in the order of
the code, the operators of three characters before those of two and one. A
character of several bytes is `"wide"` followed by `"cont"`; its code point is
left out. Where C would read behind the terminator of the text the machine stops
in `"overrun"`, where an assertion fails in `"crash"`.

An integer literal is read digit by digit. `AddDigit` tells, as the code does,
from the product or from the sum, when to go on in a wider integer, and
`SelectType` tries the types in the order that its base and suffix give.
`IntLiterals` says what should come of it without any of this: `ExactValue` is the
number its digits denote in plain integers, `Allowed` the types C++ allows for
base and suffix, and `Holding` those among them that hold the value; the token
has that value and the first of these types, or an error is reported there. A
decimal literal with the suffix `l` that no `long` holds is excepted, since the
code tries `unsigned long` for it too.

`Declarators` is pure: what `midpar_parse_base` and `midpar_parse_type_no_base`
return for a position of the token array, with every diagnostic they push. It
goes outwards from the name: a suffix on the right, then the pointers on the
left, then out of a parenthesis. The recursion of the code
(`parse_recursive_part_loop`, the array suffixes, the parameter lists) is that
of `Loop`, `ArrayPart` and `Params`.

`Phases` is `main`: `Tokenizing` (a step of the tokenizer), `PrintingLexDiags`,
the loop over the nodes, and at `END` `PrintingParserDiags`. `Clean` is
`clean_diags`, which takes out diagnostics that repeat their neighbour, and
`PrintAll` decides on the exit status afterwards. Of the parser it says only what
main depends on: it leaves the tokens alone, each of its diagnostics is about a
token, a note never has the number of one of its errors (the note on a candidate
of an overload is given none, which is the number of `UNKNOWN_SYMBOL`), and it
gets further with every node (`Starting`, `Ending`) and every declarator
(`GoingOn`), unless it stops (`Breaking`).

`Driver` is `Phases` with a parser: for each node `StartDecl`, one `ReadInst` per
declarator, `EndDecl`. What a node is, `IsDecl`, is decided as the code does it,
by the token behind the qualifiers first: `const struct` starts a class. That it
is one of the parsers `Phases` allows, so that what is proved of `PhasesSpec` is
true of it, is the property `PhasesSpec` of its run: each of its steps is one of
`PhasesNext` or leaves the variables of `Phases` alone. A node of another kind is
what the modules `Declarations` and `ExprParser` are about, and so is an
initializer, or a class or enum where a type is; the machine stops there (`Halt`). `DeclGrammar` defines what the same tokens mean by [dcl.decl], from the
outside in and by splitting at brackets, and shares nothing with `Declarators`
but the twin of a bracket.

What the properties except, by name, is what the code lets pass or loses:
`Tolerated` (modifiers beside the name of a type, which are applied;
`volatile` behind a reference; a type's name where the declarator's would
stand; what follows the name inside a group), `Beside` (a `const` beside the
name of a type is lost), `Simple` (a group behind which the end of a declarator
is not found), `Misread` operators (`->*`, and the two shift assignments, which
can never be matched), and columns after block comments.

Left out: the values of floating and character literals and escape sequences,
classes, enums, namespaces and templates as type specifiers, array lengths that
are no literals, the command line, the text of the diagnostics.

## 3. The runs

| run | instance | question | shows |
|---|---|---|---|
| `expr` | every statement of up to 5 tokens of 7 operator kinds, of up to 4 tokens of 7 bracket kinds, and calls with up to 4 tokens inside | is the shunting yard right on every input? | types, `OperandBalance`, `OpsSorted`, `SilentCrashOnlyIfEmpty`, agreement with the grammar, `NestedReadOnce`, `Terminates` |
| `declarations` | programs of up to 3 declarations of 2 names, functions of 2 parameter lists under 2 sets of parameter names and 3 of defaults | do scopes, identifiers and nodes stay consistent? | eight invariants and `MembersFirst` |
| `member_class`, `overload` | the same, 2 declarations | two statements of the repository that do not hold | see section 5 |
| `apint` | words of 2 bits, widths 1 to 6 (one to three words), every pair of values | do the calls implement `FixedInt`? | canonical form, refinement |
| `apint_digits` | words of 4 bits (two digits of 2), widths 3 and 6 | the same where a word has halves | multiplication by halves, division by a digit |
| | beside it: every chain of operators and conversions on integers of 2, 3 and 4 bits, floats of 2 and 3 bits of mantissa, in 5 rounding modes | are constants folded to what they should be? | `FoldsToWellFormed`, `FoldsFaithfully` |
| `overloads` | up to 4 of 11 functions of one scope, for a call with two arguments; 3 functions spread over 6 scopes and 4 classes, for every kind of call | is the function that is called one that should be? | types, `CandidatesFound`, `ViableKept`, `NoneBetter`, `Terminates` |
| `front_end` | about 6,500 files: texts of up to 4 characters of each kind of token; bases of up to 3 words, declarators of up to 4, lists, groups, parameters of function pointers, typedefs and their use, nodes behind qualifiers, files that end early | is a file read right from its first byte to the exit status? | types, positions, longest operators, integer literals, symbol table, bounds, diagnostics, exit status, declared types, acceptance; the refinement of `PhasesSpec` |
| `overloads_this` | the same calls | is `this` passed wherever `this_quals` is NULL? | see section 5 |
| `apint_division`, `apint_divrem`, `apint_signed` | words of 2 bits; integers of 3 bits, of 1 to 5 and of 1 | three promises of `apint.h` that do not hold | see section 5 |

Why these bounds are enough for what they are to show. *Expressions*: whether
two operators reduce depends on their levels being less, equal or greater and
on associativity; five tokens place three operators of any of six levels, of
both directions, prefix and postfix, around operands, and every error that
confuses the stacks (a missing operand, two in a row, a stray bracket) needs at
most four. *Declarations*: a clash needs two declarations of a name, an overload
two parameter lists, and a redefinition between the passes over a class a class
and two members. *Integers*: with two bits a word has every kind of carry, with
three words a carry crosses a word of all ones; with four bits a word has two
digits. *Constant expressions*: the two kinds of float stand to the word as
`float` and `double` do: the square of the one's mantissa fits into a word, that
of the other takes two, and so does a sum of distant operands of the second; the
integers are narrower and wider than the mantissas. Exponents of two and three
bits reach underflow, denormals and overflow from any value within two steps, and
chains have no length: every value that folding can leave is folded on. The real
`float` meets operands a word apart too, which `SINGLE` does not here. One integer
is as wide as a mantissa, which no integer type of the compiler is; there
`ConversionEnds` is true of more than it is in the compiler. *Overloads*: two
arguments are the least for which two functions are each better somewhere; with four functions the sort recurses on parts that are empty,
of one element and of more, and meets three that are in a cycle of "not worse".
A class with a base and a base of that base, in namespaces of their own, is the
least that tells direct bases from all, and in which scopes are reached twice.
*Front end*: the branches of the tokenizer look at up to three characters, and at
the next newline or quote; four characters put each of these in front of, behind
and inside each other. `int` has 3 bits, `long` and `long long` 5, so that
literals of one digit overflow the first and of two digits the second. Four
tokens are a name with a prefix, a suffix and a parenthesis on either side, which
is every order in which the outward reading can take them; three words are the
most a base needs (`unsigned long long`, beside a name).
`MaxOps`, `MaxBrackets`, `MaxNodes`, `WordBits`, `Widths`, `MaxFuncs` and the
lengths in `MCFrontEnd` name the bounds.

Deadlock is checked where a state without a successor would be wrong (the
integer runs, and `front_end`, where it can only happen in a stop that
`Terminated` names). A parser that has returned, crashed or reached the end of the
file has stopped, so the other runs say `CHECK_DEADLOCK FALSE`; that `expr`
never stops before one of these is `Terminates`.

Fairness. `ExprParser` has `WF_vars(Next)`: the loop of a sequential program
always takes its next turn. `Overloads` has the same, for the same reason. No other fairness is assumed. `Declarations` and
`APInt` are driven by a program text and by a client that may stop at any time,
and make no liveness claim. `Driver` has `WF_vars(Next)` too, but states its progress
as a property of its steps: every round of every loop gets further in a text or a
token array that does not change (this is part of `PhasesSpec`, and
`LexProgress`), and no state but the stops is without a successor, so that the
compiler ends.

## 4. What is proved

`ExprParser_proofs` proves with TLAPS, for **every** set of token arrays
(`InputAssumption`: each ends in its only `END`) and **every** set of end types
without `END` (`TopEndsAssumption`):

* `TypeCorrect`: the state keeps its types and the position never leaves the
  token array;
* `OperandsBalance`: as long as nothing was reported, an activation's output
  stack holds exactly as many expressions as its waiting operators account for;
* `StacksSorted`: operator stacks are sorted by precedence and associativity;
* `SilentCrash`: without a diagnostic, `MID_CRASH` is reached only by an
  expression without tokens;
* `NestedReadsOnce` (`NestedReadOnce`): when the brackets nest and an end token is
  outside of them, the tokens are read once, from left to right, and not past the
  array;
* `Inductive`, from which the first four follow.

None of these is inductive. A return changes a caller that was put aside many
steps before, so the invariant `IInv` has to say how activation and caller fit
together at all times: `Linked` (which kind of activation its caller waits for,
in which phase and mode), `Placed` (the positions to return to lie inside the
token array), `AtToken` (an activation that empties its stack is at an end
token). `BalanceInv` counts operands in the suspended activations too and ties
the mode to the operator on its way; `NothingRead` and `CrashInv` say what an
activation with two empty stacks has seen. `Level` has finitely many entries,
so facts on precedences are decided by SMT once the table is expanded; the
facts on stacks (`BinariesPush`, `SortedShift`, `SortedPop`) are lemmas on
sequences, and each action has one lemma `...Step`.

`NestedReadsOnce` needs an invariant of its own, `Nested`: the suspended activations
are the brackets that are open behind the token read last, in that order, each
awaits the token that closes its bracket (`Awaits`), and the position a call or a
subscript looked up beforehand is the one where its bracket closes (`ClosedAt`). Three
lemmas say what passing a token does to this (`PassPlain`, `PassOpen`, `PassClose`),
and each action passes one, two or none. That the position is right is
`TwinCloses`: `midpar_find_twin_generic` counts tokens of one kind, and how often a
token is due is that count (`DuesBalance`), so inside a bracket the counts cannot
meet before it closes. The hypothesis is needed: with `f(a[b)]` the
parser goes back, or on past the statement.

`Declarations_proofs` proves, for **any** names but
the three the code makes up itself (`NamesAssumption`), any prototypes whose
parameters have names of their own (`ProtosAssumption`) and any number of
declarations (`MaxNodesAssumption`), every invariant that the run `declarations`
checks and its action property:

* `TypesKept`, `IdentifiersDistinct`, `PointersValid`: types, no two equivalent
  identifiers in a scope, and what a node points at exists and goes by its name.
  They follow from `ShapeKept`. The inductive invariant `Shape` adds what an
  invariant about one node cannot see: scopes come after their parents, the
  frames that are running and the nodes that wait in them refer to what there is
  (`FramesOK`), and the parameters a function was given are distinct, without
  which the scope of its body would hold a name twice. A pointer stays valid
  because arrays of identifiers only grow: `OnlyAdded` is that as an action
  property (`Grows`), proved step by step, and pointers are carried over it once
  for all steps.
* `DefinitionsParsedOnce` (`EachDefinedOnce`), `MembersDeclaredFirst`
  (`MembersFirst`): the two passes over a class. That a body is parsed once
  depends on frames that have long been left, so `Passes` says of every frame at
  once that what waits, waits in one place (`WaitsOnce`), in the frame of its own
  class (`FrameNodes`, `MembersWait`), not yet opened (`OpenedOnce`), and that
  nothing that has a body is lost as long as there is no error (`NoneLost`).
* `NotDefinedTwice` (`OneDefinition`), `ScopesOfDefinitions`
  (`ScopeOfDefinition`), `ParametersInScope` (`BodySeesParams`),
  `DefaultsAreLast` (`DefaultsTrail`): what definitions leave behind, from the
  invariant `Definitions`. `OneDefinition` is not inductive: that a second body is
  reported is only known if the identifier still leads to the first, which is
  `DefinedBy`. `DefaultsTrail` speaks of the parameters a node has;
  `GivenTrail` has to speak of all prototypes of that signature, since a later
  declaration may bring another. Most actions define nothing; they are dealt
  with together by what they have in common (`Quiet`, `QuietNodes`, `GivenKept`,
  `ParamsSeen`), the two or three that do one by one.

`Qsort_proofs!FirstUnbeaten`: for any elements and any comparison that tells of
no element that it comes before itself, and whose "before" is transitive,
`mid_qsort` ends with a first element that no element comes before. Nothing more
is true of the order: the comparison leaves pairs undecided, and the rest of the
array is in none. The argument looks only at the range that starts the array:
`HeadFirst` says that nothing outside of it comes before anything in it. A
partition splits that range; `Parted` says what the loop has found out so far,
and `PivotSplits` is where transitivity is used: what went to the left comes
before the pivot, so whatever did not go there cannot come before it. `OneHead`
says that no other range on the stack can disturb the start.

`Overloads_proofs` proves for **every** set of calls (`InputAssumption`: what a
call refers to is declared, scopes after the scopes around them and classes after
their bases, which is the order a compiler that reads a file once finds them in;
a function is one identifier of its scope, constructors are none):

* `TypesKept` (`TypeOK`): what is numbered is there, and ranges lie in the array.
* `EachFound` (`CandidatesFound`): the candidates are the functions of that name
  in all the scopes that are to be searched, each once. The property compares a
  worklist with recursive definitions of what lookup should search (`Enclosing`,
  `Bases`). The invariant `Collected` says that at every moment the scopes to be
  searched are those collected so far, those around the scope the climb is at,
  those the waiting bases lead to, and those the arguments to come lead to
  (`Searched`); each step only moves scopes between the four. `EnclosingIs` and
  `BasesAre` are the equations of the recursive definitions that this needs; that
  they have a solution at all is shown by giving one (`AroundExists`: the scopes
  in every set closed under parents), and each order of the tree is used by way
  of a least counterexample. Since no scope is collected twice (`Distinct`) and a
  function is one identifier of one scope (`OneIdent`), `Found` counts it once.
* `NoneLost` (`ViableKept`): a function that can be called is in the array that
  is sorted as often as it was found, and no other is. `Filtered` counts the
  candidates that were tried; of the sort it is enough that a step exchanges two
  elements or none (`SortMoves`, `TimesSwapped`).
* `BestIsUnbeaten` (`NoneBetter`): the function that is taken is not beaten. That
  `compare_viable_funcs` is a strict partial order, for any number of arguments
  and any types, is the lemma `CompareStrict`, by way of `CompareBetter`, which
  says what the sign of the comparison means. The invariant of `Qsort_proofs` is
  taken over by instantiating that module with the comparison.

`FrontEnd_proofs` proves, for **every** set of
source files (`TextsAssumption`: no terminator inside a text; a byte that
continues a character follows the one that begins it, and one that begins a
character is continued, since `utf8.c` aborts on any other text) and all widths
of the integer types of which none is narrower than the one before it and the
widest has at least four bits, so that it holds a hexadecimal digit
(`WidthsAssumption`):

* `LexReadsInside` (`ReadsInside`): the index stays in the text, and a text whose
  last line is complete is read past its end only if a block comment is open
  there. The invariant is the bounds of the index together with what holds when
  the loop has stopped; each branch needs that the characters it looks at are
  there, or that the terminator stops it;
* `LexSymbolsShared` (`SymbolsShared`): two identifiers share an entry of the
  symbol table exactly if they are spelled alike. `Names` says that the table has
  no repetition and that each identifier token points at an entry with its own
  spelling; that a token keeps doing so while the table grows is the step that
  needs the table to be only appended to (`PlaceIs`, `NameSteps`);
* `LexNothingLost` (`NothingLost`): tokens stand in the order of the text, do not
  overlap, and between them is only what may be skipped. The invariant `Gaps` is
  the property together with a gap from the last token to the index, that each
  skipping branch makes longer by one thing it may skip;
* `LexMaximalMunch` (`MaximalMunch`): an operator is the longest that is spelled
  where it stands, except for the three that are misread. Branch by branch: what
  the earlier branches did not take cannot be spelled there;
* `LexPositionsTrue` (`PositionsTrue`): the line, column and line start that a
  token carries are those of its first character. `Located` says what is known of
  the position at the index, which is less than the property says of tokens: the
  line is right as long as no token holds a newline, the line start and column as
  long as no block comment or wide literal comes before on the line, and not the
  column where a line comment has just ended: it is let go there, and found again
  behind the newline;
* `LexIntLiterals` (`IntLiterals`): an integer literal has the value its digits
  denote and the first type that C++ allows it and that holds the value, or it is
  reported, and only if there is no such type. The value is read modulo a power
  of two, and the property compares with the exact one, so the invariant of the
  loop over the digits is `Related`: both are the same number, or both are more
  than any type holds. That it survives a digit (`AddDigitRelated`) is that a
  product wraps exactly if division does not undo it and a sum exactly if it gets
  less (`DivisionTells`, `WrapsTells`), and that the wider integer is wide enough
  (`PowerSum`). The six orders in which types are tried are compared with what
  C++ allows in `TriedAre`, and `ChosenIs` follows for any value;
* `LexProgress`: every round consumes a character or is the last.

`FrontEnd_proofs` also proves, under the same assumptions and for **every** parser that
`Phases` allows:

* `PhasesExitStatus` (`ExitStatus`): the compiler exits with 1 exactly if the
  tokenizer or the parser reported an error, and with 0 only at the end of the
  tokens;
* `PhasesDiagsKept` (`DiagsKept`): everything that was reported is printed, each
  error as often as it was reported and in that order, and no warning twice in a
  row. `clean_diags` compares the position and number of a diagnostic with the
  one before it, not the line it prints; that it takes out nothing but
  repetitions depends on two tokens with the same line number naming the same
  line of the text, which is an invariant of the tokenizer (`SameLines`), and on
  notes and errors not sharing a number (`Tidy`). Both theorems follow from
  `Phased`: the diagnostics of each phase are tidy, and `Printed` says what has
  been printed when. What `Clean` and `Errors` pick is compared by a least number
  of diagnostics for which it differs (`CleanErrors`, `CleanAll`);
* `PhasesBounded` (`Bounded`, which is part of `TypeOK` of `Driver`): the indices
  of the loops stay inside the tokens, of which the last is `END`, and line and
  column inside what was read.

`APInt_proofs` proves, for **every** width of a word that is even
(`WordBitsAssumption`: the code takes a word in two halves), **every** set of widths
of integers and of immediate operands that fit in a word (`APIntAssumption`):

* `APIntImplements` (`Implements`): each call does to the numbers what `FixedInt`
  says, for integers of any number of words;
* `APIntTypes` (`TypeOK`): both integers keep the words their widths need, with the
  bits past the width zero.

The hypothesis of both is `Sound`: the client makes, on an integer of n bits, only
calls of `AllOps` that are not in `Broken(n)`, which are exactly those that the run
`apint` makes. `Broken` has what the code gets wrong for some operand of n bits: of one
word that is `midint_signed_cmp` alone, so of one word everything else is proved; of
several words it is what section 5 lists. Division is proved where the divisor has one digit or
one of the early returns of `midint_nip_udiv` answers, which is all of it but
`knuth_bignum_div`.

`TypeOK` is the inductive invariant: every operation relies on the bits past the
width being zero in its operands, and restores that in its result. So each operation
has a lemma of the form "of canonical operands, the result is canonical and its
value is ... modulo 2^n" (`AddExact`, `MulExact`, `AshrExact`, `DivideShort`...), and
`SumSteps`, `ShiftSteps` and so on put the calls together from these. The lemmas:

* a carry is not stored, but seen from a sum having wrapped (`WordSum`), or from a
  test of the word before (`WordDiff`, `IncBitExact`). `Chain` says once what words
  mean that are added one by one with carries that are passed on, and every operation
  with a carry or a borrow is shown to be such a chain, by showing that there are
  carries that fit (`CarriesExist`, `PlusExists`);
* a product of words is put together from products of halves (`RowIs`); `NextRowIs`
  adds it as a row, modulo the words there are, `FullRowIs` with no carry lost;
* a shift is a shift by whole words and one by less than a word, in which each word
  takes from its neighbour (`SumsDelayed`, `SumsAhead`, `SplicedIs`); for the
  arithmetic one, the integer is taken as words of which the last is signed
  (`SignedTop`);
* single bits and the bitwise operators: a word's bits are those of the number
  (`WordBitIs`), and a number is the sum of the places where it has a one
  (`BitSumsAre`, `WordsFromBits`);
* the division by one digit is a loop over digits of half a word; its turns are a
  function (`ShortTurns`), two of them divide a word (`TwoTurns`), and the remainder
  that is passed down is less than the divisor (`DivideDigit`);
* signed division is unsigned division of magnitudes; that of the least integer,
  which is not representable, still is right as an unsigned number (`MagnitudeIs`).

Products of unknowns and remainders are what SMT is worst at: the proofs name each
product, once it has been expanded, and go on with linear arithmetic.

Induction is out of the provers' reach where it needs an operator for a
parameter. The proofs above get by with the least number for which a property
fails (`NatMin`), which is a statement about sets: so the recursive functions in
the models (`Chain`, `ParamNames`, `IsGap`, `FlattenSeq`, `Enclosing`, `Bases`,
`ReadInt`, `Clean`, `Due`, `Sums`, `Short`) are shown to exist and to satisfy their equations, for every
input; `Iterates` does it for any function of a range that is defined step by
step. Powers of two are counted (`PowerOfTwo`: 2^n is the number of subsets of a
set of n elements). None of this reaches operators that are declared `RECURSIVE`.

What is only model-checked, and why:

* `Terminates` (of `ExprParser` and of `Overloads`) is liveness.
* `GrammaticalParsed` speaks of derivations, which `ExprGrammar` defines by
  recursive operators.
* `PrintsInside`, `DeclaredTypes`, `AcceptedOnly`, the part of `TypeOK` of
  `Driver` that is about nodes and names, and that `Driver` implements
  `PhasesSpec`: they ask what a declarator is read as, and `Declarators` and
  `DeclGrammar` are recursive operators, since the code's functions call each
  other. `Phases` is what could be separated from them.
* `FoldsToWellFormed` and `FoldsFaithfully`: floats go through the long division
  and the resizes that are broken, and hold only with the exceptions that `MCNumbers`
  names; a theorem would have to say in general what those runs say of a few kinds.
* Of `APInt`, the calls in `Broken`, which `Sound` leaves out: for them there is
  nothing to prove at those widths.

## 5. Where code and documents disagree

Each has a run whose counterexample shows it; `PROJECT.json` quotes the lines.

1. `member_class`: a member class that is declared, or defined without
   declarators, makes the second pass follow a null pointer, though
   `tests/scope_res.cpp` has both.
2. `overload`: a function that has the name of a variable, class or namespace
   silently takes over that identifier, which `func_decl.h` says holds the
   overload.
3. `apint_division`: the borrow of the long division is wrong, and with it the
   remainder, on wider integers the quotient too, of a division by more than one
   digit. The run is narrowed to integers of three bits in words of two, where one
   case is wrong: it shows `midint_urem` of 6 by 5 leaving 5 instead of 1.
4. `apint_divrem`: with its operands for outputs, `midint_udivrem` loses a
   dividend that is less than the divisor.
5. `apint_signed`: of two integers of one word, the negative one compares as
   the greater: on one bit, -1 against 0 gives 1.

6. `overloads_this`: `lookup.h` says that `this_quals` is NULL if `this` is passed
   explicitly; it is NULL for every call that is not written with an object, and
   the arguments of a member function called by its name are shifted.

No run shows the comment on `compare_viable_funcs` ("returns 1 if a is better,
-1 if b is better"): the code does the opposite, which is what `mid_qsort` needs.
With the sign of the comment (`CompareAsCommented`) `NoneBetter` does not hold.

Further calls that are wrong at some widths, with no line that a run could be
held against, are in `Broken` and under "hazards": `sext` and `trunc` between
several words, `sub_uimm` and `get_smax`, `is_all_ones` and `is_smin`,
`unsigned_cmp_diff_sizes`, far arithmetic shifts and `to_sint` on several words;
`add_uimm`, `negate` and with it signed division on three or more.

## 6. Plan

Done, in the order of the plan: the expression parser, declarations and scopes,
overload resolution and the tokenizer, each with proofs of every safety property
the runs check of it but those named in section 4; integers; the declarators and
the driver; floats and constant evaluation. To come, in this order:

1. **Proofs**: that `Driver` implements `Phases`, once the recursion of
   `Declarators` is written as functions; rounding in `Floats`, from the lemmas of
   `Words_proofs`.
2. **`ClassProps`**: the predicates of `sema/class.c` over class trees, against
   the definitions quoted in its comments.
3. **`Templates`**: instantiation as an extension of `Declarations`, with the
   copied scopes and the pointers that must lead into the copy.
4. **`Containers`**: growing arrays, strings and the bump allocator, length and
   capacity under any sequence of calls, an abstract sequence implemented.

Not planned: code generation, which is never called; the text of diagnostics
and of the tree; the spelling of literals and UTF-8, which are conversions
without state; memory that is never given back, which the program accepts.
