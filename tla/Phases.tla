-------------------------------- MODULE Phases --------------------------------
(***************************************************************************)
(* main of src/main.c over the tokenizer and any parser: the phases of the *)
(* compiler, the diagnostics each pushes, what is printed of them, the     *)
(* exit status.                                                            *)
(*                                                                         *)
(* Of the parser, only this: it leaves the tokens alone, its diagnostics   *)
(* are errors, warnings and notes about a token each, and it gets further  *)
(* with every declaration and every declarator.  The module Driver has the *)
(* parser of variables and typedefs in its place.                          *)
(***************************************************************************)
EXTENDS Tokenizer

VARIABLES
  phase,    \* "lex", "parse", "inst", "end", "exit" or how the program stopped
  at,       \* the token the loop of main is at
  inst,     \* the token the parser is at inside of a declaration
  diags,    \* the diagnostics of the parser
  printed,  \* the diagnostics that were printed
  status    \* the exit status

phaseVars == <<phase, at, inst, diags, printed, status>>

-----------------------------------------------------------------------------
(***************************************************************************)
(* print_diags.  clean_diags takes out a warning that repeats the one      *)
(* before it, and an error that repeats a note.                            *)
(***************************************************************************)
SameKind(cur, prev) ==
  \/ cur.type = "ERROR" /\ prev.type = "NOTE"
  \/ cur.type = "WARNING" /\ prev.type = "WARNING"

Repeats(cur, prev) ==
  /\ cur.line = prev.line /\ cur.column = prev.column
  /\ SameKind(cur, prev) /\ cur.err = prev.err

\* Mutant: the loop does not get to the second diagnostic.
CleanShort(ds) ==
  LET kept[n \in 0..Len(ds)] ==
        IF n = 0 THEN <<>>
        ELSE IF n > 2 /\ Repeats(ds[n], ds[n - 1]) THEN kept[n - 1]
        ELSE Append(kept[n - 1], ds[n])
  IN kept[Len(ds)]

Clean(ds) ==
  LET kept[n \in 0..Len(ds)] ==
        IF n = 0 THEN <<>>
        ELSE IF n > 1 /\ Repeats(ds[n], ds[n - 1]) THEN kept[n - 1]
        ELSE Append(kept[n - 1], ds[n])
  IN kept[Len(ds)]

\* Mutant: the last diagnostic decides.
AnyErrorLast(ds) == ds # <<>> /\ Last(ds).type = "ERROR"

AnyError(ds) == \E n \in 1..Len(ds) : ds[n].type = "ERROR"

\* midcmd_prt_line stops at the next newline only.
Printable(d) == HasNext(d.lineStart, {"\n"})

PrintAll(ds, next) ==
  IF \E n \in 1..Len(ds) : ~Printable(ds[n])
  THEN phase' = "overrun" /\ UNCHANGED <<printed, status>>
  ELSE /\ printed' = printed \o ds
       /\ status' = IF AnyError(ds) THEN 1 ELSE 0
       /\ phase' = IF AnyError(ds) THEN "exit" ELSE next

-----------------------------------------------------------------------------
(***************************************************************************)
(* The steps of main.                                                      *)
(***************************************************************************)
Tokenizing ==
  /\ phase = "lex" /\ LexNext
  /\ UNCHANGED phaseVars

PrintingLexDiags ==
  /\ phase = "lex" /\ lexing = "done"
  /\ PrintAll(Clean(lexDiags), "parse")
  /\ UNCHANGED <<lexVars, at, inst, diags>>

PrintingParserDiags ==
  /\ phase = "parse" /\ Is(at, {"END"})
  /\ PrintAll(Clean(diags), "exit")
  /\ UNCHANGED <<lexVars, at, inst, diags>>

\* The diagnostics that a parser may push, and what it leaves alone.  A note is
\* given no number: it has the first, of an error that only the tokenizer reports.
FirstErr == "UNKNOWN_SYMBOL"

DiagsOf(types, errs) == [type : types, err : errs, line : Nat, column : Int, lineStart : Nat]

Diagnostics ==
  DiagsOf({"ERROR", "WARNING"}, STRING \ {FirstErr}) \cup DiagsOf({"NOTE"}, {FirstErr})

AboutToken(d) ==
  \E j \in 1..Len(toks) : d = DiagAt(d.type, d.err, j)

Reports ==
  /\ diags' \in Seq(Diagnostics) /\ IsPrefix(diags, diags')
  /\ \A n \in Len(diags)+1..Len(diags') : AboutToken(diags'[n])
  /\ UNCHANGED <<lexVars, printed, status>>

InDecl == {"inst", "end"}

\* The loop of main ends at the token END; whatever else is there, a node starts.
Starting ==
  /\ phase = "parse" /\ ~Is(at, {"END"})
  /\ phase' \in InDecl /\ inst' \in at+1..Len(toks) /\ at' = at
  /\ Reports

GoingOn ==
  /\ phase = "inst" /\ phase' \in InDecl
  /\ inst' \in inst..Len(toks) /\ at' = at
  /\ phase' = "inst" => inst' > inst
  /\ Reports

Ending ==
  /\ phase = "end" /\ phase' = "parse"
  /\ at' \in at+1..Len(toks) /\ inst' = inst
  /\ Reports

\* The parser comes to something that is not modelled, or to an assertion.
Breaking ==
  /\ phase \in {"parse", "inst"} /\ ~(phase = "parse" /\ Is(at, {"END"}))
  /\ phase' \in {"other", "crash"} /\ UNCHANGED <<at, inst>>
  /\ Reports

-----------------------------------------------------------------------------
PhasesStart(t) ==
  /\ LexStart(t)
  /\ phase = "lex" /\ at = 1 /\ inst = 0
  /\ diags = <<>> /\ printed = <<>> /\ status = 0

PhasesInit == text \in Texts /\ PhasesStart(text)

PhasesNext == Tokenizing \/ PrintingLexDiags \/ Starting \/ GoingOn \/ Ending \/ Breaking
                \/ PrintingParserDiags

PhasesSpec == PhasesInit /\ [][PhasesNext]_<<lexVars, phaseVars>>

-----------------------------------------------------------------------------
(***************************************************************************)
(* What the compiler tells.                                                *)
(***************************************************************************)
PushedBy(ds) == {ds[n] : n \in 1..Len(ds)}
IsError(d) == d.type = "ERROR"

\* The errors among the diagnostics, in their order.
Errors(ds) ==
  LET errors[n \in 0..Len(ds)] ==
        IF n = 0 THEN <<>>
        ELSE IF IsError(ds[n]) THEN Append(errors[n - 1], ds[n])
        ELSE errors[n - 1]
  IN errors[Len(ds)]

\* The indices of the phases stay inside the tokens, the last of which is END,
\* and the position of the tokenizer in what it has read.
Bounded ==
  /\ phase \in {"lex", "parse", "exit", "other", "crash", "overrun"} \cup InDecl
  /\ i \in 1..Len(text)+1 /\ lineStart \in 1..i
  /\ pos.line \in 1..i /\ pos.column \in Nat
  /\ phase # "lex" => at \in 1..Len(toks) /\ Is(Len(toks), {"END"})
  /\ phase \in InDecl => at < inst /\ inst \in 1..Len(toks)
  /\ status \in {0, 1}

\* The compiler exits with 1 exactly if an error was reported, by the tokenizer
\* or by the parser, and with 0 only behind the last token of the file.
ExitStatus ==
  phase = "exit" =>
    /\ status = 1 <=> \E d \in PushedBy(lexDiags \o diags) : IsError(d)
    /\ status = 0 => Is(at, {"END"})

\* Everything that was reported is printed, every error as often and in the
\* order in which it was reported, and no warning twice in a row.
DiagsKept ==
  phase = "exit" =>
    /\ PushedBy(printed) = PushedBy(lexDiags \o diags)
    /\ Errors(printed) = Errors(lexDiags \o diags)
    /\ \A n \in 1..Len(printed)-1 : printed[n].type = "WARNING" => printed[n] # printed[n + 1]

=============================================================================
