----------------------------- MODULE FrontEnd_proofs -----------------------------
(***************************************************************************)
(* The tokenizer stays inside its text, keeps every name once, loses no    *)
(* character of it, takes the longest operators, gives its tokens their    *)
(* positions, and its integer literals their values and types.             *)
(*                                                                         *)
(* The phases around it: whatever the parser reports about its tokens, the *)
(* exit status says whether there was an error, every diagnostic is        *)
(* printed, and the indices of the phases stay inside the tokens.          *)
(***************************************************************************)
EXTENDS Phases, Arithmetic, FiniteSetTheorems, TLAPS

-----------------------------------------------------------------------------
\* The terminator is where the text ends, and nowhere in it.
LEMMA AtEnd ==
  ASSUME text \in Texts
  PROVE  /\ Len(text) \in Nat
         /\ \A k \in Int : At(k) # "NUL" <=> k \in 1..Len(text)
         /\ \A k \in 1..Len(text) : At(k) = text[k]
         /\ \A k \in Int : At(k) = "wide" => k + 1 \in 1..Len(text)
BY TextsAssumption DEF At

\* The end of a run of characters is in the text or just behind it.
LEMMA EndOfIn ==
  ASSUME text \in Texts, NEW j \in 1..Len(text)+1, NEW S, "NUL" \notin S
  PROVE  /\ EndOf(j, S) \in j..Len(text)+1
         /\ At(EndOf(j, S)) \notin S
         /\ \A m \in j..EndOf(j, S)-1 : At(m) \in S
<1> DEFINE T == {k \in j..Len(text)+1 : At(k) \notin S}
<1>1. Len(text) \in Nat /\ At(Len(text) + 1) = "NUL" BY AtEnd
<1>2. T \subseteq Nat /\ Len(text) + 1 \in T BY <1>1
<1>3. PICK k \in T : \A m \in T : k <= m BY <1>2, NatMin
<1>4. k \in j..Len(text)+1 /\ At(k) \notin S /\ \A m \in j..k-1 : At(m) \in S
  BY <1>1, <1>3
<1> QED BY <1>4 DEF EndOf

\* So is the next character of a kind, if there is one.
LEMMA Next1In ==
  ASSUME text \in Texts, NEW j \in Nat \ {0}, NEW S, HasNext(j, S)
  PROVE  /\ Next1(j, S) \in j..Len(text) /\ At(Next1(j, S)) \in S
         /\ \A m \in j..Next1(j, S)-1 : At(m) \notin S
<1> DEFINE T == {k \in j..Len(text) : text[k] \in S}
<1>1. Len(text) \in Nat BY AtEnd
<1>2. T \subseteq Nat /\ T # {} BY <1>1 DEF HasNext
<1>3. PICK k \in T : \A m \in T : k <= m BY <1>2, NatMin
<1>4. k \in j..Len(text) /\ text[k] \in S /\ \A m \in j..k-1 : text[m] \notin S
  BY <1>1, <1>3
<1>5. /\ Next1(j, S) \in j..Len(text) /\ text[Next1(j, S)] \in S
      /\ \A m \in j..Next1(j, S)-1 : text[m] \notin S
  BY <1>4 DEF Next1
<1>6. \A m \in j..Next1(j, S)-1 : m \in 1..Len(text) BY <1>1, <1>5
<1> QED BY <1>1, <1>5, <1>6, AtEnd


-----------------------------------------------------------------------------
\* The terminator is no character of any kind.
LEMMA NulIsNone ==
  /\ "NUL" \notin DigitsOf(10) /\ "NUL" \notin DigitsOf(16) /\ "NUL" \notin Fraction
  /\ "NUL" \notin Alphas /\ "NUL" \notin IdentChars /\ "NUL" \notin Blanks
  /\ ToLower("NUL") = "NUL"
<1>1. "NUL" \notin DigitsOf(10) BY DEF DigitsOf, HexDigits
<1>2. "NUL" \notin DigitsOf(16) BY DEF DigitsOf, HexDigits, Uppers
<1>3. "NUL" \notin Alphas BY DEF Alphas, Lowers, Uppers
<1>4. \A n \in 1..26 : Uppers[n] # "NUL" BY DEF Uppers
<1>5. ToLower("NUL") = "NUL" BY <1>4 DEF ToLower
<1> QED BY <1>1, <1>2, <1>3, <1>5 DEF Fraction, IdentChars, Blanks

\* A character that is no terminator in lower case is one of the text.
LEMMA LowIn ==
  ASSUME text \in Texts, NEW j \in Nat \ {0}, Low(j) # "NUL"
  PROVE  j \in 1..Len(text)
BY AtEnd, NulIsNone DEF Low

\* A literal ends in the text or just behind it, and is not empty.
LEMMA LiteralIn ==
  ASSUME text \in Texts, NEW s \in 1..Len(text)
  PROVE  LiteralAt(s).end \in s+1..Len(text)+1
<1>1. Len(text) \in Nat BY AtEnd
<1> DEFINE first == IF At(s + 1) \in {"x", "b"} THEN s + 2 ELSE s + 1
           e == EndOf(first, DigitsOf(16))
           from == IF At(s) = "." THEN first ELSE e
<1>2. first \in s+1..Len(text)+1 BY <1>1, AtEnd
<1>3. e \in first..Len(text)+1 BY <1>2, <1>1, EndOfIn, NulIsNone
<1>4. from \in s+1..Len(text)+1 BY <1>1, <1>2, <1>3
<1>5. EndOf(from, Fraction) \in from..Len(text)+1 BY <1>1, <1>4, EndOfIn, NulIsNone
<1>6. DigitsEnd(s) = IF At(s) = "." \/ At(e) = "." THEN EndOf(from, Fraction) ELSE e
  BY DEF DigitsEnd
<1>7. DigitsEnd(s) \in s+1..Len(text)+1 BY <1>1, <1>2, <1>3, <1>4, <1>5, <1>6
<1> HIDE DEF first, e, from
<1>8. ASSUME NEW end \in s+1..Len(text)+1, NEW decimal
      PROVE  Suffix(end, decimal).end \in s+1..Len(text)+1
  <2>1. Low(end) # "NUL" => end \in 1..Len(text) BY <1>1, LowIn
  <2>2. Low(end + 1) # "NUL" => end + 1 \in 1..Len(text) BY <1>1, LowIn
  <2>3. Low(end + 2) # "NUL" => end + 2 \in 1..Len(text) BY <1>1, LowIn
  <2> QED BY <1>1, <2>1, <2>2, <2>3 DEF Suffix
<1> QED BY <1>7, <1>8 DEF LiteralAt

-----------------------------------------------------------------------------
(***************************************************************************)
(* The index stays in the text, and where it stops is where it is read     *)
(* past its end.                                                           *)
(***************************************************************************)
Inside == text \in Texts /\ i \in 1..Len(text)+1

LEMMA InsideIn ==
  ASSUME Inside
  PROVE  text \in Texts /\ Len(text) \in Nat /\ i \in Nat \ {0} /\ i <= Len(text) + 1
<1>1. text \in Texts /\ i \in 1..Len(text)+1 BY DEF Inside
<1>2. Len(text) \in Nat BY <1>1, AtEnd
<1> QED BY <1>1, <1>2

UnclosedAt(j) == IsBlockComment(j) /\ \A k \in j+2..Len(text) : ~Closes(k)

Reads == lexing = "overrun" /\ Last(text) = "\n" => UnclosedAt(i)

\* No operator is spelled with the terminator, makes a name or
\* ends the text.
LEMMA OperatorTypes ==
  /\ \A op \in OneChar : op[1] # "NUL" /\ op[2] \notin {"IDENTIFIER", "END"}
  /\ \A op \in TwoChars : op[1] # "NUL" /\ op[2] # "NUL" /\ op[3] \notin {"IDENTIFIER", "END"}
<1>1. \A op \in OneChar : \E c, type : /\ op = <<c, type>>
                                        /\ c # "NUL" /\ type # "IDENTIFIER" /\ type # "END"
  BY Zenon DEF OneChar
<1>2. \A op \in TwoChars : op[1] # "NUL" /\ op[2] # "NUL" /\ op[3] \notin {"IDENTIFIER", "END"}
  BY DEF TwoChars
<1> QED BY <1>1, <1>2

\* An operator takes only characters that are there.
LEMMA OperatorIn ==
  ASSUME text \in Texts, NEW j \in Nat \ {0}, NEW op \in OperatorsAt(j)
  PROVE  op.len \in 1..3 /\ j + op.len <= Len(text) + 1 /\ op.type \notin {"IDENTIFIER", "END"}
<1>1. /\ Len(text) \in Nat
      /\ At(j) # "NUL" => j \in 1..Len(text)
      /\ At(j + 1) # "NUL" => j + 1 \in 1..Len(text)
      /\ At(j + 2) # "NUL" => j + 2 \in 1..Len(text)
  BY AtEnd
<1>2. CASE At(j) = "." /\ At(j + 1) = "." /\ At(j + 2) = "."
  BY <1>1, <1>2 DEF OperatorsAt
<1>3. CASE At(j) = "-" /\ At(j + 1) = ">" /\ At(j + 2) = "*"
  BY <1>1, <1>3 DEF OperatorsAt
<1>4. CASE /\ ~(At(j) = "." /\ At(j + 1) = "." /\ At(j + 2) = ".")
           /\ ~(At(j) = "-" /\ At(j + 1) = ">" /\ At(j + 2) = "*")
  BY <1>1, <1>4, OperatorTypes DEF OperatorsAt
<1> QED BY <1>2, <1>3, <1>4

\* One step of the tokenizer that moves the index, or does not.
Moves == text' = text /\ i' \in i+1..Len(text)+1 /\ lexing' = lexing
Halts(how) == text' = text /\ i' = i /\ lexing' = how

LEMMA StopHalts ==
  ASSUME NEW how, Stop(how) PROVE Halts(how)
BY DEF Stop, Halts

LEMMA GotoMoves ==
  ASSUME Inside, NEW e \in i+1..Len(text)+1, Goto(e), UNCHANGED <<text, lexing>>
  PROVE  Moves
BY DEF Goto, Moves

LEMMA LineCommentStep ==
  ASSUME Inside, LineComment
  PROVE  Moves \/ (Halts("overrun") /\ (Last(text) = "\n" => UnclosedAt(i)))
<1>1. Len(text) \in Nat /\ i + 1 \in 1..Len(text)
  BY AtEnd DEF Inside, LineComment, IsLineComment
<1>2. CASE HasNext(i + 1, {"\n"})
  <2>1. Next1(i + 1, {"\n"}) \in i+1..Len(text)+1 BY <1>1, <1>2, Next1In DEF Inside
  <2> QED BY <1>2, <2>1, GotoMoves DEF LineComment
<1>3. CASE ~HasNext(i + 1, {"\n"})
  <2>1. Last(text) # "\n" BY <1>1, <1>3 DEF HasNext, Last
  <2> QED BY <1>3, <2>1, StopHalts DEF LineComment
<1> QED BY <1>2, <1>3

LEMMA BlockCommentStep ==
  ASSUME Inside, BlockComment
  PROVE  Moves \/ (Halts("overrun") /\ UnclosedAt(i))
<1>1. Len(text) \in Nat /\ i \in Nat BY AtEnd DEF Inside
<1>2. CASE \E k \in i+2..Len(text) : Closes(k)
  <2>1. PICK k \in i+2..Len(text) :
          Closes(k) /\ SkipTo(k, Newlines(i + 2, k)) /\ UNCHANGED <<text, lexing>>
    BY <1>2 DEF BlockComment
  <2>2. k + 1 \in 1..Len(text) BY <1>1, <2>1, AtEnd DEF Closes, Inside
  <2> QED BY <1>1, <2>1, <2>2 DEF SkipTo, Moves
<1>3. CASE ~\E k \in i+2..Len(text) : Closes(k)
  BY <1>3, StopHalts DEF BlockComment, UnclosedAt
<1> QED BY <1>2, <1>3

LEMMA NewlineStep ==
  ASSUME Inside, Newline PROVE Moves
<1>1. Len(text) \in Nat /\ i \in 1..Len(text) BY AtEnd DEF Inside, Newline
<1> QED BY <1>1 DEF Newline, Moves

LEMMA BlankStep ==
  ASSUME Inside, Blank PROVE Moves
<1>1. Len(text) \in Nat /\ i \in 1..Len(text) BY AtEnd, NulIsNone DEF Inside, Blank
<1> QED BY <1>1, GotoMoves DEF Blank

LEMMA OperatorStep ==
  ASSUME Inside, Operator PROVE Moves
<1>1. Len(text) \in Nat /\ i \in Nat \ {0} BY AtEnd DEF Inside
<1>2. PICK op \in OperatorsAt(i) : Goto(i + op.len) BY DEF Operator
<1>3. i + op.len \in i+1..Len(text)+1 BY <1>1, OperatorIn DEF Inside
<1> QED BY <1>2, <1>3, GotoMoves DEF Operator

\* A numeric literal starts with a character.
LEMMA NumberStarts ==
  ASSUME Inside, At(i) \in DigitsOf(10) \/ IsFloat(i)
  PROVE  Len(text) \in Nat /\ i \in 1..Len(text) /\ LiteralAt(i).end \in i+1..Len(text)+1
<1>1. Len(text) \in Nat /\ i \in 1..Len(text) BY AtEnd, NulIsNone DEF Inside, IsFloat
<1> QED BY <1>1, LiteralIn DEF Inside

LEMMA FloatLiteralStep ==
  ASSUME Inside, FloatLiteral PROVE Moves
BY NumberStarts, GotoMoves DEF FloatLiteral

LEMMA IntLiteralStep ==
  ASSUME Inside, IntLiteral PROVE Moves \/ Halts("crash")
<1>1. CASE IsFloat(i) BY <1>1, StopHalts DEF IntLiteral
<1>2. CASE ~IsFloat(i) BY <1>2, NumberStarts, GotoMoves DEF IntLiteral, PushInt
<1> QED BY <1>1, <1>2

\* The quote of a literal is there.
LEMMA QuoteIn ==
  ASSUME Inside, NEW quote \in Quotes, StartsLiteral(quote)
  PROVE  /\ Len(text) \in Nat /\ Quote(i) \in i..i+1 /\ Quote(i) \in 1..Len(text)
         /\ text[Quote(i)] \in Quotes
<1>1. "NUL" \notin Quotes BY DEF Quotes
<1>2. At(i) \in Quotes => Quote(i) = i BY DEF Quote
<1>3. At(i) \notin Quotes => Quote(i) = i + 1 /\ At(i + 1) = quote BY DEF Quote, StartsLiteral
<1> QED BY <1>1, <1>2, <1>3, AtEnd DEF Inside

LEMMA CharLiteralStep ==
  ASSUME Inside, CharLiteral
  PROVE  \/ Moves \/ Halts("crash")
         \/ Halts("overrun") /\ Last(text) # "\n"
<1> DEFINE c == At(Quote(i) + 1)
           rquote == Quote(i) + 1 + Bytes(c)
           e == IF At(rquote) = "'" THEN rquote + 1 ELSE rquote
<1>1. /\ Len(text) \in Nat /\ Quote(i) \in i..i+1 /\ Quote(i) \in 1..Len(text)
      /\ text[Quote(i)] \in Quotes
  BY QuoteIn DEF CharLiteral, Quotes
<1>2. CASE c = "NUL"
  <2>1. Quote(i) = Len(text) BY <1>1, <1>2, AtEnd DEF Inside
  <2>2. Last(text) # "\n" BY <1>1, <2>1 DEF Last, Quotes
  <2> QED BY <1>2, <2>2, StopHalts DEF CharLiteral
<1>3. CASE c # "NUL" /\ ~Fits(c, StringType(i)) BY <1>3, StopHalts DEF CharLiteral
<1>4. CASE c # "NUL" /\ Fits(c, StringType(i))
  <2>1. Quote(i) + 1 \in 1..Len(text) BY <1>1, <1>4, AtEnd DEF Inside
  <2>2. rquote \in Quote(i)+2..Len(text)+1 BY <1>1, <2>1, AtEnd DEF Bytes, Inside
  <2>3. e \in rquote..Len(text)+1 BY SMTT(40), <1>1, <2>2, AtEnd DEF Inside
  <2>4. e \in i+1..Len(text)+1 BY <1>1, <2>2, <2>3 DEF Inside
  <2>5. Goto(e) /\ UNCHANGED <<text, lexing>> BY <1>4 DEF CharLiteral
  <2> QED BY <2>4, <2>5, GotoMoves
<1> QED BY <1>2, <1>3, <1>4

LEMMA StringLiteralStep ==
  ASSUME Inside, StringLiteral
  PROVE  Moves \/ (Halts("overrun") /\ Last(text) # "\n")
<1>1. /\ Len(text) \in Nat /\ Quote(i) \in i..i+1 /\ Quote(i) \in 1..Len(text)
      /\ text[Quote(i)] \in Quotes
  BY QuoteIn DEF StringLiteral, Quotes
<1>2. CASE ~HasNext(Quote(i) + 1, {"\"", "\n"})
  <2>1. ASSUME Last(text) = "\n" PROVE FALSE
    <3>1. text[Len(text)] = "\n" /\ Quote(i) # Len(text)
      BY <1>1, <2>1 DEF Last, Quotes
    <3>2. Len(text) \in Quote(i)+1..Len(text) BY <1>1, <3>1
    <3> QED BY <1>2, <3>1, <3>2 DEF HasNext
  <2> QED BY <1>2, <2>1, StopHalts DEF StringLiteral
<1>3. CASE HasNext(Quote(i) + 1, {"\"", "\n"})
  <2> DEFINE stop == Next1(Quote(i) + 1, {"\"", "\n"})
             e == IF At(stop) = "\"" THEN stop + 1 ELSE stop
  <2>1. stop \in Quote(i)+1..Len(text)
    <3>1. text \in Texts /\ Quote(i) + 1 \in Nat \ {0} BY <1>1 DEF Inside
    <3> QED BY <3>1, <1>3, Next1In
  <2>2. e \in i+1..Len(text)+1
    <3>1. i \in Nat /\ Len(text) \in Nat BY InsideIn
    <3>2. ASSUME NEW k \in Quote(i)+1..Len(text)
          PROVE  k \in i+1..Len(text)+1 /\ k + 1 \in i+1..Len(text)+1
      BY <1>1, <3>1
    <3> QED BY <2>1, <3>2
  <2>3. Goto(e) /\ UNCHANGED <<text, lexing>> BY <1>3 DEF StringLiteral
  <2> QED BY <2>2, <2>3, GotoMoves
<1> QED BY <1>2, <1>3

StartsName == At(i) \in Alphas \cup {"_"}

\* A name is not empty.
LEMMA NameIn ==
  ASSUME Inside, StartsName
  PROVE  EndOf(i, IdentChars) \in i+1..Len(text)+1
<1>1. At(i) \in IdentChars BY DEF StartsName, IdentChars
<1>2. /\ EndOf(i, IdentChars) \in i..Len(text)+1
      /\ At(EndOf(i, IdentChars)) \notin IdentChars
  BY EndOfIn, NulIsNone DEF Inside
<1>3. EndOf(i, IdentChars) # i BY <1>1, <1>2
<1> QED BY <1>2, <1>3, InsideIn

LEMMA IdentifierStep ==
  ASSUME Inside, Identifier PROVE Moves
BY NameIn, GotoMoves DEF Identifier, StartsName

LEMMA UnknownSymbolStep ==
  ASSUME Inside, UnknownSymbol PROVE Moves
<1>1. At(i) # "NUL" BY DEF UnknownSymbol, Known
<1>2. Len(text) \in Nat /\ i + Bytes(At(i)) \in i+1..Len(text)+1
  BY <1>1, AtEnd DEF Inside, Bytes
<1> QED BY <1>2 DEF UnknownSymbol, Moves

LEMMA EndOfTextStep ==
  ASSUME EndOfText PROVE Halts("done")
BY DEF EndOfText, Halts

-----------------------------------------------------------------------------
\* What every step does to the index.
LEMMA Steps ==
  ASSUME Inside, LexNext
  PROVE  /\ lexing = "run"
         /\ \/ Moves
            \/ \E how \in {"done", "crash"} : Halts(how)
            \/ Halts("overrun") /\ (Last(text) = "\n" => UnclosedAt(i))
<1>1. lexing = "run"
  BY DEF LexNext, LineComment, BlockComment, Newline, Blank, Operator, FloatLiteral,
         IntLiteral, CharLiteral, StringLiteral, Identifier, UnknownSymbol, EndOfText
<1>2. CASE LineComment BY <1>1, <1>2, LineCommentStep
<1>3. CASE BlockComment BY <1>1, <1>3, BlockCommentStep
<1>4. CASE Newline BY <1>1, <1>4, NewlineStep
<1>5. CASE Blank BY <1>1, <1>5, BlankStep
<1>6. CASE Operator BY <1>1, <1>6, OperatorStep
<1>7. CASE FloatLiteral BY <1>1, <1>7, FloatLiteralStep
<1>8. CASE IntLiteral BY <1>1, <1>8, IntLiteralStep
<1>9. CASE CharLiteral BY <1>1, <1>9, CharLiteralStep
<1>10. CASE StringLiteral BY <1>1, <1>10, StringLiteralStep
<1>11. CASE Identifier BY <1>1, <1>11, IdentifierStep
<1>12. CASE UnknownSymbol BY <1>1, <1>12, UnknownSymbolStep
<1>13. CASE EndOfText BY <1>1, <1>13, EndOfTextStep
<1> QED BY <1>2, <1>3, <1>4, <1>5, <1>6, <1>7, <1>8, <1>9, <1>10, <1>11, <1>12, <1>13
        DEF LexNext

LEMMA InsideInit ==
  LexInit => Inside /\ Reads
<1> SUFFICES ASSUME LexInit PROVE Inside /\ Reads OBVIOUS
<1>1. text \in Texts /\ i = 1 /\ lexing = "run" BY DEF LexInit, LexStart
<1>2. Len(text) \in Nat BY <1>1, AtEnd
<1> QED BY <1>1, <1>2 DEF Inside, Reads

LEMMA InsideStep ==
  Inside /\ Reads /\ [LexNext]_lexVars => Inside' /\ Reads'
<1> SUFFICES ASSUME Inside, Reads, [LexNext]_lexVars PROVE Inside' /\ Reads' OBVIOUS
<1>1. CASE LexNext
  <2>1. CASE Moves
    <3>1. text' = text /\ i' \in 1..Len(text)+1 BY <2>1, InsideIn DEF Moves
    <3>2. lexing' = "run" BY <1>1, <2>1, Steps DEF Moves
    <3> QED BY <3>1, <3>2, InsideIn DEF Inside, Reads
  <2>2. CASE \E how \in {"done", "crash"} : Halts(how) BY <2>2 DEF Inside, Reads, Halts
  <2>3. CASE Halts("overrun") /\ (Last(text) = "\n" => UnclosedAt(i))
    <3>1. text' = text /\ i' = i BY <2>3 DEF Halts
    <3>2. UnclosedAt(i) => UnclosedAt(i)'
      BY <3>1 DEF UnclosedAt, IsBlockComment, Closes, At
    <3> QED BY <2>3, <3>1, <3>2 DEF Inside, Reads
  <2> QED BY <1>1, <2>1, <2>2, <2>3, Steps
<1>2. CASE UNCHANGED lexVars
  BY <1>2 DEF lexVars, Inside, Reads, UnclosedAt, IsBlockComment, Closes, At
<1> QED BY <1>1, <1>2

\* Whatever the source file, the index stays in it, and one whose last line is
\* complete is read past its end only if a block comment is open there.
THEOREM LexReadsInside == LexSpec => []ReadsInside
<1>1. Inside /\ Reads => ReadsInside
  <2> SUFFICES ASSUME Inside, Reads PROVE ReadsInside OBVIOUS
  <2>1. i <= Len(text) + 1 BY InsideIn
  <2> QED BY <2>1 DEF Reads, ReadsInside, UnclosedAt
<1> QED BY <1>1, InsideInit, InsideStep, PTL DEF LexSpec

\* Every round of the loop consumes a character or is the last one, so that a
\* text is tokenized in as many rounds as it has characters, and one.
THEOREM LexProgress ==
  LexSpec => [][lexing = "run" /\ (i' > i \/ lexing' # "run")]_lexVars
<1>1. Inside /\ [LexNext]_lexVars =>
        [lexing = "run" /\ (i' > i \/ lexing' # "run")]_lexVars
  <2> SUFFICES ASSUME Inside, LexNext
               PROVE  lexing = "run" /\ (i' > i \/ lexing' # "run")
    OBVIOUS
  <2>1. Moves => i' > i BY InsideIn DEF Moves
  <2>2. (\E how \in {"done", "crash"} : Halts(how)) => lexing' # "run" BY DEF Halts
  <2>3. Halts("overrun") => lexing' # "run" BY DEF Halts
  <2> QED BY <2>1, <2>2, <2>3, Steps
<1> QED BY <1>1, InsideInit, InsideStep, PTL DEF LexSpec

-----------------------------------------------------------------------------
(***************************************************************************)
(* The symbol table holds every name once, and every identifier points at  *)
(* its own.                                                                *)
(***************************************************************************)
Distinct == \A m, n \in 1..Len(symtbl) : symtbl[m] = symtbl[n] => m = n

Named(t) == /\ t.ident \in 1..Len(symtbl)
            /\ symtbl[t.ident] = Chars(t)

IsSeq(s) == \E S : s \in Seq(S)

Names ==
  /\ IsSeq(toks) /\ IsSeq(symtbl)
  /\ Distinct
  /\ \A n \in 1..Len(toks) : toks[n].type = "IDENTIFIER" => Named(toks[n])

\* What adding a token does: it is the last, the others are as they were.
LEMMA AppendIs ==
  ASSUME NEW s, IsSeq(s), NEW e
  PROVE  /\ IsSeq(Append(s, e))
         /\ Len(s) \in Nat /\ Len(Append(s, e)) = Len(s) + 1
         /\ \A k \in 1..Len(s) : Append(s, e)[k] = s[k]
         /\ Append(s, e)[Len(s) + 1] = e
<1>1. PICK S : s \in Seq(S) BY DEF IsSeq
<1>2. s \in Seq(S \cup {e}) BY <1>1
<1>3. Append(s, e) \in Seq(S \cup {e}) BY <1>2
<1> QED BY <1>2, <1>3 DEF IsSeq

\* What a step does to the tokens and the table: nothing, one more token that
\* is no identifier, or an identifier.
KeepsNames == UNCHANGED <<text, toks, symtbl>>
AddsOther == /\ UNCHANGED <<text, symtbl>>
             /\ \E t : t.type # "IDENTIFIER" /\ toks' = Append(toks, t)
AddsName ==
  \E t : /\ text' = text /\ toks' = Append(toks, t)
         /\ t.ident = Place(Chars(t))
         /\ symtbl' = IF InTable(Chars(t)) THEN symtbl ELSE Append(symtbl, Chars(t))

LEMMA OtherToken ==
  ASSUME NEW type, type # "IDENTIFIER", NEW e, NEW val, NEW ident,
         Push(Tok(type, e, val, ident)), UNCHANGED <<text, symtbl>>
  PROVE  AddsOther
<1>1. Tok(type, e, val, ident).type = type BY DEF Tok
<1> QED BY <1>1 DEF Push, AddsOther

LEMMA StopKeeps ==
  ASSUME NEW how, Stop(how) PROVE KeepsNames
BY DEF Stop, KeepsNames

IntNames == {"INT", "UINT", "LONG", "ULONG", "LONGLONG", "ULONGLONG"}

LEMMA LiteralTypes ==
  /\ \A s : LiteralAt(s).type \in IntNames \cup FloatTypes
  /\ \A type \in IntNames \cup FloatTypes : LitToks[type] \notin {"IDENTIFIER", "END"}
<1>1. \A e, decimal : Suffix(e, decimal).type \in IntNames \cup FloatTypes
  BY DEF Suffix, IntNames, FloatTypes
<1>2. \A s : LiteralAt(s).type \in IntNames \cup FloatTypes BY <1>1 DEF LiteralAt
<1>3. \A type \in IntNames \cup FloatTypes : LitToks[type] \notin {"IDENTIFIER", "END"}
  BY DEF LitToks, IntNames, FloatTypes
<1> QED BY <1>2, <1>3

\* The type of an integer is one of the types that were tried.
LEMMA SelectedIn ==
  ASSUME NEW types \in Seq(IntNames), types # <<>>, NEW val
  PROVE  SelectType(types, val) \in IntNames
<1>1. Len(types) \in Nat \ {0} /\ DOMAIN types = 1..Len(types) OBVIOUS
<1>2. CASE TooBig(types, val) BY <1>1, <1>2 DEF SelectType, Last
<1>3. CASE ~TooBig(types, val)
  <2> DEFINE T == {n \in DOMAIN types : InType(val, types[n])}
  <2>1. T \subseteq Nat /\ T # {} BY <1>1, <1>3 DEF TooBig
  <2>2. PICK n \in T : \A m \in T : n <= m BY <2>1, NatMin
  <2>3. n \in DOMAIN types /\ InType(val, types[n]) BY <2>2
  <2>4. \A m \in 1..n-1 : ~InType(val, types[m])
    <3>1. \A m \in 1..n-1 : m \in DOMAIN types /\ ~(n <= m) BY <1>1, <2>3
    <3> QED BY <2>2, <3>1
  <2>5. SelectType(types, val) = types[CHOOSE k \in DOMAIN types :
          InType(val, types[k]) /\ \A m \in 1..k-1 : ~InType(val, types[m])]
    BY <1>3 DEF SelectType
  <2>6. (CHOOSE k \in DOMAIN types :
          InType(val, types[k]) /\ \A m \in 1..k-1 : ~InType(val, types[m])) \in DOMAIN types
    BY <2>3, <2>4
  <2> QED BY <1>1, <2>5, <2>6
<1> QED BY <1>2, <1>3

LEMMA CandidatesIn ==
  ASSUME NEW asked \in IntNames, NEW base
  PROVE  Candidates(asked, base) \in Seq(IntNames) /\ Candidates(asked, base) # <<>>
<1>1. CASE asked = "INT"
  <2>1. CASE base = 10 BY <1>1, <2>1 DEF Candidates, IntNames
  <2>2. CASE base # 10 BY <1>1, <2>2 DEF Candidates, IntNames
  <2> QED BY <2>1, <2>2
<1>2. CASE asked = "UINT" BY <1>2 DEF Candidates, IntNames
<1>3. CASE asked = "LONG"
  <2>1. CASE base = 10 BY <1>3, <2>1 DEF Candidates, IntNames
  <2>2. CASE base # 10 BY <1>3, <2>2 DEF Candidates, IntNames
  <2> QED BY <2>1, <2>2
<1>4. CASE asked = "ULONG" BY <1>4 DEF Candidates, IntNames
<1>5. CASE asked = "LONGLONG"
  <2>1. CASE base = 10 BY <1>5, <2>1 DEF Candidates, IntNames
  <2>2. CASE base # 10 BY <1>5, <2>2 DEF Candidates, IntNames
  <2> QED BY <2>1, <2>2
<1>6. CASE asked = "ULONGLONG" BY <1>6 DEF Candidates, IntNames
<1> QED BY <1>1, <1>2, <1>3, <1>4, <1>5, <1>6 DEF IntNames

LEMMA StringTypes ==
  \A s : /\ CharToks[StringType(s)] \notin {"IDENTIFIER", "END"}
         /\ StringToks[StringType(s)] \notin {"IDENTIFIER", "END"}
<1>1. \A s : StringType(s) \in {"CHAR", "WCHAR", "CHAR16", "CHAR32"}
  BY DEF StringType, LiteralPrefix
<1> QED BY <1>1 DEF CharToks, StringToks

LEMMA KeywordTypes ==
  \A w \in DOMAIN Keywords : Keywords[w] \notin {"IDENTIFIER", "END"}
BY DEF Keywords

LEMMA OperatorAdds ==
  ASSUME Inside, Operator PROVE AddsOther
<1>1. PICK op \in OperatorsAt(i) : Push(Tok(op.type, i + op.len, 0, 0)) BY DEF Operator
<1>2. op.type \notin {"IDENTIFIER", "END"} BY InsideIn, OperatorIn
<1> QED BY <1>1, <1>2, OtherToken DEF Operator

LEMMA NumberAdds ==
  ASSUME FloatLiteral \/ IntLiteral PROVE AddsOther \/ KeepsNames
<1>1. CASE FloatLiteral
  <2>1. LitToks[LiteralAt(i).type] # "IDENTIFIER" BY <1>1, LiteralTypes DEF FloatLiteral
  <2> QED BY <1>1, <2>1, OtherToken DEF FloatLiteral
<1>2. CASE IntLiteral /\ IsFloat(i) BY <1>2, StopKeeps DEF IntLiteral
<1>3. CASE IntLiteral /\ ~IsFloat(i)
  <2> DEFINE types == Candidates(LiteralAt(i).type, Base(i))
             type == SelectType(types, ReadInt(i, Base(i)))
  <2>1. LiteralAt(i).type \in IntNames BY <1>3, LiteralTypes DEF IntLiteral
  <2>2. types \in Seq(IntNames) /\ types # <<>> BY <2>1, CandidatesIn
  <2> HIDE DEF types
  <2>3. LitToks[type] # "IDENTIFIER" BY <2>2, SelectedIn, LiteralTypes
  <2>4. \E e, val : Push(Tok(LitToks[type], e, val, 0)) BY <1>3 DEF IntLiteral, PushInt, types
  <2>5. UNCHANGED <<text, symtbl>> BY <1>3 DEF IntLiteral
  <2> HIDE DEF type
  <2> QED BY <2>3, <2>4, <2>5, OtherToken
<1> QED BY <1>1, <1>2, <1>3

LEMMA QuotedAdds ==
  ASSUME CharLiteral \/ StringLiteral PROVE AddsOther \/ KeepsNames
<1>1. CASE CharLiteral
  <2>1. \/ Stop("overrun") \/ Stop("crash")
        \/ /\ \E e : Push(Tok(CharToks[StringType(i)], e, 0, 0))
           /\ UNCHANGED <<text, symtbl>>
    BY <1>1 DEF CharLiteral
  <2> QED BY <2>1, StopKeeps, StringTypes, OtherToken
<1>2. CASE StringLiteral
  <2>1. \/ Stop("overrun")
        \/ /\ \E e : Push(Tok(StringToks[StringType(i)], e, 0, 0))
           /\ UNCHANGED <<text, symtbl>>
    BY <1>2 DEF StringLiteral
  <2> QED BY <2>1, StopKeeps, StringTypes, OtherToken
<1> QED BY <1>1, <1>2

LEMMA IdentifierAdds ==
  ASSUME Identifier PROVE AddsOther \/ AddsName
<1> DEFINE e == EndOf(i, IdentChars)
           name == SubSeq(text, i, e - 1)
<1>1. CASE Spelling(name) \in DOMAIN Keywords
  <2>1. Push(Tok(Keywords[Spelling(name)], e, 0, 0)) /\ UNCHANGED <<text, symtbl>>
    BY <1>1 DEF Identifier
  <2> QED BY <1>1, <2>1, KeywordTypes, OtherToken
<1>2. CASE Spelling(name) \notin DOMAIN Keywords
  <2> DEFINE t == Tok("IDENTIFIER", e, 0, Place(name))
  <2>1. Chars(t) = name /\ t.ident = Place(name) BY DEF Tok, Chars
  <2>2. /\ text' = text /\ toks' = Append(toks, t)
        /\ symtbl' = IF InTable(name) THEN symtbl ELSE Append(symtbl, name)
    BY <1>2 DEF Identifier, Push
  <2> HIDE DEF t, name
  <2> QED BY <2>1, <2>2 DEF AddsName
<1> QED BY <1>1, <1>2

LEMMA NameSteps ==
  ASSUME Inside, LexNext PROVE KeepsNames \/ AddsOther \/ AddsName
<1>1. CASE LineComment BY <1>1, StopKeeps DEF LineComment, KeepsNames
<1>2. CASE BlockComment BY <1>2, StopKeeps DEF BlockComment, KeepsNames
<1>3. CASE Newline \/ Blank \/ UnknownSymbol
  BY <1>3 DEF Newline, Blank, UnknownSymbol, KeepsNames
<1>4. CASE Operator BY <1>4, OperatorAdds
<1>5. CASE FloatLiteral \/ IntLiteral BY <1>5, NumberAdds
<1>6. CASE CharLiteral \/ StringLiteral BY <1>6, QuotedAdds
<1>7. CASE Identifier BY <1>7, IdentifierAdds
<1>8. CASE EndOfText
  <2>1. Push(Tok("END", i, 0, 0)) /\ UNCHANGED <<text, symtbl>> BY <1>8 DEF EndOfText
  <2> QED BY <2>1, OtherToken
<1> QED BY <1>1, <1>2, <1>3, <1>4, <1>5, <1>6, <1>7, <1>8 DEF LexNext

LEMMA KeepsStep ==
  ASSUME Names, KeepsNames PROVE Names'
BY DEF Names, KeepsNames, Distinct, Named, Chars

LEMMA OtherStep ==
  ASSUME Names, AddsOther PROVE Names'
<1>1. PICK t : t.type # "IDENTIFIER" /\ toks' = Append(toks, t) BY DEF AddsOther
<1>2. text' = text /\ symtbl' = symtbl BY DEF AddsOther
<1>3. /\ IsSeq(toks')
      /\ Len(toks) \in Nat /\ Len(toks') = Len(toks) + 1
      /\ \A k \in 1..Len(toks) : toks'[k] = toks[k]
      /\ toks'[Len(toks) + 1] = t
  BY <1>1, AppendIs DEF Names
<1>4. ASSUME NEW n \in 1..Len(toks'), toks'[n].type = "IDENTIFIER"
      PROVE  Named(toks[n])'
  <2>1. n \in 1..Len(toks) BY <1>1, <1>3, <1>4
  <2>2. Named(toks[n]) BY <1>3, <1>4, <2>1 DEF Names
  <2> QED BY <1>2, <1>3, <2>1, <2>2 DEF Named, Chars
<1> QED BY <1>2, <1>3, <1>4 DEF Names, Distinct

\* A name that is looked up is found at its place, or put there.
LEMMA PlaceIs ==
  ASSUME Names, NEW name,
         symtbl' = IF InTable(name) THEN symtbl ELSE Append(symtbl, name)
  PROVE  /\ IsSeq(symtbl')
         /\ Place(name) \in 1..Len(symtbl') /\ symtbl'[Place(name)] = name
         /\ Distinct'
         /\ Len(symtbl) \in Nat /\ Len(symtbl) <= Len(symtbl')
         /\ \A k \in 1..Len(symtbl) : symtbl'[k] = symtbl[k]
<1>1. CASE InTable(name)
  <2>1. PICK s \in 1..Len(symtbl) : symtbl[s] = name BY <1>1 DEF InTable
  <2>2. Len(symtbl) \in Nat BY AppendIs DEF Names
  <2>3. \A r \in 1..s-1 : symtbl[r] # name BY <2>1, <2>2 DEF Names, Distinct
  <2>4. Place(name) \in 1..Len(symtbl) /\ symtbl[Place(name)] = name
    BY <1>1, <2>1, <2>3 DEF Place
  <2> QED BY <1>1, <2>2, <2>4 DEF Names, Distinct
<1>2. CASE ~InTable(name)
  <2>1. symtbl' = Append(symtbl, name) /\ Place(name) = Len(symtbl) + 1 BY <1>2 DEF Place
  <2>2. /\ IsSeq(symtbl')
        /\ Len(symtbl) \in Nat /\ Len(symtbl') = Len(symtbl) + 1
        /\ \A k \in 1..Len(symtbl) : symtbl'[k] = symtbl[k]
        /\ symtbl'[Len(symtbl) + 1] = name
    BY <2>1, AppendIs DEF Names
  <2>3. Distinct'
    <3> SUFFICES ASSUME NEW m \in 1..Len(symtbl'), NEW n \in 1..Len(symtbl'),
                        symtbl'[m] = symtbl'[n]
                 PROVE  m = n
      BY DEF Distinct
    <3>1. CASE m \in 1..Len(symtbl) /\ n \in 1..Len(symtbl)
      BY <2>2, <3>1 DEF Names, Distinct
    <3>2. CASE m = Len(symtbl) + 1 \/ n = Len(symtbl) + 1
      BY <1>2, <2>2, <3>2 DEF InTable
    <3> QED BY <2>2, <3>1, <3>2
  <2> QED BY <2>1, <2>2, <2>3
<1> QED BY <1>1, <1>2

LEMMA NameStep ==
  ASSUME Names, AddsName PROVE Names'
<1>1. PICK t : /\ text' = text /\ toks' = Append(toks, t)
               /\ t.ident = Place(Chars(t))
               /\ symtbl' = IF InTable(Chars(t)) THEN symtbl ELSE Append(symtbl, Chars(t))
  BY DEF AddsName
<1> DEFINE name == Chars(t)
<1>2. Chars(t)' = name BY <1>1 DEF Chars
<1>3. /\ IsSeq(symtbl')
      /\ Place(name) \in 1..Len(symtbl') /\ symtbl'[Place(name)] = name
      /\ Distinct'
      /\ Len(symtbl) \in Nat /\ Len(symtbl) <= Len(symtbl')
      /\ \A k \in 1..Len(symtbl) : symtbl'[k] = symtbl[k]
  BY <1>1, PlaceIs
<1>4. /\ IsSeq(toks')
      /\ Len(toks) \in Nat /\ Len(toks') = Len(toks) + 1
      /\ \A k \in 1..Len(toks) : toks'[k] = toks[k]
      /\ toks'[Len(toks) + 1] = t
  BY <1>1, AppendIs DEF Names
<1>5. Len(symtbl') \in Nat BY <1>3, AppendIs
<1>6. Named(t)' BY <1>1, <1>2, <1>3 DEF Named
<1>7. ASSUME NEW n \in 1..Len(toks'), toks'[n].type = "IDENTIFIER"
      PROVE  Named(toks[n])'
  <2>1. CASE n = Len(toks) + 1 BY <1>4, <1>6, <2>1
  <2>2. CASE n \in 1..Len(toks)
    <3>1. Named(toks[n]) BY <1>4, <1>7, <2>2 DEF Names
    <3> QED BY <1>1, <1>3, <1>4, <1>5, <2>2, <3>1 DEF Named, Chars
  <2> QED BY <1>4, <2>1, <2>2
<1> QED BY <1>3, <1>4, <1>7 DEF Names

\* Whatever the source file, two identifier tokens share an entry of the symbol
\* table exactly if they are spelled alike.
THEOREM LexSymbolsShared == LexSpec => []SymbolsShared
<1>1. LexInit => Names
  <2>1. IsSeq(<<>>) /\ Len(<<>>) = 0
    <3>1. <<>> \in Seq({}) OBVIOUS
    <3> QED BY <3>1 DEF IsSeq
  <2>2. LexInit => toks = <<>> /\ symtbl = <<>> BY DEF LexInit, LexStart
  <2> QED BY <2>1, <2>2 DEF Names, Distinct
<1>2. Inside /\ Names /\ [LexNext]_lexVars => Names'
  <2> SUFFICES ASSUME Inside, Names, [LexNext]_lexVars PROVE Names' OBVIOUS
  <2>1. CASE LexNext BY <2>1, NameSteps, KeepsStep, OtherStep, NameStep
  <2>2. CASE UNCHANGED lexVars BY <2>2, KeepsStep DEF lexVars, KeepsNames
  <2> QED BY <2>1, <2>2
<1>3. Names => SymbolsShared BY SMTT(40) DEF Names, SymbolsShared, Named, Distinct
<1> QED BY <1>1, <1>2, <1>3, InsideInit, InsideStep, PTL DEF LexSpec

-----------------------------------------------------------------------------
(***************************************************************************)
(* What is skipped between two tokens.                                     *)
(***************************************************************************)
\* The positions from..to that T closes under skipping.
Closed(T, from, to) ==
  /\ from \in T
  /\ \A j, k \in from..to : j \in T /\ j < k /\ Skippable(j, k) => k \in T

Crossed(from, to) ==
  from <= to /\ \A T \in SUBSET (from..to) : Closed(T, from, to) => to \in T

\* A gap is crossed whatever set of positions is closed under skipping: what the
\* recursion computes is the least such set.
LEMMA GapIs ==
  \A from, to \in Nat : IsGap(from, to) <=> Crossed(from, to)
<1> SUFFICES ASSUME NEW from \in Nat, NEW to \in Nat, from <= to
             PROVE  IsGap(from, to) <=> Crossed(from, to)
  BY DEF IsGap, Crossed
<1> DEFINE D == from..to
           Body(f, k) == k = from \/ \E j \in from..k-1 : f[j] /\ Skippable(j, k)
           In(k) == \A T \in SUBSET D : Closed(T, from, to) => k \in T
           G == [k \in D |-> In(k)]
           reached == CHOOSE f : f = [k \in D |-> Body(f, k)]
<1>1. ASSUME NEW k \in D PROVE In(k) <=> Body(G, k)
  <2>1. ASSUME In(k), k # from, \A j \in from..k-1 : ~(In(j) /\ Skippable(j, k)) PROVE FALSE
    <3> DEFINE T == {m \in D : In(m) /\ m # k}
    <3>1. Closed(T, from, to)
      <4>1. In(from) BY DEF Closed
      <4>2. ASSUME NEW j \in D, NEW m \in D, j \in T, j < m, Skippable(j, m) PROVE m \in T
        <5>1. In(m) BY <4>2 DEF Closed
        <5>2. m # k
          <6>1. j \in from..m-1 BY <4>2
          <6> QED BY <6>1, <4>2, <2>1
        <5> QED BY <5>1, <5>2
      <4>3. from \in T BY <4>1, <2>1
      <4> HIDE DEF T
      <4> QED BY <4>2, <4>3 DEF Closed
    <3>2. T \in SUBSET D OBVIOUS
    <3> QED BY <3>1, <3>2, <2>1
  <2>2. ASSUME k = from PROVE In(k) BY <2>2 DEF Closed
  <2>3. ASSUME NEW j \in from..k-1, In(j), Skippable(j, k) PROVE In(k)
    <3>1. j \in D /\ j < k OBVIOUS
    <3> QED BY <3>1, <2>3 DEF Closed
  <2>4. \A j \in from..k-1 : j \in D /\ (G[j] <=> In(j)) OBVIOUS
  <2> HIDE DEF In, G
  <2> QED BY <2>1, <2>2, <2>3, <2>4
<1>2. G = [k \in D |-> Body(G, k)]
  <2>1. \A k \in D : In(k) = Body(G, k) BY <1>1, Zenon
  <2> HIDE DEF In, Body
  <2> QED BY <2>1, Zenon DEF G
<1>3. reached = [k \in D |-> Body(reached, k)]
  <2> HIDE DEF G
  <2> QED BY <1>2
<1>4. \A k \in D : reached[k] <=> Body(reached, k)
  <2> HIDE DEF reached
  <2> QED BY <1>3, Zenon
<1>5. IsGap(from, to) <=> reached[to] BY DEF IsGap
<1> HIDE DEF reached
<1>6. ASSUME reached[to] PROVE In(to)
  <2> SUFFICES ASSUME NEW T \in SUBSET D, Closed(T, from, to), to \notin T PROVE FALSE OBVIOUS
  <2> DEFINE Bad == {k \in D : reached[k] /\ k \notin T}
  <2>1. to \in Bad BY <1>6
  <2>2. PICK k \in Bad : \A m \in Bad : k <= m
    <3>1. Bad \subseteq Nat OBVIOUS
    <3> QED BY <2>1, <3>1, NatMin
  <2>3. k \in D /\ reached[k] /\ k \notin T OBVIOUS
  <2>4. k # from BY <2>3 DEF Closed
  <2>5. PICK j \in from..k-1 : reached[j] /\ Skippable(j, k) BY <1>4, <2>3, <2>4
  <2>6. j \in D /\ j < k BY <2>3, <2>5
  <2>7. j \in T BY <2>2, <2>5, <2>6
  <2> QED BY <2>3, <2>5, <2>6, <2>7 DEF Closed
<1>7. ASSUME In(to) PROVE reached[to]
  <2> DEFINE T == {k \in D : reached[k]}
  <2>1. Closed(T, from, to)
    <3>1. from \in D /\ Body(reached, from) OBVIOUS
    <3>2. from \in T BY <3>1, <1>4
    <3>3. ASSUME NEW j \in D, NEW k \in D, j \in T, j < k, Skippable(j, k) PROVE k \in T
      <4>1. j \in from..k-1 /\ reached[j] BY <3>3
      <4>2. Body(reached, k) BY <4>1, <3>3
      <4> QED BY <4>2, <1>4
    <3> HIDE DEF T
    <3> QED BY <3>2, <3>3 DEF Closed
  <2>2. T \in SUBSET D OBVIOUS
  <2>3. to \in T BY <2>1, <2>2, <1>7
  <2> QED BY <2>3
<1> QED BY <1>5, <1>6, <1>7 DEF Crossed

\* Nothing is a gap, and what is skipped lengthens one.
LEMMA GapSelf ==
  \A j \in Nat : IsGap(j, j)
<1> SUFFICES ASSUME NEW j \in Nat PROVE IsGap(j, j) OBVIOUS
<1>1. Crossed(j, j) BY DEF Crossed, Closed
<1> QED BY <1>1, GapIs

\* A gap with something skippable behind it is a longer gap.
LEMMA GapLonger ==
  \A from, j, k \in Nat : IsGap(from, j) /\ j < k /\ Skippable(j, k) => IsGap(from, k)
<1> SUFFICES ASSUME NEW from \in Nat, NEW j \in Nat, NEW k \in Nat,
                    IsGap(from, j), j < k, Skippable(j, k)
             PROVE  IsGap(from, k)
  OBVIOUS
<1>1. from <= j /\ Crossed(from, j) BY GapIs DEF Crossed
<1>2. ASSUME NEW T \in SUBSET (from..k), Closed(T, from, k) PROVE k \in T
  <2>1. Closed(T \cap (from..j), from, j)
    <3>1. \A a \in from..j : a \in from..k BY <1>1
    <3>2. from \in T /\ from \in from..j BY <1>1, <1>2 DEF Closed
    <3>3. ASSUME NEW a \in from..j, NEW b \in from..j, a \in T, a < b, Skippable(a, b)
          PROVE  b \in T
      BY <3>1, <3>3, <1>2 DEF Closed
    <3> QED BY <3>2, <3>3 DEF Closed
  <2>2. j \in T BY <1>1, <2>1 DEF Crossed
  <2>3. j \in from..k /\ k \in from..k BY <1>1
  <2> QED BY <2>2, <2>3, <1>2 DEF Closed
<1>3. Crossed(from, k) BY <1>1, <1>2 DEF Crossed
<1> QED BY <1>3, GapIs

\* The same in the next state.
LEMMA GapNext ==
  /\ (\A from, to \in Nat : IsGap(from, to) <=> Crossed(from, to))'
  /\ (\A j \in Nat : IsGap(j, j))'
  /\ (\A from, j, k \in Nat : IsGap(from, j) /\ j < k /\ Skippable(j, k) => IsGap(from, k))'
BY GapIs, GapSelf, GapLonger, PTL

\* What may be skipped still may be: the text stays, and what was reported.
LEMMA SkippableStays ==
  ASSUME text' = text,
         (\E n \in 1..Len(lexDiags) : Unknown(n)) => (\E n \in 1..Len(lexDiags) : Unknown(n))',
         NEW j, NEW k, Skippable(j, k)
  PROVE  Skippable(j, k)'
<1>1. \A m : At(m)' = At(m) BY DEF At
<1>2. \A a, b : Newlines(a, b)' = Newlines(a, b) BY <1>1 DEF Newlines
<1>3. \A m : Closes(m)' <=> Closes(m) BY <1>1 DEF Closes
<1>4. IsLineComment(j)' <=> IsLineComment(j) BY <1>1 DEF IsLineComment
<1>5. IsBlockComment(j)' <=> IsBlockComment(j) BY <1>1 DEF IsBlockComment
<1>6. CASE At(j) \in Blanks \cup {"\n"} /\ k = j + 1 BY <1>6, <1>1 DEF Skippable
<1>7. CASE At(j) \notin Known /\ k = j + Bytes(At(j)) /\ \E n \in 1..Len(lexDiags) : Unknown(n)
  BY <1>7, <1>1 DEF Skippable
<1>8. CASE IsLineComment(j) /\ At(k) = "\n" /\ Newlines(j, k - 1) = {}
  BY <1>8, <1>1, <1>2, <1>4 DEF Skippable
<1>9. CASE /\ IsBlockComment(j) /\ k >= j + 4 /\ Closes(k - 2)
           /\ \A m \in j+2..k-3 : ~Closes(m)
  BY <1>9, <1>3, <1>5 DEF Skippable
<1> QED BY <1>6, <1>7, <1>8, <1>9 DEF Skippable

\* So a gap stays one.
LEMMA GapStays ==
  ASSUME text' = text,
         (\E n \in 1..Len(lexDiags) : Unknown(n)) => (\E n \in 1..Len(lexDiags) : Unknown(n))',
         NEW from \in Nat, NEW to \in Nat, IsGap(from, to)
  PROVE  IsGap(from, to)'
<1>1. \A j, k : Skippable(j, k) => Skippable(j, k)' BY SkippableStays
<1>2. Crossed(from, to) BY GapIs
<1>3. \A T : Closed(T, from, to)' => Closed(T, from, to) BY <1>1 DEF Closed
<1>4. Crossed(from, to)' BY <1>2, <1>3 DEF Crossed
<1> QED BY <1>4, GapNext

-----------------------------------------------------------------------------
(***************************************************************************)
(* What a step does to the tokens, the index and the diagnostics: it skips *)
(* something, takes a token, ends the text or stops.                       *)
(***************************************************************************)
AreErrors(errs) == IsSeq(errs) /\ \A n \in 1..Len(errs) : errs[n].type = "ERROR"

Tells == \E errs : AreErrors(errs) /\ lexDiags' = lexDiags \o errs

SkipsUnknown == /\ At(i) \notin Known /\ i' = i + Bytes(At(i))
                /\ \E n \in 1..Len(lexDiags') : Unknown(n)'

Skips == /\ UNCHANGED <<text, toks, lexing>>
         /\ i' \in i+1..Len(text)+1
         /\ Skippable(i, i') \/ SkipsUnknown

Takes == /\ UNCHANGED <<text, lexing>>
         /\ i' \in i+1..Len(text)+1
         /\ \E t : /\ toks' = Append(toks, t)
                   /\ t.at = i /\ t.end = i' /\ t.type # "END"

Ends == /\ UNCHANGED <<text, i>> /\ lexing' = "done"
        /\ i = Len(text) + 1
        /\ toks' = Append(toks, Tok("END", i, 0, 0))

Stops == UNCHANGED <<text, i, toks>> /\ lexing' \in {"overrun", "crash"}

\* In a stop nothing is taken.
LEMMA StopStops ==
  ASSUME NEW how \in {"overrun", "crash"}, Stop(how) PROVE Stops /\ UNCHANGED lexDiags
BY DEF Stop, Stops

\* Reporting is adding to what was reported.
LEMMA ReportTells ==
  ASSUME NEW errs, AreErrors(errs), Report(errs) PROVE Tells
BY DEF Report, Tells

\* The diagnostics of a literal: none, one, or the same several times.
LEMMA ErrorsAre ==
  /\ IsSeq(<<>>)
  /\ \A e : IsSeq(<<e>>)
  /\ \A e : \A n \in Nat : IsSeq([k \in 1..n |-> e])
<1>1. <<>> \in Seq({}) OBVIOUS
<1>2. \A e : <<e>> \in Seq({e}) OBVIOUS
<1>3. \A e : \A n \in Nat : [k \in 1..n |-> e] \in Seq({e}) OBVIOUS
<1> QED BY <1>1, <1>2, <1>3 DEF IsSeq

\* Diagnostics of its parts, one after the other.
LEMMA ErrorsJoin ==
  ASSUME NEW s, NEW t, IsSeq(s), IsSeq(t)
  PROVE  /\ IsSeq(s \o t)
         /\ Len(s) \in Nat /\ Len(t) \in Nat /\ Len(s \o t) = Len(s) + Len(t)
         /\ \A k \in 1..Len(s) : (s \o t)[k] = s[k]
         /\ \A k \in 1..Len(t) : (s \o t)[Len(s) + k] = t[k]
<1>1. PICK S : s \in Seq(S) BY DEF IsSeq
<1>2. PICK T : t \in Seq(T) BY DEF IsSeq
<1>3. s \in Seq(S \cup T) /\ t \in Seq(S \cup T) BY <1>1, <1>2
<1>4. s \o t \in Seq(S \cup T) BY <1>3
<1> QED BY <1>3, <1>4 DEF IsSeq

\* All of them are errors.
LEMMA ComplaintsAre ==
  /\ AreErrors(<<>>)
  /\ \A err : AreErrors(<<Error(err)>>)
  /\ \A err : \A n \in Nat : AreErrors([k \in 1..n |-> Error(err)])
<1>1. \A err : Error(err).type = "ERROR" BY DEF Error
<1>2. Len(<<>>) = 0 OBVIOUS
<1>3. \A e : Len(<<e>>) = 1 /\ <<e>>[1] = e OBVIOUS
<1>4. \A e : \A n \in Nat : /\ Len([k \in 1..n |-> e]) = n
                             /\ \A m \in 1..n : [k \in 1..n |-> e][m] = e
  OBVIOUS
<1>5. AreErrors(<<>>) BY <1>2, ErrorsAre DEF AreErrors
<1>6. \A e : e.type = "ERROR" => AreErrors(<<e>>) BY <1>3, ErrorsAre DEF AreErrors
<1>7. \A e : e.type = "ERROR" => \A n \in Nat : AreErrors([k \in 1..n |-> e])
  BY <1>4, ErrorsAre DEF AreErrors
<1> QED BY <1>1, <1>5, <1>6, <1>7

LEMMA ComplaintsJoin ==
  ASSUME NEW s, NEW t, AreErrors(s), AreErrors(t)
  PROVE  AreErrors(s \o t)
<1>1. IsSeq(s) /\ IsSeq(t) BY DEF AreErrors
<1>2. PICK u : u = s \o t OBVIOUS
<1>3. /\ IsSeq(u) /\ Len(s) \in Nat /\ Len(t) \in Nat /\ Len(u) = Len(s) + Len(t)
      /\ \A k \in 1..Len(s) : u[k] = s[k]
      /\ \A k \in 1..Len(t) : u[Len(s) + k] = t[k]
  BY <1>1, <1>2, ErrorsJoin
<1>4. ASSUME NEW n \in 1..Len(u) PROVE u[n].type = "ERROR"
  <2>1. CASE n \in 1..Len(s) BY <1>3, <2>1 DEF AreErrors
  <2>2. CASE n \notin 1..Len(s)
    <3>1. PICK k \in 1..Len(t) : n = Len(s) + k
      <4>1. n - Len(s) \in 1..Len(t) /\ n = Len(s) + (n - Len(s)) BY <1>3, <2>2
      <4> QED BY <4>1
    <3>2. u[n] = t[k] BY <1>3, <3>1
    <3> QED BY <3>2 DEF AreErrors
  <2> QED BY <2>1, <2>2
<1> QED BY <1>2, <1>3, <1>4 DEF AreErrors

\* A token that starts at the index and ends at `e' takes the text up to `e'.
LEMMA PushTakes ==
  ASSUME NEW type, type # "END", NEW e \in i+1..Len(text)+1, NEW val, NEW ident,
         Push(Tok(type, e, val, ident)), Goto(e), UNCHANGED <<text, lexing>>
  PROVE  Takes
<1>1. /\ Tok(type, e, val, ident).type = type /\ Tok(type, e, val, ident).at = i
      /\ Tok(type, e, val, ident).end = e
  BY DEF Tok
<1> QED BY <1>1 DEF Push, Goto, Takes

\* The characters do not change.
LEMMA AtStays ==
  ASSUME text' = text
  PROVE  /\ \A j : At(j)' = At(j)
         /\ \A j : Closes(j)' <=> Closes(j)
         /\ \A j, k : Newlines(j, k)' = Newlines(j, k)
<1>1. \A j : At(j)' = At(j) BY DEF At
<1> QED BY <1>1 DEF Closes, Newlines

\* An action that adds no token goes on behind something skippable, or stops.
LEMMA CommentSkips ==
  ASSUME Inside, LineComment \/ BlockComment
  PROVE  (Skips \/ Stops) /\ UNCHANGED lexDiags
<1>0. text \in Texts /\ Len(text) \in Nat /\ i \in Nat \ {0} BY InsideIn
<1>1. CASE LineComment /\ HasNext(i + 1, {"\n"})
  <2> DEFINE k == Next1(i + 1, {"\n"})
  <2>1. k \in i+1..Len(text) /\ At(k) \in {"\n"} /\ \A m \in i+1..k-1 : At(m) \notin {"\n"}
    BY <1>0, <1>1, Next1In
  <2>2. Goto(k) /\ UNCHANGED <<text, toks, lexDiags, lexing>> /\ IsLineComment(i)
    BY <1>1 DEF LineComment
  <2> HIDE DEF k
  <2>3. At(i) # "\n" BY <2>2 DEF IsLineComment
  <2>4. \A m \in i..k-1 : At(m) # "\n" BY <1>0, <2>1, <2>3
  <2>5. Newlines(i, k - 1) = {} BY <2>4 DEF Newlines
  <2>6. i' = k /\ i' \in i+1..Len(text)+1 BY <1>0, <2>1, <2>2 DEF Goto
  <2>7. Skippable(i, k) BY <2>1, <2>2, <2>5 DEF Skippable
  <2> QED BY <2>2, <2>6, <2>7 DEF Skips
<1>2. CASE BlockComment /\ \E k \in i+2..Len(text) : Closes(k)
  <2>1. PICK k \in i+2..Len(text) :
          /\ Closes(k) /\ \A m \in i+2..k-1 : ~Closes(m)
          /\ SkipTo(k, Newlines(i + 2, k)) /\ UNCHANGED <<text, toks, lexDiags, lexing>>
    BY <1>2 DEF BlockComment
  <2>2. k + 1 \in 1..Len(text) BY <1>0, <2>1, AtEnd DEF Closes
  <2>3. i' = k + 2 /\ i' \in i+1..Len(text)+1 BY <1>0, <2>1, <2>2 DEF SkipTo
  <2>4. Skippable(i, i')
    <3>1. i' - 2 = k /\ i' - 3 = k - 1 /\ i' >= i + 4 BY <1>0, <2>1, <2>3
    <3>2. IsBlockComment(i) BY <1>2 DEF BlockComment
    <3> QED BY <3>1, <3>2, <2>1 DEF Skippable
  <2> QED BY <2>1, <2>3, <2>4 DEF Skips
<1>3. CASE LineComment /\ ~HasNext(i + 1, {"\n"}) BY <1>3, StopStops DEF LineComment
<1>4. CASE BlockComment /\ ~\E k \in i+2..Len(text) : Closes(k)
  BY <1>4, StopStops DEF BlockComment
<1> QED BY <1>1, <1>2, <1>3, <1>4

LEMMA BlankSkips ==
  ASSUME Inside, Newline \/ Blank
  PROVE  Skips /\ UNCHANGED lexDiags
<1>0. text \in Texts /\ Len(text) \in Nat /\ i \in Nat \ {0} BY InsideIn
<1>1. At(i) \in Blanks \cup {"\n"} /\ i' = i + 1 /\ UNCHANGED <<text, toks, lexDiags, lexing>>
  BY DEF Newline, Blank, Goto
<1>2. At(i) # "NUL" BY <1>1, NulIsNone
<1>3. i \in 1..Len(text) BY <1>0, <1>2, AtEnd
<1> QED BY <1>0, <1>1, <1>3 DEF Skips, Skippable

LEMMA UnknownSkips ==
  ASSUME Inside, UnknownSymbol, IsSeq(lexDiags)
  PROVE  Skips /\ Tells
<1> DEFINE err == Error("UNKNOWN_SYMBOL")
<1>1. Report(<<err>>) /\ IsSeq(<<err>>) BY ErrorsAre DEF UnknownSymbol
<1>2. Tells BY <1>1, ReportTells, ComplaintsAre
<1>3. \E n \in 1..Len(lexDiags') : Unknown(n)'
  <2>1. lexDiags' = lexDiags \o <<err>> /\ Len(<<err>>) = 1 /\ <<err>>[1] = err
    BY <1>1 DEF Report
  <2>2. err.err = "UNKNOWN_SYMBOL" BY DEF Error
  <2> HIDE DEF err
  <2>3. /\ Len(lexDiags) \in Nat /\ Len(lexDiags') = Len(lexDiags) + 1
        /\ lexDiags'[Len(lexDiags) + 1] = err
    BY <1>1, <2>1, ErrorsJoin
  <2>4. Len(lexDiags) + 1 \in 1..Len(lexDiags') BY <2>3
  <2> QED BY <2>2, <2>3, <2>4 DEF Unknown
<1>4. Moves BY UnknownSymbolStep
<1>5. At(i) \notin Known /\ i' = i + Bytes(At(i)) /\ UNCHANGED <<text, toks, lexing>>
  BY DEF UnknownSymbol
<1> QED BY <1>2, <1>3, <1>4, <1>5 DEF Skips, SkipsUnknown, Moves

\* An action that adds a token takes the text up to where that ends.
LEMMA OperatorTakes ==
  ASSUME Inside, Operator
  PROVE  Takes /\ UNCHANGED lexDiags
<1>0. text \in Texts /\ Len(text) \in Nat /\ i \in Nat \ {0} BY InsideIn
<1>1. PICK op \in OperatorsAt(i) : Push(Tok(op.type, i + op.len, 0, 0)) /\ Goto(i + op.len)
  BY DEF Operator
<1>2. op.len \in 1..3 /\ i + op.len <= Len(text) + 1 /\ op.type # "END" BY <1>0, OperatorIn
<1>3. i + op.len \in i+1..Len(text)+1 BY <1>0, <1>2
<1>4. UNCHANGED <<text, lexing, lexDiags>> BY DEF Operator
<1> QED BY <1>1, <1>2, <1>3, <1>4, PushTakes

LEMMA NumberTakes ==
  ASSUME Inside, FloatLiteral \/ IntLiteral
  PROVE  (Takes \/ Stops) /\ (Tells \/ UNCHANGED lexDiags)
<1> DEFINE e == LiteralAt(i).end
<1>1. CASE FloatLiteral
  <2>1. e \in i+1..Len(text)+1 BY <1>1, NumberStarts DEF FloatLiteral
  <2>2. LitToks[LiteralAt(i).type] # "END" BY <1>1, LiteralTypes DEF FloatLiteral
  <2> QED BY <1>1, <2>1, <2>2, PushTakes DEF FloatLiteral
<1>2. CASE IntLiteral /\ IsFloat(i) BY <1>2, StopStops DEF IntLiteral
<1>3. CASE IntLiteral /\ ~IsFloat(i)
  <2> DEFINE types == Candidates(LiteralAt(i).type, Base(i))
             val == ReadInt(i, Base(i))
             type == SelectType(types, val)
  <2>1. e \in i+1..Len(text)+1 BY <1>3, NumberStarts DEF IntLiteral
  <2>2. LiteralAt(i).type \in IntNames BY <1>3, LiteralTypes DEF IntLiteral
  <2>3. types \in Seq(IntNames) /\ types # <<>> BY <2>2, CandidatesIn
  <2>4. PushInt(types, val, e) /\ UNCHANGED <<text, lexing>> BY <1>3 DEF IntLiteral
  <2> HIDE DEF types, val, e
  <2>5. LitToks[type] # "END" BY <2>3, SelectedIn, LiteralTypes
  <2>6. Push(Tok(LitToks[type], e, val % 2^BitsOf(type), 0)) /\ Goto(e)
    BY <2>4 DEF PushInt
  <2>7. \E errs : AreErrors(errs) /\ Report(errs) BY <2>4, ComplaintsAre DEF PushInt
  <2> HIDE DEF type
  <2>8. Takes BY <2>1, <2>4, <2>5, <2>6, PushTakes DEF e
  <2> QED BY <2>7, <2>8, ReportTells
<1> QED BY <1>1, <1>2, <1>3

LEMMA PrefixErrorsAre == AreErrors(PrefixErrors(i))
BY ComplaintsAre DEF PrefixErrors

\* Where a quoted literal ends.
LEMMA CharEnd ==
  ASSUME Inside, StartsLiteral("'"), At(Quote(i) + 1) # "NUL",
         NEW rquote, rquote = Quote(i) + 1 + Bytes(At(Quote(i) + 1))
  PROVE  (IF At(rquote) = "'" THEN rquote + 1 ELSE rquote) \in i+1..Len(text)+1
<1>0. text \in Texts /\ Len(text) \in Nat /\ i \in Nat \ {0} BY InsideIn
<1>1. Quote(i) \in i..i+1 /\ Quote(i) \in 1..Len(text) BY QuoteIn DEF Quotes
<1>2. Quote(i) + 1 \in 1..Len(text) BY <1>0, <1>1, AtEnd
<1>3. rquote \in Quote(i)+2..Len(text)+1 BY <1>0, <1>1, <1>2, AtEnd DEF Bytes
<1>4. At(rquote) = "'" => rquote \in 1..Len(text) BY <1>0, <1>1, <1>3, AtEnd
<1> QED BY <1>0, <1>1, <1>3, <1>4

LEMMA CharTakes ==
  ASSUME Inside, CharLiteral
  PROVE  (Takes \/ Stops) /\ (Tells \/ UNCHANGED lexDiags)
<1> DEFINE c == At(Quote(i) + 1)
           rquote == Quote(i) + 1 + Bytes(c)
           closed == At(rquote) = "'"
           e == IF closed THEN rquote + 1 ELSE rquote
           errs == PrefixErrors(i) \o (IF closed THEN <<>> ELSE <<Error("MISSING_QUOTE")>>)
<1>1. CASE c = "NUL" BY <1>1, StopStops DEF CharLiteral
<1>2. CASE c # "NUL" /\ ~Fits(c, StringType(i)) BY <1>2, StopStops DEF CharLiteral
<1>3. CASE c # "NUL" /\ Fits(c, StringType(i))
  <2>1. e \in i+1..Len(text)+1 BY <1>3, CharEnd DEF CharLiteral
  <2>2. /\ Push(Tok(CharToks[StringType(i)], e, 0, 0)) /\ Goto(e)
        /\ Report(errs) /\ UNCHANGED <<text, lexing>>
    BY <1>3 DEF CharLiteral
  <2>3. AreErrors(errs)
    <3>1. AreErrors(IF closed THEN <<>> ELSE <<Error("MISSING_QUOTE")>>) BY ComplaintsAre
    <3> QED BY <3>1, PrefixErrorsAre, ComplaintsJoin
  <2> HIDE DEF e, errs
  <2>4. CharToks[StringType(i)] # "END" BY StringTypes
  <2> QED BY <2>1, <2>2, <2>3, <2>4, PushTakes, ReportTells
<1> QED BY <1>1, <1>2, <1>3

\* So does a string, which has an error for every character that does not fit.
LEMMA StringTakes ==
  ASSUME Inside, StringLiteral
  PROVE  (Takes \/ Stops) /\ (Tells \/ UNCHANGED lexDiags)
<1> DEFINE stop == Next1(Quote(i) + 1, {"\"", "\n"})
           closed == At(stop) = "\""
           e == IF closed THEN stop + 1 ELSE stop
           unfit == Unfit(Quote(i) + 1, stop - 1, StringType(i))
           errs == PrefixErrors(i)
                     \o [n \in 1..Cardinality(unfit) |-> Error("BAD_LITERAL")]
                     \o (IF closed THEN <<>> ELSE <<Error("BAD_LITERAL")>>)
<1>0. text \in Texts /\ Len(text) \in Nat /\ i \in Nat \ {0} BY InsideIn
<1>1. CASE ~HasNext(Quote(i) + 1, {"\"", "\n"}) BY <1>1, StopStops DEF StringLiteral
<1>2. CASE HasNext(Quote(i) + 1, {"\"", "\n"})
  <2>1. Quote(i) \in i..i+1 /\ Quote(i) \in 1..Len(text) BY QuoteIn DEF StringLiteral, Quotes
  <2>2. stop \in Quote(i)+1..Len(text)
    <3>1. text \in Texts /\ Quote(i) + 1 \in Nat \ {0} BY <1>0, <2>1
    <3> QED BY <3>1, <1>2, Next1In
  <2>3. /\ Push(Tok(StringToks[StringType(i)], e, 0, 0)) /\ Goto(e)
        /\ Report(errs) /\ UNCHANGED <<text, lexing>>
    BY <1>2 DEF StringLiteral
  <2>4. Cardinality(unfit) \in Nat
    <3>1. Quote(i) + 1 \in Int /\ stop - 1 \in Int
      <4> HIDE DEF stop
      <4> QED BY <1>0, <2>1, <2>2
    <3>2. IsFiniteSet(Quote(i)+1..stop-1) BY <3>1, FS_Interval
    <3>3. unfit \subseteq Quote(i)+1..stop-1 BY DEF Unfit
    <3>4. IsFiniteSet(unfit) BY <3>2, <3>3, FS_Subset
    <3> HIDE DEF unfit
    <3> QED BY <3>4, FS_CardinalityType
  <2>5. AreErrors(errs)
    <3>1. AreErrors(IF closed THEN <<>> ELSE <<Error("BAD_LITERAL")>>) BY ComplaintsAre
    <3>2. AreErrors([n \in 1..Cardinality(unfit) |-> Error("BAD_LITERAL")])
      <4> DEFINE c == Cardinality(unfit)
      <4>1. \A err : \A n \in Nat : AreErrors([k \in 1..n |-> Error(err)]) BY ComplaintsAre
      <4>2. c \in Nat BY <2>4
      <4> HIDE DEF c
      <4>3. AreErrors([k \in 1..c |-> Error("BAD_LITERAL")]) BY <4>1, <4>2
      <4> QED BY <4>3 DEF c
    <3>3. AreErrors(PrefixErrors(i) \o [n \in 1..Cardinality(unfit) |-> Error("BAD_LITERAL")])
      <4> HIDE DEF unfit
      <4> QED BY <3>2, PrefixErrorsAre, ComplaintsJoin
    <3> HIDE DEF unfit, closed
    <3> QED BY <3>1, <3>3, ComplaintsJoin
  <2>6. e \in i+1..Len(text)+1
    <3> HIDE DEF stop
    <3>1. stop \in i+1..Len(text)+1 /\ stop + 1 \in i+1..Len(text)+1 BY <1>0, <2>1, <2>2
    <3> QED BY <3>1
  <2> HIDE DEF e, errs
  <2>7. StringToks[StringType(i)] # "END" BY StringTypes
  <2> QED BY <2>3, <2>5, <2>6, <2>7, PushTakes, ReportTells
<1> QED BY <1>1, <1>2

LEMMA NameTakes ==
  ASSUME Inside, Identifier
  PROVE  Takes /\ UNCHANGED lexDiags
<1> DEFINE e == EndOf(i, IdentChars)
           word == Spelling(SubSeq(text, i, e - 1))
<1>1. e \in i+1..Len(text)+1 BY NameIn DEF Identifier, StartsName
<1>2. \E type, ident : type # "END" /\ Push(Tok(type, e, 0, ident))
  <2>1. CASE word \in DOMAIN Keywords
    <3>1. Push(Tok(Keywords[word], e, 0, 0)) BY <2>1 DEF Identifier
    <3>2. Keywords[word] # "END" BY <2>1, KeywordTypes
    <3> HIDE DEF word, e
    <3> QED BY <3>1, <3>2
  <2>2. CASE word \notin DOMAIN Keywords
    <3>1. \E ident : Push(Tok("IDENTIFIER", e, 0, ident)) BY <2>2 DEF Identifier
    <3> HIDE DEF word, e
    <3> QED BY <3>1
  <2> QED BY <2>1, <2>2
<1>3. Goto(e) /\ UNCHANGED <<text, lexing, lexDiags>> BY DEF Identifier
<1> HIDE DEF e
<1> QED BY <1>1, <1>2, <1>3, PushTakes

\* The last token stands where the text ends.
LEMMA TextEnds ==
  ASSUME Inside, EndOfText
  PROVE  Ends /\ UNCHANGED lexDiags
<1>1. i = Len(text) + 1 BY InsideIn, AtEnd DEF EndOfText
<1> QED BY <1>1 DEF EndOfText, Ends, Push

\* What every step does.
LEMMA TokenSteps ==
  ASSUME Inside, IsSeq(lexDiags), LexNext
  PROVE  /\ Skips \/ Takes \/ Ends \/ Stops
         /\ Tells \/ UNCHANGED lexDiags
<1>1. CASE LineComment BY <1>1, CommentSkips
<1>2. CASE BlockComment BY <1>2, CommentSkips
<1>3. CASE Newline BY <1>3, BlankSkips
<1>4. CASE Blank BY <1>4, BlankSkips
<1>5. CASE Operator BY <1>5, OperatorTakes
<1>6. CASE FloatLiteral BY <1>6, NumberTakes
<1>7. CASE IntLiteral BY <1>7, NumberTakes
<1>8. CASE CharLiteral BY <1>8, CharTakes
<1>9. CASE StringLiteral BY <1>9, StringTakes
<1>10. CASE Identifier BY <1>10, NameTakes
<1>11. CASE UnknownSymbol BY <1>11, UnknownSkips
<1>12. CASE EndOfText BY <1>12, TextEnds
<1> QED BY <1>1, <1>2, <1>3, <1>4, <1>5, <1>6, <1>7, <1>8, <1>9, <1>10, <1>11, <1>12
        DEF LexNext

-----------------------------------------------------------------------------
(***************************************************************************)
(* Between the tokens is only what was skipped.                            *)
(***************************************************************************)
EndBefore(n) == IF n = 1 THEN 1 ELSE toks[n - 1].end

InOrder(n) ==
  /\ toks[n].at \in Nat /\ toks[n].end \in Nat
  /\ toks[n].at <= toks[n].end
  /\ toks[n].type # "END" => toks[n].at < toks[n].end
  /\ IsGap(EndBefore(n), toks[n].at)

\* The gap that is open reaches from the last token to the index.
Gaps ==
  /\ IsSeq(toks) /\ IsSeq(lexDiags)
  /\ \A n \in 1..Len(toks) : InOrder(n)
  /\ EndBefore(Len(toks) + 1) \in Nat
  /\ IsGap(EndBefore(Len(toks) + 1), i)
  /\ lexing = "done" => toks # <<>> /\ Last(toks).at = Len(text) + 1

\* In the beginning there is no token and nothing before the index.
LEMMA GapsInit == LexInit => Gaps
<1> SUFFICES ASSUME LexInit PROVE Gaps OBVIOUS
<1>1. toks = <<>> /\ lexDiags = <<>> /\ i = 1 /\ lexing = "run" BY DEF LexInit, LexStart
<1>2. Len(toks) = 0 BY <1>1
<1>3. IsGap(1, 1) BY GapSelf
<1>4. EndBefore(Len(toks) + 1) = 1 BY <1>2 DEF EndBefore
<1> QED BY <1>1, <1>2, <1>3, <1>4, ErrorsAre DEF Gaps

\* What was reported stays reported.
LEMMA UnknownStays ==
  ASSUME IsSeq(lexDiags), Tells \/ UNCHANGED lexDiags
  PROVE  /\ IsSeq(lexDiags)'
         /\ (\E n \in 1..Len(lexDiags) : Unknown(n)) => (\E n \in 1..Len(lexDiags) : Unknown(n))'
<1>1. CASE Tells
  <2>1. PICK errs : IsSeq(errs) /\ lexDiags' = lexDiags \o errs BY <1>1 DEF Tells, AreErrors
  <2>2. /\ IsSeq(lexDiags') /\ Len(lexDiags) \in Nat /\ Len(errs) \in Nat
        /\ Len(lexDiags') = Len(lexDiags) + Len(errs)
        /\ \A k \in 1..Len(lexDiags) : lexDiags'[k] = lexDiags[k]
    BY <2>1, ErrorsJoin
  <2>3. \A k \in 1..Len(lexDiags) : k \in 1..Len(lexDiags') BY <2>2
  <2> QED BY <2>2, <2>3 DEF Unknown
<1>2. CASE UNCHANGED lexDiags BY <1>2 DEF Unknown
<1> QED BY <1>1, <1>2

\* The tokens that are there stay in order.
LEMMA OrderStays ==
  ASSUME Gaps, text' = text, Tells \/ UNCHANGED lexDiags,
         Len(toks) <= Len(toks'), \A k \in 1..Len(toks) : toks'[k] = toks[k],
         NEW n \in 1..Len(toks)
  PROVE  InOrder(n)'
<1>1. InOrder(n) /\ Len(toks) \in Nat BY AppendIs DEF Gaps
<1>2. toks'[n] = toks[n] OBVIOUS
<1>3. EndBefore(n)' = EndBefore(n)
  <2>1. n # 1 => n - 1 \in 1..Len(toks) BY <1>1
  <2> QED BY <2>1 DEF EndBefore
<1>4. EndBefore(n) \in Nat
  <2>1. n # 1 => n - 1 \in 1..Len(toks) BY <1>1
  <2>2. n # 1 => InOrder(n - 1) BY <2>1 DEF Gaps
  <2> QED BY <2>2 DEF EndBefore, InOrder
<1>5. ASSUME NEW from \in Nat, NEW to \in Nat, IsGap(from, to) PROVE IsGap(from, to)'
  BY <1>5, GapStays, UnknownStays DEF Gaps
<1>6. PICK from \in Nat : from = EndBefore(n) BY <1>4
<1>7. PICK to \in Nat : to = toks[n].at BY <1>1 DEF InOrder
<1>8. IsGap(from, to)' BY <1>1, <1>5, <1>6, <1>7 DEF InOrder
<1>9. IsGap(EndBefore(n), toks[n].at)'
  <2>1. EndBefore(n)' = from /\ toks'[n].at = to BY <1>2, <1>3, <1>6, <1>7
  <2> QED BY <2>1, <1>8
<1> QED BY <1>1, <1>2, <1>9 DEF InOrder

\* Skipping makes the last gap longer.
LEMMA SkipGaps ==
  ASSUME Inside, Gaps, lexing = "run", Skips, Tells \/ UNCHANGED lexDiags
  PROVE  Gaps'
<1> DEFINE l == Len(toks)
<1>1. text' = text /\ toks' = toks /\ lexing' = "run" BY DEF Skips
<1>2. \A n \in 1..Len(toks') : InOrder(n)' BY <1>1, OrderStays, AppendIs DEF Gaps
<1>3. EndBefore(l + 1)' = EndBefore(l + 1) BY <1>1 DEF EndBefore
<1>4. PICK from \in Nat : from = EndBefore(l + 1) BY DEF Gaps
<1>5. PICK j \in Nat : j = i BY InsideIn
<1>6. PICK k \in Nat : k = i' /\ j < k BY <1>5, InsideIn DEF Skips
<1>7. IsGap(from, j)' BY <1>1, <1>4, <1>5, GapStays, UnknownStays DEF Gaps
<1>8. Skippable(j, k)'
  <2>1. CASE Skippable(i, i') BY <1>1, <1>5, <1>6, <2>1, SkippableStays, UnknownStays DEF Gaps
  <2>2. CASE SkipsUnknown
    <3>1. At(j)' = At(j) BY <1>1 DEF At
    <3> QED BY <1>5, <1>6, <2>2, <3>1 DEF SkipsUnknown, Skippable
  <2> QED BY <2>1, <2>2 DEF Skips
<1>9. IsGap(from, k)' BY <1>6, <1>7, <1>8, GapNext
<1>10. IsGap(EndBefore(Len(toks) + 1), i)'
  <2>1. EndBefore(Len(toks) + 1)' = from BY <1>1, <1>3, <1>4
  <2> QED BY <1>6, <1>9, <2>1
<1>11. IsSeq(lexDiags)' BY UnknownStays DEF Gaps
<1> QED BY <1>1, <1>2, <1>3, <1>10, <1>11 DEF Gaps

\* Nor does a step that leaves the text, the tokens and the index as they are.
LEMMA GapsKept ==
  ASSUME Inside, Gaps, UNCHANGED <<text, toks, i>>, Tells \/ UNCHANGED lexDiags,
         lexing' = "done" => lexing = "done"
  PROVE  Gaps'
<1>1. \A n \in 1..Len(toks') : InOrder(n)' BY OrderStays, AppendIs DEF Gaps
<1>2. EndBefore(Len(toks) + 1)' = EndBefore(Len(toks) + 1) BY DEF EndBefore
<1>3. PICK from \in Nat : from = EndBefore(Len(toks) + 1) BY DEF Gaps
<1>4. i \in Nat BY InsideIn
<1>5. PICK j \in Nat : j = i BY <1>4
<1>6. IsGap(from, j)' BY <1>3, <1>5, GapStays, UnknownStays DEF Gaps
<1>7. IsGap(EndBefore(Len(toks) + 1), i)' BY <1>2, <1>3, <1>5, <1>6
<1>8. IsSeq(lexDiags)' BY UnknownStays DEF Gaps
<1> QED BY <1>1, <1>2, <1>3, <1>7, <1>8 DEF Gaps

\* A token that starts at the index closes the gap and opens another.
LEMMA TokenGaps ==
  ASSUME Inside, Gaps, text' = text, Tells \/ UNCHANGED lexDiags,
         NEW t, toks' = Append(toks, t), t.at = i, t.end = i', i' \in Nat, i <= i',
         t.type # "END" => i < i',
         lexing' = "done" => t.at = Len(text) + 1
  PROVE  Gaps'
<1>0. Len(toks) \in Nat BY AppendIs DEF Gaps
<1> PICK l \in Nat : l = Len(toks) BY <1>0
<1>1. /\ IsSeq(toks') /\ Len(toks') = l + 1
      /\ \A k \in 1..l : toks'[k] = toks[k]
      /\ toks'[l + 1] = t
  BY AppendIs DEF Gaps
<1>2. \A n \in 1..l : InOrder(n)' BY <1>1, OrderStays
<1>3. EndBefore(l + 1)' = EndBefore(l + 1)
  <2>1. l + 1 # 1 => l \in 1..l /\ l + 1 - 1 = l BY <1>1
  <2> QED BY <1>1, <2>1 DEF EndBefore
<1>4. PICK from \in Nat : from = EndBefore(l + 1) BY DEF Gaps
<1>5. PICK j \in Nat : j = i BY InsideIn
<1>6. PICK k \in Nat : k = i' OBVIOUS
<1>7. IsGap(from, j)' BY <1>4, <1>5, GapStays, UnknownStays DEF Gaps
<1>8. IsGap(EndBefore(l + 1), toks[l + 1].at)'
  <2>1. EndBefore(l + 1)' = from /\ toks'[l + 1].at = j BY <1>1, <1>3, <1>4, <1>5
  <2> QED BY <2>1, <1>7
<1>9. InOrder(l + 1)' BY <1>1, <1>5, <1>8 DEF InOrder
<1>10. \A n \in 1..Len(toks') : InOrder(n)'
  <2>1. \A n \in 1..Len(toks') : n \in 1..l \/ n = l + 1 BY <1>1
  <2> QED BY <1>2, <1>9, <2>1
<1>11. EndBefore(Len(toks) + 1)' = k
  <2>1. Len(toks') + 1 # 1 /\ Len(toks') + 1 - 1 = l + 1 BY <1>1
  <2> QED BY <2>1, <1>1, <1>6 DEF EndBefore
<1>12. IsGap(EndBefore(Len(toks) + 1), i)'
  <2>1. IsGap(k, k)' BY GapNext
  <2> QED BY <2>1, <1>6, <1>11
<1>13. IsSeq(lexDiags)' BY UnknownStays DEF Gaps
<1>14. toks' # <<>> /\ Last(toks') = t
  <2>1. toks' # <<>> BY <1>1
  <2> QED BY <2>1, <1>1 DEF Last
<1> QED BY <1>1, <1>6, <1>10, <1>11, <1>12, <1>13, <1>14 DEF Gaps

LEMMA GapsStep ==
  Inside /\ Gaps /\ [LexNext]_lexVars => Gaps'
<1> SUFFICES ASSUME Inside, Gaps, [LexNext]_lexVars PROVE Gaps' OBVIOUS
<1>1. CASE LexNext
  <2>1. lexing = "run" BY <1>1, Steps
  <2>2. (Skips \/ Takes \/ Ends \/ Stops) /\ (Tells \/ UNCHANGED lexDiags)
    BY <1>1, TokenSteps DEF Gaps
  <2>3. CASE Skips BY <2>1, <2>2, <2>3, SkipGaps
  <2>4. CASE Takes
    <3>1. PICK t : toks' = Append(toks, t) /\ t.at = i /\ t.end = i' /\ t.type # "END"
      BY <2>4 DEF Takes
    <3>2. i' \in Nat /\ i < i' BY <2>4, InsideIn DEF Takes
    <3>3. text' = text /\ lexing' = "run" BY <2>1, <2>4 DEF Takes
    <3> QED BY <2>2, <3>1, <3>2, <3>3, TokenGaps, InsideIn
  <2>5. CASE Ends
    <3> DEFINE t == Tok("END", i, 0, 0)
    <3>1. t.at = i /\ t.end = i /\ t.type = "END" BY DEF Tok
    <3> HIDE DEF t
    <3>2. toks' = Append(toks, t) /\ text' = text /\ i' = i /\ i = Len(text) + 1
      BY <2>5 DEF Ends, t
    <3>3. i \in Nat BY InsideIn
    <3> QED BY <2>2, <3>1, <3>2, <3>3, TokenGaps
  <2>6. CASE Stops
    <3>1. UNCHANGED <<text, toks, i>> /\ lexing' # "done" BY <2>6 DEF Stops
    <3> QED BY <2>2, <3>1, GapsKept
  <2> QED BY <2>2, <2>3, <2>4, <2>5, <2>6
<1>2. CASE UNCHANGED lexVars
  <2>1. UNCHANGED <<text, toks, i, lexing, lexDiags>> BY <1>2 DEF lexVars
  <2> QED BY <2>1, GapsKept
<1> QED BY <1>1, <1>2

\* Whatever the source file, the tokens stand in its order, and what is between
\* them is only blanks, comments and the symbols that were reported.
THEOREM LexNothingLost == LexSpec => []NothingLost
<1>1. Gaps => NothingLost
  <2> SUFFICES ASSUME Gaps PROVE NothingLost OBVIOUS
  <2>1. \A n \in 1..Len(toks) : InOrder(n) BY DEF Gaps
  <2>2. lexing = "done" => Last(toks).at = Len(text) + 1 BY DEF Gaps
  <2> QED BY <2>1, <2>2 DEF NothingLost, InOrder, EndBefore
<1> QED BY <1>1, GapsInit, GapsStep, InsideInit, InsideStep, PTL DEF LexSpec

-----------------------------------------------------------------------------
(***************************************************************************)
(* Operators are read as the longest that is spelled.                      *)
(***************************************************************************)
\* What MaximalMunch says of one token.
Munched(t) ==
  \A op \in SpelledAt(t.at) :
    \/ t.type \in {LitToks[f] : f \in FloatTypes}
    \/ \E longer \in SpelledAt(t.at) :
         Len(longer[1]) > Len(op[1]) \/ longer[1] \in Misread
    \/ t.type = op[2] /\ t.end = t.at + Len(op[1])

FirstChars == {op[1] : op \in OneChar}

\* The operators of two characters start like one of one character.
LEMMA FirstOfTwo ==
  /\ \A op \in TwoChars : op[1] \in FirstChars
  /\ {".", "-", "<", ">"} \subseteq FirstChars
<1>1. \A c, type : <<c, type>> \in OneChar => c \in FirstChars
  <2>1. \A c, type : <<c, type>>[1] = c OBVIOUS
  <2> QED BY <2>1, Zenon DEF FirstChars
<1>2. /\ <<":", "COLON">> \in OneChar /\ <<".", "MEMB_SEL">> \in OneChar
      /\ <<"*", "MUL">> \in OneChar /\ <<"/", "DIV">> \in OneChar
      /\ <<"%", "MOD">> \in OneChar /\ <<"+", "ADD">> \in OneChar
      /\ <<"-", "SUB">> \in OneChar /\ <<"<", "LT">> \in OneChar
      /\ <<">", "GT">> \in OneChar /\ <<"=", "ASSIGN">> \in OneChar
      /\ <<"!", "LOGICAL_NOT">> \in OneChar /\ <<"&", "BITWISE_AND">> \in OneChar
      /\ <<"^", "BITWISE_XOR">> \in OneChar /\ <<"|", "BITWISE_OR">> \in OneChar
  BY Zenon DEF OneChar
<1>3. {":", ".", "*", "/", "%", "+", "-", "<", ">", "=", "!", "&", "^", "|"} \subseteq FirstChars
  BY <1>1, <1>2
<1>4. \A op \in TwoChars : op[1] \in {":", ".", "*", "/", "%", "+", "-", "<", ">", "=",
                                     "!", "&", "^", "|"}
  BY DEF TwoChars
<1> QED BY <1>3, <1>4

\* How an operator is spelled.
One(op) == <<<<op[1]>>, op[2]>>
Two(op) == <<<<op[1], op[2]>>, op[3]>>
Ellipsis == <<<<".", ".", ".">>, "ELLIPSIS">>
Arrow == <<<<"-", ">", "*">>, "PTR_TO_PTR_MEMB_SEL">>
LeftShift == <<<<"<", "<", "=">>, "LEFT_SHIFT_ASSIGN">>
RightShift == <<<<">", ">", "=">>, "RIGHT_SHIFT_ASSIGN">>

\* What an operator can be spelled like, by its length.
LEMMA SpellingsAre ==
  \A sp : sp \in Spellings <=>
     \/ \E op \in OneChar : sp = One(op)
     \/ \E op \in TwoChars : sp = Two(op)
     \/ sp \in {Ellipsis, Arrow, LeftShift, RightShift}
BY Zenon DEF Spellings, One, Two, Ellipsis, Arrow, LeftShift, RightShift

\* Where they are spelled.
LEMMA SpelledAre ==
  ASSUME NEW j \in Nat
  PROVE  /\ \A op : One(op) \in SpelledAt(j) => At(j) = op[1]
         /\ \A op : Two(op) \in SpelledAt(j) => At(j) = op[1] /\ At(j + 1) = op[2]
         /\ \A op \in OneChar : At(j) = op[1] => One(op) \in SpelledAt(j)
         /\ \A op \in TwoChars :
              At(j) = op[1] /\ At(j + 1) = op[2] => Two(op) \in SpelledAt(j)
         /\ Ellipsis \in SpelledAt(j) <=> At(j) = "." /\ At(j + 1) = "." /\ At(j + 2) = "."
         /\ Arrow \in SpelledAt(j) <=> At(j) = "-" /\ At(j + 1) = ">" /\ At(j + 2) = "*"
         /\ LeftShift \in SpelledAt(j) <=> At(j) = "<" /\ At(j + 1) = "<" /\ At(j + 2) = "="
         /\ RightShift \in SpelledAt(j) <=> At(j) = ">" /\ At(j + 1) = ">" /\ At(j + 2) = "="
<1>0. \A sp : sp \in SpelledAt(j) <=>
        sp \in Spellings /\ \A k \in 1..Len(sp[1]) : At(j + k - 1) = sp[1][k]
  BY DEF SpelledAt
<1>1. ASSUME NEW s, NEW c, s[1] = <<c>>
      PROVE  (\A k \in 1..Len(s[1]) : At(j + k - 1) = s[1][k]) <=> At(j) = c
  <2>1. Len(s[1]) = 1 /\ s[1][1] = c BY <1>1
  <2>2. j + 1 - 1 = j /\ 1 \in 1..1 /\ \A k \in 1..1 : k = 1 OBVIOUS
  <2> QED BY <2>1, <2>2
<1>2. ASSUME NEW s, NEW c, NEW d, s[1] = <<c, d>>
      PROVE  (\A k \in 1..Len(s[1]) : At(j + k - 1) = s[1][k]) <=> At(j) = c /\ At(j + 1) = d
  <2>1. Len(s[1]) = 2 /\ s[1][1] = c /\ s[1][2] = d BY <1>2
  <2>2. j + 1 - 1 = j /\ j + 2 - 1 = j + 1 /\ 1 \in 1..2 /\ 2 \in 1..2
        /\ \A k \in 1..2 : k = 1 \/ k = 2
    OBVIOUS
  <2> QED BY <2>1, <2>2
<1>3. ASSUME NEW s, NEW c, NEW d, NEW e, s[1] = <<c, d, e>>
      PROVE  (\A k \in 1..Len(s[1]) : At(j + k - 1) = s[1][k])
               <=> At(j) = c /\ At(j + 1) = d /\ At(j + 2) = e
  <2>1. Len(s[1]) = 3 /\ s[1][1] = c /\ s[1][2] = d /\ s[1][3] = e BY <1>3
  <2>2. /\ j + 1 - 1 = j /\ j + 2 - 1 = j + 1 /\ j + 3 - 1 = j + 2
        /\ 1 \in 1..3 /\ 2 \in 1..3 /\ 3 \in 1..3
        /\ \A k \in 1..3 : k = 1 \/ k = 2 \/ k = 3
    OBVIOUS
  <2> QED BY <2>1, <2>2
<1>4. /\ \A op : One(op)[1] = <<op[1]>>
      /\ \A op : Two(op)[1] = <<op[1], op[2]>>
      /\ Ellipsis[1] = <<".", ".", ".">> /\ Arrow[1] = <<"-", ">", "*">>
      /\ LeftShift[1] = <<"<", "<", "=">> /\ RightShift[1] = <<">", ">", "=">>
  BY DEF One, Two, Ellipsis, Arrow, LeftShift, RightShift
<1> DEFINE Matches(s) == \A k \in 1..Len(s[1]) : At(j + k - 1) = s[1][k]
<1>5. \A op : Matches(One(op)) <=> At(j) = op[1]
  <2> SUFFICES ASSUME NEW op PROVE Matches(One(op)) <=> At(j) = op[1] OBVIOUS
  <2>1. One(op)[1] = <<op[1]>> BY <1>4
  <2> QED BY <2>1, <1>1
<1>6. \A op : Matches(Two(op)) <=> At(j) = op[1] /\ At(j + 1) = op[2]
  <2> SUFFICES ASSUME NEW op PROVE Matches(Two(op)) <=> At(j) = op[1] /\ At(j + 1) = op[2]
    OBVIOUS
  <2>1. Two(op)[1] = <<op[1], op[2]>> BY <1>4
  <2> QED BY <2>1, <1>2
<1>7. Matches(Ellipsis) <=> At(j) = "." /\ At(j + 1) = "." /\ At(j + 2) = "."
  <2>1. Ellipsis[1] = <<".", ".", ".">> BY <1>4
  <2> QED BY <2>1, <1>3
<1>8. Matches(Arrow) <=> At(j) = "-" /\ At(j + 1) = ">" /\ At(j + 2) = "*"
  <2>1. Arrow[1] = <<"-", ">", "*">> BY <1>4
  <2> QED BY <2>1, <1>3
<1>9. Matches(LeftShift) <=> At(j) = "<" /\ At(j + 1) = "<" /\ At(j + 2) = "="
  <2>1. LeftShift[1] = <<"<", "<", "=">> BY <1>4
  <2> QED BY <2>1, <1>3
<1>10. Matches(RightShift) <=> At(j) = ">" /\ At(j + 1) = ">" /\ At(j + 2) = "="
  <2>1. RightShift[1] = <<">", ">", "=">> BY <1>4
  <2> QED BY <2>1, <1>3
<1>11. \A sp : sp \in SpelledAt(j) <=> sp \in Spellings /\ Matches(sp) BY <1>0
<1>12. /\ \A op \in OneChar : One(op) \in Spellings
       /\ \A op \in TwoChars : Two(op) \in Spellings
       /\ Ellipsis \in Spellings /\ Arrow \in Spellings
       /\ LeftShift \in Spellings /\ RightShift \in Spellings
  BY SpellingsAre
<1> HIDE DEF Matches
<1> QED BY <1>5, <1>6, <1>7, <1>8, <1>9, <1>10, <1>11, <1>12

\* Where no operator starts none is spelled.
LEMMA NoneSpelled ==
  ASSUME NEW j \in Nat, At(j) \notin FirstChars
  PROVE  SpelledAt(j) = {}
<1> SUFFICES ASSUME NEW sp \in SpelledAt(j) PROVE FALSE OBVIOUS
<1>1. sp \in Spellings BY DEF SpelledAt
<1>2. CASE \E op \in OneChar : sp = One(op)
  BY <1>2, SpelledAre DEF FirstChars
<1>3. CASE \E op \in TwoChars : sp = Two(op)
  BY <1>3, SpelledAre, FirstOfTwo
<1>4. CASE sp \in {Ellipsis, Arrow, LeftShift, RightShift}
  <2>1. At(j) \in {".", "-", "<", ">"} BY <1>4, SpelledAre
  <2> QED BY <2>1, FirstOfTwo
<1> QED BY <1>1, <1>2, <1>3, <1>4, SpellingsAre

\* The characters of operators, four of them by name.
Comma == ","
Semicolon == ";"
LCurly == "{"
RCurly == "}"
Others == {":", ".", "*", "/", "%", "+", "-", "<", ">", "=", "!", "&", "^", "|", "~",
           "(", ")", "[", "]"}

\* The separators, which the provers know by name, are not other operators.
LEMMA CharsDiffer ==
  /\ Comma \notin Others /\ Semicolon \notin Others
  /\ LCurly \notin Others /\ RCurly \notin Others
  /\ Comma # Semicolon /\ Comma # LCurly /\ Comma # RCurly
  /\ Semicolon # LCurly /\ Semicolon # RCurly /\ LCurly # RCurly
BY Zenon DEF Comma, Semicolon, LCurly, RCurly, Others

\* The table of operators of one character, written with those names.
LEMMA OneCharIs ==
  \A op \in OneChar : op \in {<<":", "COLON">>, <<".", "MEMB_SEL">>, <<"*", "MUL">>,
        <<"/", "DIV">>, <<"%", "MOD">>, <<"+", "ADD">>, <<"-", "SUB">>, <<"<", "LT">>,
        <<">", "GT">>, <<"=", "ASSIGN">>, <<"!", "LOGICAL_NOT">>, <<"&", "BITWISE_AND">>,
        <<"^", "BITWISE_XOR">>, <<"|", "BITWISE_OR">>, <<Comma, "COMMA">>,
        <<"~", "BITWISE_NOT">>, <<"(", "L_PAREN">>, <<")", "R_PAREN">>,
        <<"[", "L_SQBRACKET">>, <<"]", "R_SQBRACKET">>, <<LCurly, "L_CURLY">>,
        <<RCurly, "R_CURLY">>, <<Semicolon, "SEMICOLON">>}
BY Zenon DEF OneChar, Comma, LCurly, RCurly, Semicolon

\* An operator of one character is given by it, one of two by both.
LEMMA OperatorsDiffer ==
  /\ \A a, b \in OneChar : a[1] = b[1] => a = b
  /\ \A a, b \in TwoChars : a[1] = b[1] /\ a[2] = b[2] => a = b
<1>1. \A a, b \in OneChar : a[1] = b[1] => a = b
  BY OneCharIs, CharsDiffer, SMTT(60) DEF Others
<1>2. \A a, b \in TwoChars : a[1] = b[1] /\ a[2] = b[2] => a = b BY SMTT(60) DEF TwoChars
<1> QED BY <1>1, <1>2

\* The operator that is read at j is the longest that is spelled there.
LEMMA OperatorMunched ==
  ASSUME NEW j \in Nat, NEW op \in OperatorsAt(j),
         NEW t, t.at = j, t.type = op.type, t.end = j + op.len
  PROVE  Munched(t)
<1> DEFINE Dots == At(j) = "." /\ At(j + 1) = "." /\ At(j + 2) = "."
           Arrows == At(j) = "-" /\ At(j + 1) = ">" /\ At(j + 2) = "*"
           Pair(o) == o[1] = At(j) /\ o[2] = At(j + 1)
           IsRead(sp) == t.type = sp[2] /\ t.end = j + Len(sp[1])
           Outdone(n) == \E longer \in SpelledAt(j) :
                           Len(longer[1]) > n \/ longer[1] \in Misread
<1>1. \A o : Len(One(o)[1]) = 1 /\ One(o)[2] = o[2] BY DEF One
<1>2. \A o : Len(Two(o)[1]) = 2 /\ Two(o)[2] = o[3] BY DEF Two
<1>3. /\ Len(Ellipsis[1]) = 3 /\ Ellipsis[2] = "ELLIPSIS"
      /\ Len(Arrow[1]) = 3 /\ Arrow[1] \in Misread
      /\ Len(LeftShift[1]) = 3 /\ LeftShift[1] \in Misread
      /\ Len(RightShift[1]) = 3 /\ RightShift[1] \in Misread
  BY DEF Ellipsis, Arrow, LeftShift, RightShift, Misread
<1>4. ASSUME NEW sp \in SpelledAt(j) PROVE Outdone(Len(sp[1])) \/ IsRead(sp)
  <2>1. sp \in Spellings BY DEF SpelledAt
  <2>2. CASE \E o \in OneChar : sp = One(o)
    <3>1. PICK o \in OneChar : sp = One(o) BY <2>2
    <3>2. o[1] = At(j) BY <3>1, SpelledAre
    <3>3. CASE Dots
      <4>1. Ellipsis \in SpelledAt(j) BY <3>3, SpelledAre
      <4>2. Len(sp[1]) = 1 BY <3>1, <1>1
      <4> QED BY SMTT(40), <4>1, <4>2, <1>3
    <3>4. CASE Arrows
      <4>1. Arrow \in SpelledAt(j) BY <3>4, SpelledAre
      <4> QED BY <4>1, <1>3
    <3>5. CASE \E p \in TwoChars : Pair(p)
      <4>1. PICK p \in TwoChars : Pair(p) BY <3>5
      <4>2. Two(p) \in SpelledAt(j) BY <4>1, SpelledAre
      <4>3. Len(sp[1]) = 1 BY <3>1, <1>1
      <4>4. Len(Two(p)[1]) = 2 BY <1>2
      <4> QED BY SMTT(40), <4>2, <4>3, <4>4
    <3>6. CASE ~Dots /\ ~Arrows /\ ~\E p \in TwoChars : Pair(p)
      <4>1. PICK q \in OneChar : q[1] = At(j) /\ op = [type |-> q[2], len |-> 1]
        BY <3>6, Zenon DEF OperatorsAt
      <4>2. q = o BY <3>2, <4>1, OperatorsDiffer
      <4>3. op.type = o[2] /\ op.len = 1 BY <4>1, <4>2
      <4>4. sp[2] = o[2] /\ Len(sp[1]) = 1 BY <3>1, <1>1
      <4>5. t.type = sp[2] BY <4>3, <4>4
      <4>6. t.end = j + Len(sp[1]) BY <4>3, <4>4
      <4> QED BY <4>5, <4>6
    <3> QED BY <3>3, <3>4, <3>5, <3>6
  <2>3. CASE \E o \in TwoChars : sp = Two(o)
    <3>1. PICK o \in TwoChars : sp = Two(o) BY <2>3
    <3>2. Pair(o) BY <3>1, SpelledAre
    <3>3. CASE Dots
      <4>1. Ellipsis \in SpelledAt(j) BY <3>3, SpelledAre
      <4>2. Len(sp[1]) = 2 BY <3>1, <1>2
      <4> QED BY SMTT(40), <4>1, <4>2, <1>3
    <3>4. CASE Arrows
      <4>1. Arrow \in SpelledAt(j) BY <3>4, SpelledAre
      <4> QED BY <4>1, <1>3
    <3>5. CASE ~Dots /\ ~Arrows
      <4>1. PICK q \in TwoChars : Pair(q) /\ op = [type |-> q[3], len |-> 2]
        BY <3>2, <3>5, Zenon DEF OperatorsAt
      <4>2. q = o BY <3>2, <4>1, OperatorsDiffer
      <4>3. op.type = o[3] /\ op.len = 2 BY <4>1, <4>2
      <4>4. sp[2] = o[3] /\ Len(sp[1]) = 2 BY <3>1, <1>2
      <4>5. t.type = sp[2] BY <4>3, <4>4
      <4>6. t.end = j + Len(sp[1]) BY <4>3, <4>4
      <4> QED BY <4>5, <4>6
    <3> QED BY <3>3, <3>4, <3>5
  <2>4. CASE sp = Ellipsis
    <3>1. Dots BY <2>4, SpelledAre
    <3>2. op = [type |-> "ELLIPSIS", len |-> 3] BY <3>1 DEF OperatorsAt
    <3>3. op.type = sp[2] /\ op.len = 3 /\ Len(sp[1]) = 3 BY <2>4, <3>2, <1>3
    <3>4. t.type = sp[2] BY <3>3
    <3>5. t.end = j + Len(sp[1]) BY <3>3
    <3> QED BY <3>4, <3>5
  <2>5. CASE sp \in {Arrow, LeftShift, RightShift} BY <2>5, <1>3
  <2> QED BY <2>1, <2>2, <2>3, <2>4, <2>5, SpellingsAre
<1> QED BY <1>4 DEF Munched

\* So is every token that starts like no operator, there being none, and every
\* float.
LEMMA OtherMunched ==
  ASSUME NEW t, t.at \in Nat,
         At(t.at) \notin FirstChars \/ t.type \in {LitToks[f] : f \in FloatTypes}
  PROVE  Munched(t)
BY NoneSpelled DEF Munched

\* The characters of names and of numbers.
Letters ==
  {"a", "b", "c", "d", "e", "f", "g", "h", "i", "j", "k", "l", "m",
   "n", "o", "p", "q", "r", "s", "t", "u", "v", "w", "x", "y", "z",
   "A", "B", "C", "D", "E", "F", "G", "H", "I", "J", "K", "L", "M",
   "N", "O", "P", "Q", "R", "S", "T", "U", "V", "W", "X", "Y", "Z",
   "0", "1", "2", "3", "4", "5", "6", "7", "8", "9"}

\* No name, literal or end of a text starts like an operator.
LEMMA FirstsAre ==
  /\ Alphas \cap FirstChars = {} /\ DigitsOf(10) \cap FirstChars = {}
  /\ "_" \notin FirstChars /\ "NUL" \notin FirstChars
  /\ Quotes \cap FirstChars = {}
<1>1. \A op \in OneChar : op[1] \in Others \cup {Comma, Semicolon, LCurly, RCurly}
  BY OneCharIs, SMTT(60) DEF Others
<1>2. FirstChars \subseteq Others \cup {Comma, Semicolon, LCurly, RCurly}
  BY <1>1 DEF FirstChars
<1>3. \A c \in Letters : c \notin Others /\ c \notin {Comma, Semicolon, LCurly, RCurly}
  <2>1. \A c \in Letters : c \notin Others BY SMTT(60) DEF Letters, Others
  <2>2. Comma \notin Letters /\ Semicolon \notin Letters
    BY Zenon DEF Letters, Comma, Semicolon
  <2>3. LCurly \notin Letters /\ RCurly \notin Letters BY Zenon DEF Letters, LCurly, RCurly
  <2> QED BY <2>1, <2>2, <2>3
<1>4. \A c \in Alphas \cup DigitsOf(10) : c \in Letters
  <2>1. \A n \in 1..26 : Lowers[n] \in Letters /\ Uppers[n] \in Letters
    BY DEF Lowers, Uppers, Letters
  <2>2. \A n \in 1..10 : HexDigits[n] \in Letters BY DEF HexDigits, Letters
  <2> QED BY <2>1, <2>2 DEF Alphas, DigitsOf
<1>5. \A c \in Quotes \cup {"_", "NUL"} :
        c \notin Others /\ c \notin {Comma, Semicolon, LCurly, RCurly}
  BY Zenon DEF Quotes, Others, Comma, Semicolon, LCurly, RCurly
<1> QED BY <1>2, <1>3, <1>4, <1>5

\* A step adds no token or one that is munched.
MunchedToken == \E t : toks' = Append(toks, t) /\ Munched(t)

\* A token that is no operator is munched whatever follows: it does not start as one.
LEMMA PlainToken ==
  ASSUME Inside, NEW type, NEW e, NEW val, NEW ident, Push(Tok(type, e, val, ident)),
         At(i) \notin FirstChars \/ type \in {LitToks[f] : f \in FloatTypes}
  PROVE  MunchedToken
<1> DEFINE t == Tok(type, e, val, ident)
<1>1. t.at = i /\ t.type = type BY DEF Tok
<1>2. toks' = Append(toks, t) BY DEF Push
<1> HIDE DEF t
<1>3. Munched(t) BY <1>1, InsideIn, OtherMunched
<1> QED BY <1>2, <1>3 DEF MunchedToken

\* Every action adds a munched token or none.
LEMMA MunchSteps ==
  ASSUME Inside, LexNext
  PROVE  text' = text /\ (toks' = toks \/ MunchedToken)
<1>1. CASE LineComment BY <1>1 DEF LineComment, Stop
<1>2. CASE BlockComment BY <1>2 DEF BlockComment, Stop
<1>3. CASE Newline \/ Blank \/ UnknownSymbol BY <1>3 DEF Newline, Blank, UnknownSymbol
<1>4. CASE Operator
  <2>1. PICK op \in OperatorsAt(i) : Push(Tok(op.type, i + op.len, 0, 0)) BY <1>4 DEF Operator
  <2> DEFINE t == Tok(op.type, i + op.len, 0, 0)
  <2>2. t.at = i /\ t.type = op.type /\ t.end = i + op.len BY DEF Tok
  <2>3. toks' = Append(toks, t) BY <2>1 DEF Push
  <2> HIDE DEF t
  <2>4. PICK j \in Nat : j = i BY InsideIn
  <2>5. Munched(t) BY <2>2, <2>4, OperatorMunched
  <2> QED BY <1>4, <2>3, <2>5 DEF Operator, MunchedToken
<1>5. CASE FloatLiteral
  <2>1. LitToks[LiteralAt(i).type] \in {LitToks[f] : f \in FloatTypes}
    BY <1>5 DEF FloatLiteral
  <2>2. Push(Tok(LitToks[LiteralAt(i).type], LiteralAt(i).end, 0, 0)) /\ text' = text
    BY <1>5 DEF FloatLiteral
  <2> QED BY <2>1, <2>2, PlainToken
<1>6. CASE IntLiteral /\ IsFloat(i) BY <1>6 DEF IntLiteral, Stop
<1>7. CASE IntLiteral /\ ~IsFloat(i)
  <2>1. At(i) \in DigitsOf(10) BY <1>7 DEF IntLiteral
  <2>2. At(i) \notin FirstChars BY <2>1, FirstsAre
  <2>3. \E type, e, val : Push(Tok(type, e, val, 0)) BY <1>7 DEF IntLiteral, PushInt
  <2>4. text' = text BY <1>7 DEF IntLiteral
  <2> QED BY <2>2, <2>3, <2>4, PlainToken
<1>8. CASE CharLiteral \/ StringLiteral
  <2>1. StartsLiteral("'") \/ StartsLiteral("\"") BY <1>8 DEF CharLiteral, StringLiteral
  <2>2. At(i) \in Quotes \cup Alphas \cup {"_"} BY <2>1, Zenon DEF StartsLiteral, Quotes
  <2>3. At(i) \notin FirstChars BY <2>2, FirstsAre
  <2>4. \/ Stop("overrun") \/ Stop("crash")
        \/ \E type, e : Push(Tok(type, e, 0, 0)) /\ text' = text
    BY <1>8 DEF CharLiteral, StringLiteral
  <2>5. CASE Stop("overrun") \/ Stop("crash") BY <2>5 DEF Stop
  <2>6. CASE \E type, e : Push(Tok(type, e, 0, 0)) /\ text' = text
    BY <2>3, <2>6, PlainToken
  <2> QED BY <2>4, <2>5, <2>6
<1>9. CASE Identifier
  <2>1. At(i) \notin FirstChars BY <1>9, FirstsAre DEF Identifier
  <2>2. \E type, e, ident : Push(Tok(type, e, 0, ident)) BY <1>9 DEF Identifier
  <2>3. text' = text BY <1>9 DEF Identifier
  <2> QED BY <2>1, <2>2, <2>3, PlainToken
<1>10. CASE EndOfText
  <2>1. At(i) \notin FirstChars BY <1>10, FirstsAre DEF EndOfText
  <2>2. Push(Tok("END", i, 0, 0)) /\ text' = text BY <1>10 DEF EndOfText
  <2> QED BY <2>1, <2>2, PlainToken
<1> QED BY <1>1, <1>2, <1>3, <1>4, <1>5, <1>6, <1>7, <1>8, <1>9, <1>10 DEF LexNext

Munch == IsSeq(toks) /\ \A n \in 1..Len(toks) : Munched(toks[n])

\* Whatever the source file, an operator token is the longest that is spelled
\* where it stands, but for those the tokenizer misreads.
THEOREM LexMaximalMunch == LexSpec => []MaximalMunch
<1>1. LexInit => Munch
  <2> SUFFICES ASSUME LexInit PROVE Munch OBVIOUS
  <2>1. toks = <<>> BY DEF LexInit, LexStart
  <2>2. <<>> \in Seq({}) /\ Len(<<>>) = 0 OBVIOUS
  <2> QED BY <2>1, <2>2 DEF Munch, IsSeq
<1>2. Inside /\ Munch /\ [LexNext]_lexVars => Munch'
  <2> SUFFICES ASSUME Inside, Munch, [LexNext]_lexVars PROVE Munch' OBVIOUS
  <2>1. text' = text /\ (toks' = toks \/ MunchedToken) BY MunchSteps DEF lexVars
  <2>2. ASSUME NEW t, Munched(t) PROVE Munched(t)'
    <3>1. \A j : SpelledAt(j)' = SpelledAt(j) BY <2>1 DEF SpelledAt, At
    <3> QED BY <2>2, <3>1 DEF Munched
  <2>3. CASE toks' = toks BY <2>2, <2>3 DEF Munch
  <2>4. CASE MunchedToken
    <3>1. PICK t : toks' = Append(toks, t) /\ Munched(t) BY <2>4 DEF MunchedToken
    <3>2. /\ IsSeq(toks') /\ Len(toks) \in Nat /\ Len(toks') = Len(toks) + 1
          /\ \A k \in 1..Len(toks) : toks'[k] = toks[k]
          /\ toks'[Len(toks) + 1] = t
      BY <3>1, AppendIs DEF Munch
    <3>3. ASSUME NEW n \in 1..Len(toks') PROVE Munched(toks[n])'
      <4>1. PICK s : s = toks'[n] OBVIOUS
      <4>2. Munched(s) BY <3>1, <3>2, <4>1 DEF Munch
      <4> QED BY <2>2, <4>1, <4>2
    <3> QED BY <3>2, <3>3 DEF Munch
  <2> QED BY <2>1, <2>3, <2>4
<1>3. Munch => MaximalMunch
  <2> SUFFICES ASSUME Munch, NEW n \in 1..Len(toks), NEW op \in SpelledAt(toks[n].at)
               PROVE  \/ toks[n].type \in {LitToks[f] : f \in FloatTypes}
                      \/ \E longer \in SpelledAt(toks[n].at) :
                           Len(longer[1]) > Len(op[1]) \/ longer[1] \in Misread
                      \/ toks[n].type = op[2] /\ toks[n].end = toks[n].at + Len(op[1])
    BY DEF MaximalMunch
  <2>1. Munched(toks[n]) BY DEF Munch
  <2> QED BY <2>1 DEF Munched
<1> QED BY <1>1, <1>2, <1>3, InsideInit, InsideStep, PTL DEF LexSpec

-----------------------------------------------------------------------------
(***************************************************************************)
(* The positions of the tokens: lines and columns of the text, from one    *)
(* index to a later one.                                                   *)
(***************************************************************************)
\* Of a character of two bytes the second follows the first.
LEMMA ContFollows ==
  ASSUME text \in Texts
  PROVE  /\ \A k \in Int : At(k) = "cont" => k > 1 /\ At(k - 1) = "wide"
         /\ \A k \in Int : At(k) = "wide" => At(k + 1) = "cont"
BY TextsAssumption DEF At

Those(c, from, to) == {k \in from..to : At(k) = c}
Conts(from, to) == Those("cont", from, to)

\* The characters of a kind can be counted, and in two parts.
LEMMA Counted ==
  ASSUME NEW c, NEW a \in Int, NEW b \in Int
  PROVE  IsFiniteSet(Those(c, a, b)) /\ Cardinality(Those(c, a, b)) \in Nat
<1>1. IsFiniteSet(a..b) /\ Those(c, a, b) \in SUBSET (a..b) BY FS_Interval DEF Those
<1>2. IsFiniteSet(Those(c, a, b)) BY <1>1, FS_Subset
<1> QED BY <1>2, FS_CardinalityType

\* A range that is cut in two is counted in its parts.
LEMMA CountedInParts ==
  ASSUME NEW c, NEW a \in Int, NEW j \in Int, NEW b \in Int, a <= j, j <= b
  PROVE  Cardinality(Those(c, a, b - 1))
           = Cardinality(Those(c, a, j - 1)) + Cardinality(Those(c, j, b - 1))
<1> DEFINE S == Those(c, a, j - 1)
           T == Those(c, j, b - 1)
<1>1. Those(c, a, b - 1) = S \cup T BY DEF Those
<1>2. S \cap T = {} BY DEF Those
<1>3. j - 1 \in Int /\ b - 1 \in Int OBVIOUS
<1>4. IsFiniteSet(S) /\ Cardinality(S) \in Nat BY <1>3, Counted
<1>5. IsFiniteSet(T) /\ Cardinality(T) \in Nat BY <1>3, Counted
<1> HIDE DEF S, T
<1>6. Cardinality(S \cup T) = Cardinality(S) + Cardinality(T) - Cardinality(S \cap T)
  BY <1>4, <1>5, FS_Union
<1>7. Cardinality(S \cap T) = 0
  <2>1. Cardinality({}) = 0 BY FS_EmptySet
  <2> QED BY <1>2, <2>1, Zenon
<1>8. Cardinality(S \cup T) = Cardinality(S) + Cardinality(T) BY <1>4, <1>5, <1>6, <1>7
<1> QED BY <1>1, <1>8 DEF S, T

\* The line further on is later by the newlines passed.
LEMMA LineFurther ==
  ASSUME NEW j \in Nat \ {0}, NEW k \in Nat, j <= k
  PROVE  /\ LineOf(k) = LineOf(j) + Cardinality(Newlines(j, k - 1))
         /\ LineOf(j) \in Int /\ Cardinality(Newlines(j, k - 1)) \in Nat
<1>1. \A a, b : Newlines(a, b) = Those("\n", a, b) BY DEF Newlines, Those
<1>2. Cardinality(Those("\n", 1, k - 1))
        = Cardinality(Those("\n", 1, j - 1)) + Cardinality(Those("\n", j, k - 1))
  BY CountedInParts
<1>3. j - 1 \in Int /\ k - 1 \in Int OBVIOUS
<1>4. /\ Cardinality(Those("\n", 1, j - 1)) \in Nat
      /\ Cardinality(Those("\n", j, k - 1)) \in Nat
  BY <1>3, Counted
<1> QED BY <1>1, <1>2, <1>4 DEF LineOf

\* The line starts behind the last newline, or with the text.
LEMMA StartIs ==
  ASSUME NEW j \in Nat \ {0}
  PROVE  /\ StartOf(j) \in 1..j
         /\ \A m \in StartOf(j)..j-1 : At(m) # "\n"
         /\ StartOf(j) = 1 \/ At(StartOf(j) - 1) = "\n"
<1> DEFINE T == Newlines(1, j - 1) \cup {0}
<1>1. T \subseteq 0..j-1 /\ T # {} /\ j - 1 \in Nat BY DEF Newlines
<1>2. PICK m \in T : \A n \in T : n <= m
  <2> HIDE DEF T
  <2> QED BY <1>1, NatMax
<1>3. Max(T) \in T /\ \A n \in T : Max(T) >= n
  <2>1. \A n \in T : m >= n BY <1>1, <1>2
  <2> HIDE DEF T
  <2> QED BY <1>2, <2>1 DEF Max
<1> DEFINE max == Max(T)
<1>4. StartOf(j) = max + 1 BY <1>1, <1>3 DEF StartOf
<1>5. max \in T /\ \A n \in T : max >= n BY <1>3
<1> HIDE DEF max
<1>6. max \in 0..j-1 BY <1>1, <1>5
<1>7. \A n \in max+1..j-1 : At(n) # "\n"
  <2> SUFFICES ASSUME NEW n \in max+1..j-1, At(n) = "\n" PROVE FALSE OBVIOUS
  <2>1. n \in 1..j-1 BY <1>6
  <2>2. n \in T BY <2>1 DEF Newlines
  <2> HIDE DEF T
  <2> QED BY <2>1, <2>2, <1>5, <1>6
<1>8. max = 0 \/ At(max) = "\n" BY <1>5 DEF Newlines
<1> QED BY <1>4, <1>6, <1>7, <1>8

\* Nothing else starts it.
LEMMA StartUnique ==
  ASSUME NEW j \in Nat \ {0}, NEW s \in 1..j,
         \A m \in s..j-1 : At(m) # "\n", s = 1 \/ At(s - 1) = "\n"
  PROVE  StartOf(j) = s
<1>1. PICK r : r = StartOf(j) OBVIOUS
<1>2. r \in 1..j /\ (\A m \in r..j-1 : At(m) # "\n") /\ (r = 1 \/ At(r - 1) = "\n")
  BY <1>1, StartIs
<1>3. ~(r < s)
  <2> SUFFICES ASSUME r < s PROVE FALSE OBVIOUS
  <2>1. s - 1 \in r..j-1 /\ s # 1 BY <1>2
  <2> QED BY <2>1, <1>2
<1>4. ~(s < r)
  <2> SUFFICES ASSUME s < r PROVE FALSE OBVIOUS
  <2>1. r - 1 \in s..j-1 /\ r # 1 BY <1>2
  <2> QED BY <2>1, <1>2
<1> QED BY <1>1, <1>2, <1>3, <1>4

\* Up to the next newline the line and its start stay, and the column moves by
\* the characters.
LEMMA SameLine ==
  ASSUME NEW j \in Nat \ {0}, NEW k \in Nat, j <= k, \A m \in j..k-1 : At(m) # "\n"
  PROVE  /\ LineOf(k) = LineOf(j)
         /\ StartOf(k) = StartOf(j)
         /\ ColumnOf(k) = ColumnOf(j) + (k - j) - Cardinality(Conts(j, k - 1))
<1>1. Newlines(j, k - 1) = {} BY DEF Newlines
<1>2. LineOf(k) = LineOf(j)
  <2>1. LineOf(k) = LineOf(j) + Cardinality({}) /\ LineOf(j) \in Int BY <1>1, LineFurther
  <2>2. Cardinality({}) = 0 BY FS_EmptySet
  <2> QED BY <2>1, <2>2
<1>3. PICK s : s = StartOf(j) OBVIOUS
<1>4. s \in 1..j /\ (\A m \in s..j-1 : At(m) # "\n") /\ (s = 1 \/ At(s - 1) = "\n")
  BY <1>3, StartIs
<1>5. StartOf(k) = s
  <2>1. s \in 1..k /\ k \in Nat \ {0} BY <1>4
  <2>2. \A m \in s..k-1 : m \in s..j-1 \/ m \in j..k-1 BY <1>4
  <2>3. \A m \in s..k-1 : At(m) # "\n" BY <2>2, <1>4
  <2> QED BY <2>1, <2>3, <1>4, StartUnique
<1>6. Cardinality(Conts(s, k - 1))
        = Cardinality(Conts(s, j - 1)) + Cardinality(Conts(j, k - 1))
  BY <1>4, CountedInParts DEF Conts
<1>7. /\ Cardinality(Conts(s, k - 1)) \in Nat /\ Cardinality(Conts(s, j - 1)) \in Nat
      /\ Cardinality(Conts(j, k - 1)) \in Nat
  <2>1. s \in Int /\ k - 1 \in Int /\ j - 1 \in Int BY <1>4
  <2> QED BY <2>1, Counted DEF Conts
<1>8. ColumnOf(k) = k - s + 1 - Cardinality(Conts(s, k - 1))
  BY <1>5 DEF ColumnOf, Conts, Those
<1>9. ColumnOf(j) = j - s + 1 - Cardinality(Conts(s, j - 1))
  BY <1>3 DEF ColumnOf, Conts, Those
<1>10. ColumnOf(k) = ColumnOf(j) + (k - j) - Cardinality(Conts(j, k - 1))
  BY <1>4, <1>6, <1>7, <1>8, <1>9
<1> QED BY <1>2, <1>3, <1>5, <1>10

\* A newline starts a line.
LEMMA NextLine ==
  ASSUME NEW j \in Nat \ {0}, At(j) = "\n"
  PROVE  LineOf(j + 1) = LineOf(j) + 1 /\ StartOf(j + 1) = j + 1 /\ ColumnOf(j + 1) = 1
<1>1. Newlines(j, (j + 1) - 1) = {j} BY DEF Newlines
<1>2. LineOf(j + 1) = LineOf(j) + 1
  <2>1. j + 1 \in Nat /\ j <= j + 1 OBVIOUS
  <2>2. LineOf(j + 1) = LineOf(j) + Cardinality({j}) BY <1>1, <2>1, LineFurther
  <2>3. Cardinality({j}) = 1 BY FS_Singleton
  <2> QED BY <2>2, <2>3
<1>3. StartOf(j + 1) = j + 1 BY StartUnique
<1>4. {k \in j+1..(j+1)-1 : At(k) = "cont"} = {} OBVIOUS
<1>5. ColumnOf(j + 1) = 1 BY <1>3, <1>4, FS_EmptySet DEF ColumnOf
<1> QED BY <1>2, <1>3, <1>5

-----------------------------------------------------------------------------
(***************************************************************************)
(* What is known of the position at an index, and of one that a token has. *)
(***************************************************************************)
\* No token before j holds a newline.
Unbroken(j) == \A n \in 1..Len(toks) : toks[n].at < j => ~Holds(toks[n], "\n")

\* Nothing before j on its line has put the column off.
Straight(j) ==
  \A k \in StartOf(j)..j-1 : /\ Closes(k) => InToken(k)
                             /\ At(k) = "cont" => ~InToken(k)

\* What is asked of a token is asked of its first character.
LEMMA LocatableIs ==
  \A u : Locatable(u) <=> Unbroken(u.at) /\ Straight(u.at)
BY DEF Locatable, Unbroken, Straight

\* The same after a step.
LEMMA LocatableNext ==
  (\A u : Locatable(u) <=> Unbroken(u.at) /\ Straight(u.at))'
BY LocatableIs, PTL

Placed(t) ==
  Locatable(t) => /\ t.line = LineOf(t.at) /\ t.column = ColumnOf(t.at)
                  /\ t.lineStart = StartOf(t.at)

Before(t, j) == t.at \in Nat \ {0} /\ t.end \in Nat /\ t.at <= t.end /\ t.end <= j

\* The tokens stand before the index, each with its position.
Placing == /\ IsSeq(toks)
           /\ \A n \in 1..Len(toks) : Before(toks[n], i) /\ Placed(toks[n])

\* A line is counted whatever happens on it; the column is let go by a line
\* comment, and found again behind the newline that ends it.
Lines == Unbroken(i) => pos.line = LineOf(i)
Starts == Unbroken(i) /\ Straight(i) => lineStart = StartOf(i)
Columns == Unbroken(i) /\ Straight(i) /\ At(i) # "\n" => pos.column = ColumnOf(i)

Located ==
  /\ pos \in [line : Int, column : Int]
  /\ At(i) # "cont"
  /\ Lines /\ Starts /\ Columns

\* What a step does to the tokens.
Extends(j) == \/ toks' = toks
              \/ \E t : toks' = Append(toks, t) /\ t.at = j /\ t.end \in Nat /\ j <= t.end

\* The tokens before the new one are what they were.
LEMMA Extended ==
  ASSUME Placing, i \in Nat, Extends(i)
  PROVE  /\ IsSeq(toks')
         /\ Len(toks) \in Nat /\ Len(toks') \in Nat /\ Len(toks) <= Len(toks')
         /\ \A n \in 1..Len(toks) : toks'[n] = toks[n]
         /\ \A n \in 1..Len(toks') : n \in 1..Len(toks) \/ toks'[n].at = i
         /\ \A n \in 1..Len(toks') : toks'[n].at \in Nat
<1>1. /\ IsSeq(toks')
      /\ Len(toks) \in Nat /\ Len(toks') \in Nat /\ Len(toks) <= Len(toks')
      /\ \A n \in 1..Len(toks) : toks'[n] = toks[n]
      /\ \A n \in 1..Len(toks') : n \in 1..Len(toks) \/ toks'[n].at = i
  <2>1. CASE toks' = toks BY <2>1, AppendIs DEF Placing
  <2>2. CASE \E t : toks' = Append(toks, t) /\ t.at = i
    <3>1. PICK t : toks' = Append(toks, t) /\ t.at = i BY <2>2
    <3>2. /\ IsSeq(toks')
          /\ Len(toks) \in Nat /\ Len(toks') = Len(toks) + 1
          /\ \A k \in 1..Len(toks) : toks'[k] = toks[k]
          /\ toks'[Len(toks) + 1] = t
      BY <3>1, AppendIs DEF Placing
    <3> QED BY <3>1, <3>2
  <2> QED BY <2>1, <2>2 DEF Extends
<1>2. \A n \in 1..Len(toks) : toks[n].at \in Nat BY DEF Placing, Before
<1> QED BY <1>1, <1>2

\* What is known up to the index is known of the tokens that were there.
LEMMA Earlier ==
  ASSUME Placing, text' = text, i \in Nat, Extends(i), NEW j \in Nat \ {0}, j <= i
  PROVE  /\ Unbroken(j)' => Unbroken(j)
         /\ Straight(j)' => Straight(j)
         /\ \A k \in 1..i-1 : InToken(k)' <=> InToken(k)
<1>1. \A c : \A t : Holds(t, c)' <=> Holds(t, c) BY AtStays DEF Holds, Span
<1>2. /\ Len(toks) \in Nat /\ Len(toks') \in Nat /\ Len(toks) <= Len(toks')
      /\ \A n \in 1..Len(toks) : toks'[n] = toks[n]
      /\ \A n \in 1..Len(toks') : n \in 1..Len(toks) \/ toks'[n].at = i
  BY Extended
<1>3. ASSUME Unbroken(j)' PROVE Unbroken(j)
  <2> SUFFICES ASSUME NEW n \in 1..Len(toks), toks[n].at < j PROVE ~Holds(toks[n], "\n")
    BY DEF Unbroken
  <2>1. n \in 1..Len(toks') /\ toks'[n] = toks[n] BY <1>2
  <2>2. ~Holds(toks[n], "\n")' BY <2>1, <1>3 DEF Unbroken
  <2>3. PICK t : t = toks[n] /\ t = toks'[n] BY <2>1
  <2>4. ~Holds(t, "\n")' BY <2>2, <2>3 DEF Holds, Span
  <2> QED BY <1>1, <2>3, <2>4
<1>4. ASSUME NEW k \in 1..i-1 PROVE InToken(k)' <=> InToken(k)
  <2>1. \A n \in 1..Len(toks) : n \in 1..Len(toks') /\ toks'[n] = toks[n] BY <1>2
  <2>2. \A n \in 1..Len(toks') : k \in toks'[n].at..toks'[n].end-1 => n \in 1..Len(toks)
    <3> SUFFICES ASSUME NEW n \in 1..Len(toks'), toks'[n].at = i,
                        k \in toks'[n].at..toks'[n].end-1
                 PROVE  FALSE
      BY <1>2
    <3>1. PICK a : a = toks'[n].end - 1 OBVIOUS
    <3>2. k \in i..a BY <3>1
    <3> QED BY <3>2
  <2> QED BY <2>1, <2>2 DEF InToken, Span
<1>5. ASSUME Straight(j)' PROVE Straight(j)
  <2>1. StartOf(j)' = StartOf(j) BY AtStays DEF StartOf
  <2>2. StartOf(j) \in 1..j BY StartIs
  <2> SUFFICES ASSUME NEW k \in StartOf(j)..j-1
               PROVE  (Closes(k) => InToken(k)) /\ (At(k) = "cont" => ~InToken(k))
    BY DEF Straight
  <2>3. (Closes(k) => InToken(k))' /\ (At(k) = "cont" => ~InToken(k))'
    BY <2>1, <1>5 DEF Straight
  <2>4. k \in 1..i-1 BY <2>2
  <2> QED BY <2>3, <2>4, <1>4, AtStays
<1> QED BY <1>3, <1>4, <1>5

\* Of the characters in the next state.
LEMMA PlaceStays ==
  ASSUME text' = text
  PROVE  \A j : LineOf(j)' = LineOf(j) /\ StartOf(j)' = StartOf(j) /\ ColumnOf(j)' = ColumnOf(j)
<1>1. \A j : LineOf(j)' = LineOf(j) BY AtStays DEF LineOf
<1>2. \A j : StartOf(j)' = StartOf(j) BY AtStays DEF StartOf
<1>3. \A j : ColumnOf(j)' = ColumnOf(j) BY <1>2, AtStays DEF ColumnOf
<1> QED BY <1>1, <1>2, <1>3

\* The tokens that were there keep their positions.
LEMMA PlacedStays ==
  ASSUME Placing, text' = text, i \in Nat, Extends(i), NEW t, Before(t, i), Placed(t)
  PROVE  Placed(t)'
<1>1. PICK j \in Nat \ {0} : j = t.at /\ j <= i BY DEF Before
<1>2. Unbroken(j)' => Unbroken(j) BY <1>1, Earlier
<1>3. Straight(j)' => Straight(j) BY <1>1, Earlier
<1>4. Locatable(t)' => Unbroken(j)' /\ Straight(j)'
  <2>1. Locatable(t)' <=> Unbroken(t.at)' /\ Straight(t.at)' BY LocatableNext
  <2> QED BY <1>1, <2>1
<1>5. Locatable(t)' => Locatable(t) BY <1>1, <1>2, <1>3, <1>4, LocatableIs
<1> QED BY <1>5, PlaceStays DEF Placed

\* A step from j to k.
FromTo(j, k) == j = i /\ k = i'

\* Further on in the line, the position is that of the index if the column moved
\* with the characters, where it still counts.
LEMMA Onward ==
  ASSUME Placing, Located, text' = text, Extends(i),
         NEW j \in Nat \ {0}, NEW k \in Nat, FromTo(j, k), j < k, At(j) # "\n", At(k) # "cont",
         Unbroken(k)' => \A m \in j..k-1 : At(m) # "\n",
         pos' \in [line : Int, column : Int], pos'.line = pos.line, lineStart' = lineStart,
         Unbroken(k)' /\ Straight(k)' /\ At(k) # "\n" =>
           pos'.column = pos.column + (k - j) - Cardinality(Conts(j, k - 1))
  PROVE  Located'
<1>1. Unbroken(k)' => Unbroken(j)
  <2>1. Unbroken(k)' => Unbroken(j)'
    <3>1. \A n \in 1..Len(toks') : toks'[n].at < j => toks'[n].at < k
      <4>1. i \in Nat BY DEF FromTo
      <4>2. \A n \in 1..Len(toks') : toks'[n].at \in Nat BY <4>1, Extended
      <4> QED BY <4>2
    <3> QED BY <3>1 DEF Unbroken
  <2>2. i \in Nat /\ j <= i BY DEF FromTo
  <2> QED BY <2>1, <2>2, Earlier
<1>2. ASSUME Unbroken(k)'
      PROVE  LineOf(k) = LineOf(j) /\ StartOf(k) = StartOf(j)
             /\ ColumnOf(k) = ColumnOf(j) + (k - j) - Cardinality(Conts(j, k - 1))
  <2>1. \A m \in j..k-1 : At(m) # "\n" BY <1>2
  <2>2. LineOf(k) = LineOf(j) BY <2>1, SameLine
  <2>3. StartOf(k) = StartOf(j) BY <2>1, SameLine
  <2>4. ColumnOf(k) = ColumnOf(j) + (k - j) - Cardinality(Conts(j, k - 1)) BY <2>1, SameLine
  <2> QED BY <2>2, <2>3, <2>4
<1>3. ASSUME Unbroken(k)', Straight(k)' PROVE Straight(j)
  <2>1. PICK s : s = StartOf(j) OBVIOUS
  <2>2. StartOf(k)' = s /\ StartOf(j)' = s BY <1>2, <1>3, <2>1, PlaceStays
  <2>3. s \in 1..j BY <2>1, StartIs
  <2>4. \A m \in s..j-1 : m \in s..k-1 BY <2>3
  <2>5. Straight(j)' BY <1>3, <2>2, <2>4 DEF Straight
  <2>6. i \in Nat /\ j <= i BY DEF FromTo
  <2> QED BY <2>5, <2>6, Earlier
<1>4. Lines' 
  <2> SUFFICES ASSUME Unbroken(k)' PROVE pos'.line = LineOf(k)
    BY PlaceStays DEF Lines, FromTo
  <2> QED BY <1>1, <1>2 DEF Located, Lines, FromTo
<1>5. Starts'
  <2> SUFFICES ASSUME Unbroken(k)', Straight(k)' PROVE lineStart' = StartOf(k)
    BY PlaceStays DEF Starts, FromTo
  <2> QED BY <1>1, <1>2, <1>3 DEF Located, Starts, FromTo
<1>6. Columns'
  <2> SUFFICES ASSUME Unbroken(k)', Straight(k)', At(k) # "\n" PROVE pos'.column = ColumnOf(k)
    BY PlaceStays, AtStays DEF Columns, FromTo
  <2>1. pos.column = ColumnOf(j) BY <1>1, <1>3 DEF Located, Columns, FromTo
  <2> QED BY <2>1, <1>2
<1>7. At(i)' # "cont" BY AtStays DEF FromTo
<1> QED BY <1>4, <1>5, <1>6, <1>7 DEF Located

\* A token that starts at the index, and not with a newline, has the position.
LEMMA NewPlaced ==
  ASSUME Placing, Located, text' = text, i \in Nat \ {0}, Extends(i), At(i) # "\n",
         NEW t, t.at = i, t.line = pos.line, t.column = pos.column, t.lineStart = lineStart
  PROVE  Placed(t)'
<1>1. PICK j \in Nat \ {0} : j = i OBVIOUS
<1>2. Unbroken(j)' => Unbroken(j) BY <1>1, Earlier
<1>3. Straight(j)' => Straight(j) BY <1>1, Earlier
<1>4. Locatable(t)' => Unbroken(j) /\ Straight(j)
  <2>1. Locatable(t)' <=> Unbroken(t.at)' /\ Straight(t.at)' BY LocatableNext
  <2>2. t.at = j BY <1>1
  <2> QED BY <1>2, <1>3, <2>1, <2>2
<1>5. SUFFICES ASSUME Unbroken(j), Straight(j)
               PROVE  t.line = LineOf(j) /\ t.column = ColumnOf(j) /\ t.lineStart = StartOf(j)
  BY <1>1, <1>4, PlaceStays DEF Placed
<1> QED BY <1>1, <1>5 DEF Located, Lines, Starts, Columns

\* A step adds no token or one that is placed.
LEMMA PlacingStep ==
  ASSUME Placing, text' = text, i \in Nat \ {0}, i' \in Nat, i <= i',
         \/ toks' = toks
         \/ \E t : toks' = Append(toks, t) /\ t.at = i /\ Before(t, i') /\ Placed(t)'
  PROVE  Placing'
<1>1. Extends(i) BY DEF Extends, Before
<1>2. IsSeq(toks') BY <1>1, Extended
<1>3. ASSUME NEW t, Before(t, i), Placed(t) PROVE Before(t, i') /\ Placed(t)'
  BY <1>1, <1>3, PlacedStays DEF Before
<1>4. ASSUME NEW n \in 1..Len(toks')
      PROVE  \E t : t = toks'[n] /\ Before(t, i') /\ Placed(t)'
  <2>1. CASE n \in 1..Len(toks)
    <3>1. PICK t : t = toks[n] /\ t = toks'[n] BY <1>1, <2>1, Extended
    <3>2. Before(t, i) /\ Placed(t) BY <2>1, <3>1 DEF Placing
    <3> QED BY <1>3, <3>1, <3>2
  <2>2. CASE n \notin 1..Len(toks)
    <3>1. toks' # toks BY <2>2
    <3>2. PICK t : toks' = Append(toks, t) /\ Before(t, i') /\ Placed(t)' BY <3>1
    <3>3. /\ Len(toks) \in Nat /\ Len(toks') = Len(toks) + 1
          /\ toks'[Len(toks) + 1] = t
      BY <3>2, AppendIs DEF Placing
    <3>4. t = toks'[n] BY <2>2, <3>3
    <3> QED BY <3>2, <3>4
  <2> QED BY <2>1, <2>2
<1>5. ASSUME NEW n \in 1..Len(toks') PROVE Before(toks'[n], i') /\ Placed(toks[n])'
  BY <1>4 DEF Placed, Locatable
<1> QED BY <1>2, <1>5 DEF Placing, Before

-----------------------------------------------------------------------------
(***************************************************************************)
(* Every step keeps the position.                                          *)
(***************************************************************************)
\* A token moves the index and the column over its characters.
Carries(e) == \E type, val, ident :
  Push(Tok(type, e, val, ident)) /\ Goto(e) /\ UNCHANGED <<text, lineStart>>

\* Moving the column leaves the line.
LEMMA ColumnMoved ==
  ASSUME NEW p \in [line : Int, column : Int], NEW d \in Int
  PROVE  /\ [p EXCEPT !.column = @ + d] \in [line : Int, column : Int]
         /\ [p EXCEPT !.column = @ + d].line = p.line
         /\ [p EXCEPT !.column = @ + d].column = p.column + d
OBVIOUS

\* An action that moves line and column along with the index keeps the invariant.
LEMMA CarriesStep ==
  ASSUME Inside, Placing, Located, NEW e \in i+1..Len(text)+1, Carries(e),
         At(i) # "\n", At(e - 1) # "wide"
  PROVE  Placing' /\ Located'
<1>1. PICK j \in Nat \ {0}, k \in Nat : FromTo(j, k) /\ j < k /\ k = e
  BY InsideIn DEF Carries, Goto, FromTo
<1>2. text' = text /\ lineStart' = lineStart /\ pos' = [pos EXCEPT !.column = @ + (k - j)]
  BY <1>1 DEF Carries, Goto, FromTo
<1>3. PICK t : /\ toks' = Append(toks, t) /\ t.at = j /\ t.end = k
               /\ t.line = pos.line /\ t.column = pos.column /\ t.lineStart = lineStart
  <2>1. PICK type, val, ident : Push(Tok(type, e, val, ident)) BY DEF Carries
  <2> DEFINE t == Tok(type, e, val, ident)
  <2>2. /\ t.at = j /\ t.end = k
        /\ t.line = pos.line /\ t.column = pos.column /\ t.lineStart = lineStart
    BY <1>1 DEF Tok, FromTo
  <2>3. toks' = Append(toks, t) BY <2>1 DEF Push
  <2> HIDE DEF t
  <2> QED BY <2>2, <2>3
<1>4. Extends(i) BY <1>1, <1>3 DEF Extends, FromTo
<1>5. Placed(t)' BY <1>1, <1>2, <1>3, <1>4, NewPlaced DEF FromTo
<1>6. Placing'
  <2>1. Before(t, k) BY <1>1, <1>3 DEF Before
  <2>2. i' \in Nat /\ i <= i' /\ i \in Nat \ {0} /\ t.at = i /\ i' = k
    BY <1>1, <1>3 DEF FromTo
  <2> QED BY <1>2, <1>3, <1>5, <2>1, <2>2, PlacingStep
<1>7. At(j) # "\n" /\ At(k - 1) # "wide" BY <1>1 DEF FromTo
<1>8. At(k) # "cont" BY <1>7, ContFollows DEF Inside
<1>9. \E n \in 1..Len(toks') : toks'[n] = t
  <2>1. /\ Len(toks) \in Nat /\ Len(toks') = Len(toks) + 1
        /\ toks'[Len(toks) + 1] = t
    BY <1>3, AppendIs DEF Placing
  <2> QED BY <2>1
<1>10. ASSUME Unbroken(k)' PROVE \A m \in j..k-1 : At(m) # "\n"
  <2>1. PICK n \in 1..Len(toks') : toks'[n] = t BY <1>9
  <2>2. ~Holds(t, "\n")'
    <3>1. toks'[n].at < k BY <1>1, <1>3, <2>1
    <3> QED BY <1>10, <2>1, <3>1 DEF Unbroken, Holds, Span
  <2> QED BY <1>2, <1>3, <2>2, AtStays DEF Holds, Span
<1>11. ASSUME Unbroken(k)', Straight(k)' PROVE Cardinality(Conts(j, k - 1)) = 0
  <2>1. PICK s : s = StartOf(j) OBVIOUS
  <2>2. s \in 1..j BY <2>1, StartIs
  <2>3. StartOf(k) = s BY <1>1, <1>10, <1>11, <2>1, SameLine
  <2>4. StartOf(k)' = s BY <1>2, <2>3, PlaceStays
  <2>5. \A m \in j..k-1 : m \in s..k-1 BY <2>2
  <2>6. \A m \in j..k-1 : InToken(m)' BY <1>3, <1>9 DEF InToken, Span
  <2>7. \A m \in j..k-1 : At(m) # "cont"
    BY <1>2, <1>11, <2>4, <2>5, <2>6, AtStays DEF Straight
  <2>8. Conts(j, k - 1) = {} BY <2>7 DEF Conts, Those
  <2> QED BY <2>8, FS_EmptySet
<1>12. /\ pos' \in [line : Int, column : Int] /\ pos'.line = pos.line
       /\ pos'.column = pos.column + (k - j)
  <2>1. pos \in [line : Int, column : Int] /\ k - j \in Int BY DEF Located
  <2> QED BY <2>1, <1>2, ColumnMoved
<1>13. Located'
  <2>1. Unbroken(k)' /\ Straight(k)' /\ At(k) # "\n" =>
          pos'.column = pos.column + (k - j) - Cardinality(Conts(j, k - 1))
    BY <1>1, <1>11, <1>12 DEF Located
  <2> QED BY <1>1, <1>2, <1>4, <1>7, <1>8, <1>10, <1>12, <2>1, Onward
<1> QED BY <1>6, <1>13

\* No character that belongs to a token starts one of two bytes or ends a line,
\* but in a literal.
LEMMA PlainChars ==
  /\ \A c \in FirstChars : c # "wide" /\ c # "\n"
  /\ \A c \in Alphas \cup DigitsOf(10) \cup DigitsOf(16) \cup Quotes \cup {"_", "NUL"} :
       c # "wide" /\ c # "\n"
  /\ \A op \in TwoChars : op[2] # "wide"
  /\ ToLower("wide") = "wide"
<1>1. \A c \in FirstChars : c # "wide" /\ c # "\n"
  <2>1. \A op \in OneChar : op[1] \in Others \cup {Comma, Semicolon, LCurly, RCurly}
    BY OneCharIs, SMTT(60) DEF Others
  <2>2. \A c \in Others : c # "wide" /\ c # "\n" BY Zenon DEF Others
  <2>3. \A c \in {Comma, Semicolon, LCurly, RCurly} : c # "wide" /\ c # "\n"
    BY Zenon DEF Comma, Semicolon, LCurly, RCurly
  <2> QED BY <2>1, <2>2, <2>3 DEF FirstChars
<1>2. \A n \in 1..26 : /\ Lowers[n] # "wide" /\ Lowers[n] # "\n"
                       /\ Uppers[n] # "wide" /\ Uppers[n] # "\n"
  BY DEF Lowers, Uppers
<1>3. \A n \in 1..16 : HexDigits[n] # "wide" /\ HexDigits[n] # "\n" BY DEF HexDigits
<1>4. \A c \in Quotes \cup {"_", "NUL"} : c # "wide" /\ c # "\n" BY Zenon DEF Quotes
<1>5. \A op \in TwoChars : op[2] # "wide" BY DEF TwoChars
<1>6. ToLower("wide") = "wide" BY <1>2 DEF ToLower
<1>7. \A c \in Alphas : c # "wide" /\ c # "\n" BY <1>2 DEF Alphas
<1>8. \A c \in DigitsOf(10) : c # "wide" /\ c # "\n" BY <1>2, <1>3 DEF DigitsOf
<1>9. \A c \in DigitsOf(16) : c # "wide" /\ c # "\n" BY <1>2, <1>3 DEF DigitsOf
<1> QED BY <1>1, <1>4, <1>5, <1>6, <1>7, <1>8, <1>9, Zenon

\* A run of characters does not end between two bytes.
LEMMA NarrowEnd ==
  ASSUME text \in Texts, NEW j \in 1..Len(text)+1, NEW S, "NUL" \notin S, "wide" \notin S,
         At(j - 1) # "wide"
  PROVE  At(EndOf(j, S) - 1) # "wide"
<1>1. Len(text) \in Nat BY AtEnd
<1>2. PICK e : e = EndOf(j, S) OBVIOUS
<1>3. e \in j..Len(text)+1 /\ \A m \in j..e-1 : At(m) \in S BY <1>2, EndOfIn
<1>4. e # j => e - 1 \in j..e-1 BY <1>1, <1>3
<1> QED BY <1>2, <1>3, <1>4

\* No operator starts with a newline or ends in half a character.
LEMMA OperatorNarrow ==
  ASSUME NEW j \in Nat, NEW op \in OperatorsAt(j)
  PROVE  At(j) # "\n" /\ At(j + op.len - 1) # "wide"
<1> DEFINE Dots == At(j) = "." /\ At(j + 1) = "." /\ At(j + 2) = "."
           Arrows == At(j) = "-" /\ At(j + 1) = ">" /\ At(j + 2) = "*"
           Pair(o) == o[1] = At(j) /\ o[2] = At(j + 1)
<1>1. CASE Dots
  <2>1. op.len = 3 BY <1>1 DEF OperatorsAt
  <2>2. j + op.len - 1 = j + 2 BY <2>1
  <2> QED BY <1>1, <2>2
<1>2. CASE Arrows
  <2>1. op.len = 2 BY <1>2 DEF OperatorsAt
  <2>2. j + op.len - 1 = j + 1 BY <2>1
  <2> QED BY <1>2, <2>2
<1>3. CASE ~Dots /\ ~Arrows /\ \E o \in TwoChars : Pair(o)
  <2>1. PICK o \in TwoChars : Pair(o) /\ op = [type |-> o[3], len |-> 2]
    BY <1>3, Zenon DEF OperatorsAt
  <2>2. op.len = 2 BY <2>1
  <2>3. j + op.len - 1 = j + 1 BY <2>2
  <2>4. At(j) \in FirstChars BY <2>1, FirstOfTwo
  <2> QED BY <2>1, <2>3, <2>4, PlainChars
<1>4. CASE ~Dots /\ ~Arrows /\ ~\E o \in TwoChars : Pair(o)
  <2>1. PICK o \in OneChar : o[1] = At(j) /\ op = [type |-> o[2], len |-> 1]
    BY <1>4, Zenon DEF OperatorsAt
  <2>2. op.len = 1 BY <2>1
  <2>3. j + op.len - 1 = j BY <2>2
  <2>4. At(j) \in FirstChars BY <2>1 DEF FirstChars
  <2> QED BY <2>3, <2>4, PlainChars
<1> QED BY <1>1, <1>2, <1>3, <1>4

\* No number ends in half a character.
LEMMA LiteralNarrow ==
  ASSUME text \in Texts, NEW s \in 1..Len(text), At(s) # "wide"
  PROVE  At(LiteralAt(s).end - 1) # "wide"
<1>1. Len(text) \in Nat BY AtEnd
<1> DEFINE first == IF At(s + 1) \in {"x", "b"} THEN s + 2 ELSE s + 1
           e == EndOf(first, DigitsOf(16))
           from == IF At(s) = "." THEN first ELSE e
           d == DigitsEnd(s)
<1>2. first \in s+1..Len(text)+1 BY <1>1, AtEnd
<1>3. At(first - 1) # "wide"
  <2>1. CASE At(s + 1) \in {"x", "b"} 
    <3>1. first - 1 = s + 1 BY <2>1
    <3> QED BY <2>1, <3>1
  <2>2. CASE At(s + 1) \notin {"x", "b"} 
    <3>1. first - 1 = s BY <2>2
    <3> QED BY <3>1
  <2> QED BY <2>1, <2>2
<1>4. "wide" \notin DigitsOf(16) /\ "wide" \notin Fraction BY PlainChars DEF Fraction
<1> HIDE DEF first
<1>5. first \in 1..Len(text)+1 BY <1>1, <1>2
<1>6. e \in first..Len(text)+1 /\ At(e - 1) # "wide"
  BY <1>3, <1>4, <1>5, EndOfIn, NarrowEnd, NulIsNone
<1>7. e \in 1..Len(text)+1 BY <1>1, <1>5, <1>6
<1>8. from \in 1..Len(text)+1 /\ At(from - 1) # "wide"
  <2> HIDE DEF e
  <2> QED BY <1>3, <1>5, <1>6, <1>7
<1>9. d = IF At(s) = "." \/ At(e) = "." THEN EndOf(from, Fraction) ELSE e
  BY DEF DigitsEnd, first
<1> HIDE DEF e, from, d
<1>10. EndOf(from, Fraction) \in from..Len(text)+1 /\ At(EndOf(from, Fraction) - 1) # "wide"
  BY <1>4, <1>8, EndOfIn, NarrowEnd, NulIsNone
<1>11. d \in Nat /\ At(d - 1) # "wide" BY <1>1, <1>6, <1>7, <1>8, <1>9, <1>10
<1>12. \A j : Low(j) # "wide" => At(j) # "wide" BY PlainChars DEF Low
<1>13. ASSUME NEW decimal PROVE At(Suffix(d, decimal).end - 1) # "wide"
  <2>1. \/ Suffix(d, decimal).end = d
        \/ Suffix(d, decimal).end = d + 1 /\ Low(d) \in {"u", "l", "f"}
        \/ Suffix(d, decimal).end = d + 2 /\ Low(d + 1) = "l"
        \/ Suffix(d, decimal).end = d + 3 /\ Low(d + 2) = "l"
    BY DEF Suffix
  <2>2. (d + 1) - 1 = d /\ (d + 2) - 1 = d + 1 /\ (d + 3) - 1 = d + 2 BY <1>11
  <2>3. CASE Suffix(d, decimal).end = d BY <1>11, <2>3
  <2>4. CASE Suffix(d, decimal).end = d + 1 /\ Low(d) \in {"u", "l", "f"}
    BY <1>12, <2>2, <2>4
  <2>5. CASE Suffix(d, decimal).end = d + 2 /\ Low(d + 1) = "l" BY <1>12, <2>2, <2>5
  <2>6. CASE Suffix(d, decimal).end = d + 3 /\ Low(d + 2) = "l" BY <1>12, <2>2, <2>6
  <2> QED BY <2>1, <2>3, <2>4, <2>5, <2>6
<1> QED BY <1>13 DEF LiteralAt, d

\* So the position is kept over an operator, a number, a quoted literal and a
\* name.
LEMMA MovesIn ==
  ASSUME Moves, NEW e, Carries(e) PROVE e \in i+1..Len(text)+1
BY DEF Moves, Carries, Goto

\* One lemma for each action: the positions stay true.
LEMMA OperatorPlaces ==
  ASSUME Inside, Placing, Located, Operator PROVE Placing' /\ Located'
<1>1. PICK op \in OperatorsAt(i) : Push(Tok(op.type, i + op.len, 0, 0)) /\ Goto(i + op.len)
  BY DEF Operator
<1> DEFINE e == i + op.len
<1>2. Carries(e) BY <1>1 DEF Carries, Operator
<1>3. e \in i+1..Len(text)+1 BY <1>2, OperatorStep, MovesIn
<1>4. i \in Nat BY InsideIn
<1>5. At(i) # "\n" BY <1>4, OperatorNarrow
<1>6. At(e - 1) # "wide"
  <2>1. PICK j \in Nat : j = i BY <1>4
  <2>2. At(j + op.len - 1) # "wide" BY <2>1, OperatorNarrow
  <2>3. op.len \in 1..3 BY InsideIn, OperatorIn
  <2>4. e - 1 = j + op.len - 1 BY <2>1, <2>3
  <2> QED BY <2>2, <2>4
<1> HIDE DEF e
<1> QED BY <1>2, <1>3, <1>5, <1>6, CarriesStep

LEMMA NumberPlaces ==
  ASSUME Inside, Placing, Located, At(i) \in DigitsOf(10) \/ IsFloat(i),
         Carries(LiteralAt(i).end)
  PROVE  Placing' /\ Located'
<1>1. i \in 1..Len(text) /\ LiteralAt(i).end \in i+1..Len(text)+1 BY NumberStarts
<1>2. At(i) # "\n" /\ At(i) # "wide" BY PlainChars DEF IsFloat
<1>3. At(LiteralAt(i).end - 1) # "wide" BY <1>1, <1>2, LiteralNarrow DEF Inside
<1> QED BY <1>1, <1>2, <1>3, CarriesStep

\* A step that moves nothing.
LEMMA StillPlaces ==
  ASSUME Placing, Located, UNCHANGED <<text, i, pos, lineStart, toks>>
  PROVE  Placing' /\ Located'
<1>1. /\ \A j : Unbroken(j)' <=> Unbroken(j)
      /\ \A j : InToken(j)' <=> InToken(j)
  BY AtStays DEF Unbroken, Holds, Span, InToken
<1>2. \A j : Straight(j)' <=> Straight(j) BY <1>1, AtStays, PlaceStays DEF Straight
<1>3. \A t : Placed(t)' <=> Placed(t)
  <2>1. \A t : Locatable(t)' <=> Locatable(t) BY <1>1, <1>2, LocatableIs, LocatableNext
  <2> QED BY <2>1, PlaceStays DEF Placed
<1>4. Placing'
  <2>1. ASSUME NEW n \in 1..Len(toks) PROVE Placed(toks[n])'
    <3>1. PICK t : t = toks[n] /\ t = toks'[n] OBVIOUS
    <3>2. Placed(t) BY <3>1 DEF Placing
    <3>3. Placed(t)' BY <1>3, <3>2
    <3> QED BY <3>1, <3>3 DEF Placed, Locatable
  <2> QED BY <2>1 DEF Placing, Before
<1>5. At(i)' = At(i) BY AtStays
<1>6. Lines' BY <1>1, PlaceStays DEF Located, Lines
<1>7. Starts' BY <1>1, <1>2, PlaceStays DEF Located, Starts
<1>8. Columns' BY <1>1, <1>2, <1>5, PlaceStays DEF Located, Columns
<1> QED BY <1>4, <1>5, <1>6, <1>7, <1>8 DEF Located

\* In a stop no position changes.
LEMMA StopPlaces ==
  ASSUME Placing, Located, NEW how, Stop(how) PROVE Placing' /\ Located'
BY StillPlaces DEF Stop

LEMMA FloatLiteralPlaces ==
  ASSUME Inside, Placing, Located, FloatLiteral PROVE Placing' /\ Located'
<1>1. Carries(LiteralAt(i).end) BY DEF FloatLiteral, Carries
<1> QED BY <1>1, NumberPlaces DEF FloatLiteral

LEMMA IntLiteralPlaces ==
  ASSUME Inside, Placing, Located, IntLiteral PROVE Placing' /\ Located'
<1>1. CASE IsFloat(i) BY <1>1, StopPlaces DEF IntLiteral
<1>2. CASE ~IsFloat(i)
  <2>1. Carries(LiteralAt(i).end) BY <1>2 DEF IntLiteral, PushInt, Carries
  <2> QED BY <2>1, NumberPlaces DEF IntLiteral
<1> QED BY <1>1, <1>2

\* A quoted literal starts with a quote or with a letter.
LEMMA QuoteStarts ==
  ASSUME Inside, NEW quote \in Quotes, StartsLiteral(quote)
  PROVE  At(i) # "\n"
BY PlainChars DEF StartsLiteral

LEMMA CharLiteralPlaces ==
  ASSUME Inside, Placing, Located, CharLiteral PROVE Placing' /\ Located'
<1> DEFINE q == Quote(i) + 1
           rquote == q + Bytes(At(q))
           e == IF At(rquote) = "'" THEN rquote + 1 ELSE rquote
<1>0. text \in Texts /\ Len(text) \in Nat /\ i \in Nat \ {0} BY InsideIn
<1>1. CASE At(q) = "NUL" BY <1>1, StopPlaces DEF CharLiteral
<1>2. CASE At(q) # "NUL" /\ ~Fits(At(q), StringType(i)) BY <1>2, StopPlaces DEF CharLiteral
<1>3. CASE At(q) # "NUL" /\ Fits(At(q), StringType(i))
  <2>1. Carries(e) BY <1>3 DEF CharLiteral, Carries
  <2>2. e \in i+1..Len(text)+1 BY <1>3, CharEnd DEF CharLiteral
  <2>3. At(i) # "\n" BY QuoteStarts DEF CharLiteral, Quotes
  <2>4. Quote(i) \in 1..Len(text) BY QuoteIn DEF CharLiteral, Quotes
  <2>5. PICK k \in Nat : k = q BY <1>0, <2>4
  <2>6. PICK r \in Nat : r = rquote /\ At(r - 1) # "wide"
    <3>1. CASE At(k) = "wide"
      <4>1. rquote = k + 2 BY <2>5, <3>1 DEF Bytes
      <4>2. At(k + 1) = "cont" BY <1>0, <3>1, ContFollows
      <4>3. (k + 2) - 1 = k + 1 OBVIOUS
      <4> QED BY <4>1, <4>2, <4>3
    <3>2. CASE At(k) # "wide"
      <4>1. rquote = k + 1 BY <2>5, <3>2 DEF Bytes
      <4>2. (k + 1) - 1 = k OBVIOUS
      <4> QED BY <3>2, <4>1, <4>2
    <3> QED BY <3>1, <3>2
  <2>7. At(e - 1) # "wide"
    <3>1. e = IF At(r) = "'" THEN r + 1 ELSE r BY <2>6
    <3>2. (r + 1) - 1 = r OBVIOUS
    <3> HIDE DEF e
    <3>3. CASE At(r) = "'" BY <3>1, <3>2, <3>3
    <3>4. CASE At(r) # "'" BY <2>6, <3>1, <3>4
    <3> QED BY <3>3, <3>4
  <2> HIDE DEF e
  <2> QED BY <2>1, <2>2, <2>3, <2>7, CarriesStep
<1> QED BY <1>1, <1>2, <1>3

LEMMA StringLiteralPlaces ==
  ASSUME Inside, Placing, Located, StringLiteral PROVE Placing' /\ Located'
<1> DEFINE q == Quote(i) + 1
           stop == Next1(q, {"\"", "\n"})
           e == IF At(stop) = "\"" THEN stop + 1 ELSE stop
<1>0. text \in Texts /\ Len(text) \in Nat /\ i \in Nat \ {0} BY InsideIn
<1>1. CASE ~HasNext(q, {"\"", "\n"}) BY <1>1, StopPlaces DEF StringLiteral
<1>2. CASE HasNext(q, {"\"", "\n"})
  <2>1. Carries(e) BY <1>2 DEF StringLiteral, Carries
  <2>2. At(i) # "\n" BY QuoteStarts DEF StringLiteral, Quotes
  <2>3. Quote(i) \in i..i+1 /\ Quote(i) \in 1..Len(text) BY QuoteIn DEF StringLiteral, Quotes
  <2>4. PICK k \in Nat \ {0} : k = q BY <1>0, <2>3
  <2>5. PICK r : r = stop OBVIOUS
  <2>6. r \in k..Len(text) BY <1>0, <1>2, <2>4, <2>5, Next1In
  <2>7. At(r) \in {"\"", "\n"} BY <1>0, <1>2, <2>4, <2>5, Next1In
  <2>8. e = IF At(r) = "\"" THEN r + 1 ELSE r BY <2>5
  <2>9. e \in i+1..Len(text)+1
    <3> HIDE DEF e, stop
    <3>1. r \in i+1..Len(text)+1 /\ r + 1 \in i+1..Len(text)+1 BY <1>0, <2>3, <2>4, <2>6
    <3> QED BY <2>8, <3>1
  <2>10. At(r) # "cont" BY <2>7, Zenon
  <2>11. At(r - 1) # "wide"
    <3>1. At(r - 1) = "wide" => At((r - 1) + 1) = "cont" BY <1>0, <2>6, ContFollows
    <3>2. (r - 1) + 1 = r BY <1>0, <2>6
    <3> QED BY <2>10, <3>1, <3>2
  <2>12. At(r) # "wide" BY <2>7, Zenon
  <2>13. At(e - 1) # "wide"
    <3>1. (r + 1) - 1 = r BY <1>0, <2>6
    <3> HIDE DEF e, stop
    <3> QED BY <2>8, <2>11, <2>12, <3>1
  <2> HIDE DEF e
  <2> QED BY <2>1, <2>2, <2>9, <2>13, CarriesStep
<1> QED BY <1>1, <1>2

LEMMA IdentifierPlaces ==
  ASSUME Inside, Placing, Located, Identifier PROVE Placing' /\ Located'
<1> DEFINE e == EndOf(i, IdentChars)
           word == Spelling(SubSeq(text, i, e - 1))
<1>0. text \in Texts /\ Len(text) \in Nat /\ i \in Nat \ {0} BY InsideIn
<1>1. e \in i+1..Len(text)+1 BY NameIn DEF Identifier, StartsName
<1>2. At(i) # "\n" BY PlainChars DEF Identifier
<1>3. /\ \A m \in i..e-1 : At(m) \in IdentChars
  BY EndOfIn, NulIsNone DEF Inside
<1>4. Goto(e) /\ UNCHANGED <<text, lineStart>> BY DEF Identifier
<1>5. \E type, ident : Push(Tok(type, e, 0, ident)) BY DEF Identifier
<1> HIDE DEF e
<1>6. e - 1 \in i..e-1 BY <1>0, <1>1
<1>7. At(e - 1) # "wide" BY <1>3, <1>6, PlainChars DEF IdentChars
<1>8. Carries(e) BY <1>4, <1>5 DEF Carries
<1> QED BY <1>1, <1>2, <1>7, <1>8, CarriesStep

\* Without a token, the tokens that were there are kept as they are.
LEMMA KeptPlacing ==
  ASSUME Inside, Placing, text' = text, toks' = toks, i' \in Nat, i <= i'
  PROVE  Placing' /\ Extends(i)
BY InsideIn, PlacingStep DEF Extends

LEMMA NewlinePlaces ==
  ASSUME Inside, Placing, Located, Newline PROVE Placing' /\ Located'
<1>1. PICK j \in Nat \ {0}, k \in Nat : FromTo(j, k) /\ k = j + 1
  BY InsideIn DEF Newline, FromTo
<1>2. /\ text' = text /\ toks' = toks /\ lineStart' = k /\ At(j) = "\n"
      /\ pos' = [line |-> pos.line + 1, column |-> 1]
  BY <1>1 DEF Newline, FromTo
<1>3. text \in Texts BY InsideIn
<1>4. Placing' /\ Extends(i)
  <2>1. i' \in Nat /\ i <= i' BY <1>1 DEF FromTo
  <2> QED BY <1>2, <2>1, KeptPlacing
<1>5. Unbroken(k)' => Unbroken(j)
  <2>1. i \in Nat /\ j <= i BY <1>1 DEF FromTo
  <2>2. Unbroken(k)' => Unbroken(j)'
    <3>1. \A n \in 1..Len(toks') : toks'[n].at \in Nat BY <1>4, <2>1, Extended
    <3>2. \A n \in 1..Len(toks') : toks'[n].at < j => toks'[n].at < k BY <1>1, <3>1
    <3> QED BY <3>2 DEF Unbroken
  <2> QED BY <1>2, <1>4, <2>1, <2>2, Earlier
<1>6. LineOf(k) = LineOf(j) + 1 /\ StartOf(k) = k /\ ColumnOf(k) = 1 BY <1>1, <1>2, NextLine
<1>7. pos' \in [line : Int, column : Int] /\ pos'.line = pos.line + 1 /\ pos'.column = 1
  BY <1>2 DEF Located
<1>8. At(k) # "cont"
  <2>1. At(k) = "cont" => At(k - 1) = "wide" BY <1>3, ContFollows
  <2>2. k - 1 = j BY <1>1
  <2> QED BY <1>2, <2>1, <2>2
<1>9. Lines'
  <2> SUFFICES ASSUME Unbroken(k)' PROVE pos'.line = LineOf(k)
    BY <1>1, <1>2, PlaceStays DEF Lines, FromTo
  <2> QED BY <1>1, <1>5, <1>6, <1>7 DEF Located, Lines, FromTo
<1>10. Starts' BY <1>1, <1>2, <1>6, PlaceStays DEF Starts, FromTo
<1>11. Columns' BY <1>1, <1>2, <1>6, <1>7, PlaceStays DEF Columns, FromTo
<1>12. At(i)' # "cont" BY <1>1, <1>2, <1>8, AtStays DEF FromTo
<1> QED BY <1>4, <1>7, <1>9, <1>10, <1>11, <1>12 DEF Located

\* Blanks, a line comment and a symbol of one byte are like a token's characters.
LEMMA SkipPlaces ==
  ASSUME Inside, Placing, Located, text' = text, toks' = toks, lineStart' = lineStart,
         NEW j \in Nat \ {0}, NEW k \in Nat, FromTo(j, k), j < k,
         NEW d \in Int, pos' = [pos EXCEPT !.column = @ + d],
         At(k) # "cont", \A m \in j..k-1 : At(m) # "\n",
         At(k) # "\n" => d = (k - j) - Cardinality(Conts(j, k - 1))
  PROVE  Placing' /\ Located'
<1>1. Placing' /\ Extends(i)
  <2>1. i' \in Nat /\ i <= i' BY DEF FromTo
  <2> QED BY <2>1, KeptPlacing
<1>2. /\ pos' \in [line : Int, column : Int] /\ pos'.line = pos.line
      /\ pos'.column = pos.column + d
  BY ColumnMoved DEF Located
<1>3. Cardinality(Conts(j, k - 1)) \in Nat
  <2>1. j \in Int /\ k - 1 \in Int OBVIOUS
  <2> QED BY <2>1, Counted DEF Conts
<1>4. At(k) # "\n" => pos'.column = pos.column + (k - j) - Cardinality(Conts(j, k - 1))
  BY <1>2, <1>3 DEF Located
<1>5. At(j) # "\n" OBVIOUS
<1> QED BY <1>1, <1>2, <1>4, <1>5, Onward

LEMMA BlankPlaces ==
  ASSUME Inside, Placing, Located, Blank PROVE Placing' /\ Located'
<1>1. PICK j \in Nat \ {0}, k \in Nat : FromTo(j, k) /\ k = j + 1
  BY InsideIn DEF Blank, Goto, FromTo
<1>2. /\ text' = text /\ toks' = toks /\ lineStart' = lineStart
      /\ pos' = [pos EXCEPT !.column = @ + (k - j)] /\ At(j) \in Blanks
  BY <1>1 DEF Blank, Goto, FromTo
<1>3. \A c \in Blanks : c # "\n" /\ c # "wide" /\ c # "cont" BY Zenon DEF Blanks
<1>4. At(k) # "cont"
  <2>1. At(k) = "cont" => At(k - 1) = "wide" BY ContFollows, InsideIn
  <2>2. k - 1 = j BY <1>1
  <2> QED BY <1>2, <1>3, <2>1, <2>2
<1>5. Cardinality(Conts(j, k - 1)) = 0
  <2>1. Conts(j, k - 1) = {} BY <1>1, <1>2, <1>3 DEF Conts, Those
  <2> QED BY <2>1, FS_EmptySet
<1>6. \A m \in j..k-1 : At(m) # "\n" BY <1>1, <1>2, <1>3
<1>7. k - j \in Int /\ k - j = (k - j) - Cardinality(Conts(j, k - 1)) /\ j < k BY <1>1, <1>5
<1> QED BY <1>1, <1>2, <1>4, <1>6, <1>7, SkipPlaces

LEMMA LineCommentPlaces ==
  ASSUME Inside, Placing, Located, LineComment PROVE Placing' /\ Located'
<1>0. text \in Texts /\ Len(text) \in Nat /\ i \in Nat \ {0} BY InsideIn
<1>1. CASE ~HasNext(i + 1, {"\n"}) BY <1>1, StopPlaces DEF LineComment
<1>2. CASE HasNext(i + 1, {"\n"})
  <2>1. PICK j \in Nat \ {0} : j = i BY <1>0
  <2>2. HasNext(j + 1, {"\n"}) /\ j + 1 \in Nat \ {0} BY <1>2, <2>1
  <2>3. PICK k : k = Next1(j + 1, {"\n"}) OBVIOUS
  <2>4. /\ k \in j+1..Len(text) /\ At(k) \in {"\n"}
        /\ \A m \in j+1..k-1 : At(m) \notin {"\n"}
    BY <1>0, <2>2, <2>3, Next1In
  <2>5. Goto(k) /\ UNCHANGED <<text, lineStart, toks>> /\ IsLineComment(j)
    BY <1>2, <2>1, <2>3 DEF LineComment
  <2>6. k \in Nat /\ j < k /\ k - j \in Int BY <1>0, <2>4
  <2>7. FromTo(j, k) /\ pos' = [pos EXCEPT !.column = @ + (k - j)]
    BY <2>1, <2>5 DEF Goto, FromTo
  <2>8. \A m \in j..k-1 : At(m) # "\n"
    <3>1. At(j) # "\n" BY <2>5 DEF IsLineComment
    <3> QED BY <2>4, <2>6, <3>1
  <2>9. At(k) = "\n" BY <2>4
  <2> QED BY <2>5, <2>6, <2>7, <2>8, <2>9, SkipPlaces
<1> QED BY <1>1, <1>2

LEMMA UnknownPlaces ==
  ASSUME Inside, Placing, Located, UnknownSymbol PROVE Placing' /\ Located'
<1>0. text \in Texts /\ Len(text) \in Nat /\ i \in Nat \ {0} BY InsideIn
<1>1. PICK j \in Nat \ {0}, k \in Nat : FromTo(j, k) /\ k = j + Bytes(At(j))
  BY <1>0 DEF UnknownSymbol, FromTo, Bytes
<1>2. /\ text' = text /\ toks' = toks /\ lineStart' = lineStart
      /\ pos' = [pos EXCEPT !.column = @ + 1] /\ At(j) \notin Known
  BY <1>1 DEF UnknownSymbol, FromTo
<1>3. At(j) # "\n" BY <1>2 DEF Known
<1>4. At(j) # "cont" BY <1>1 DEF Located, FromTo
<1>5. CASE At(j) = "wide"
  <2>1. k = j + 2 BY <1>1, <1>5 DEF Bytes
  <2>2. At(j + 1) = "cont" BY <1>0, <1>5, ContFollows
  <2>3. At(k) # "cont"
    <3>1. At(k) = "cont" => At(k - 1) = "wide" BY <1>0, ContFollows
    <3>2. k - 1 = j + 1 BY <2>1
    <3> QED BY <2>2, <3>1, <3>2
  <2>4. \A m \in j..k-1 : m = j \/ m = j + 1 BY <2>1
  <2>5. \A m \in j..k-1 : At(m) # "\n" BY <1>3, <2>2, <2>4
  <2>6. Cardinality(Conts(j, k - 1)) = 1
    <3>1. Conts(j, k - 1) = {j + 1} BY <1>4, <2>1, <2>2, <2>4 DEF Conts, Those
    <3> QED BY <3>1, FS_Singleton
  <2>7. j < k /\ 1 \in Int /\ 1 = (k - j) - Cardinality(Conts(j, k - 1)) BY <2>1, <2>6
  <2> QED BY <1>1, <1>2, <2>3, <2>5, <2>7, SkipPlaces
<1>6. CASE At(j) # "wide"
  <2>1. k = j + 1 BY <1>1, <1>6 DEF Bytes
  <2>2. At(k) # "cont"
    <3>1. At(k) = "cont" => At(k - 1) = "wide" BY <1>0, ContFollows
    <3>2. k - 1 = j BY <2>1
    <3> QED BY <1>6, <3>1, <3>2
  <2>3. \A m \in j..k-1 : m = j BY <2>1
  <2>4. \A m \in j..k-1 : At(m) # "\n" BY <1>3, <2>3
  <2>5. Cardinality(Conts(j, k - 1)) = 0
    <3>1. Conts(j, k - 1) = {} BY <1>4, <2>3 DEF Conts, Those
    <3> QED BY <3>1, FS_EmptySet
  <2>6. j < k /\ 1 \in Int /\ 1 = (k - j) - Cardinality(Conts(j, k - 1)) BY <2>1, <2>5
  <2> QED BY <1>1, <1>2, <2>2, <2>4, <2>6, SkipPlaces
<1> QED BY <1>5, <1>6

\* What is known behind a comment was known before it.
LEMMA BackTo ==
  ASSUME Placing, text' = text, Extends(i), NEW j \in Nat \ {0}, NEW k \in Nat,
         FromTo(j, k), j < k
  PROVE  Unbroken(k)' => Unbroken(j)
<1>1. i \in Nat /\ j <= i BY DEF FromTo
<1>2. \A n \in 1..Len(toks') : toks'[n].at \in Nat BY <1>1, Extended
<1>3. \A n \in 1..Len(toks') : toks'[n].at < j => toks'[n].at < k BY <1>2
<1>4. Unbroken(k)' => Unbroken(j)' BY <1>3 DEF Unbroken
<1> QED BY <1>1, <1>4, Earlier

\* The greatest of some numbers is one of them.
LEMMA MaxIn ==
  ASSUME NEW n \in Nat, NEW T, T \subseteq 0..n, T # {}
  PROVE  Max(T) \in T
<1>1. PICK m \in T : \A k \in T : k <= m BY NatMax
<1>2. \A k \in T : m >= k BY <1>1
<1> QED BY <1>2 DEF Max

\* A block comment counts its lines.  Where it ends the column is not known until
\* the next line, as the comment closes behind every token.
LEMMA BlockCommentPlaces ==
  ASSUME Inside, Placing, Located, BlockComment PROVE Placing' /\ Located'
<1>0. text \in Texts /\ Len(text) \in Nat /\ i \in Nat \ {0} BY InsideIn
<1>1. CASE ~\E c \in i+2..Len(text) : Closes(c) BY <1>1, StopPlaces DEF BlockComment
<1>2. CASE \E c \in i+2..Len(text) : Closes(c)
  <2>1. PICK c \in i+2..Len(text) :
          /\ Closes(c) /\ SkipTo(c, Newlines(i + 2, c))
          /\ UNCHANGED <<text, lineStart, toks>>
    BY <1>2 DEF BlockComment
  <2>2. PICK j \in Nat \ {0} : j = i BY <1>0
  <2>3. PICK k \in Nat : k = c + 2 /\ j < k /\ c \in j+2..k-2 BY <1>0, <2>1, <2>2
  <2>4. FromTo(j, k) BY <2>1, <2>2, <2>3 DEF FromTo, SkipTo
  <2> DEFINE newlines == Newlines(j + 2, c)
  <2>5. /\ At(j) # "\n" /\ At(j + 1) # "\n"
        /\ At(c) # "\n" /\ At(c + 1) # "\n" /\ At(c + 1) # "wide"
    BY <2>1, <2>2 DEF BlockComment, IsBlockComment, Closes
  <2>6. Newlines(j, k - 1) = newlines
    <3>1. \A m \in j..k-1 : m \in j+2..c \/ m = j \/ m = j + 1 \/ m = c + 1 BY <2>3
    <3>2. \A m \in j+2..c : m \in j..k-1 BY <2>3
    <3> QED BY <2>5, <3>1, <3>2 DEF Newlines
  <2>7. Cardinality(newlines) \in Nat /\ LineOf(k) = LineOf(j) + Cardinality(newlines)
    BY <2>3, <2>6, LineFurther
  <2>8. newlines = {} => Cardinality(newlines) = 0 BY FS_EmptySet
  <2>9. newlines # {} => Max(newlines) \in Int
    <3>1. newlines \subseteq 0..k BY <2>3 DEF Newlines
    <3>2. k \in Nat BY <2>3
    <3> HIDE DEF newlines
    <3>3. newlines # {} => Max(newlines) \in newlines BY <3>1, <3>2, MaxIn
    <3>4. \A m \in newlines : m \in Int BY <3>1
    <3> QED BY <3>3, <3>4
  <2>10. pos' = IF newlines = {} THEN [pos EXCEPT !.column = @ + (c - j - 1)]
                ELSE [line |-> pos.line + Cardinality(newlines),
                      column |-> c - Max(newlines) + 2]
    BY <2>1, <2>2 DEF SkipTo
  <2>11. pos' \in [line : Int, column : Int] /\ pos'.line = pos.line + Cardinality(newlines)
    <3> HIDE DEF newlines
    <3>1. pos \in [line : Int, column : Int] /\ pos.line \in Int BY DEF Located
    <3>2. CASE newlines = {}
      <4>1. c - j - 1 \in Int BY <2>3
      <4>2. /\ pos' \in [line : Int, column : Int] /\ pos'.line = pos.line
        BY <2>10, <3>1, <3>2, <4>1, ColumnMoved
      <4> QED BY <2>8, <3>1, <3>2, <4>2
    <3>3. CASE newlines # {}
      <4>1. c - Max(newlines) + 2 \in Int BY <2>3, <2>9, <3>3
      <4>2. pos.line + Cardinality(newlines) \in Int BY <2>7, <3>1
      <4> QED BY <2>10, <3>3, <4>1, <4>2
    <3> QED BY <3>2, <3>3
  <2>12. Placing' /\ Extends(i)
    <3>1. i' \in Nat /\ i <= i' BY <2>3, <2>4 DEF FromTo
    <3> QED BY <2>1, <3>1, KeptPlacing
  <2>13. Lines'
    <3> SUFFICES ASSUME Unbroken(k)' PROVE pos'.line = LineOf(k)
      BY <2>1, <2>4, PlaceStays DEF Lines, FromTo
    <3>1. Unbroken(j) BY <2>1, <2>3, <2>4, <2>12, BackTo
    <3>2. pos.line = LineOf(j) BY <2>4, <3>1 DEF Located, Lines, FromTo
    <3> QED BY <2>7, <2>11, <3>2
  <2>14. ~(Straight(k)')
    <3>1. PICK s : s = StartOf(k) OBVIOUS
    <3>2. s \in 1..k /\ (s = 1 \/ At(s - 1) = "\n")
      <4>1. k \in Nat \ {0} BY <2>3
      <4> QED BY <3>1, <4>1, StartIs
    <3>3. c \in s..k-1
      <4>1. s # k /\ s # c + 1
        <5>1. s = k => s - 1 = c + 1 BY <2>3
        <5>2. s = c + 1 => s - 1 = c BY <2>3
        <5>3. s # 1 \/ (s # k /\ s # c + 1) BY <2>3
        <5> QED BY <2>5, <3>2, <5>1, <5>2, <5>3
      <4> QED BY <2>3, <3>2, <4>1
    <3>4. ~InToken(c)
      <4> SUFFICES ASSUME NEW n \in 1..Len(toks), c \in Span(toks[n]) PROVE FALSE
        BY DEF InToken
      <4>1. toks[n].end \in Nat /\ toks[n].at \in Nat /\ toks[n].end <= j
        BY <2>2 DEF Placing, Before
      <4> QED BY <2>3, <4>1 DEF Span
    <3>5. ~(InToken(c)') BY <2>1, <3>4 DEF InToken, Span
    <3>6. StartOf(k)' = s BY <2>1, <3>1, PlaceStays
    <3>7. Closes(c)' BY <2>1, AtStays
    <3> QED BY <3>3, <3>5, <3>6, <3>7 DEF Straight
  <2>15. Starts' /\ Columns' BY <2>4, <2>14 DEF Starts, Columns, FromTo
  <2>16. At(i)' # "cont"
    <3>1. At(k) = "cont" => At(k - 1) = "wide" BY <1>0, <2>3, ContFollows
    <3>2. k - 1 = c + 1 BY <2>3
    <3>3. At(k) # "cont" BY <2>5, <3>1, <3>2
    <3> QED BY <2>1, <2>4, <3>3, AtStays DEF FromTo
  <2> QED BY <2>11, <2>12, <2>13, <2>15, <2>16 DEF Located
<1> QED BY <1>1, <1>2

\* The token that ends the text is empty.
LEMMA EndOfTextPlaces ==
  ASSUME Inside, Placing, Located, EndOfText PROVE Placing' /\ Located'
<1>0. PICK t : t = Tok("END", i, 0, 0) OBVIOUS
<1>1. /\ UNCHANGED <<text, i, pos, lineStart>> /\ toks' = Append(toks, t) /\ At(i) # "\n"
  BY <1>0 DEF EndOfText, Push
<1>2. /\ t.at = i /\ t.end = i /\ t.line = pos.line /\ t.column = pos.column
      /\ t.lineStart = lineStart
  BY <1>0 DEF Tok
<1>3. text' = text /\ At(i) # "\n" BY <1>1
<1>4. i \in Nat \ {0} /\ i \in Nat /\ i' \in Nat /\ i <= i' BY <1>1, InsideIn
<1>5. Extends(i) BY <1>1, <1>2, <1>4 DEF Extends
<1>6. Placed(t)' BY <1>2, <1>3, <1>4, <1>5, NewPlaced
<1>7. Placing'
  <2>1. Before(t, i') BY <1>1, <1>2, <1>4 DEF Before
  <2>2. \E u : toks' = Append(toks, u) /\ u.at = i /\ Before(u, i') /\ Placed(u)'
    BY <1>1, <1>2, <1>6, <2>1
  <2> QED BY <1>3, <1>4, <2>2, PlacingStep
<1>8. PICK j \in Nat \ {0} : j = i /\ j = i' BY <1>1, <1>4
<1>9. (Unbroken(j)' => Unbroken(j)) /\ (Straight(j)' => Straight(j))
  BY <1>3, <1>4, <1>5, <1>8, Earlier
<1>10. At(i)' = At(i) BY <1>1, AtStays
<1>11. Lines' BY <1>1, <1>8, <1>9, PlaceStays DEF Located, Lines
<1>12. Starts' BY <1>1, <1>8, <1>9, PlaceStays DEF Located, Starts
<1>13. Columns' BY <1>1, <1>8, <1>9, <1>10, PlaceStays DEF Located, Columns
<1> QED BY <1>1, <1>7, <1>10, <1>11, <1>12, <1>13 DEF Located

\* At the start of the text the position is that of its first character.
LEMMA PlacesInit ==
  LexInit => Placing /\ Located
<1> SUFFICES ASSUME LexInit PROVE Placing /\ Located OBVIOUS
<1>1. /\ text \in Texts /\ i = 1 /\ lineStart = 1 /\ toks = <<>>
      /\ pos = [line |-> 1, column |-> 1]
  BY DEF LexInit, LexStart
<1>2. Placing
  <2>1. Len(toks) = 0 BY <1>1
  <2> QED BY <1>1, <2>1, ErrorsAre DEF Placing
<1>3. LineOf(1) = 1
  <2>1. Newlines(1, 1 - 1) = {} BY DEF Newlines
  <2> QED BY <2>1, FS_EmptySet DEF LineOf
<1>4. StartOf(1) = 1 BY StartIs
<1>5. ColumnOf(1) = 1
  <2>1. {k \in 1..1-1 : At(k) = "cont"} = {} OBVIOUS
  <2> QED BY <1>4, <2>1, FS_EmptySet DEF ColumnOf
<1>6. At(1) # "cont"
  <2>1. At(1) = "cont" => 1 > 1 BY <1>1, ContFollows
  <2> QED BY <2>1
<1> QED BY <1>1, <1>2, <1>3, <1>4, <1>5, <1>6 DEF Located, Lines, Starts, Columns

\* Every step keeps the positions true.
LEMMA PlacesStep ==
  Inside /\ Placing /\ Located /\ [LexNext]_lexVars => Placing' /\ Located'
<1> SUFFICES ASSUME Inside, Placing, Located, [LexNext]_lexVars
             PROVE  Placing' /\ Located'
  OBVIOUS
<1>1. CASE LineComment BY <1>1, LineCommentPlaces
<1>2. CASE BlockComment BY <1>2, BlockCommentPlaces
<1>3. CASE Newline BY <1>3, NewlinePlaces
<1>4. CASE Blank BY <1>4, BlankPlaces
<1>5. CASE Operator BY <1>5, OperatorPlaces
<1>6. CASE FloatLiteral BY <1>6, FloatLiteralPlaces
<1>7. CASE IntLiteral BY <1>7, IntLiteralPlaces
<1>8. CASE CharLiteral BY <1>8, CharLiteralPlaces
<1>9. CASE StringLiteral BY <1>9, StringLiteralPlaces
<1>10. CASE Identifier BY <1>10, IdentifierPlaces
<1>11. CASE UnknownSymbol BY <1>11, UnknownPlaces
<1>12. CASE EndOfText BY <1>12, EndOfTextPlaces
<1>13. CASE UNCHANGED lexVars BY <1>13, StillPlaces DEF lexVars
<1> QED BY <1>1, <1>2, <1>3, <1>4, <1>5, <1>6, <1>7, <1>8, <1>9, <1>10, <1>11, <1>12,
           <1>13
        DEF LexNext

\* Whatever the source file, every token that can be located carries the line,
\* the column and the line start of its first character.
THEOREM LexPositionsTrue == LexSpec => []PositionsTrue
<1>1. Placing => PositionsTrue BY SMTT(40) DEF Placing, Placed, PositionsTrue
<1> QED BY <1>1, PlacesInit, PlacesStep, InsideInit, InsideStep, PTL DEF LexSpec

-----------------------------------------------------------------------------
(***************************************************************************)
(* The values of the integer literals: the digits.                         *)
(***************************************************************************)
\* No capital letter is a digit as ToLower writes it, and no two are the same.
LEMMA UppersDiffer ==
  /\ \A m \in 1..26 : \A n \in 1..16 : Uppers[m] # HexDigits[n]
  /\ \A m \in 1..26 : \A n \in 1..6 : Uppers[m] = Uppers[n] => m = n
<1>1. ASSUME NEW n \in 1..16, NEW m \in 1..26 PROVE Uppers[m] # HexDigits[n]
  <2>1. HexDigits[n] \in {"0", "1", "2", "3", "4", "5", "6", "7", "8", "9", "a", "b", "c", "d", "e", "f"}
    BY DEF HexDigits
  <2>2. Uppers[m] \in {"A", "B", "C", "D", "E", "F", "G", "H", "I", "J", "K", "L", "M",
            "N", "O", "P", "Q", "R", "S", "T", "U", "V", "W", "X", "Y", "Z"}
    BY DEF Uppers
  <2> QED BY <2>1, <2>2
<1>2. ASSUME NEW n \in 1..6, NEW m \in 1..26, Uppers[m] = Uppers[n] PROVE m = n
  <2>1. CASE n = 1 BY <1>2, <2>1 DEF Uppers
  <2>2. CASE n = 2 BY <1>2, <2>2 DEF Uppers
  <2>3. CASE n = 3 BY <1>2, <2>3 DEF Uppers
  <2>4. CASE n = 4 BY <1>2, <2>4 DEF Uppers
  <2>5. CASE n = 5 BY <1>2, <2>5 DEF Uppers
  <2>6. CASE n = 6 BY <1>2, <2>6 DEF Uppers
  <2> QED BY <2>1, <2>2, <2>3, <2>4, <2>5, <2>6
<1> QED BY <1>1, <1>2

\* A digit has a value below sixteen.
LEMMA DigitsAre ==
  ASSUME NEW base \in {2, 8, 10, 16}, NEW c \in DigitsOf(base)
  PROVE  DigitValue(c) \in 0..15
<1>1. \E n \in 1..16 : HexDigits[n] = ToLower(c)
  <2>1. CASE \E n \in 1..base : c = HexDigits[n]
    <3>1. PICK n \in 1..16 : c = HexDigits[n] BY <2>1
    <3>2. ~ \E m \in 1..26 : Uppers[m] = c BY <3>1, UppersDiffer
    <3>3. ToLower(c) = c BY <3>2 DEF ToLower
    <3> QED BY <3>1, <3>3
  <2>2. CASE \E n \in 1..6 : c = Uppers[n]
    <3>1. PICK n \in 1..6 : c = Uppers[n] BY SMTT(40), <2>2
    <3>2. n \in 1..26 /\ \A m \in 1..26 : Uppers[m] = c => m = n BY <3>1, UppersDiffer
    <3>3. (CHOOSE m \in 1..26 : Uppers[m] = c) = n BY <3>1, <3>2
    <3>4. ToLower(c) = Lowers[n] BY <3>1, <3>2, <3>3 DEF ToLower
    <3>5. n + 10 \in 1..16 /\ Lowers[n] = HexDigits[n + 10] BY DEF Lowers, HexDigits
    <3> QED BY <3>4, <3>5
  <2>3. \/ \E n \in 1..base : c = HexDigits[n] 
        \/ \E n \in 1..6 : c = Uppers[n]
    BY DEF DigitsOf
  <2> QED BY <2>1, <2>2, <2>3
<1> DEFINE m == CHOOSE n \in 1..16 : HexDigits[n] = ToLower(c)
<1>2. m \in 1..16 BY <1>1
<1>3. DigitValue(c) = m - 1 BY DEF DigitValue
<1> HIDE DEF m
<1> QED BY <1>2, <1>3

\* The first number that no type holds.
Widest == 2^LongLongBits

\* acc is what the digits were read as that denote x: the same number, or both
\* are more than any type holds.
Related(acc, x) ==
  /\ acc.bits >= LongLongBits
  /\ \/ acc.bits = LongLongBits /\ acc.val = x
     \/ acc.val >= Widest /\ x >= Widest

\* The widest type has at least four bits, so that it holds any digit.
LEMMA WidestIs == Widest \in Nat /\ Widest >= 16
<1>1. 2^4 = 16 OBVIOUS
<1>2. 2^4 <= 2^LongLongBits BY PowerMonotone, WidthsAssumption
<1>3. 2^LongLongBits \in Nat BY PowerOfTwo, WidthsAssumption
<1> QED BY <1>1, <1>2, <1>3 DEF Widest

\* A digit more: the number that is read stays the one that is denoted, or
\* both become too large for every type.
LEMMA AddDigitRelated ==
  ASSUME NEW acc \in [val : Nat, bits : Nat], NEW base \in {2, 8, 10, 16},
         NEW digit \in 0..15, NEW x \in Nat, Related(acc, x)
  PROVE  /\ AddDigit(acc, base, digit) \in [val : Nat, bits : Nat]
         /\ Related(AddDigit(acc, base, digit), x * base + digit)
<1> DEFINE m == 2^acc.bits
           product == (acc.val * base) % m
           sum == (product + digit) % m
           new == AddDigit(acc, base, digit)
<1>1. m \in Nat \ {0} BY PowerOfTwo
<1>2. LongLongBits \in Nat /\ acc.bits \in Nat /\ acc.val \in Nat BY WidthsAssumption
<1>3. acc.val * base \in Nat /\ x * base + digit \in Nat BY <1>2
<1>4. /\ product \in 0..m-1
      /\ acc.val * base < m => product = acc.val * base
      /\ acc.val * base >= m => product < acc.val * base
  BY <1>1, <1>3, WrapsTells
<1>5. product + digit \in Nat BY <1>1, <1>4
<1>6. /\ sum \in 0..m-1
      /\ product + digit < m => sum = product + digit
      /\ product + digit >= m /\ product + digit < m + m => sum = product + digit - m
  <2>1. PICK p \in Nat : p = product + digit BY <1>5
  <2>2. sum = p % m BY <2>1
  <2>3. /\ p % m \in 0..m-1 /\ (p < m => p % m = p)
        /\ p >= m /\ p < m + m => p % m = p - m
    BY <1>1, WrapsTells
  <2>4. PICK q : q = p % m OBVIOUS
  <2>5. /\ q \in 0..m-1 /\ (p < m => q = p)
        /\ p >= m /\ p < m + m => q = p - m
    BY <2>3, <2>4
  <2>6. sum = q BY <2>2, <2>4
  <2> HIDE DEF sum, product, m
  <2> QED BY <2>1, <2>5, <2>6, <1>1, <1>4
<1>7. m >= 16 /\ (acc.bits = LongLongBits => m = Widest)
  <2>1. 2^LongLongBits <= 2^acc.bits BY <1>2, PowerMonotone DEF Related
  <2> QED BY <2>1, WidestIs, <1>1 DEF Widest
<1>8. x >= Widest => x * base + digit >= Widest /\ x * base >= Widest BY WidestIs
<1>9. acc.val >= Widest => acc.val * base + digit >= Widest /\ acc.val * base >= Widest
  BY WidestIs, <1>2
<1> HIDE DEF m
<1>10. CASE acc.val # 0 /\ product \div acc.val # base
  <2>1. new = [val |-> acc.val * base + digit, bits |-> acc.bits + LongLongBits]
    BY <1>10 DEF AddDigit, m
  <2>2. acc.val * base >= m
    <3>1. acc.val \in Nat \ {0} /\ base \in Nat /\ acc.val * base \in Nat BY <1>2, <1>3, <1>10
    <3>2. acc.val * base # product BY <3>1, <1>10, DivisionTells
    <3> QED BY <1>1, <1>3, <1>4, <3>2
  <2>3. new \in [val : Nat, bits : Nat] BY <2>1, <1>2, <1>3
  <2>4. new.val = acc.val * base + digit /\ new.bits = acc.bits + LongLongBits BY <2>1
  <2> HIDE DEF new, product, sum
  <2>5. new.val >= Widest /\ x * base + digit >= Widest
    <3>1. CASE acc.bits = LongLongBits /\ acc.val = x BY <3>1, <2>2, <2>4, <1>3, <1>7, WidestIs
    <3>2. CASE acc.val >= Widest /\ x >= Widest BY <3>2, <1>8, <1>9, <2>4
    <3> QED BY <3>1, <3>2 DEF Related
  <2> QED BY <2>3, <2>4, <2>5, <1>2 DEF Related, new
<1>11. ASSUME ~(acc.val # 0 /\ product \div acc.val # base)
       PROVE  product = acc.val * base
  <2>1. CASE acc.val = 0
    <3>1. acc.val * base = 0 BY <2>1
    <3> QED BY <3>1, <1>1, <1>4
  <2>2. CASE acc.val # 0
    <3>1. acc.val \in Nat \ {0} /\ base \in Nat /\ product \in Nat BY <1>1, <1>2, <1>4, <2>2
    <3>2. ~(product < acc.val * base) BY <3>1, <2>2, <1>11, DivisionTells
    <3> QED BY <1>1, <1>3, <1>4, <3>2
  <2> QED BY <2>1, <2>2
<1>12. CASE ~(acc.val # 0 /\ product \div acc.val # base) /\ sum < product
  <2>1. new = [val |-> product * base + digit, bits |-> acc.bits + LongLongBits]
    BY <1>12 DEF AddDigit, m
  <2>2. product = acc.val * base BY <1>11, <1>12
  <2>3. product + digit >= m BY <1>1, <1>4, <1>6, <1>12
  <2>4. product * base >= product /\ product * base \in Nat
    <3>1. product \in Nat BY <1>1, <1>4
    <3> HIDE DEF product
    <3> QED BY <3>1
  <2>5. new \in [val : Nat, bits : Nat] BY <2>1, <2>4, <1>2
  <2>6. new.val = product * base + digit /\ new.bits = acc.bits + LongLongBits BY <2>1
  <2> HIDE DEF new, product, sum
  <2>7. new.val >= Widest /\ x * base + digit >= Widest
    <3>1. CASE acc.bits = LongLongBits /\ acc.val = x
      BY <3>1, <2>2, <2>3, <2>4, <2>6, <1>3, <1>7, WidestIs
    <3>2. CASE acc.val >= Widest /\ x >= Widest
      BY <3>2, <1>8, <1>9, <2>2, <2>4, <2>6, <1>3, WidestIs
    <3> QED BY <3>1, <3>2 DEF Related
  <2> QED BY <2>5, <2>6, <2>7, <1>2 DEF Related, new
<1>13. CASE ~(acc.val # 0 /\ product \div acc.val # base) /\ ~(sum < product)
  <2>1. new = [val |-> sum, bits |-> acc.bits] BY <1>13 DEF AddDigit, m
  <2>2. product = acc.val * base BY <1>11, <1>13
  <2>3. sum = product + digit
    <3>1. product + digit < m + m BY <1>1, <1>4, <1>7
    <3> HIDE DEF product, sum
    <3> QED BY <3>1, <1>1, <1>4, <1>6, <1>7, <1>13
  <2>4. new.val = acc.val * base + digit /\ new.bits = acc.bits BY <2>1, <2>2, <2>3
  <2>5. new \in [val : Nat, bits : Nat] BY <2>1, <2>2, <2>3, <1>2, <1>3
  <2> HIDE DEF new, product, sum
  <2> QED BY <2>4, <2>5, <1>8, <1>9 DEF Related, new
<1> QED BY <1>10, <1>12, <1>13

Accs == [val : Nat, bits : Nat]

\* What a digit is added to stays a number with a width.
LEMMA AddDigitType ==
  ASSUME NEW acc \in Accs, NEW base \in {2, 8, 10, 16}, NEW digit \in 0..15
  PROVE  AddDigit(acc, base, digit) \in Accs
<1> DEFINE m == 2^acc.bits
           product == (acc.val * base) % m
           sum == (product + digit) % m
<1>1. m \in Nat \ {0} BY PowerOfTwo DEF Accs
<1>2. acc.val * base \in Nat /\ acc.bits \in Nat BY DEF Accs
<1>3. product \in Nat
  <2>1. PICK p \in Nat : p = acc.val * base BY <1>2
  <2>2. p % m \in 0..m-1 BY <1>1, WrapsTells
  <2> QED BY <2>1, <2>2, <1>1
<1>4. sum \in Nat
  <2>1. PICK p \in Nat : p = product + digit BY <1>3
  <2>2. p % m \in 0..m-1 BY <1>1, WrapsTells
  <2> QED BY <2>1, <2>2, <1>1
<1>5. /\ acc.val * base + digit \in Nat /\ product * base + digit \in Nat
      /\ acc.bits + LongLongBits \in Nat
  BY <1>2, <1>3, WidthsAssumption
<1>6. AddDigit(acc, base, digit) \in
        {[val |-> acc.val * base + digit, bits |-> acc.bits + LongLongBits],
         [val |-> product * base + digit, bits |-> acc.bits + LongLongBits],
         [val |-> sum, bits |-> acc.bits]}
  BY DEF AddDigit
<1> HIDE DEF product, sum, m
<1> QED BY <1>2, <1>4, <1>5, <1>6 DEF Accs

\* The end of the text is a digit of no base.
LEMMA NulNoDigit == \A base \in {2, 8, 10, 16} : "NUL" \notin DigitsOf(base)
<1>1. \A n \in 1..16 : HexDigits[n] # "NUL" BY DEF HexDigits
<1>2. \A n \in 1..26 : Uppers[n] # "NUL" BY DEF Uppers
<1>3. \A n \in 1..6 : Uppers[n] # "NUL" BY <1>2
<1>4. \A base \in {2, 8, 10, 16} : \A n \in 1..base : HexDigits[n] # "NUL"
  <2>1. \A base \in {2, 8, 10, 16} : \A n \in 1..base : n \in 1..16 OBVIOUS
  <2> QED BY <1>1, <2>1
<1> QED BY <1>3, <1>4 DEF DigitsOf

\* The digits of a literal begin and end in the text.
LEMMA DigitsIn ==
  ASSUME text \in Texts, NEW s \in 1..Len(text), At(s) \in DigitsOf(10)
  PROVE  /\ Base(s) \in {2, 8, 10, 16}
         /\ FirstDigit(s) \in Nat
         /\ EndOf(FirstDigit(s), DigitsOf(Base(s))) \in Nat
         /\ FirstDigit(s) <= EndOf(FirstDigit(s), DigitsOf(Base(s)))
         /\ \A k \in FirstDigit(s)..EndOf(FirstDigit(s), DigitsOf(Base(s)))-1 :
              At(k) \in DigitsOf(Base(s))
<1>1. Base(s) \in {2, 8, 10, 16} BY DEF Base
<1>2. Len(text) \in Nat BY AtEnd
<1>3. FirstDigit(s) \in 1..Len(text)+1
  <2>1. At(s + 1) = "x" \/ At(s + 1) = "b" => s + 1 \in 1..Len(text) BY <1>2, AtEnd
  <2> QED BY <1>2, <2>1 DEF FirstDigit, Base
<1>4. "NUL" \notin DigitsOf(Base(s))
  BY <1>1, NulNoDigit
<1> DEFINE S == DigitsOf(Base(s))
           first == FirstDigit(s)
<1> HIDE DEF S, first
<1>5. /\ EndOf(first, S) \in first..Len(text)+1
      /\ \A m \in first..EndOf(first, S)-1 : At(m) \in S
  BY <1>3, <1>4, EndOfIn DEF S, first
<1>6. first \in Nat BY <1>3 DEF first
<1> QED BY <1>1, <1>2, <1>5, <1>6 DEF S, first

\* What is read of a literal is the number its digits denote, unless no type
\* holds that number, and then none holds what was read.
LEMMA ReadIntExact ==
  ASSUME text \in Texts, NEW s \in 1..Len(text), At(s) \in DigitsOf(10)
  PROVE  LET base == Base(s)
         IN /\ ReadInt(s, base) \in Nat /\ ExactValue(s, base) \in Nat
            /\ \/ ReadInt(s, base) = ExactValue(s, base)
               \/ ReadInt(s, base) >= Widest /\ ExactValue(s, base) >= Widest
<1> DEFINE base == Base(s)
           first == FirstDigit(s)
           last == EndOf(first, DigitsOf(base))
           D(k) == DigitValue(At(k - 1))
<1>1. base \in {2, 8, 10, 16} /\ first \in Nat /\ last \in Nat /\ first <= last
  BY DigitsIn
<1>2. \A k \in first+1..last : D(k) \in 0..15
  <2> SUFFICES ASSUME NEW k \in first+1..last PROVE D(k) \in 0..15 OBVIOUS
  <2>1. k - 1 \in first..last-1 BY <1>1
  <2>2. At(k - 1) \in DigitsOf(base) BY <2>1, DigitsIn
  <2>3. PICK c \in DigitsOf(base) : c = At(k - 1) BY <2>2
  <2> HIDE DEF base
  <2>4. DigitValue(c) \in 0..15 BY <1>1, DigitsAre
  <2> QED BY <2>3, <2>4
<1> DEFINE zero == [val |-> 0, bits |-> LongLongBits]
           IsRead(f) == f = [k \in first..last |->
                               IF k = first THEN zero ELSE AddDigit(f[k - 1], base, D(k))]
           IsNumber(f) == f = [k \in first..last |->
                                 IF k = first THEN 0 ELSE f[k - 1] * base + D(k)]
           read == CHOOSE f : IsRead(f)
           number == CHOOSE f : IsNumber(f)
<1>3. ReadInt(s, base) = read[last].val BY DEF ReadInt
<1>4. ExactValue(s, base) = number[last] BY DEF ExactValue
<1> HIDE DEF base, first, last, D
<1>5. IsRead(read)
  <2> DEFINE next == [k \in first+1..last |-> [acc \in Accs |-> AddDigit(acc, base, D(k))]]
  <2>1. next \in [first+1..last -> [Accs -> Accs]]
    <3>1. ASSUME NEW k \in first+1..last, NEW acc \in Accs
          PROVE  AddDigit(acc, base, D(k)) \in Accs
      BY <1>1, <1>2, AddDigitType
    <3> QED BY <3>1
  <2>2. zero \in Accs BY WidthsAssumption DEF Accs
  <2>3. PICK f \in [first..last -> Accs] :
          f = [k \in first..last |-> IF k = first THEN zero ELSE next[k][f[k-1]]]
    <3>1. first \in Int /\ last \in Int BY <1>1
    <3> HIDE DEF next, zero
    <3>2. \E f \in [first..last -> Accs] : Iteration(f, first, last, zero, next)
      BY <2>1, <2>2, <3>1, Iterates
    <3> QED BY <3>2 DEF Iteration
  <2>4. ASSUME NEW k \in first..last, k # first
        PROVE  next[k][f[k-1]] = AddDigit(f[k-1], base, D(k))
    <3>1. k - 1 \in first..last /\ k \in first+1..last BY <1>1, <2>4
    <3>2. f[k-1] \in Accs BY <3>1
    <3> QED BY <3>1, <3>2
  <2>5. IsRead(f)
    <3> HIDE DEF next
    <3> QED BY <2>3, <2>4
  <2> HIDE DEF IsRead
  <2> QED BY <2>5
<1>6. IsNumber(number)
  <2> DEFINE next == [k \in first+1..last |-> [v \in Nat |-> v * base + D(k)]]
  <2>1. next \in [first+1..last -> [Nat -> Nat]]
    <3>1. ASSUME NEW k \in first+1..last, NEW v \in Nat PROVE v * base + D(k) \in Nat
      <4>1. base \in Nat /\ D(k) \in Nat BY SMTT(40), <1>1, <1>2, <3>1
      <4>2. PICK a \in Nat, d \in Nat : a = base /\ d = D(k) BY <4>1
      <4>3. v * a + d \in Nat OBVIOUS
      <4> QED BY <4>2, <4>3
    <3> QED BY <3>1
  <2>2. 0 \in Nat OBVIOUS
  <2>3. PICK f \in [first..last -> Nat] :
          f = [k \in first..last |-> IF k = first THEN 0 ELSE next[k][f[k-1]]]
    <3>1. first \in Int /\ last \in Int BY <1>1
    <3> HIDE DEF next
    <3>2. \E f \in [first..last -> Nat] : Iteration(f, first, last, 0, next)
      BY <2>1, <2>2, <3>1, Iterates
    <3> QED BY <3>2 DEF Iteration
  <2>4. ASSUME NEW k \in first..last, k # first
        PROVE  next[k][f[k-1]] = f[k-1] * base + D(k)
    <3>1. k - 1 \in first..last /\ k \in first+1..last BY <1>1, <2>4
    <3>2. f[k-1] \in Nat BY <3>1
    <3> QED BY <3>1, <3>2
  <2>5. IsNumber(f)
    <3> HIDE DEF next
    <3> QED BY <2>3, <2>4
  <2> HIDE DEF IsNumber
  <2> QED BY <2>5
<1> DEFINE Good(k) == read[k] \in Accs /\ number[k] \in Nat /\ Related(read[k], number[k])
           T == {k \in first..last : ~Good(k)}
<1>7. T = {}
  <2>1. SUFFICES ASSUME T # {} PROVE FALSE OBVIOUS
  <2>2. T \subseteq Nat BY <1>1
  <2>3. PICK k \in T : \A m \in T : k <= m BY <2>1, <2>2, NatMin
  <2>4. Good(first)
    <3> HIDE DEF read, number
    <3>0. first \in first..last BY <1>1
    <3>1. read[first] = zero /\ number[first] = 0 BY <3>0, <1>5, <1>6
    <3> QED BY <3>1, WidthsAssumption DEF Accs, Related
  <2>5. k \in first..last /\ k # first BY <2>3, <2>4
  <2>6. k - 1 \in first..last /\ k - 1 \notin T
    <3>1. k - 1 \in first..last /\ ~(k <= k - 1) BY <1>1, <2>5
    <3> HIDE DEF T
    <3> QED BY <2>3, <3>1
  <2>7. Good(k - 1) BY <2>6
  <2> HIDE DEF read, number
  <2>8. /\ read[k] = AddDigit(read[k - 1], base, D(k))
        /\ number[k] = number[k - 1] * base + D(k)
    BY <1>5, <1>6, <2>5
  <2>9. D(k) \in 0..15
    <3>1. k \in first+1..last BY <1>1, <2>5
    <3> QED BY <1>2, <3>1
  <2>10. PICK acc \in Accs, x \in Nat :
           /\ Related(acc, x)
           /\ read[k] = AddDigit(acc, base, D(k)) /\ number[k] = x * base + D(k)
    BY <2>7, <2>8
  <2>11. x * base + D(k) \in Nat
    <3>1. base \in Nat /\ D(k) \in Nat BY SMTT(40), <1>1, <2>9
    <3> QED BY <3>1
  <2>12. /\ AddDigit(acc, base, D(k)) \in Accs
         /\ Related(AddDigit(acc, base, D(k)), x * base + D(k))
    BY ZenonT(40), <1>1, <2>9, <2>10, AddDigitRelated DEF Accs
  <2>13. Good(k) BY <2>10, <2>11, <2>12
  <2> QED BY <2>3, <2>13
<1>8. Good(last)
  <2>1. last \in first..last BY <1>1
  <2> QED BY <1>7, <2>1
<1>9. read[last].val \in Nat BY <1>8 DEF Accs
<1> HIDE DEF read, number
<1> QED BY <1>3, <1>4, <1>8, <1>9 DEF Related, base

-----------------------------------------------------------------------------
(***************************************************************************)
(* The types of the integer literals.                                      *)
(***************************************************************************)
\* The names of the literals and of the types are one to one.
LEMMA IntTypesDiffer ==
  /\ DOMAIN IntTypes = 1..6
  /\ \A m, n \in 1..6 : IntTypes[m] = IntTypes[n] => m = n
<1>1. DOMAIN IntTypes = 1..6 BY DEF IntTypes
<1>2. ASSUME NEW n \in 1..6, NEW m \in 1..6, IntTypes[m] = IntTypes[n] PROVE m = n
  <2>1. CASE n = 1 BY <1>2, <2>1 DEF IntTypes
  <2>2. CASE n = 2 BY <1>2, <2>2 DEF IntTypes
  <2>3. CASE n = 3 BY <1>2, <2>3 DEF IntTypes
  <2>4. CASE n = 4 BY <1>2, <2>4 DEF IntTypes
  <2>5. CASE n = 5 BY <1>2, <2>5 DEF IntTypes
  <2>6. CASE n = 6 BY <1>2, <2>6 DEF IntTypes
  <2> QED BY <2>1, <2>2, <2>3, <2>4, <2>5, <2>6
<1> QED BY <1>1, <1>2

\* types are those of the places `picked', in the order of IntTypes.
PickedAt(types, picked) ==
  /\ DOMAIN types = DOMAIN picked
  /\ \A n \in DOMAIN picked : types[n] = IntTypes[picked[n]]

AllowedAt(asked, base) == {n \in 1..6 : Allowed(asked, base, IntTypes[n])}

\* The types that are tried are those C++ allows, in its order: but not for a
\* decimal literal with the suffix l, which may become unsigned.
Tried(asked, base) ==
  \E k \in 1..6 : \E f \in [1..k -> 1..6] :
    /\ \A m, n \in 1..k : m < n => f[m] < f[n]
    /\ \A n \in 1..6 : n \in AllowedAt(asked, base) <=> \E m \in 1..k : f[m] = n
    /\ PickedAt(Candidates(asked, base), f)

LEMMA TriedAre ==
  ASSUME NEW asked \in IntNames, NEW base, ~(asked = "LONG" /\ base = 10)
  PROVE  Tried(asked, base)
<1>1. CASE asked = "INT" /\ base = 10
  <2> DEFINE f == <<1, 3, 5>>
  <2>1. f \in [1..3 -> 1..6] /\ \A m, n \in 1..3 : m < n => f[m] < f[n] OBVIOUS
  <2>2. PickedAt(Candidates(asked, base), f) BY <1>1 DEF PickedAt, Candidates, IntTypes
  <2>3. \A n \in 1..6 : n \in AllowedAt(asked, base) <=> \E m \in 1..3 : f[m] = n
    BY <1>1 DEF AllowedAt, Allowed, IntTypes, IsSigned, Rank
  <2> QED BY <2>1, <2>2, <2>3 DEF Tried
<1>2. CASE asked = "INT" /\ base # 10
  <2> DEFINE f == <<1, 2, 3, 4, 5, 6>>
  <2>1. f \in [1..6 -> 1..6] /\ \A m, n \in 1..6 : m < n => f[m] < f[n] OBVIOUS
  <2>2. PickedAt(Candidates(asked, base), f) BY <1>2 DEF PickedAt, Candidates, IntTypes
  <2>3. \A n \in 1..6 : n \in AllowedAt(asked, base) <=> \E m \in 1..6 : f[m] = n
    BY <1>2 DEF AllowedAt, Allowed, IntTypes, IsSigned, Rank
  <2> QED BY <2>1, <2>2, <2>3 DEF Tried
<1>3. CASE asked = "UINT"
  <2> DEFINE f == <<2, 4, 6>>
  <2>1. f \in [1..3 -> 1..6] /\ \A m, n \in 1..3 : m < n => f[m] < f[n] OBVIOUS
  <2>2. PickedAt(Candidates(asked, base), f) BY <1>3 DEF PickedAt, Candidates, IntTypes
  <2>3. \A n \in 1..6 : n \in AllowedAt(asked, base) <=> \E m \in 1..3 : f[m] = n
    BY <1>3 DEF AllowedAt, Allowed, IntTypes, IsSigned, Rank
  <2> QED BY <2>1, <2>2, <2>3 DEF Tried
<1>4. CASE asked = "LONG" /\ base # 10
  <2> DEFINE f == <<3, 4, 5, 6>>
  <2>1. f \in [1..4 -> 1..6] /\ \A m, n \in 1..4 : m < n => f[m] < f[n] OBVIOUS
  <2>2. PickedAt(Candidates(asked, base), f) BY <1>4 DEF PickedAt, Candidates, IntTypes
  <2>3. \A n \in 1..6 : n \in AllowedAt(asked, base) <=> \E m \in 1..4 : f[m] = n
    BY <1>4 DEF AllowedAt, Allowed, IntTypes, IsSigned, Rank
  <2> QED BY <2>1, <2>2, <2>3 DEF Tried
<1>5. CASE asked = "ULONG"
  <2> DEFINE f == <<4, 6>>
  <2>1. f \in [1..2 -> 1..6] /\ \A m, n \in 1..2 : m < n => f[m] < f[n] OBVIOUS
  <2>2. PickedAt(Candidates(asked, base), f) BY <1>5 DEF PickedAt, Candidates, IntTypes
  <2>3. \A n \in 1..6 : n \in AllowedAt(asked, base) <=> \E m \in 1..2 : f[m] = n
    BY <1>5 DEF AllowedAt, Allowed, IntTypes, IsSigned, Rank
  <2> QED BY <2>1, <2>2, <2>3 DEF Tried
<1>6. CASE asked = "LONGLONG" /\ base = 10
  <2> DEFINE f == <<5>>
  <2>1. f \in [1..1 -> 1..6] /\ \A m, n \in 1..1 : m < n => f[m] < f[n] OBVIOUS
  <2>2. PickedAt(Candidates(asked, base), f) BY <1>6 DEF PickedAt, Candidates, IntTypes
  <2>3. \A n \in 1..6 : n \in AllowedAt(asked, base) <=> \E m \in 1..1 : f[m] = n
    BY <1>6 DEF AllowedAt, Allowed, IntTypes, IsSigned, Rank
  <2> QED BY <2>1, <2>2, <2>3 DEF Tried
<1>7. CASE asked = "LONGLONG" /\ base # 10
  <2> DEFINE f == <<5, 6>>
  <2>1. f \in [1..2 -> 1..6] /\ \A m, n \in 1..2 : m < n => f[m] < f[n] OBVIOUS
  <2>2. PickedAt(Candidates(asked, base), f) BY <1>7 DEF PickedAt, Candidates, IntTypes
  <2>3. \A n \in 1..6 : n \in AllowedAt(asked, base) <=> \E m \in 1..2 : f[m] = n
    BY <1>7 DEF AllowedAt, Allowed, IntTypes, IsSigned, Rank
  <2> QED BY <2>1, <2>2, <2>3 DEF Tried
<1>8. CASE asked = "ULONGLONG"
  <2> DEFINE f == <<6>>
  <2>1. f \in [1..1 -> 1..6] /\ \A m, n \in 1..1 : m < n => f[m] < f[n] OBVIOUS
  <2>2. PickedAt(Candidates(asked, base), f) BY <1>8 DEF PickedAt, Candidates, IntTypes
  <2>3. \A n \in 1..6 : n \in AllowedAt(asked, base) <=> \E m \in 1..1 : f[m] = n
    BY <1>8 DEF AllowedAt, Allowed, IntTypes, IsSigned, Rank
  <2> QED BY <2>1, <2>2, <2>3 DEF Tried
<1> QED BY <1>1, <1>2, <1>3, <1>4, <1>5, <1>6, <1>7, <1>8 DEF IntNames

\* What is chosen is the first type that holds the value, of those C++ allows.
Chosen(asked, base, val) ==
  LET holding == Holding(asked, base, val)
      type == SelectType(Candidates(asked, base), val)
  IN \/ TooBig(Candidates(asked, base), val) /\ holding = {}
     \/ \E n \in holding : /\ \A m \in holding : n <= m
                            /\ type = IntTypes[n] /\ type \in IntNames /\ InType(val, type)

\* SelectType takes the first type that holds the value.
LEMMA FirstHolds ==
  ASSUME NEW types, NEW k \in Nat, DOMAIN types = 1..k, NEW val, ~TooBig(types, val)
  PROVE  \E n \in 1..k : /\ SelectType(types, val) = types[n] /\ InType(val, types[n])
                         /\ \A m \in 1..n-1 : ~InType(val, types[m])
<1> DEFINE T == {n \in 1..k : InType(val, types[n])}
           First(n) == InType(val, types[n]) /\ \A m \in 1..n-1 : ~InType(val, types[m])
<1>1. T \subseteq Nat /\ T # {} BY DEF TooBig
<1>2. PICK n \in T : \A m \in T : n <= m BY <1>1, NatMin
<1>3. \A m \in 1..n-1 : m \in 1..k /\ ~(n <= m) BY <1>2
<1>4. n \in 1..k /\ First(n) BY <1>2, <1>3
<1>5. SelectType(types, val) = types[CHOOSE c \in 1..k : First(c)] BY DEF SelectType
<1> DEFINE c == CHOOSE c \in 1..k : First(c)
<1>6. c \in 1..k /\ First(c)
  <2> HIDE DEF First
  <2> QED BY <1>4
<1> HIDE DEF c
<1>7. SelectType(types, val) = types[c] BY <1>5 DEF c
<1> QED BY <1>6, <1>7

\* IntTypes are types of literals.
LEMMA IntTypesAre == \A n \in 1..6 : IntTypes[n] \in IntNames
BY DEF IntTypes, IntNames

\* It is so of every literal whose types are tried in their order,
LEMMA ChosenIs ==
  ASSUME NEW asked \in IntNames, NEW base, NEW val,
         ~(asked = "LONG" /\ base = 10)
  PROVE  Chosen(asked, base, val)
<1> DEFINE types == Candidates(asked, base)
           holding == Holding(asked, base, val)
<1>0. PICK k \in 1..6 : \E f \in [1..k -> 1..6] :
        /\ \A m, n \in 1..k : m < n => f[m] < f[n]
        /\ \A n \in 1..6 : n \in AllowedAt(asked, base) <=> \E m \in 1..k : f[m] = n
        /\ PickedAt(types, f)
  BY TriedAre DEF Tried
<1>1. PICK f \in [1..k -> 1..6] :
        /\ \A m, n \in 1..k : m < n => f[m] < f[n]
        /\ \A n \in 1..6 : n \in AllowedAt(asked, base) <=> \E m \in 1..k : f[m] = n
        /\ PickedAt(types, f)
  BY <1>0
<1>2. DOMAIN types = 1..k /\ \A n \in 1..k : types[n] = IntTypes[f[n]] BY <1>1 DEF PickedAt
<1>3. \A n \in 1..6 : n \in holding <=> n \in AllowedAt(asked, base) /\ InType(val, IntTypes[n])
  BY IntTypesDiffer DEF Holding, AllowedAt
<1>4. holding \subseteq 1..6 BY IntTypesDiffer DEF Holding
<1> HIDE DEF types, holding
<1>5. \A n \in 1..k : InType(val, types[n]) => f[n] \in holding BY <1>1, <1>2, <1>3
<1>6. \A n \in holding : \E m \in 1..k : f[m] = n /\ InType(val, types[m])
  BY SMTT(40), <1>1, <1>2, <1>3, <1>4
<1>7. CASE TooBig(types, val)
  <2>1. holding = {} BY <1>2, <1>6, <1>7 DEF TooBig
  <2> QED BY <2>1, <1>7 DEF Chosen, types, holding
<1>8. CASE ~TooBig(types, val)
  <2>1. PICK n \in 1..k : /\ SelectType(types, val) = types[n] /\ InType(val, types[n])
                          /\ \A m \in 1..n-1 : ~InType(val, types[m])
    BY SMTT(40), <1>2, <1>8, FirstHolds
  <2>2. f[n] \in holding BY <2>1, <1>5
  <2>3. ASSUME NEW m \in holding PROVE f[n] <= m
    <3>1. PICK l \in 1..k : f[l] = m /\ InType(val, types[l]) BY <1>6
    <3>2. ~(l \in 1..n-1) BY <3>1, <2>1
    <3>3. l = n \/ n < l BY <3>2
    <3>4. f[n] \in Int /\ f[l] \in Int BY SMTT(40), <1>1
    <3> QED BY <1>1, <3>1, <3>3, <3>4
  <2>4. SelectType(types, val) = IntTypes[f[n]] /\ InType(val, SelectType(types, val))
    BY <2>1, <1>2
  <2>5. SelectType(types, val) \in IntNames BY <2>4, IntTypesAre
  <2> QED BY <2>2, <2>3, <2>4, <2>5 DEF Chosen, types, holding
<1> QED BY <1>7, <1>8

\* and of a decimal one with the suffix l that a long holds.
LEMMA LongChosen ==
  ASSUME NEW val, InType(val, "LONG") PROVE Chosen("LONG", 10, val)
<1> DEFINE types == Candidates("LONG", 10)
           holding == Holding("LONG", 10, val)
<1>1. types = <<"LONG", "ULONG", "LONGLONG">> BY DEF Candidates
<1>2. DOMAIN types = 1..3 /\ types[1] = "LONG" BY <1>1
<1> HIDE DEF types
<1>3. ~TooBig(types, val) BY <1>2 DEF TooBig
<1>4. PICK n \in 1..3 : /\ SelectType(types, val) = types[n]
                        /\ \A m \in 1..n-1 : ~InType(val, types[m])
  BY <1>2, <1>3, FirstHolds
<1>5. n = 1 BY <1>2, <1>4
<1>6. SelectType(types, val) = "LONG" BY <1>2, <1>4, <1>5
<1>7. IntTypes[3] = "LONG" BY DEF IntTypes
<1>8. 3 \in holding BY <1>7, IntTypesDiffer DEF Holding, Allowed, Rank, IsSigned
<1>9. \A m \in holding : 3 <= m
  <2>1. ~Allowed("LONG", 10, IntTypes[1]) /\ ~Allowed("LONG", 10, IntTypes[2])
    BY DEF IntTypes, Allowed, Rank
  <2>2. \A m \in holding : m \in 1..6 /\ Allowed("LONG", 10, IntTypes[m])
    BY IntTypesDiffer DEF Holding
  <2> HIDE DEF holding
  <2>3. \A m \in holding : m \in 1..6 /\ m # 1 /\ m # 2 BY <2>1, <2>2
  <2> QED BY <2>3
<1> QED BY <1>6, <1>7, <1>8, <1>9 DEF Chosen, types, IntNames

\* No type holds what is as wide as the widest, and what a type holds it keeps.
LEMMA TypesHold ==
  ASSUME NEW type \in IntNames, NEW val \in Nat
  PROVE  /\ val >= Widest => ~InType(val, type)
         /\ InType(val, type) => val % 2^BitsOf(type) = val
<1> DEFINE b == BitsOf(type)
<1>1. b \in Nat \ {0} /\ b <= LongLongBits BY WidthsAssumption DEF BitsOf
<1>2. PICK m \in Nat : m = 2^b BY <1>1, PowerOfTwo
<1>3. PICK h \in Nat : h = 2^(b - 1)
  <2>1. b - 1 \in Nat BY <1>1
  <2> QED BY <2>1, PowerOfTwo
<1>4. m = 2 * h
  <2>1. b - 1 \in Nat /\ (b - 1) + 1 = b BY <1>1
  <2>2. 2^((b - 1) + 1) = 2 * 2^(b - 1) BY <2>1, PowerOfTwo
  <2> QED BY <2>1, <2>2, <1>2, <1>3
<1>5. m <= Widest
  <2>1. 2^b <= 2^LongLongBits BY <1>1, PowerMonotone, WidthsAssumption
  <2> QED BY <2>1, <1>2 DEF Widest
<1>6. m # 0 BY <1>1, <1>2, PowerOfTwo
<1>7. MaxOf(type) = h - 1 \/ MaxOf(type) = m - 1 BY <1>2, <1>3 DEF MaxOf
<1> HIDE DEF b
<1>8. InType(val, type) => val < m BY <1>4, <1>6, <1>7 DEF InType
<1>9. val < m => val % m = val OBVIOUS
<1> QED BY <1>2, <1>5, <1>8, <1>9, WidestIs DEF b

-----------------------------------------------------------------------------
(***************************************************************************)
(* What a step reads.                                                      *)
(***************************************************************************)
\* What IntLiterals says of one token.
ReadAs(t) ==
  LET asked == LiteralAt(t.at).type
      val == ExactValue(t.at, Base(t.at))
      holding == Holding(asked, Base(t.at), val)
  IN At(t.at) \in DigitsOf(10) /\ asked \notin FloatTypes /\ WellFormed(t.at) =>
       \/ asked = "LONG" /\ Base(t.at) = 10 /\ ~InType(val, "LONG")
       \/ holding = {} /\ ReportedAt(t)
       \/ \E n \in holding : /\ \A m \in holding : n <= m
                              /\ t.type = LitToks[IntTypes[n]]
                              /\ t.val = val

\* The literals of a text do not change, and what was reported stays so.
LEMMA LiteralsStay ==
  ASSUME text' = text
  PROVE  /\ \A j : At(j)' = At(j)
         /\ \A s : LiteralAt(s)' = LiteralAt(s)
         /\ \A s : Base(s)' = Base(s)
         /\ \A s : ExactValue(s, Base(s))' = ExactValue(s, Base(s))
         /\ \A s : WellFormed(s)' <=> WellFormed(s)
<1>1. \A s : LiteralAt(s)' = LiteralAt(s)
  <2>1. ASSUME NEW s PROVE DigitsEnd(s)' = DigitsEnd(s) BY DEF DigitsEnd, EndOf, At
  <2>2. ASSUME NEW s, NEW e PROVE IsDecimal(s, e)' <=> IsDecimal(s, e) BY DEF IsDecimal, At
  <2>3. ASSUME NEW e PROVE Low(e)' = Low(e) BY DEF Low, At
  <2>4. ASSUME NEW e, NEW d \in BOOLEAN PROVE Suffix(e, d)' = Suffix(e, d) BY <2>3 DEF Suffix
  <2>5. ASSUME NEW s PROVE LiteralAt(s)' = LiteralAt(s)
    <3>1. PICK e : e = DigitsEnd(s) OBVIOUS
    <3>2. DigitsEnd(s)' = e BY <2>1, <3>1
    <3>3. PICK d \in BOOLEAN : d = IsDecimal(s, e) BY DEF IsDecimal
    <3>4. IsDecimal(s, e)' = d BY <2>2, <3>3 DEF IsDecimal
    <3>5. LiteralAt(s) = Suffix(e, d) BY <3>1, <3>3 DEF LiteralAt
    <3>6. LiteralAt(s)' = Suffix(e, d)' BY <3>2, <3>4 DEF LiteralAt
    <3>7. Suffix(e, d)' = Suffix(e, d) BY <2>4
    <3> QED BY <3>5, <3>6, <3>7
  <2> QED BY <2>5
<1>2. \A s : Base(s)' = Base(s) BY DEF Base, At
<1>3. ASSUME NEW s PROVE ExactValue(s, Base(s))' = ExactValue(s, Base(s))
  BY DEF ExactValue, Base, FirstDigit, EndOf, At
<1>4. ASSUME NEW s PROVE WellFormed(s)' <=> WellFormed(s)
  BY DEF WellFormed, DigitsEnd, Base, FirstDigit, EndOf, At
<1>5. \A j : At(j)' = At(j) BY DEF At
<1> QED BY SMTT(40), <1>1, <1>2, <1>3, <1>4, <1>5

\* A token that is read as it should be stays so.
LEMMA ReadStays ==
  ASSUME text' = text, IsSeq(lexDiags), Tells \/ UNCHANGED lexDiags, NEW t, ReadAs(t)
  PROVE  ReadAs(t)'
<1>1. ReportedAt(t) => ReportedAt(t)'
  <2>1. CASE Tells
    <3>1. PICK errs : IsSeq(errs) /\ lexDiags' = lexDiags \o errs BY <2>1 DEF Tells, AreErrors
    <3>2. /\ Len(lexDiags) \in Nat /\ Len(errs) \in Nat
          /\ Len(lexDiags') = Len(lexDiags) + Len(errs)
          /\ \A k \in 1..Len(lexDiags) : lexDiags'[k] = lexDiags[k]
      BY <3>1, ErrorsJoin
    <3>3. \A k \in 1..Len(lexDiags) : k \in 1..Len(lexDiags') BY <3>2
    <3> QED BY <3>2, <3>3 DEF ReportedAt
  <2>2. CASE UNCHANGED lexDiags BY <2>2 DEF ReportedAt
  <2> QED BY <2>1, <2>2
<1>2. PICK asked, base, val, digit, well :
        /\ asked = LiteralAt(t.at).type /\ base = Base(t.at)
        /\ val = ExactValue(t.at, Base(t.at)) /\ digit = At(t.at)
        /\ well \in BOOLEAN /\ (well <=> WellFormed(t.at))
  OBVIOUS
<1>3. /\ asked = LiteralAt(t.at)'.type /\ base = Base(t.at)'
      /\ val = ExactValue(t.at, Base(t.at))' /\ digit = At(t.at)'
      /\ (well <=> WellFormed(t.at)')
  BY <1>2, LiteralsStay
<1> DEFINE Read(reported) ==
             digit \in DigitsOf(10) /\ asked \notin FloatTypes /\ well =>
               \/ asked = "LONG" /\ base = 10 /\ ~InType(val, "LONG")
               \/ Holding(asked, base, val) = {} /\ reported
               \/ \E n \in Holding(asked, base, val) :
                     /\ \A m \in Holding(asked, base, val) : n <= m
                     /\ t.type = LitToks[IntTypes[n]]
                     /\ t.val = val
<1>4. Read(ReportedAt(t)) BY <1>2 DEF ReadAs
<1>5. Read(ReportedAt(t)') BY <1>1, <1>4
<1> QED BY <1>3, <1>5 DEF ReadAs

\* A step adds no token or one that is read as it should be.
ReadToken == \E t : toks' = Append(toks, t) /\ ReadAs(t)'

\* What a literal is read as is what its digits denote, or there is an error.
LEMMA ValueRead ==
  ASSUME text \in Texts, NEW s \in 1..Len(text), At(s) \in DigitsOf(10),
         NEW asked \in IntNames
  PROVE  LET base == Base(s)
             val == ExactValue(s, base)
             read == ReadInt(s, base)
             types == Candidates(asked, base)
             type == SelectType(types, read)
             holding == Holding(asked, base, val)
         IN \/ asked = "LONG" /\ base = 10 /\ ~InType(val, "LONG")
            \/ holding = {} /\ TooBig(types, read)
            \/ \E n \in holding : /\ \A m \in holding : n <= m
                                   /\ type = IntTypes[n]
                                   /\ read % 2^BitsOf(type) = val
<1>1. PICK base : base = Base(s) OBVIOUS
<1>2. /\ ReadInt(s, base) \in Nat /\ ExactValue(s, base) \in Nat
      /\ \/ ReadInt(s, base) = ExactValue(s, base)
         \/ ReadInt(s, base) >= Widest /\ ExactValue(s, base) >= Widest
  BY <1>1, ReadIntExact
<1>3. PICK val \in Nat, read \in Nat :
        /\ val = ExactValue(s, base) /\ read = ReadInt(s, base)
        /\ read = val \/ (read >= Widest /\ val >= Widest)
  BY <1>2
<1> DEFINE types == Candidates(asked, base)
           holding == Holding(asked, base, val)
<1>4. SUFFICES \/ asked = "LONG" /\ base = 10 /\ ~InType(val, "LONG")
               \/ holding = {} /\ TooBig(types, read)
               \/ \E n \in holding : /\ \A m \in holding : n <= m
                                      /\ SelectType(types, read) = IntTypes[n]
                                      /\ read % 2^BitsOf(SelectType(types, read)) = val
  BY <1>1, <1>3
<1>5. types \in Seq(IntNames) BY CandidatesIn
<1>6. CASE read # val
  <2>1. \A type \in IntNames : ~InType(read, type) /\ ~InType(val, type)
    BY <1>3, <1>6, TypesHold
  <2>2. TooBig(types, read) 
    <3> HIDE DEF types
    <3>1. \A n \in DOMAIN types : types[n] \in IntNames BY <1>5
    <3> QED BY <2>1, <3>1 DEF TooBig
  <2>3. holding = {} BY <2>1, IntTypesAre, IntTypesDiffer DEF Holding
  <2> QED BY <2>2, <2>3
<1>7. CASE read = val /\ Chosen(asked, base, val)
  <2> HIDE DEF types, holding
  <2>1. CASE TooBig(types, val) /\ holding = {} BY <1>7, <2>1
  <2>2. CASE \E n \in holding :
               /\ \A m \in holding : n <= m
               /\ SelectType(types, val) = IntTypes[n]
               /\ SelectType(types, val) \in IntNames
               /\ InType(val, SelectType(types, val))
    <3>1. val % 2^BitsOf(SelectType(types, val)) = val BY <2>2, TypesHold
    <3> QED BY <1>7, <2>2, <3>1
  <2> QED BY <1>7, <2>1, <2>2 DEF Chosen, types, holding
<1>8. CASE read = val /\ ~Chosen(asked, base, val)
  <2>1. asked = "LONG" /\ base = 10 BY <1>8, ChosenIs
  <2>2. ~InType(val, "LONG") BY <1>8, <2>1, LongChosen
  <2> QED BY <2>1, <2>2
<1> QED BY <1>6, <1>7, <1>8

\* An integer literal is read as it should be.
LEMMA IntLiteralReads ==
  ASSUME Inside, IsSeq(lexDiags), IntLiteral, ~IsFloat(i)
  PROVE  ReadToken
<1> DEFINE asked == LiteralAt(i).type
           base == Base(i)
           types == Candidates(asked, base)
           read == ReadInt(i, base)
           type == SelectType(types, read)
           e == LiteralAt(i).end
           t == Tok(LitToks[type], e, read % 2^BitsOf(type), 0)
<1>1. PushInt(types, read, e) /\ text' = text /\ At(i) \in DigitsOf(10) BY DEF IntLiteral
<1>2. asked \in IntNames BY LiteralTypes DEF IntLiteral
<1>3. text \in Texts /\ i \in 1..Len(text) BY <1>1, NumberStarts DEF Inside
<1>4. PICK u : u = t OBVIOUS
<1>5. /\ u.at = i /\ u.type = LitToks[type] /\ u.val = read % 2^BitsOf(type)
      /\ u.line = pos.line /\ u.column = pos.column
  BY <1>4 DEF Tok
<1>6. toks' = Append(toks, u) BY <1>1, <1>4 DEF PushInt, Push
<1> HIDE DEF t
<1>7. TooBig(types, read) => ReportedAt(u)'
  <2> SUFFICES ASSUME TooBig(types, read) PROVE ReportedAt(u)' OBVIOUS
  <2>1. lexDiags' = lexDiags \o <<Error("BAD_LITERAL")>> BY <1>1 DEF PushInt, Report
  <2>2. /\ Error("BAD_LITERAL").err = "BAD_LITERAL"
        /\ Error("BAD_LITERAL").line = pos.line /\ Error("BAD_LITERAL").column = pos.column
    BY DEF Error
  <2> DEFINE err == Error("BAD_LITERAL")
  <2>3. IsSeq(<<err>>) /\ Len(<<err>>) = 1 /\ <<err>>[1] = err BY ErrorsAre
  <2> HIDE DEF err
  <2>4. PICK errs : errs = <<err>> OBVIOUS
  <2>5. /\ Len(lexDiags) \in Nat /\ Len(lexDiags \o errs) = Len(lexDiags) + 1
        /\ (lexDiags \o errs)[Len(lexDiags) + 1] = err
    BY <2>3, <2>4, ErrorsJoin
  <2>6. Len(lexDiags') = Len(lexDiags) + 1 /\ lexDiags'[Len(lexDiags) + 1] = err
    BY <2>1, <2>4, <2>5 DEF err
  <2>7. Len(lexDiags) + 1 \in 1..Len(lexDiags') BY <2>5, <2>6
  <2> QED BY <1>5, <2>2, <2>6, <2>7 DEF ReportedAt, err
<1>8. \/ asked = "LONG" /\ base = 10 /\ ~InType(ExactValue(i, base), "LONG")
      \/ Holding(asked, base, ExactValue(i, base)) = {} /\ TooBig(types, read)
      \/ \E n \in Holding(asked, base, ExactValue(i, base)) :
           /\ \A m \in Holding(asked, base, ExactValue(i, base)) : n <= m
           /\ type = IntTypes[n] /\ read % 2^BitsOf(type) = ExactValue(i, base)
  BY <1>1, <1>2, <1>3, ValueRead
<1>9. PICK j : j = i OBVIOUS
<1>10. /\ LiteralAt(j)' = LiteralAt(j) /\ Base(j)' = Base(j)
       /\ ExactValue(j, Base(j))' = ExactValue(j, Base(j))
  BY <1>1, LiteralsStay
<1>11. ReadAs(u)' BY <1>5, <1>7, <1>8, <1>9, <1>10 DEF ReadAs
<1> QED BY <1>6, <1>11 DEF ReadToken

\* Only a number starts with a digit.
LEMMA DigitsApart ==
  /\ Alphas \cap DigitsOf(10) = {} /\ Quotes \cap DigitsOf(10) = {}
  /\ "_" \notin DigitsOf(10) /\ "NUL" \notin DigitsOf(10)
  /\ \A op \in OperatorsAt(i) : At(i) \notin DigitsOf(10)
<1> DEFINE Digits == {"0", "1", "2", "3", "4", "5", "6", "7", "8", "9"}
<1>1. DigitsOf(10) \subseteq Digits
  <2>1. \A n \in 1..10 : HexDigits[n] \in Digits BY DEF HexDigits
  <2> QED BY <2>1 DEF DigitsOf
<1>2. \A n \in 1..26 : Lowers[n] \notin Digits BY DEF Lowers
<1>3. \A n \in 1..26 : Uppers[n] \notin Digits BY DEF Uppers
<1>4. "_" \notin Digits /\ "NUL" \notin Digits /\ Quotes \cap Digits = {} BY Zenon DEF Quotes
<1> HIDE DEF Digits
<1>5. Alphas \cap Digits = {} BY <1>2, <1>3 DEF Alphas
<1>6. ASSUME NEW op \in OperatorsAt(i) PROVE At(i) \notin DigitsOf(10)
  <2>1. At(i) = "." \/ At(i) = "-" \/ At(i) \in FirstChars
    BY FirstOfTwo DEF OperatorsAt, FirstChars
  <2>2. "." \notin Digits /\ "-" \notin Digits BY DEF Digits
  <2> QED BY <1>1, <2>1, <2>2, FirstsAre
<1> QED BY <1>1, <1>4, <1>5, <1>6

\* What is no integer literal is read as it should be.
LEMMA PlainRead ==
  ASSUME text' = text, NEW type, NEW e, NEW val, NEW ident, Push(Tok(type, e, val, ident)),
         At(i) \notin DigitsOf(10) \/ LiteralAt(i).type \in FloatTypes
  PROVE  ReadToken
<1>1. PICK t : t = Tok(type, e, val, ident) OBVIOUS
<1>2. PICK j : j = i OBVIOUS
<1>3. t.at = j BY <1>1, <1>2 DEF Tok
<1>4. toks' = Append(toks, t) BY <1>1 DEF Push
<1>5. At(j)' = At(j) /\ LiteralAt(j)' = LiteralAt(j) BY LiteralsStay
<1>6. ReadAs(t)' BY <1>2, <1>3, <1>5 DEF ReadAs
<1> QED BY <1>4, <1>6 DEF ReadToken

\* Every action adds a token that is read as it should be, or none.
LEMMA ReadSteps ==
  ASSUME Inside, IsSeq(lexDiags), LexNext
  PROVE  text' = text /\ (toks' = toks \/ ReadToken)
<1>1. CASE LineComment BY <1>1 DEF LineComment, Stop
<1>2. CASE BlockComment BY <1>2 DEF BlockComment, Stop
<1>3. CASE Newline \/ Blank \/ UnknownSymbol BY <1>3 DEF Newline, Blank, UnknownSymbol
<1>4. CASE Operator
  <2>1. PICK op \in OperatorsAt(i) : Push(Tok(op.type, i + op.len, 0, 0)) /\ text' = text
    BY <1>4 DEF Operator
  <2> QED BY <2>1, DigitsApart, PlainRead
<1>5. CASE FloatLiteral
  <2>1. LiteralAt(i).type \in FloatTypes BY <1>5 DEF FloatLiteral
  <2>2. Push(Tok(LitToks[LiteralAt(i).type], LiteralAt(i).end, 0, 0)) /\ text' = text
    BY <1>5 DEF FloatLiteral
  <2> QED BY <2>1, <2>2, PlainRead
<1>6. CASE IntLiteral /\ IsFloat(i) BY <1>6 DEF IntLiteral, Stop
<1>7. CASE IntLiteral /\ ~IsFloat(i)
  <2>1. text' = text BY <1>7 DEF IntLiteral
  <2> QED BY <1>7, <2>1, IntLiteralReads
<1>8. CASE CharLiteral \/ StringLiteral
  <2>1. StartsLiteral("'") \/ StartsLiteral("\"") BY <1>8 DEF CharLiteral, StringLiteral
  <2>2. At(i) \in Quotes \cup Alphas \cup {"_"} BY <2>1, Zenon DEF StartsLiteral, Quotes
  <2>3. At(i) \notin DigitsOf(10) BY <2>2, DigitsApart
  <2>4. \/ Stop("overrun") \/ Stop("crash")
        \/ \E type, e : Push(Tok(type, e, 0, 0)) /\ text' = text
    BY <1>8 DEF CharLiteral, StringLiteral
  <2>5. CASE Stop("overrun") \/ Stop("crash") BY <2>5 DEF Stop
  <2>6. CASE \E type, e : Push(Tok(type, e, 0, 0)) /\ text' = text
    BY <2>3, <2>6, PlainRead
  <2> QED BY <2>4, <2>5, <2>6
<1>9. CASE Identifier
  <2>1. At(i) \notin DigitsOf(10) BY <1>9, DigitsApart DEF Identifier
  <2>2. \E type, e, ident : Push(Tok(type, e, 0, ident)) BY <1>9 DEF Identifier
  <2>3. text' = text BY <1>9 DEF Identifier
  <2> QED BY <2>1, <2>2, <2>3, PlainRead
<1>10. CASE EndOfText
  <2>1. At(i) \notin DigitsOf(10) BY <1>10, DigitsApart DEF EndOfText
  <2>2. Push(Tok("END", i, 0, 0)) /\ text' = text BY <1>10 DEF EndOfText
  <2> QED BY <2>1, <2>2, PlainRead
<1> QED BY <1>1, <1>2, <1>3, <1>4, <1>5, <1>6, <1>7, <1>8, <1>9, <1>10 DEF LexNext

AllRead == IsSeq(toks) /\ IsSeq(lexDiags) /\ \A n \in 1..Len(toks) : ReadAs(toks[n])

\* Whatever the source file and the widths of the types, an integer literal
\* has the value its digits denote and the first type C++ allows that holds
\* it, or an error is reported; but for a decimal literal with the suffix l.
THEOREM LexIntLiterals == LexSpec => []IntLiterals
<1>1. LexInit => AllRead
  <2> SUFFICES ASSUME LexInit PROVE AllRead OBVIOUS
  <2>1. toks = <<>> /\ lexDiags = <<>> BY DEF LexInit, LexStart
  <2>2. Len(<<>>) = 0 OBVIOUS
  <2> QED BY <2>1, <2>2, ErrorsAre DEF AllRead
<1>2. Inside /\ AllRead /\ [LexNext]_lexVars => AllRead'
  <2> SUFFICES ASSUME Inside, AllRead, [LexNext]_lexVars PROVE AllRead' OBVIOUS
  <2>1. IsSeq(toks) /\ IsSeq(lexDiags) BY DEF AllRead
  <2>2. /\ text' = text /\ (toks' = toks \/ ReadToken)
        /\ Tells \/ UNCHANGED lexDiags
    BY <2>1, ReadSteps, TokenSteps DEF lexVars
  <2>3. IsSeq(lexDiags)' BY <2>1, <2>2, UnknownStays
  <2>4. \A t : ReadAs(t) => ReadAs(t)' BY <2>1, <2>2, ReadStays
  <2>5. CASE toks' = toks BY <2>1, <2>3, <2>4, <2>5 DEF AllRead
  <2>6. CASE ReadToken
    <3>1. PICK t : toks' = Append(toks, t) /\ ReadAs(t)' BY <2>6 DEF ReadToken
    <3>2. /\ IsSeq(toks') /\ Len(toks) \in Nat /\ Len(toks') = Len(toks) + 1
          /\ \A k \in 1..Len(toks) : toks'[k] = toks[k]
          /\ toks'[Len(toks) + 1] = t
      BY <2>1, <3>1, AppendIs
    <3>3. ASSUME NEW n \in 1..Len(toks') PROVE ReadAs(toks[n])'
      <4>1. PICK s : s = toks'[n] OBVIOUS
      <4>2. CASE n = Len(toks) + 1
        <5>1. s = t BY <3>2, <4>1, <4>2
        <5>2. ReadAs(s)' BY <3>1, <5>1
        <5> QED BY <4>1, <5>2
      <4>3. CASE n # Len(toks) + 1
        <5>1. n \in 1..Len(toks) /\ s = toks[n] BY <3>2, <4>1, <4>3
        <5>2. ReadAs(s) BY <5>1 DEF AllRead
        <5>3. ReadAs(s)' BY <2>4, <5>2
        <5> QED BY <4>1, <5>3
      <4> QED BY <4>2, <4>3
    <3> QED BY <2>3, <3>2, <3>3 DEF AllRead
  <2> QED BY <2>2, <2>5, <2>6
<1>3. AllRead => IntLiterals
  <2> SUFFICES ASSUME AllRead PROVE IntLiterals OBVIOUS
  <2>1. \A n \in 1..Len(toks) : ReadAs(toks[n]) BY DEF AllRead
  <2> QED BY <2>1 DEF IntLiterals, ReadAs
<1> QED BY <1>1, <1>2, <1>3, InsideInit, InsideStep, PTL DEF LexSpec
-----------------------------------------------------------------------------
(***************************************************************************)
(* What clean_diags keeps, and what the errors among diagnostics are.      *)
(***************************************************************************)
\* f holds, for every number n, what is picked of the first n of ds: those at K.
Picks(f, ds, K, S) ==
  /\ f \in [0..Len(ds) -> Seq(S)]
  /\ f[0] = <<>>
  /\ \A n \in 1..Len(ds) : f[n] = IF n \in K THEN Append(f[n - 1], ds[n]) ELSE f[n - 1]

IsPicking(f, ds, K) ==
  f = [n \in 0..Len(ds) |-> IF n = 0 THEN <<>>
                            ELSE IF n \in K THEN Append(f[n - 1], ds[n]) ELSE f[n - 1]]

\* There is such a function.
LEMMA PicksExist ==
  ASSUME NEW S, NEW ds \in Seq(S), NEW K
  PROVE  \E f : IsPicking(f, ds, K)
<1> DEFINE next == [k \in 0+1..Len(ds) |->
                      [s \in Seq(S) |-> IF k \in K THEN Append(s, ds[k]) ELSE s]]
<1>1. next \in [0+1..Len(ds) -> [Seq(S) -> Seq(S)]]
  <2>1. ASSUME NEW k \in 0+1..Len(ds), NEW s \in Seq(S)
        PROVE  (IF k \in K THEN Append(s, ds[k]) ELSE s) \in Seq(S)
    <3>1. k \in 1..Len(ds) OBVIOUS
    <3>2. ds[k] \in S BY <3>1
    <3> QED BY <3>2
  <2> QED BY <2>1
<1>2. <<>> \in Seq(S) /\ 0 \in Int /\ Len(ds) \in Int OBVIOUS
<1> HIDE DEF next
<1>3. PICK f \in [0..Len(ds) -> Seq(S)] : Iteration(f, 0, Len(ds), <<>>, next)
  BY <1>1, <1>2, Iterates
<1>4. f = [k \in 0..Len(ds) |-> IF k = 0 THEN <<>> ELSE next[k][f[k-1]]]
  BY <1>3 DEF Iteration
<1>5. \A k \in 1..Len(ds) : next[k][f[k-1]] = IF k \in K THEN Append(f[k - 1], ds[k]) ELSE f[k - 1]
  <2> SUFFICES ASSUME NEW k \in 1..Len(ds)
               PROVE  next[k][f[k-1]] = IF k \in K THEN Append(f[k - 1], ds[k]) ELSE f[k - 1]
    OBVIOUS
  <2>1. k \in 0+1..Len(ds) /\ k - 1 \in 0..Len(ds) BY <1>2
  <2>2. f[k - 1] \in Seq(S) BY <1>3, <2>1
  <2> QED BY <2>1, <2>2 DEF next
<1>6. IsPicking(f, ds, K)
  <2>1. \A k \in 0..Len(ds) : k # 0 => k \in 1..Len(ds) BY <1>2
  <2> QED BY <1>4, <1>5, <2>1 DEF IsPicking
<1> QED BY <1>6

\* What is so defined is such a function.
LEMMA PickingPicks ==
  ASSUME NEW S, NEW ds \in Seq(S), NEW K, NEW f, IsPicking(f, ds, K)
  PROVE  Picks(f, ds, K, S)
<1>0. Len(ds) \in Nat OBVIOUS
<1>1. f[0] = <<>> BY <1>0 DEF IsPicking
<1>2. ASSUME NEW n \in 1..Len(ds)
      PROVE  f[n] = IF n \in K THEN Append(f[n - 1], ds[n]) ELSE f[n - 1]
  <2>1. n \in 0..Len(ds) /\ n # 0 BY <1>0
  <2> QED BY <2>1 DEF IsPicking
<1>3. \A n \in 0..Len(ds) : f[n] \in Seq(S)
  <2> DEFINE T == {n \in 0..Len(ds) : f[n] \notin Seq(S)}
  <2>1. SUFFICES ASSUME T # {} PROVE FALSE OBVIOUS
  <2>2. T \subseteq Nat BY <1>0
  <2>3. PICK n \in T : \A m \in T : n <= m BY <2>1, <2>2, NatMin
  <2>4. n # 0
    <3>1. f[0] \in Seq(S) BY <1>1
    <3> HIDE DEF IsPicking
    <3>2. 0 \notin T BY <3>1
    <3> QED BY <2>3, <3>2
  <2>5. n \in 1..Len(ds) /\ n - 1 \in 0..Len(ds) /\ ~(n <= n - 1) BY <1>0, <2>3, <2>4
  <2>6. f[n - 1] \in Seq(S) BY <2>3, <2>5
  <2>7. ds[n] \in S BY <2>5
  <2>8. f[n] \in Seq(S)
    <3>1. f[n] = f[n - 1] \/ f[n] = Append(f[n - 1], ds[n]) BY <1>2, <2>5
    <3>2. Append(f[n - 1], ds[n]) \in Seq(S) BY <2>6, <2>7
    <3> QED BY <2>6, <3>1, <3>2
  <2> QED BY <2>3, <2>8
<1>4. f \in [0..Len(ds) -> Seq(S)]
  <2>1. f = [n \in 0..Len(ds) |-> f[n]] BY DEF IsPicking
  <2> HIDE DEF IsPicking
  <2> QED BY <1>3, <2>1
<1> QED BY <1>1, <1>2, <1>4 DEF Picks

KeptOf(ds) == {n \in 1..Len(ds) : ~(n > 1 /\ Repeats(ds[n], ds[n - 1]))}
ErrorsOf(ds) == {n \in 1..Len(ds) : IsError(ds[n])}

\* print_diags prints what is picked by KeptOf; Errors are what is picked by ErrorsOf.
LEMMA CleanPicks ==
  ASSUME NEW S, NEW ds \in Seq(S)
  PROVE  \E f : Picks(f, ds, KeptOf(ds), S) /\ Clean(ds) = f[Len(ds)]
<1>0. Len(ds) \in Nat OBVIOUS
<1> DEFINE IsKept(f) == f = [n \in 0..Len(ds) |->
              IF n = 0 THEN <<>>
              ELSE IF n > 1 /\ Repeats(ds[n], ds[n - 1]) THEN f[n - 1]
              ELSE Append(f[n - 1], ds[n])]
           kept == CHOOSE f : IsKept(f)
<1>1. Clean(ds) = kept[Len(ds)] BY DEF Clean
<1>2. \A f : IsKept(f) <=> IsPicking(f, ds, KeptOf(ds))
  <2>1. \A n \in 0..Len(ds) : n # 0 =>
          (n \in KeptOf(ds) <=> ~(n > 1 /\ Repeats(ds[n], ds[n - 1])))
    BY <1>0 DEF KeptOf
  <2> QED BY <2>1 DEF IsPicking
<1> HIDE DEF IsKept
<1>3. IsKept(kept) BY <1>2, PicksExist
<1>4. IsPicking(kept, ds, KeptOf(ds)) BY <1>2, <1>3
<1> HIDE DEF kept
<1> QED BY <1>1, <1>4, PickingPicks

\* Errors picks the errors.
LEMMA ErrorsPick ==
  ASSUME NEW S, NEW ds \in Seq(S)
  PROVE  \E f : Picks(f, ds, ErrorsOf(ds), S) /\ Errors(ds) = f[Len(ds)]
<1>0. Len(ds) \in Nat OBVIOUS
<1> DEFINE IsErrors(f) == f = [n \in 0..Len(ds) |->
              IF n = 0 THEN <<>>
              ELSE IF IsError(ds[n]) THEN Append(f[n - 1], ds[n])
              ELSE f[n - 1]]
           errors == CHOOSE f : IsErrors(f)
<1>1. Errors(ds) = errors[Len(ds)] BY DEF Errors
<1>2. \A f : IsErrors(f) <=> IsPicking(f, ds, ErrorsOf(ds))
  <2>1. \A n \in 0..Len(ds) : n # 0 => (n \in ErrorsOf(ds) <=> IsError(ds[n]))
    BY <1>0 DEF ErrorsOf
  <2> QED BY <2>1 DEF IsPicking
<1> HIDE DEF IsErrors
<1>3. IsErrors(errors) BY <1>2, PicksExist
<1>4. IsPicking(errors, ds, ErrorsOf(ds)) BY <1>2, <1>3
<1> HIDE DEF errors
<1> QED BY <1>1, <1>4, PickingPicks

\* What is picked of the beginning of a sequence does not depend on the rest.
LEMMA PicksAgree ==
  ASSUME NEW S, NEW ds \in Seq(S), NEW es \in Seq(S), Len(ds) <= Len(es), NEW K, NEW L,
         \A k \in 1..Len(ds) : es[k] = ds[k] /\ (k \in L <=> k \in K),
         NEW f, NEW g, Picks(f, ds, K, S), Picks(g, es, L, S)
  PROVE  \A n \in 0..Len(ds) : g[n] = f[n]
<1> DEFINE T == {n \in 0..Len(ds) : g[n] # f[n]}
<1>0. Len(ds) \in Nat /\ Len(es) \in Nat OBVIOUS
<1>1. SUFFICES ASSUME T # {} PROVE FALSE OBVIOUS
<1>2. T \subseteq Nat BY <1>0
<1>3. PICK n \in T : \A m \in T : n <= m BY <1>1, <1>2, NatMin
<1>4. n # 0 BY <1>3 DEF Picks
<1>5. n \in 1..Len(ds) /\ n \in 1..Len(es) /\ n - 1 \in 0..Len(ds) /\ ~(n <= n - 1)
  BY <1>0, <1>3, <1>4
<1>6. g[n - 1] = f[n - 1] BY <1>3, <1>5
<1>7. g[n] = f[n] BY <1>5, <1>6 DEF Picks
<1> QED BY <1>3, <1>7

\* No diagnostics, no errors.
LEMMA ErrorsOfNone == Errors(<<>>) = <<>>
<1>1. <<>> \in Seq({}) /\ Len(<<>>) = 0 OBVIOUS
<1>2. PICK h : Picks(h, <<>>, ErrorsOf(<<>>), {}) /\ Errors(<<>>) = h[Len(<<>>)]
  BY <1>1, ErrorsPick
<1> QED BY <1>1, <1>2 DEF Picks

\* The errors of a sequence are those of its beginning and of its last element.
LEMMA ErrorsAppend ==
  ASSUME NEW S, NEW s \in Seq(S), NEW e \in S
  PROVE  /\ Errors(s) \in Seq(S)
         /\ Errors(Append(s, e)) = IF IsError(e) THEN Append(Errors(s), e) ELSE Errors(s)
<1>1. PICK f : Picks(f, s, ErrorsOf(s), S) /\ Errors(s) = f[Len(s)] BY ErrorsPick
<1>2. PICK t \in Seq(S) : t = Append(s, e)
  <2>1. Append(s, e) \in Seq(S) OBVIOUS
  <2> QED BY <2>1
<1>3. PICK g : Picks(g, t, ErrorsOf(t), S) /\ Errors(t) = g[Len(t)] BY ErrorsPick
<1>4. /\ Len(s) \in Nat /\ Len(t) = Len(s) + 1 /\ t[Len(t)] = e
      /\ \A k \in 1..Len(s) : t[k] = s[k]
  BY <1>2
<1>5. \A k \in 1..Len(s) : k \in ErrorsOf(t) <=> k \in ErrorsOf(s) BY <1>4 DEF ErrorsOf
<1>6. \A n \in 0..Len(s) : g[n] = f[n]
  <2>1. \A k \in 1..Len(s) : t[k] = s[k] /\ (k \in ErrorsOf(t) <=> k \in ErrorsOf(s))
    BY <1>4, <1>5
  <2>2. Len(s) <= Len(t) BY <1>4
  <2> QED BY <1>1, <1>3, <2>1, <2>2, PicksAgree
<1>7. Len(t) \in 1..Len(t) /\ Len(t) - 1 = Len(s) /\ Len(s) \in 0..Len(s) BY <1>4
<1>8. g[Len(t)] = IF Len(t) \in ErrorsOf(t) THEN Append(g[Len(s)], e) ELSE g[Len(s)]
  BY <1>3, <1>4, <1>7 DEF Picks
<1>9. Len(t) \in ErrorsOf(t) <=> IsError(e) BY <1>4, <1>7 DEF ErrorsOf
<1>10. Errors(t) = IF IsError(e) THEN Append(Errors(s), e) ELSE Errors(s)
  BY <1>1, <1>3, <1>6, <1>7, <1>8, <1>9
<1>11. Errors(s) \in Seq(S) BY <1>1, <1>7 DEF Picks
<1> QED BY <1>2, <1>10, <1>11

\* Diagnostics of which none is dropped that is not there twice: no error
\* has the number of a note, and warnings that stand at the same place and say the
\* same are the same.
Tidy(ds) ==
  /\ \A m, n \in 1..Len(ds) : ds[m].type = "NOTE" /\ ds[n].type = "ERROR" => ds[m].err # ds[n].err
  /\ \A m, n \in 1..Len(ds) :
       /\ ds[m].type = "WARNING" /\ ds[n].type = "WARNING"
       /\ ds[m].line = ds[n].line /\ ds[m].column = ds[n].column /\ ds[m].err = ds[n].err
       => ds[m] = ds[n]

\* What print_diags drops is a warning, and stands before it too.
LEMMA DroppedIs ==
  ASSUME NEW ds, Len(ds) \in Nat, Tidy(ds), NEW n \in 1..Len(ds), n \notin KeptOf(ds)
  PROVE  n - 1 \in 1..Len(ds) /\ ds[n] = ds[n - 1] /\ ~IsError(ds[n])
<1>1. n > 1 /\ Repeats(ds[n], ds[n - 1]) BY DEF KeptOf
<1>2. n - 1 \in 1..Len(ds) BY <1>1
<1> QED BY <1>1, <1>2 DEF Repeats, SameKind, Tidy, IsError

\* print_diags keeps every error, in its order.
LEMMA CleanErrors ==
  ASSUME NEW S, NEW ds \in Seq(S), Tidy(ds)
  PROVE  Errors(Clean(ds)) = Errors(ds)
<1>1. PICK f : Picks(f, ds, KeptOf(ds), S) /\ Clean(ds) = f[Len(ds)] BY CleanPicks
<1>2. PICK g : Picks(g, ds, ErrorsOf(ds), S) /\ Errors(ds) = g[Len(ds)] BY ErrorsPick
<1>3. PICK b \in Nat : b = Len(ds) OBVIOUS
<1> DEFINE T == {n \in 0..b : Errors(f[n]) # g[n]}
<1>4. T = {}
  <2>1. SUFFICES ASSUME T # {} PROVE FALSE OBVIOUS
  <2>2. \A n \in 0..b : n \in Nat BY <1>3
  <2>3. T \subseteq Nat BY <2>2
  <2>4. PICK n \in T : \A m \in T : n <= m BY <2>1, <2>3, NatMin
  <2>5. n # 0
    <3>1. <<>> \in Seq(S) OBVIOUS
    <3>2. Errors(<<>>) = <<>> BY <3>1, ErrorsOfNone
    <3> QED BY <1>1, <1>2, <2>4, <3>2 DEF Picks
  <2>6. n \in 1..b /\ n - 1 \in 0..b /\ ~(n <= n - 1) BY <2>4, <2>5
  <2>7. Errors(f[n - 1]) = g[n - 1] BY <2>4, <2>6
  <2>8. PICK s \in Seq(S), e \in S : s = f[n - 1] /\ e = ds[n]
    <3>1. f[n - 1] \in Seq(S) BY <1>1, <1>3, <2>6 DEF Picks
    <3>2. ds[n] \in S BY <1>3, <2>6
    <3> QED BY <3>1, <3>2
  <2>9. Errors(Append(s, e)) = IF IsError(e) THEN Append(Errors(s), e) ELSE Errors(s)
    BY ErrorsAppend
  <2>10. g[n] = IF IsError(e) THEN Append(g[n - 1], e) ELSE g[n - 1]
    <3>1. n \in ErrorsOf(ds) <=> IsError(e) BY <1>3, <2>6, <2>8 DEF ErrorsOf
    <3> QED BY <1>2, <1>3, <2>6, <2>8, <3>1 DEF Picks
  <2>11. CASE n \in KeptOf(ds)
    <3>1. f[n] = Append(s, e) BY <1>1, <1>3, <2>6, <2>8, <2>11 DEF Picks
    <3>2. Errors(f[n]) = g[n] BY <2>7, <2>8, <2>9, <2>10, <3>1
    <3> QED BY <2>4, <3>2
  <2>12. CASE n \notin KeptOf(ds)
    <3>1. f[n] = s BY <1>1, <1>3, <2>6, <2>8, <2>12 DEF Picks
    <3>2. ~IsError(e) BY <1>3, <2>6, <2>8, <2>12, DroppedIs
    <3>3. Errors(f[n]) = g[n] BY <2>7, <2>8, <2>10, <3>1, <3>2
    <3> QED BY <2>4, <3>3
  <2> QED BY <2>11, <2>12
<1>5. b \in 0..b OBVIOUS
<1> QED BY <1>1, <1>2, <1>3, <1>4, <1>5

\* What print_diags makes of the first n diagnostics of ds.
Printing(s, ds, n) ==
  /\ PushedBy(s) = {ds[m] : m \in 1..n}
  /\ n > 0 => Len(s) > 0 /\ s[Len(s)] = ds[n]
  /\ \A k \in 1..Len(s)-1 : s[k].type = "WARNING" => s[k] # s[k + 1]

\* One more diagnostic is printed.
LEMMA PrintsNext ==
  ASSUME NEW S, NEW ds \in Seq(S), Tidy(ds), NEW n \in 1..Len(ds), n \in KeptOf(ds),
         NEW s \in Seq(S), Printing(s, ds, n - 1)
  PROVE  Printing(Append(s, ds[n]), ds, n)
<1>1. PICK e \in S : e = ds[n] OBVIOUS
<1>2. PICK t \in Seq(S) : t = Append(s, e)
  <2>1. Append(s, e) \in Seq(S) OBVIOUS
  <2> QED BY <2>1
<1>3. PICK a \in Nat : a = Len(s) OBVIOUS
<1>4. Len(t) = a + 1 /\ t[a + 1] = e /\ \A k \in 1..a : t[k] = s[k] BY <1>2, <1>3
<1>5. PushedBy(t) = {ds[m] : m \in 1..n}
  <2>1. PushedBy(s) = {s[k] : k \in 1..a} /\ PushedBy(t) = {t[k] : k \in 1..a+1}
    BY <1>3, <1>4 DEF PushedBy
  <2>2. {t[k] : k \in 1..a+1} = {s[k] : k \in 1..a} \cup {e}
    <3>1. \A k \in 1..a+1 : k \in 1..a \/ k = a + 1 BY <1>3
    <3>2. \A k \in 1..a : k \in 1..a+1 BY <1>3
    <3>3. a + 1 \in 1..a+1 BY <1>3
    <3> QED BY <1>4, <3>1, <3>2, <3>3
  <2>3. {ds[m] : m \in 1..n} = {ds[m] : m \in 1..n-1} \cup {ds[n]}
    <3>1. \A m \in 1..n : m \in 1..n-1 \/ m = n OBVIOUS
    <3>2. \A m \in 1..n-1 : m \in 1..n OBVIOUS
    <3>3. n \in 1..n OBVIOUS
    <3> QED BY <3>1, <3>2, <3>3
  <2> QED BY <1>1, <2>1, <2>2, <2>3 DEF Printing
<1>6. \A k \in 1..Len(t)-1 : t[k].type = "WARNING" => t[k] # t[k + 1]
  <2> SUFFICES ASSUME NEW k \in 1..a PROVE t[k].type = "WARNING" => t[k] # t[k + 1] BY <1>3, <1>4
  <2>1. CASE k < a
    <3>1. k \in 1..Len(s)-1 /\ k + 1 \in 1..a BY <1>3, <2>1
    <3> QED BY <1>4, <3>1 DEF Printing
  <2>2. CASE k = a /\ n > 1
    <3>1. t[k] = ds[n - 1] /\ t[k + 1] = ds[n]
      <4>1. s[Len(s)] = ds[n - 1] BY <2>2 DEF Printing
      <4> QED BY <1>1, <1>3, <1>4, <2>2, <4>1
    <3>2. ~Repeats(ds[n], ds[n - 1]) BY <2>2 DEF KeptOf
    <3> QED BY <3>1, <3>2 DEF Repeats, SameKind
  <2>3. CASE n = 1
    <3>1. PushedBy(s) = {} BY <2>3 DEF Printing
    <3>2. s[k] \in PushedBy(s) BY <1>3 DEF PushedBy
    <3> QED BY <3>1, <3>2
  <2> QED BY <1>3, <2>1, <2>2, <2>3
<1>7. Len(t) > 0 /\ t[Len(t)] = ds[n] BY <1>1, <1>4
<1>8. Printing(t, ds, n) BY <1>5, <1>6, <1>7 DEF Printing
<1> QED BY <1>1, <1>2, <1>8

\* print_diags prints everything at least once, and no warning twice in a row.
LEMMA CleanAll ==
  ASSUME NEW S, NEW ds \in Seq(S), Tidy(ds)
  PROVE  /\ PushedBy(Clean(ds)) = PushedBy(ds)
         /\ \A k \in 1..Len(Clean(ds))-1 :
              Clean(ds)[k].type = "WARNING" => Clean(ds)[k] # Clean(ds)[k + 1]
         /\ Clean(ds) \in Seq(S)
<1>1. PICK f : Picks(f, ds, KeptOf(ds), S) /\ Clean(ds) = f[Len(ds)] BY CleanPicks
<1>3. PICK b \in Nat : b = Len(ds) OBVIOUS
<1> DEFINE T == {n \in 0..b : ~Printing(f[n], ds, n)}
<1>4. T = {}
  <2>1. SUFFICES ASSUME T # {} PROVE FALSE OBVIOUS
  <2>2. \A n \in 0..b : n \in Nat BY <1>3
  <2>3. T \subseteq Nat BY <2>2
  <2>4. PICK n \in T : \A m \in T : n <= m BY <2>1, <2>3, NatMin
  <2>5. n # 0
    <3>1. Printing(<<>>, ds, 0) BY DEF Printing, PushedBy
    <3> QED BY <1>1, <2>4, <3>1 DEF Picks
  <2>6. n \in 1..b /\ n - 1 \in 0..b /\ ~(n <= n - 1) BY <2>4, <2>5
  <2>7. Printing(f[n - 1], ds, n - 1) BY <2>4, <2>6
  <2>8. PICK s \in Seq(S) : s = f[n - 1]
    <3>1. f[n - 1] \in Seq(S) BY <1>1, <1>3, <2>6 DEF Picks
    <3> QED BY <3>1
  <2>9. n \in 1..Len(ds) BY <1>3, <2>6
  <2>11. CASE n \in KeptOf(ds)
    <3>1. f[n] = Append(s, ds[n]) BY <1>1, <2>8, <2>9, <2>11 DEF Picks
    <3>2. Printing(s, ds, n - 1) BY <2>7, <2>8
    <3>3. Printing(f[n], ds, n) BY <2>9, <2>11, <3>1, <3>2, PrintsNext
    <3> QED BY <2>4, <3>3
  <2>12. CASE n \notin KeptOf(ds)
    <3>1. f[n] = s BY <1>1, <2>8, <2>9, <2>12 DEF Picks
    <3>2. n - 1 \in 1..Len(ds) /\ ds[n] = ds[n - 1]
      <4>1. Len(ds) \in Nat OBVIOUS
      <4> QED BY <2>9, <2>12, <4>1, DroppedIs
    <3>3. {ds[m] : m \in 1..n} = {ds[m] : m \in 1..n-1}
      <4>1. \A m \in 1..n : m \in 1..n-1 \/ m = n BY <2>9
      <4>2. \A m \in 1..n-1 : m \in 1..n BY <2>9
      <4>3. n - 1 \in 1..n-1 BY <3>2
      <4> QED BY <3>2, <4>1, <4>2, <4>3
    <3>4. Printing(s, ds, n - 1) BY <2>7, <2>8
    <3>5. n - 1 > 0 BY <3>2
    <3>6. Printing(s, ds, n) BY <3>2, <3>3, <3>4, <3>5 DEF Printing
    <3>7. Printing(f[n], ds, n) BY <3>1, <3>6
    <3> QED BY <2>4, <3>7
  <2> QED BY <2>11, <2>12
<1>5. b \in 0..b OBVIOUS
<1>6. Printing(f[b], ds, b) BY <1>4, <1>5
<1>7. f[b] \in Seq(S) BY <1>1, <1>3 DEF Picks
<1>8. PushedBy(ds) = {ds[m] : m \in 1..b} BY <1>3 DEF PushedBy
<1> QED BY <1>1, <1>3, <1>6, <1>7, <1>8 DEF Printing

-----------------------------------------------------------------------------
(***************************************************************************)
(* The lines of the tokens, and what the tokenizer reports.                *)
(***************************************************************************)
\* Tokens that are on the same line by their position name the same line of the text.
SameLines ==
  /\ IsSeq(toks)
  /\ \A n \in 1..Len(toks) :
       /\ toks[n].line \in Int /\ toks[n].line <= pos.line
       /\ toks[n].line = pos.line => toks[n].lineStart = lineStart
  /\ \A m, n \in 1..Len(toks) :
       toks[m].line = toks[n].line => toks[m].lineStart = toks[n].lineStart

\* A step takes a token on the line the tokenizer is on, or goes on to another
\* that is at most as many lines further as there are characters.
OnLine ==
  /\ i' \in Int /\ i' >= i
  /\ pos'.line = pos.line /\ pos'.column >= pos.column /\ lineStart' = lineStart
  /\ \/ toks' = toks
     \/ \E t : toks' = Append(toks, t) /\ t.line = pos.line /\ t.lineStart = lineStart
NextLines ==
  /\ i' \in Int /\ i' >= i
  /\ pos'.line > pos.line /\ pos'.line <= pos.line + (i' - i) /\ pos'.column \in Nat
  /\ lineStart' \in {lineStart, i'}
  /\ toks' = toks

\* A token, or a comment or a blank without a newline, stays on the line.
LEMMA CarriesOnLine ==
  ASSUME Located, NEW type, NEW e \in Int, NEW val, NEW ident, i \in Int, e >= i,
         Push(Tok(type, e, val, ident)) \/ toks' = toks, Goto(e), UNCHANGED lineStart
  PROVE  OnLine
<1>1. PICK t : t = Tok(type, e, val, ident) OBVIOUS
<1>2. t.line = pos.line /\ t.lineStart = lineStart BY <1>1 DEF Tok
<1>3. toks' = Append(toks, t) \/ toks' = toks BY <1>1 DEF Push
<1>4. pos'.line = pos.line /\ pos'.column >= pos.column
  <2>1. PICK d \in Int : d = e - i /\ d >= 0 OBVIOUS
  <2>2. pos' = [pos EXCEPT !.column = @ + d] BY <2>1 DEF Goto
  <2>3. pos'.line = pos.line /\ pos'.column = pos.column + d BY <2>2, ColumnMoved DEF Located
  <2>4. pos.column \in Int BY DEF Located
  <2> QED BY <2>1, <2>3, <2>4
<1>5. i' \in Int /\ i' >= i BY DEF Goto
<1> QED BY <1>2, <1>3, <1>4, <1>5 DEF OnLine

\* Every step is of one of the two kinds.
LEMMA LineSteps ==
  ASSUME Inside, Located, LexNext
  PROVE  OnLine \/ NextLines
<1>0. text \in Texts /\ Len(text) \in Nat /\ i \in Nat \ {0} BY InsideIn
<1>p. pos.line \in Int /\ pos.column \in Int BY DEF Located
<1>s. ASSUME NEW how, Stop(how) PROVE OnLine BY <1>0, <1>p, <1>s DEF Stop, OnLine
<1>t. ASSUME NEW type, NEW e, NEW val, NEW ident, Push(Tok(type, e, val, ident)), Goto(e),
             i' \in Int, i' >= i, UNCHANGED lineStart
      PROVE  OnLine
  <2>1. e \in Int /\ e >= i BY <1>t DEF Goto
  <2> QED BY <1>0, <1>t, <2>1, CarriesOnLine
<1>m. Moves => i' \in Int /\ i' >= i BY <1>0 DEF Moves
<1>1. CASE LineComment
  <2>1. CASE HasNext(i + 1, {"\n"})
    <3>1. Next1(i + 1, {"\n"}) \in i+1..Len(text)
      <4>1. i + 1 \in Nat \ {0} BY <1>0
      <4> QED BY <1>0, <2>1, <4>1, Next1In
    <3>2. PICK e \in Int : e = Next1(i + 1, {"\n"}) /\ e >= i BY <1>0, <3>1
    <3>3. Goto(e) /\ toks' = toks /\ UNCHANGED lineStart BY <1>1, <2>1, <3>2 DEF LineComment
    <3> QED BY <1>0, <3>2, <3>3, CarriesOnLine
  <2>2. CASE ~HasNext(i + 1, {"\n"}) BY <1>1, <2>2, <1>s DEF LineComment
  <2> QED BY <2>1, <2>2
<1>2. CASE BlockComment
  <2>1. CASE \E k \in i+2..Len(text) : Closes(k)
    <3>1. PICK k \in i+2..Len(text) : SkipTo(k, Newlines(i + 2, k))
      BY <1>2, <2>1 DEF BlockComment
    <3>2. toks' = toks /\ lineStart' = lineStart BY <1>2, <2>1 DEF BlockComment
    <3>3. PICK newlines : newlines = Newlines(i + 2, k) OBVIOUS
    <3>4. Cardinality(newlines) \in Nat /\ Cardinality(newlines) <= k - i - 1
      <4>1. PICK a \in Int, b \in Int : a = i + 2 /\ b = k /\ a <= b BY <1>0
      <4>2. IsFiniteSet(a..b) /\ Cardinality(a..b) = IF a > b THEN 0 ELSE b - a + 1
        BY <4>1, FS_Interval
      <4>3. newlines \subseteq a..b BY <3>3, <4>1 DEF Newlines
      <4>4. IsFiniteSet(newlines) /\ Cardinality(newlines) <= Cardinality(a..b)
        BY <4>2, <4>3, FS_Subset
      <4>5. Cardinality(newlines) \in Nat BY <4>4, FS_CardinalityType
      <4>6. Cardinality(a..b) = b - a + 1 BY <4>1, <4>2
      <4> QED BY <1>0, <4>1, <4>4, <4>5, <4>6
    <3>5. pos.line \in Int BY DEF Located
    <3>8. i' = k + 2 /\ i' \in Int /\ i' >= i BY <1>0, <3>1 DEF SkipTo
    <3>6. CASE newlines = {}
      <4>1. PICK d \in Int : d = k - i - 1 /\ d >= 0 BY <1>0
      <4>2. pos' = [pos EXCEPT !.column = @ + d] BY <3>1, <3>3, <3>6, <4>1 DEF SkipTo
      <4>3. pos'.line = pos.line /\ pos'.column = pos.column + d
        BY <4>2, ColumnMoved DEF Located
      <4>4. pos'.column >= pos.column BY <1>p, <4>1, <4>3
      <4> QED BY <3>2, <3>8, <4>3, <4>4 DEF OnLine
    <3>7. CASE newlines # {}
      <4>1. /\ pos'.line = pos.line + Cardinality(newlines)
            /\ pos'.column = k - Max(newlines) + 2
        BY <3>1, <3>3, <3>7 DEF SkipTo
      <4>2. pos'.line > pos.line
        <5>1. IsFiniteSet(newlines)
          <6>1. PICK a \in Int, b \in Int : a = i + 2 /\ b = k BY <1>0
          <6>2. newlines \subseteq a..b BY <3>3, <6>1 DEF Newlines
          <6> QED BY <6>2, FS_Interval, FS_Subset
        <5>2. Cardinality(newlines) # 0 BY <3>7, <5>1, FS_EmptySet
        <5> QED BY <3>4, <3>5, <4>1, <5>2
      <4>3. pos'.line <= pos.line + (i' - i) BY <1>0, <3>4, <3>5, <3>8, <4>1
      <4>4. Max(newlines) \in newlines
        <5>1. newlines \subseteq i+2..k BY <3>3 DEF Newlines
        <5>2. PICK n \in Nat : n = k BY <1>0
        <5>3. newlines \subseteq 0..n BY <1>0, <5>1, <5>2
        <5> QED BY <3>7, <5>3, MaxIn
      <4>5. pos'.column \in Nat
        <5>1. Max(newlines) \in i+2..k BY <3>3, <4>4 DEF Newlines
        <5>2. PICK m \in Int : m = Max(newlines) /\ m <= k BY <1>0, <5>1
        <5> QED BY <1>0, <4>1, <5>2
      <4> QED BY <3>2, <3>8, <4>2, <4>3, <4>5 DEF NextLines
    <3> QED BY <3>6, <3>7
  <2>2. CASE ~\E k \in i+2..Len(text) : Closes(k) BY <1>2, <2>2, <1>s DEF BlockComment
  <2> QED BY <2>1, <2>2
<1>3. CASE Newline
  <2>1. /\ i' = i + 1 /\ lineStart' = i + 1 /\ toks' = toks
        /\ pos' = [line |-> pos.line + 1, column |-> 1]
    BY <1>3 DEF Newline
  <2> QED BY <1>0, <1>p, <2>1 DEF NextLines
<1>4. CASE Blank
  <2>1. i + 1 \in Int /\ i + 1 >= i BY <1>0
  <2> QED BY <1>0, <1>4, <2>1, CarriesOnLine DEF Blank
<1>5. CASE Operator
  <2>1. PICK op \in OperatorsAt(i) : Push(Tok(op.type, i + op.len, 0, 0)) /\ Goto(i + op.len)
    BY <1>5 DEF Operator
  <2>2. UNCHANGED lineStart BY <1>5 DEF Operator
  <2> QED BY <1>5, <1>m, <1>t, <2>1, <2>2, OperatorStep
<1>6. CASE FloatLiteral BY <1>6, <1>m, <1>t, FloatLiteralStep DEF FloatLiteral
<1>7. CASE IntLiteral
  <2>1. CASE IsFloat(i) BY <1>7, <2>1, <1>s DEF IntLiteral
  <2>2. CASE ~IsFloat(i)
    <3>1. \E type, val : /\ Push(Tok(type, LiteralAt(i).end, val, 0)) /\ Goto(LiteralAt(i).end)
      BY <1>7, <2>2 DEF IntLiteral, PushInt
    <3>2. UNCHANGED lineStart /\ i' = LiteralAt(i).end BY <1>7, <2>2 DEF IntLiteral, PushInt, Goto
    <3>3. i' \in Int /\ i' >= i BY <1>0, <1>7, <2>2, <3>2, NumberStarts DEF IntLiteral
    <3> QED BY <1>t, <3>1, <3>2, <3>3
  <2> QED BY <2>1, <2>2
<1>8. CASE CharLiteral \/ StringLiteral
  <2>1. \/ \E how : Stop(how)
        \/ /\ \E type, e : Push(Tok(type, e, 0, 0)) /\ Goto(e)
           /\ UNCHANGED <<lineStart, lexing>>
    BY <1>8 DEF CharLiteral, StringLiteral
  <2>2. CASE ~\E how : Stop(how)
    <3>1. PICK type, e : Push(Tok(type, e, 0, 0)) /\ Goto(e) BY <2>1, <2>2
    <3>2. UNCHANGED <<lineStart, lexing>> BY <2>1, <2>2
    <3>3. lexing = "run" BY <1>8 DEF CharLiteral, StringLiteral
    <3>4. Moves BY <1>8, <3>2, <3>3, CharLiteralStep, StringLiteralStep DEF Halts
    <3> QED BY <1>m, <1>t, <3>1, <3>2, <3>4
  <2> QED BY <2>2, <1>s
<1>9. CASE Identifier
  <2>1. \E type, e, ident : Push(Tok(type, e, 0, ident)) /\ Goto(e)
    BY <1>9 DEF Identifier
  <2>2. UNCHANGED lineStart BY <1>9 DEF Identifier
  <2> QED BY <1>9, <1>m, <1>t, <2>1, <2>2, IdentifierStep
<1>10. CASE UnknownSymbol
  <2>1. toks' = toks /\ lineStart' = lineStart /\ pos' = [pos EXCEPT !.column = @ + 1]
    BY <1>10 DEF UnknownSymbol
  <2>2. pos'.line = pos.line /\ pos'.column = pos.column + 1
    BY <2>1, ColumnMoved DEF Located
  <2>3. Moves BY <1>10, UnknownSymbolStep
  <2>4. pos'.column >= pos.column BY <1>p, <2>2
  <2> QED BY <1>m, <2>1, <2>2, <2>3, <2>4 DEF OnLine
<1>11. CASE EndOfText
  <2>1. PICK t : t = Tok("END", i, 0, 0) OBVIOUS
  <2>2. t.line = pos.line /\ t.lineStart = lineStart BY <2>1 DEF Tok
  <2>3. toks' = Append(toks, t) /\ pos' = pos /\ lineStart' = lineStart /\ i' = i
    BY <1>11, <2>1 DEF EndOfText, Push
  <2> QED BY <1>0, <1>p, <2>2, <2>3 DEF OnLine
<1> QED BY <1>1, <1>2, <1>3, <1>4, <1>5, <1>6, <1>7, <1>8, <1>9, <1>10, <1>11 DEF LexNext

\* So the tokens of a line keep its start.
LEMMA SameLinesStep ==
  ASSUME Inside, Located, Located', SameLines, [LexNext]_lexVars
  PROVE  SameLines'
<1>1. CASE UNCHANGED lexVars BY <1>1 DEF lexVars, SameLines
<1>2. CASE LexNext /\ toks' = toks
  <2>1. PICK l \in Int, k \in Int : l = pos.line /\ k = pos'.line BY DEF Located
  <2>2. (k = l /\ lineStart' = lineStart) \/ k > l
    BY <1>2, <2>1, LineSteps DEF OnLine, NextLines
  <2>3. ASSUME NEW n \in 1..Len(toks)
        PROVE  toks[n].line \in Int /\ toks[n].line <= k
               /\ (toks[n].line = k => toks[n].lineStart = lineStart')
    <3>1. /\ toks[n].line \in Int /\ toks[n].line <= l
          /\ toks[n].line = l => toks[n].lineStart = lineStart
      BY <2>1 DEF SameLines
    <3> QED BY <2>2, <3>1
  <2> QED BY <1>2, <2>1, <2>3 DEF SameLines
<1>3. CASE LexNext /\ toks' # toks
  <2>1. /\ pos'.line = pos.line /\ lineStart' = lineStart
        /\ \E t : toks' = Append(toks, t) /\ t.line = pos.line /\ t.lineStart = lineStart
    BY <1>3, LineSteps DEF OnLine, NextLines
  <2>2. PICK t : toks' = Append(toks, t) /\ t.line = pos.line /\ t.lineStart = lineStart
    BY <2>1
  <2>3. /\ IsSeq(toks') /\ Len(toks) \in Nat /\ Len(toks') = Len(toks) + 1
        /\ \A k \in 1..Len(toks) : toks'[k] = toks[k]
        /\ toks'[Len(toks) + 1] = t
    BY <2>2, AppendIs DEF SameLines
  <2>4. PICK l \in Int : l = pos.line BY DEF Located
  <2>5. PICK ls : ls = lineStart OBVIOUS
  <2>6. ASSUME NEW n \in 1..Len(toks') PROVE n \in 1..Len(toks) \/ toks'[n] = t BY <2>3
  <2>7. ASSUME NEW n \in 1..Len(toks')
        PROVE  toks'[n].line \in Int /\ toks'[n].line <= l
               /\ (toks'[n].line = l => toks'[n].lineStart = ls)
    <3>1. CASE n \in 1..Len(toks) BY <2>3, <2>4, <2>5, <3>1 DEF SameLines
    <3>2. CASE toks'[n] = t BY <2>2, <2>4, <2>5, <3>2
    <3> QED BY <2>6, <3>1, <3>2
  <2>8. ASSUME NEW m \in 1..Len(toks'), NEW n \in 1..Len(toks'), toks'[m].line = toks'[n].line
        PROVE  toks'[m].lineStart = toks'[n].lineStart
    <3>1. CASE m \in 1..Len(toks) /\ n \in 1..Len(toks) BY <2>3, <2>8, <3>1 DEF SameLines
    <3>2. CASE toks'[m] = t \/ toks'[n] = t
      <4>1. toks'[m].line = l /\ toks'[n].line = l BY <2>2, <2>4, <2>8, <3>2
      <4> QED BY <2>7, <4>1
    <3> QED BY <2>6, <3>1, <3>2
  <2> QED BY <2>1, <2>3, <2>4, <2>5, <2>7, <2>8 DEF SameLines
<1> QED BY <1>1, <1>2, <1>3

\* The tokenizer reports only errors.
Told == IsSeq(lexDiags) /\ AreErrors(lexDiags)

\* The tokenizer reports errors only, each at a place of its own.
LEMMA ToldStep ==
  ASSUME Inside, Told, [LexNext]_lexVars PROVE Told'
<1>1. Tells \/ UNCHANGED lexDiags BY TokenSteps DEF Told, lexVars
<1>2. CASE Tells
  <2>1. PICK errs : AreErrors(errs) /\ lexDiags' = lexDiags \o errs BY <1>2 DEF Tells
  <2>2. AreErrors(lexDiags \o errs) BY <2>1, ComplaintsJoin DEF Told
  <2> QED BY <2>1, <2>2 DEF Told, AreErrors
<1> QED BY <1>1, <1>2 DEF Told, AreErrors

-----------------------------------------------------------------------------
(***************************************************************************)
(* What is printed, and the exit status.                                   *)
(***************************************************************************)
\* What is known of the tokenizer while it runs, and of its tokens behind it.
Tokens == Inside /\ Reads /\ Placing /\ Located /\ SameLines /\ Told

Pushed == diags \in Seq(Diagnostics) /\ \A n \in 1..Len(diags) : AboutToken(diags[n])

\* Nothing is printed before the tokenizer is done, and the parser starts only
\* where the tokenizer had nothing to report.
Printed ==
  /\ phase = "lex" => printed = <<>> /\ diags = <<>>
  /\ phase \in {"parse", "inst", "end"} => printed = <<>> /\ lexDiags = <<>>
  /\ phase = "exit" =>
       \/ /\ diags = <<>> /\ printed = Clean(lexDiags)
          /\ AnyError(printed) /\ status = 1
       \/ /\ lexDiags = <<>> /\ printed = Clean(diags)
          /\ Is(at, {"END"}) /\ status = IF AnyError(printed) THEN 1 ELSE 0

\* The diagnostics of each phase are tidy.
LEMMA LexTidy == Told => Tidy(lexDiags)
BY DEF Told, AreErrors, Tidy

\* and those of the parser, each about a token.
LEMMA ParserTidy ==
  ASSUME SameLines, Pushed PROVE Tidy(diags)
<1>1. ASSUME NEW n \in 1..Len(diags)
      PROVE  /\ diags[n].type = "NOTE" => diags[n].err = FirstErr
             /\ diags[n].type = "ERROR" => diags[n].err # FirstErr
             /\ \E j \in 1..Len(toks) : diags[n] = DiagAt(diags[n].type, diags[n].err, j)
  <2>1. diags[n] \in Diagnostics BY DEF Pushed
  <2> QED BY <2>1 DEF Pushed, AboutToken, Diagnostics, DiagsOf
<1>2. ASSUME NEW m \in 1..Len(diags), NEW n \in 1..Len(diags),
             diags[m].type = "WARNING", diags[n].type = "WARNING",
             diags[m].line = diags[n].line, diags[m].column = diags[n].column,
             diags[m].err = diags[n].err
      PROVE  diags[m] = diags[n]
  <2>1. PICK j \in 1..Len(toks) : diags[m] = DiagAt(diags[m].type, diags[m].err, j) BY <1>1
  <2>2. PICK k \in 1..Len(toks) : diags[n] = DiagAt(diags[n].type, diags[n].err, k) BY <1>1
  <2>3. diags[m].line = toks[j].line /\ diags[n].line = toks[k].line BY <2>1, <2>2 DEF DiagAt
  <2>4. diags[m].column = toks[j].column /\ diags[n].column = toks[k].column
    BY <2>1, <2>2 DEF DiagAt
  <2>5. toks[j].lineStart = toks[k].lineStart BY <1>2, <2>3 DEF SameLines
  <2> QED BY <1>2, <2>1, <2>2, <2>3, <2>4, <2>5 DEF DiagAt
<1> QED BY <1>1, <1>2 DEF Tidy

\* An error is printed exactly if one was reported.
LEMMA AnyErrorClean ==
  ASSUME NEW S, NEW ds \in Seq(S), Tidy(ds)
  PROVE  AnyError(Clean(ds)) <=> \E d \in PushedBy(ds) : IsError(d)
<1>1. PushedBy(Clean(ds)) = PushedBy(ds) BY CleanAll
<1>2. \A es : AnyError(es) <=> \E d \in PushedBy(es) : IsError(d) BY DEF AnyError, PushedBy, IsError
<1> QED BY <1>1, <1>2

\* An index of a token is one for the other phases too.
LEMMA ReportsPushed ==
  ASSUME Pushed, Reports PROVE Pushed'
<1>1. diags' \in Seq(Diagnostics) /\ toks' = toks BY DEF Reports, lexVars
<1>2. \A n \in 1..Len(diags) : diags'[n] = diags[n]
  <2>1. Len(diags) <= Len(diags') /\ SubSeq(diags, 1, Len(diags)) = SubSeq(diags', 1, Len(diags))
    BY DEF Reports, IsPrefix
  <2>2. diags \in Seq(Diagnostics) BY DEF Pushed
  <2>3. Len(diags) \in Nat /\ Len(diags') \in Nat BY <1>1, <2>2
  <2>4. PICK s \in Seq(Diagnostics) : s = diags BY <2>2
  <2>5. PICK t \in Seq(Diagnostics) : t = diags' BY <1>1
  <2>6. \A n \in 1..Len(s) : SubSeq(s, 1, Len(s))[n] = s[n] /\ SubSeq(t, 1, Len(s))[n] = t[n]
    BY <2>1, <2>4, <2>5
  <2> QED BY <2>1, <2>4, <2>5, <2>6
<1>3. ASSUME NEW n \in 1..Len(diags') PROVE AboutToken(diags[n])'
  <2>1. AboutToken(diags'[n])
    <3>1. CASE n \in 1..Len(diags) BY <1>2, <3>1 DEF Pushed
    <3>2. CASE n \notin 1..Len(diags)
      <4>1. Len(diags) \in Nat /\ Len(diags') \in Nat BY <1>1 DEF Pushed
      <4>2. n \in Len(diags)+1..Len(diags') BY <3>2, <4>1
      <4> QED BY <4>2 DEF Reports
    <3> QED BY <3>1, <3>2
  <2> QED BY <1>1, <2>1 DEF AboutToken, DiagAt
<1> QED BY <1>1, <1>3 DEF Pushed

\* What the tokenizer had to report is printed, and stops the compiler.
LEMMA PrintsLexDiags ==
  ASSUME Tokens, Printed, PrintingLexDiags PROVE Printed'
<1>1. PICK S : lexDiags \in Seq(S) BY DEF Tokens, Told, IsSeq
<1>2. Tidy(lexDiags) BY LexTidy DEF Tokens
<1>3. PICK ds : ds = Clean(lexDiags) OBVIOUS
<1>4. ds \in Seq(S) BY <1>1, <1>2, <1>3, CleanAll
<1>5. AnyError(ds) <=> \E d \in PushedBy(lexDiags) : IsError(d)
  BY <1>1, <1>2, <1>3, AnyErrorClean
<1>6. printed = <<>> /\ diags = <<>> BY DEF Printed, PrintingLexDiags
<1>7. UNCHANGED <<lexDiags, diags, at>> BY DEF PrintingLexDiags, lexVars
<1>8. CASE phase' = "overrun" BY <1>8 DEF Printed
<1>9. CASE phase' # "overrun"
  <2>1. /\ printed' = printed \o ds
        /\ status' = IF AnyError(ds) THEN 1 ELSE 0
        /\ phase' = IF AnyError(ds) THEN "exit" ELSE "parse"
    BY <1>3, <1>9 DEF PrintingLexDiags, PrintAll
  <2>2. printed' = ds BY <1>4, <1>6, <2>1
  <2>3. CASE AnyError(ds)
    <3>1. AnyError(printed)' BY <2>2, <2>3 DEF AnyError
    <3>2. printed' = Clean(lexDiags') BY <1>3, <1>7, <2>2
    <3>3. Clean(lexDiags') = Clean(lexDiags)' BY DEF Clean, Repeats, SameKind
    <3> QED BY <1>6, <1>7, <2>1, <2>3, <3>1, <3>2, <3>3 DEF Printed
  <2>4. CASE ~AnyError(ds)
    <3>1. lexDiags = <<>>
      <4>1. ASSUME Len(lexDiags) # 0 PROVE FALSE
        <5>1. 1 \in 1..Len(lexDiags) BY <1>1, <4>1
        <5>2. IsError(lexDiags[1]) BY <5>1 DEF Tokens, Told, AreErrors, IsError
        <5>3. lexDiags[1] \in PushedBy(lexDiags) BY <5>1 DEF PushedBy
        <5> QED BY <1>5, <2>4, <5>2, <5>3
      <4> QED BY <1>1, <4>1
    <3>2. PushedBy(ds) = {}
      <4>1. PushedBy(ds) = PushedBy(lexDiags) BY <1>1, <1>2, <1>3, CleanAll
      <4>2. Len(<<>>) = 0 /\ 1..0 = {} OBVIOUS
      <4>3. PushedBy(<<>>) = {} BY <4>2 DEF PushedBy
      <4> QED BY <3>1, <4>1, <4>3
    <3>3. ds = <<>>
      <4>1. ASSUME Len(ds) # 0 PROVE FALSE
        <5>1. 1 \in 1..Len(ds) BY <1>4, <4>1
        <5>2. ds[1] \in PushedBy(ds) BY <5>1 DEF PushedBy
        <5> QED BY <3>2, <5>2
      <4> QED BY <1>4, <4>1
    <3> QED BY <1>7, <2>1, <2>2, <2>4, <3>1, <3>3 DEF Printed
  <2> QED BY <2>3, <2>4
<1> QED BY <1>8, <1>9

\* What the parser had to report is printed, and the compiler exits.
LEMMA PrintsParserDiags ==
  ASSUME Tokens, Pushed, Printed, PrintingParserDiags PROVE Printed'
<1>1. diags \in Seq(Diagnostics) BY DEF Pushed
<1>2. Tidy(diags) BY ParserTidy DEF Tokens
<1>3. PICK ds : ds = Clean(diags) OBVIOUS
<1>4. ds \in Seq(Diagnostics) BY <1>1, <1>2, <1>3, CleanAll
<1>5. printed = <<>> /\ lexDiags = <<>> BY DEF Printed, PrintingParserDiags
<1>6. UNCHANGED <<lexDiags, diags, at, toks>> BY DEF PrintingParserDiags, lexVars
<1>7. Is(at, {"END"})' BY <1>6 DEF PrintingParserDiags, Is
<1>8. CASE phase' = "overrun" BY <1>8 DEF Printed
<1>9. CASE phase' # "overrun"
  <2>1. /\ printed' = printed \o ds
        /\ status' = IF AnyError(ds) THEN 1 ELSE 0
        /\ phase' = "exit"
    BY <1>3, <1>9 DEF PrintingParserDiags, PrintAll
  <2>2. printed' = ds BY <1>4, <1>5, <2>1
  <2>3. printed' = Clean(diags') BY <1>3, <1>6, <2>2
  <2>4. Clean(diags') = Clean(diags)' BY DEF Clean, Repeats, SameKind
  <2>5. AnyError(printed)' <=> AnyError(ds) BY <2>2 DEF AnyError
  <2> QED BY <1>5, <1>6, <1>7, <2>1, <2>3, <2>4, <2>5 DEF Printed
<1> QED BY <1>8, <1>9

Phased == Tokens /\ Pushed /\ Printed

\* It is so before the tokenizer starts.
LEMMA PhasedInit == PhasesInit => Phased
<1> SUFFICES ASSUME PhasesInit PROVE Phased OBVIOUS
<1>1. LexStart(text) /\ text \in Texts /\ phase = "lex" /\ diags = <<>> /\ printed = <<>>
  BY DEF PhasesInit, PhasesStart
<1>2. LexInit BY <1>1 DEF LexInit, LexStart
<1>3. toks = <<>> /\ lexDiags = <<>> BY <1>1 DEF LexStart
<1>4. Len(<<>>) = 0 /\ <<>> \in Seq(Diagnostics) OBVIOUS
<1>5. SameLines /\ Told BY <1>3, <1>4, ErrorsAre, ComplaintsAre DEF SameLines, Told
<1>6. Pushed BY <1>1, <1>4 DEF Pushed
<1>7. Printed BY <1>1 DEF Printed
<1> QED BY <1>2, <1>5, <1>6, <1>7, InsideInit, PlacesInit DEF Phased, Tokens

\* The tokenizer goes on as it would by itself.
LEMMA TokensStep ==
  ASSUME Tokens, [LexNext]_lexVars PROVE Tokens'
<1>1. Inside' /\ Reads' BY InsideStep DEF Tokens
<1>2. Placing' /\ Located' BY PlacesStep DEF Tokens
<1> QED BY <1>1, <1>2, SameLinesStep, ToldStep DEF Tokens

\* To the tokenizer a step is one of its own or none.
LEMMA TokenizerSteps ==
  [PhasesNext]_<<lexVars, phaseVars>> => [LexNext]_lexVars
BY DEF PhasesNext, Tokenizing, PrintingLexDiags, PrintingParserDiags, Starting, GoingOn,
       Ending, Breaking, Reports

\* Whatever the phase does, the tokens are still those, the diagnostics are
\* about them, and what is printed is what was reported.
LEMMA PhasedStep ==
  Phased /\ [PhasesNext]_<<lexVars, phaseVars>> => Phased'
<1> SUFFICES ASSUME Phased, [PhasesNext]_<<lexVars, phaseVars>> PROVE Phased' OBVIOUS
<1>0. Tokens /\ Pushed /\ Printed BY DEF Phased
<1>1. [LexNext]_lexVars BY TokenizerSteps
<1>2. Tokens' BY <1>0, <1>1, TokensStep
<1>3. CASE Tokenizing
  <2>1. phase = "lex" /\ UNCHANGED <<phase, diags, printed>> BY <1>3 DEF Tokenizing, phaseVars
  <2>2. printed = <<>> /\ diags = <<>> BY <1>0, <2>1 DEF Printed
  <2>3. Len(<<>>) = 0 /\ <<>> \in Seq(Diagnostics) OBVIOUS
  <2>4. Pushed' BY <2>1, <2>2, <2>3 DEF Pushed
  <2>5. Printed' BY <2>1, <2>2 DEF Printed
  <2> QED BY <1>2, <2>4, <2>5 DEF Phased
<1>4. CASE PrintingLexDiags
  <2>1. UNCHANGED <<toks, diags>> BY <1>4 DEF PrintingLexDiags, lexVars
  <2>2. Pushed' BY <1>0, <2>1 DEF Pushed, AboutToken, DiagAt
  <2> QED BY <1>0, <1>2, <1>4, <2>2, PrintsLexDiags DEF Phased
<1>5. CASE PrintingParserDiags
  <2>1. UNCHANGED <<toks, diags>> BY <1>5 DEF PrintingParserDiags, lexVars
  <2>2. Pushed' BY <1>0, <2>1 DEF Pushed, AboutToken, DiagAt
  <2> QED BY <1>0, <1>2, <1>5, <2>2, PrintsParserDiags DEF Phased
<1>6. CASE Starting \/ GoingOn \/ Ending \/ Breaking
  <2>1. Reports BY <1>6 DEF Starting, GoingOn, Ending, Breaking
  <2>2. phase \in {"parse", "inst", "end"} /\ phase' \notin {"lex", "exit"}
    BY <1>6 DEF Starting, GoingOn, Ending, Breaking, InDecl
  <2>3. Pushed' BY <1>0, <2>1, ReportsPushed
  <2>4. printed = <<>> /\ lexDiags = <<>> BY <1>0, <2>2 DEF Printed
  <2>5. printed' = <<>> /\ lexDiags' = <<>> BY <2>1, <2>4 DEF Reports, lexVars
  <2>6. Printed' BY <2>2, <2>5 DEF Printed
  <2> QED BY <1>2, <2>3, <2>6 DEF Phased
<1>7. CASE UNCHANGED <<lexVars, phaseVars>>
  <2>1. UNCHANGED <<toks, diags>> BY <1>7 DEF lexVars, phaseVars
  <2>2. Pushed' BY <1>0, <2>1 DEF Pushed, AboutToken, DiagAt
  <2>3. UNCHANGED <<lexDiags, diags, at, toks, phase, printed, status>>
    BY <1>7 DEF lexVars, phaseVars
  <2>4. Clean(lexDiags)' = Clean(lexDiags) /\ Clean(diags)' = Clean(diags)
    BY <2>3 DEF Clean, Repeats, SameKind
  <2>5. AnyError(printed)' <=> AnyError(printed) BY <2>3 DEF AnyError
  <2>6. Is(at, {"END"})' <=> Is(at, {"END"}) BY <2>3 DEF Is
  <2>7. Printed' BY <1>0, <2>3, <2>4, <2>5, <2>6 DEF Printed
  <2> QED BY <1>2, <2>2, <2>7 DEF Phased
<1> QED BY <1>3, <1>4, <1>5, <1>6, <1>7 DEF PhasesNext

\* One of the two phases printed all that was reported.
LEMMA ExitIs ==
  ASSUME Phased, phase = "exit"
  PROVE  \E ds : \E S :
           /\ ds \in Seq(S) /\ Tidy(ds) /\ ds = lexDiags \o diags /\ printed = Clean(ds)
           /\ status = 1 <=> AnyError(printed)
           /\ status # 1 => status = 0 /\ Is(at, {"END"})
<1>1. Tokens /\ Pushed /\ Printed BY DEF Phased
<1>2. PICK S : lexDiags \in Seq(S) BY <1>1 DEF Tokens, Told, IsSeq
<1>3. diags \in Seq(Diagnostics) BY <1>1 DEF Pushed
<1>4. CASE /\ diags = <<>> /\ printed = Clean(lexDiags)
           /\ AnyError(printed) /\ status = 1
  <2>1. lexDiags \o <<>> = lexDiags BY <1>2
  <2>2. Tidy(lexDiags) BY <1>1, LexTidy DEF Tokens
  <2> QED BY <1>2, <1>4, <2>1, <2>2
<1>5. CASE /\ lexDiags = <<>> /\ printed = Clean(diags)
           /\ Is(at, {"END"}) /\ status = IF AnyError(printed) THEN 1 ELSE 0
  <2>1. <<>> \o diags = diags BY <1>3
  <2>2. Tidy(diags) BY <1>1, ParserTidy DEF Tokens
  <2>3. status = 1 <=> AnyError(printed) BY <1>5
  <2>4. status # 1 => status = 0 /\ Is(at, {"END"}) BY <1>5
  <2> QED BY <1>3, <1>5, <2>1, <2>2, <2>3, <2>4
<1> QED BY <1>1, <1>4, <1>5 DEF Printed

\* Whatever the source file and whatever a parser does that reports about its
\* tokens, the exit status says whether an error was reported.
THEOREM PhasesExitStatus == PhasesSpec => []ExitStatus
<1>1. Phased => ExitStatus
  <2> SUFFICES ASSUME Phased, phase = "exit"
               PROVE  /\ status = 1 <=> \E d \in PushedBy(lexDiags \o diags) : IsError(d)
                      /\ status = 0 => Is(at, {"END"})
    BY DEF ExitStatus
  <2>1. PICK ds, S :
           /\ ds \in Seq(S) /\ Tidy(ds) /\ ds = lexDiags \o diags /\ printed = Clean(ds)
           /\ status = 1 <=> AnyError(printed)
           /\ status # 1 => status = 0 /\ Is(at, {"END"})
    BY ExitIs
  <2>2. AnyError(Clean(ds)) <=> \E d \in PushedBy(ds) : IsError(d) BY <2>1, AnyErrorClean
  <2> QED BY <2>1, <2>2
<1> QED BY <1>1, PhasedInit, PhasedStep, PTL DEF PhasesSpec

\* And everything that was reported is printed: every error as often as it was
\* reported and in that order, and no warning twice in a row.
THEOREM PhasesDiagsKept == PhasesSpec => []DiagsKept
<1>1. Phased => DiagsKept
  <2> SUFFICES ASSUME Phased, phase = "exit"
               PROVE  /\ PushedBy(printed) = PushedBy(lexDiags \o diags)
                      /\ Errors(printed) = Errors(lexDiags \o diags)
                      /\ \A n \in 1..Len(printed)-1 :
                           printed[n].type = "WARNING" => printed[n] # printed[n + 1]
    BY DEF DiagsKept
  <2>1. PICK ds, S :
           ds \in Seq(S) /\ Tidy(ds) /\ ds = lexDiags \o diags /\ printed = Clean(ds)
    BY ExitIs
  <2>2. Errors(Clean(ds)) = Errors(ds) BY <2>1, CleanErrors
  <2>3. PushedBy(Clean(ds)) = PushedBy(ds) BY <2>1, CleanAll
  <2>4. \A k \in 1..Len(Clean(ds))-1 : Clean(ds)[k].type = "WARNING" => Clean(ds)[k] # Clean(ds)[k + 1]
    BY <2>1, CleanAll
  <2> QED BY <2>1, <2>2, <2>3, <2>4
<1> QED BY <1>1, PhasedInit, PhasedStep, PTL DEF PhasesSpec

-----------------------------------------------------------------------------
(***************************************************************************)
(* The indices of the phases.                                              *)
(***************************************************************************)
\* The position is one in what was read.
PosIn == lineStart \in 1..i /\ pos.line \in 1..i /\ pos.column \in Nat

\* A step of the tokenizer leaves it there.
LEMMA PosInStep ==
  ASSUME Inside, Located, Located', PosIn, [LexNext]_lexVars PROVE PosIn'
<1>0. i \in Nat BY InsideIn
<1>1. CASE UNCHANGED lexVars BY <1>1 DEF lexVars, PosIn
<1>2. CASE LexNext
  <2>1. CASE OnLine
    <3>1. pos'.column \in Int BY DEF Located
    <3> QED BY <1>0, <2>1, <3>1 DEF OnLine, PosIn
  <2>2. CASE NextLines
    <3>1. PICK j \in Nat, k \in Int, l \in Int, m \in Int, s \in Int :
            j = i /\ k = i' /\ l = pos.line /\ m = pos'.line /\ s = lineStart
      BY <1>0, <2>2 DEF NextLines, Located, PosIn
    <3>2. k >= j /\ m > l /\ m <= l + (k - j) /\ l \in 1..j /\ s \in 1..j
      BY <2>2, <3>1 DEF NextLines, PosIn
    <3>3. m \in 1..k /\ s \in 1..k /\ k \in 1..k BY <3>2
    <3> QED BY <2>2, <3>1, <3>3 DEF NextLines, PosIn
  <2> QED BY <1>2, <2>1, <2>2, LineSteps
<1> QED BY <1>1, <1>2

\* When the tokenizer is done, the last token is END.
EndLast == lexing = "done" => Len(toks) \in 1..Len(toks) /\ toks[Len(toks)].type = "END"

\* Its last step adds END.
LEMMA EndLastStep ==
  ASSUME Inside, IsSeq(toks), EndLast, [LexNext]_lexVars PROVE EndLast'
<1>1. CASE UNCHANGED lexVars BY <1>1 DEF lexVars, EndLast
<1>2. CASE EndOfText
  <2>1. PICK t : t = Tok("END", i, 0, 0) OBVIOUS
  <2>2. t.type = "END" /\ toks' = Append(toks, t) BY <1>2, <2>1 DEF EndOfText, Push, Tok
  <2>3. Len(toks) \in Nat /\ Len(toks') = Len(toks) + 1 /\ toks'[Len(toks) + 1] = t
    BY <2>2, AppendIs
  <2> QED BY <2>2, <2>3 DEF EndLast
<1>3. CASE LexNext /\ ~EndOfText
  <2>1. lexing = "run" BY <1>3, Steps
  <2>2. lexing' # "done"
    BY <1>3, <2>1
    DEF LexNext, LineComment, BlockComment, Newline, Blank, Operator, FloatLiteral,
        IntLiteral, CharLiteral, StringLiteral, Identifier, UnknownSymbol, Stop
  <2> QED BY <2>2 DEF EndLast
<1> QED BY <1>1, <1>2, <1>3

\* What is known of the indices.
Indices ==
  /\ phase # "lex" => lexing = "done"
  /\ phase = "lex" => at = 1
  /\ phase \in {"lex", "parse", "exit", "other", "crash", "overrun"} \cup InDecl
  /\ phase # "lex" => at \in 1..Len(toks)
  /\ phase \in InDecl => at < inst /\ inst \in 1..Len(toks)
  /\ status \in {0, 1}

\* Every step of the phases keeps the indices inside the tokens.
LEMMA IndicesStep ==
  ASSUME IsSeq(toks), EndLast, Indices, [PhasesNext]_<<lexVars, phaseVars>>
  PROVE  Indices'
<1>1. PICK l \in Nat : l = Len(toks) BY AppendIs
<1>2. CASE Tokenizing \/ UNCHANGED <<lexVars, phaseVars>>
  <2>1. CASE Tokenizing
    <3>1. phase = "lex" /\ UNCHANGED <<phase, at, inst, status>> BY <2>1 DEF Tokenizing, phaseVars
    <3> QED BY <3>1 DEF Indices, InDecl
  <2>2. CASE UNCHANGED <<lexVars, phaseVars>> BY <2>2 DEF lexVars, phaseVars, Indices
  <2> QED BY <1>2, <2>1, <2>2
<1>3. CASE PrintingLexDiags
  <2>1. /\ phase = "lex" /\ UNCHANGED <<toks, lexing, at, inst>> /\ lexing = "done"
    BY <1>3 DEF PrintingLexDiags, lexVars
  <2>2. phase' \in {"overrun", "exit", "parse"} /\ status' \in {0, 1, status}
    BY <1>3 DEF PrintingLexDiags, PrintAll
  <2>3. at \in 1..Len(toks) BY <1>1, <2>1 DEF Indices, EndLast
  <2> QED BY <2>1, <2>2, <2>3 DEF Indices, InDecl
<1>4. CASE PrintingParserDiags
  <2>1. /\ phase = "parse" /\ UNCHANGED <<toks, lexing, at, inst>>
    BY <1>4 DEF PrintingParserDiags, lexVars
  <2>2. phase' \in {"overrun", "exit"} /\ status' \in {0, 1, status}
    BY <1>4 DEF PrintingParserDiags, PrintAll
  <2> QED BY <2>1, <2>2 DEF Indices, InDecl
<1>5. CASE Starting \/ GoingOn \/ Ending \/ Breaking
  <2>1. UNCHANGED <<toks, lexing, status>> BY <1>5 DEF Starting, GoingOn, Ending, Breaking, Reports, lexVars
  <2>2. phase \in {"parse", "inst", "end"} BY <1>5 DEF Starting, GoingOn, Ending, Breaking
  <2>3. at \in 1..l /\ lexing = "done" /\ status \in {0, 1} BY <1>1, <2>2 DEF Indices
  <2>4. CASE Starting BY <1>1, <2>1, <2>3, <2>4 DEF Starting, Indices, InDecl
  <2>5. CASE GoingOn
    <3>1. at < inst /\ inst \in 1..l BY <1>1, <2>5 DEF GoingOn, Indices, InDecl
    <3> QED BY <1>1, <2>1, <2>3, <2>5, <3>1 DEF GoingOn, Indices, InDecl
  <2>6. CASE Ending BY <1>1, <2>1, <2>3, <2>6 DEF Ending, Indices, InDecl
  <2>7. CASE Breaking BY <1>1, <2>1, <2>3, <2>7 DEF Breaking, Indices, InDecl
  <2> QED BY <1>5, <2>4, <2>5, <2>6, <2>7
<1> QED BY <1>2, <1>3, <1>4, <1>5 DEF PhasesNext

\* All of it together.
Indexed == Phased /\ PosIn /\ EndLast /\ Indices

\* It holds at first,
LEMMA IndexedInit == PhasesInit => Indexed
<1> SUFFICES ASSUME PhasesInit PROVE PosIn /\ EndLast /\ Indices BY PhasedInit DEF Indexed
<1>1. /\ i = 1 /\ lineStart = 1 /\ pos = [line |-> 1, column |-> 1] /\ lexing = "run"
      /\ phase = "lex" /\ at = 1 /\ status = 0
  BY DEF PhasesInit, PhasesStart, LexStart
<1> QED BY <1>1 DEF PosIn, EndLast, Indices, InDecl

\* and every step keeps it.
LEMMA IndexedStep ==
  Indexed /\ [PhasesNext]_<<lexVars, phaseVars>> => Indexed'
<1> SUFFICES ASSUME Indexed, [PhasesNext]_<<lexVars, phaseVars>> PROVE Indexed' OBVIOUS
<1>1. Phased' BY PhasedStep DEF Indexed
<1>2. [LexNext]_lexVars BY TokenizerSteps
<1>3. Inside /\ Located /\ SameLines BY DEF Indexed, Phased, Tokens
<1>4. Located' BY <1>1 DEF Phased, Tokens
<1>5. IsSeq(toks) BY <1>3 DEF SameLines
<1>6. PosIn' BY <1>2, <1>3, <1>4, PosInStep DEF Indexed
<1>7. EndLast' BY <1>2, <1>3, <1>5, EndLastStep DEF Indexed
<1>8. Indices' BY <1>5, IndicesStep DEF Indexed
<1> QED BY <1>1, <1>6, <1>7, <1>8 DEF Indexed

\* Whatever the source file, the phases stay inside the text and its tokens.
THEOREM PhasesBounded == PhasesSpec => []Bounded
<1>1. Indexed => Bounded
  <2> SUFFICES ASSUME Indexed PROVE Bounded OBVIOUS
  <2>1. i \in 1..Len(text)+1 BY DEF Indexed, Phased, Tokens, Inside
  <2> QED BY <2>1 DEF Indexed, PosIn, EndLast, Indices, Bounded, Is
<1> QED BY <1>1, IndexedInit, IndexedStep, PTL DEF PhasesSpec
==================================================================================
