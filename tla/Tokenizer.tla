------------------------------ MODULE Tokenizer ------------------------------
(***************************************************************************)
(* The tokenizer of src/lexer/tokenize.c: one loop over the characters of  *)
(* a source file, with one case per kind of token, that keeps the position *)
(* it reports to the user beside its index.  Literals are read as in       *)
(* src/literal.c, multi-byte characters as in src/utf8.c.                  *)
(*                                                                         *)
(* A text is a sequence of bytes.  "wide" is the first of the two bytes of *)
(* a character above 255, "cont" the other; on bytes that are not UTF-8    *)
(* midutf8_read_char aborts.  Reading past the terminator of the text is   *)
(* undefined: the machine stops in "overrun".                              *)
(***************************************************************************)
EXTENDS Integers, Sequences, SequencesExt

CONSTANTS
  Texts,        \* the source files
  IntBits, LongBits, LongLongBits   \* midtype_int_size * 8 ...

ASSUME TextsAssumption ==
  \A t \in Texts :
    /\ t \in Seq(STRING)
    /\ \A k \in 1..Len(t) :
         /\ t[k] # "NUL"
         /\ t[k] = "wide" => k < Len(t) /\ t[k + 1] = "cont"
         /\ t[k] = "cont" => k > 1 /\ t[k - 1] = "wide"

ASSUME WidthsAssumption ==
  /\ IntBits \in Nat \ {0} /\ LongBits \in Nat \ {0} /\ LongLongBits \in Nat \ {0}
  /\ IntBits <= LongBits /\ LongBits <= LongLongBits
  /\ 4 <= LongLongBits   \* the widest holds a digit

VARIABLES
  text,       \* the source file
  i,          \* the index of the next character
  pos,        \* struct mid_Position, what diagnostics and tokens name
  lineStart,  \* the index line_start points at
  toks,       \* struct midlex_TokenVec
  symtbl,     \* struct midsymb_Table
  lexDiags,   \* the diagnostics of the tokenizer
  lexing      \* "run", or how the loop came to an end

lexVars == <<text, i, pos, lineStart, toks, symtbl, lexDiags, lexing>>

-----------------------------------------------------------------------------
(***************************************************************************)
(* Characters.                                                             *)
(***************************************************************************)
HexDigits == <<"0", "1", "2", "3", "4", "5", "6", "7", "8", "9",
               "a", "b", "c", "d", "e", "f">>
Uppers == <<"A", "B", "C", "D", "E", "F", "G", "H", "I", "J", "K", "L", "M",
            "N", "O", "P", "Q", "R", "S", "T", "U", "V", "W", "X", "Y", "Z">>
Lowers == <<"a", "b", "c", "d", "e", "f", "g", "h", "i", "j", "k", "l", "m",
            "n", "o", "p", "q", "r", "s", "t", "u", "v", "w", "x", "y", "z">>

ToLower(c) == IF \E n \in 1..26 : Uppers[n] = c
              THEN Lowers[CHOOSE n \in 1..26 : Uppers[n] = c] ELSE c

DigitsOf(base) ==
  {HexDigits[n] : n \in 1..base} \cup (IF base = 16 THEN {Uppers[n] : n \in 1..6} ELSE {})

DigitValue(c) == (CHOOSE n \in 1..16 : HexDigits[n] = ToLower(c)) - 1

Alphas == {Lowers[n] : n \in 1..26} \cup {Uppers[n] : n \in 1..26}
IdentChars == Alphas \cup DigitsOf(10) \cup {"_"}
Blanks == {" ", "\t", "\f", "\r", "VT"}
Quotes == {"'", "\""}

\* src[j]; the text ends with a terminator.
At(j) == IF j \in 1..Len(text) THEN text[j] ELSE "NUL"

\* Mutant: the character at j is not looked at.
HasNextAfter(j, S) == \E k \in j+1..Len(text) : text[k] \in S

\* The first index from j on that holds a character of S, if there is one.
HasNext(j, S) == \E k \in j..Len(text) : text[k] \in S
Next1(j, S) == CHOOSE k \in j..Len(text) :
                 text[k] \in S /\ \A m \in j..k-1 : text[m] \notin S

\* The first index from j on that holds no character of S.
EndOf(j, S) == CHOOSE k \in j..Len(text)+1 :
                 At(k) \notin S /\ \A m \in j..k-1 : At(m) \in S

\* midutf8_read_char: how many bytes a character has.
Bytes(c) == IF c = "wide" THEN 2 ELSE 1

-----------------------------------------------------------------------------
(***************************************************************************)
(* What the cases of the loop have in common.                              *)
(***************************************************************************)
Error(err) == [type |-> "ERROR", err |-> err, line |-> pos.line, column |-> pos.column,
               lineStart |-> lineStart]

\* The characters up to e are consumed, and the column moves as far.
Goto(e) == i' = e /\ pos' = [pos EXCEPT !.column = @ + (e - i)]

Tok(type, e, val, ident) ==
  [type |-> type, at |-> i, end |-> e, line |-> pos.line, column |-> pos.column,
   lineStart |-> lineStart, val |-> val, ident |-> ident]

Push(tok) == toks' = Append(toks, tok)
Report(errs) == lexDiags' = lexDiags \o errs

Stop(how) ==
  lexing' = how /\ UNCHANGED <<text, i, pos, lineStart, toks, symtbl, lexDiags>>

-----------------------------------------------------------------------------
(***************************************************************************)
(* Comments and blanks.  A block comment counts its lines, but its columns *)
(* from the second character, and it never moves line_start.               *)
(***************************************************************************)
IsLineComment(j) == At(j) = "/" /\ At(j + 1) = "/"
IsBlockComment(j) == At(j) = "/" /\ At(j + 1) = "*"

LineComment ==
  /\ lexing = "run" /\ IsLineComment(i)
  /\ IF HasNext(i + 1, {"\n"})
     THEN /\ Goto(Next1(i + 1, {"\n"}))
          /\ UNCHANGED <<text, lineStart, toks, symtbl, lexDiags, lexing>>
     ELSE Stop("overrun")

Closes(k) == At(k) = "*" /\ At(k + 1) = "/"

Newlines(from, to) == {k \in from..to : At(k) = "\n"}

\* Mutant: the comment ends with its asterisk.
SkipToShort(k, newlines) ==
  /\ i' = k + 1
  /\ pos' = IF newlines = {}
            THEN [pos EXCEPT !.column = @ + (k - i - 1)]
            ELSE [line |-> pos.line + Cardinality(newlines),
                  column |-> k - Max(newlines) + 2]

\* Mutant: the lines of the comment are not counted.
SkipToSameLine(k, newlines) ==
  i' = k + 2 /\ pos' = [pos EXCEPT !.column = @ + (k - i - 1)]

SkipTo(k, newlines) ==
  /\ i' = k + 2
  /\ pos' = IF newlines = {}
            THEN [pos EXCEPT !.column = @ + (k - i - 1)]
            ELSE [line |-> pos.line + Cardinality(newlines),
                  column |-> k - Max(newlines) + 2]

BlockComment ==
  /\ lexing = "run" /\ IsBlockComment(i)
  /\ IF \E k \in i+2..Len(text) : Closes(k)
     THEN /\ \E k \in i+2..Len(text) :
               /\ Closes(k) /\ \A m \in i+2..k-1 : ~Closes(m)
               /\ SkipTo(k, Newlines(i + 2, k))
          /\ UNCHANGED <<text, lineStart, toks, symtbl, lexDiags, lexing>>
     ELSE Stop("overrun")

Newline ==
  /\ lexing = "run" /\ At(i) = "\n"
  /\ i' = i + 1 /\ lineStart' = i + 1
  /\ pos' = [line |-> pos.line + 1, column |-> 1]
  /\ UNCHANGED <<text, toks, symtbl, lexDiags, lexing>>

Blank ==
  /\ lexing = "run" /\ At(i) \in Blanks
  /\ Goto(i + 1)
  /\ UNCHANGED <<text, lineStart, toks, symtbl, lexDiags, lexing>>

-----------------------------------------------------------------------------
(***************************************************************************)
(* Operators and punctuation.  ->* is recognised, but only its first two   *)
(* characters are consumed; <<= and >>= are tested for on the character    *)
(* that is already known to be < or >, and so never found.                 *)
(***************************************************************************)
OneChar == {<<":", "COLON">>, <<".", "MEMB_SEL">>, <<"*", "MUL">>, <<"/", "DIV">>,
  <<"%", "MOD">>, <<"+", "ADD">>, <<"-", "SUB">>, <<"<", "LT">>, <<">", "GT">>,
  <<"=", "ASSIGN">>, <<"!", "LOGICAL_NOT">>, <<"&", "BITWISE_AND">>,
  <<"^", "BITWISE_XOR">>, <<"|", "BITWISE_OR">>, <<",", "COMMA">>,
  <<"~", "BITWISE_NOT">>, <<"(", "L_PAREN">>, <<")", "R_PAREN">>,
  <<"[", "L_SQBRACKET">>, <<"]", "R_SQBRACKET">>, <<"{", "L_CURLY">>,
  <<"}", "R_CURLY">>, <<";", "SEMICOLON">>}

TwoChars == {<<":", ":", "SCOPE_RES">>, <<".", "*", "PTR_TO_MEMB_SEL">>,
  <<"*", "=", "MUL_ASSIGN">>, <<"/", "=", "DIV_ASSIGN">>, <<"%", "=", "MOD_ASSIGN">>,
  <<"+", "=", "ADD_ASSIGN">>, <<"+", "+", "INC">>, <<"-", ">", "PTR_MEMB_SEL">>,
  <<"-", "=", "SUB_ASSIGN">>, <<"-", "-", "DEC">>, <<"<", "<", "LEFT_SHIFT">>,
  <<"<", "=", "LTEQ">>, <<">", ">", "RIGHT_SHIFT">>, <<">", "=", "GTEQ">>,
  <<"=", "=", "EQ">>, <<"!", "=", "NEQ">>, <<"&", "&", "LOGICAL_AND">>,
  <<"&", "=", "AND_ASSIGN">>, <<"^", "=", "XOR_ASSIGN">>, <<"|", "|", "LOGICAL_OR">>,
  <<"|", "=", "OR_ASSIGN">>}

IsFloat(j) == At(j) = "." /\ At(j + 1) \in DigitsOf(10)

\* Mutant: the shorter operator is tried first.
OperatorsAtShort(j) ==
  IF \E op \in OneChar : op[1] = At(j)
  THEN {[type |-> op[2], len |-> 1] : op \in {o \in OneChar : o[1] = At(j)}}
  ELSE {}

\* The type of the operator at j and how many characters it consumes.
OperatorsAt(j) ==
  IF At(j) = "." /\ At(j + 1) = "." /\ At(j + 2) = "."
  THEN {[type |-> "ELLIPSIS", len |-> 3]}
  ELSE IF At(j) = "-" /\ At(j + 1) = ">" /\ At(j + 2) = "*"
  THEN {[type |-> "PTR_TO_PTR_MEMB_SEL", len |-> 2]}
  ELSE IF \E op \in TwoChars : op[1] = At(j) /\ op[2] = At(j + 1)
  THEN {[type |-> op[3], len |-> 2] :
          op \in {o \in TwoChars : o[1] = At(j) /\ o[2] = At(j + 1)}}
  ELSE {[type |-> op[2], len |-> 1] : op \in {o \in OneChar : o[1] = At(j)}}

Operator ==
  /\ lexing = "run" /\ ~IsLineComment(i) /\ ~IsBlockComment(i) /\ ~IsFloat(i)
  /\ \E op \in OperatorsAt(i) :
       /\ Push(Tok(op.type, i + op.len, 0, 0))
       /\ Goto(i + op.len)
  /\ UNCHANGED <<text, lineStart, symtbl, lexDiags, lexing>>

-----------------------------------------------------------------------------
(***************************************************************************)
(* Numeric literals.  The digits end where find_numlit_digits_end says,    *)
(* whatever base they turn out to have; the value is what read_intlit      *)
(* makes of those of them that are digits of the base.                     *)
(***************************************************************************)
Fraction == DigitsOf(10) \cup {"."}

DigitsEnd(s) ==
  LET first == IF At(s + 1) \in {"x", "b"} THEN s + 2 ELSE s + 1
      e == EndOf(first, DigitsOf(16))
  IN IF At(s) = "." \/ At(e) = "." THEN EndOf(IF At(s) = "." THEN first ELSE e, Fraction)
     ELSE e

IsDecimal(s, e) == \E k \in s..e-1 : At(k) = "."

Low(j) == ToLower(At(j))

\* The type the suffix asks for, and where the suffix ends.
Suffix(e, decimal) ==
  IF Low(e) = "u"
  THEN IF Low(e + 1) = "l"
       THEN IF Low(e + 2) = "l" THEN [type |-> "ULONGLONG", end |-> e + 3]
            ELSE [type |-> "ULONG", end |-> e + 2]
       ELSE [type |-> "UINT", end |-> e + 1]
  ELSE IF Low(e) = "l"
  THEN IF Low(e + 1) = "l" THEN [type |-> "LONGLONG", end |-> e + 2]
       ELSE [type |-> IF decimal THEN "LONGDOUBLE" ELSE "LONG", end |-> e + 1]
  ELSE IF Low(e) = "f" THEN [type |-> "FLOAT", end |-> e + 1]
  ELSE [type |-> IF decimal THEN "DOUBLE" ELSE "INT", end |-> e]

BitsOf(type) == IF type \in {"INT", "UINT"} THEN IntBits
                ELSE IF type \in {"LONG", "ULONG"} THEN LongBits ELSE LongLongBits
IsSigned(type) == type \in {"INT", "LONG", "LONGLONG"}
MaxOf(type) == IF IsSigned(type) THEN 2^(BitsOf(type) - 1) - 1 ELSE 2^BitsOf(type) - 1

\* The types sel_numlit_type_int and the others try, in their order.
Candidates(asked, base) ==
  IF base = 10
  THEN CASE asked = "INT" -> <<"INT", "LONG", "LONGLONG">>
         [] asked = "UINT" -> <<"UINT", "ULONG", "ULONGLONG">>
         [] asked = "LONG" -> <<"LONG", "ULONG", "LONGLONG">>
         [] asked = "ULONG" -> <<"ULONG", "ULONGLONG">>
         [] asked = "LONGLONG" -> <<"LONGLONG">>
         [] asked = "ULONGLONG" -> <<"ULONGLONG">>
  ELSE CASE asked = "INT" -> <<"INT", "UINT", "LONG", "ULONG", "LONGLONG", "ULONGLONG">>
         [] asked = "UINT" -> <<"UINT", "ULONG", "ULONGLONG">>
         [] asked = "LONG" -> <<"LONG", "ULONG", "LONGLONG", "ULONGLONG">>
         [] asked = "ULONG" -> <<"ULONG", "ULONGLONG">>
         [] asked = "LONGLONG" -> <<"LONGLONG", "ULONGLONG">>
         [] asked = "ULONGLONG" -> <<"ULONGLONG">>

InType(val, type) == val <= MaxOf(type)
TooBig(types, val) == \A n \in DOMAIN types : ~InType(val, types[n])
SelectType(types, val) ==
  IF TooBig(types, val) THEN Last(types)
  ELSE types[CHOOSE n \in DOMAIN types :
               InType(val, types[n]) /\ \A m \in 1..n-1 : ~InType(val, types[m])]

Base(s) == IF At(s) # "0" THEN 10
           ELSE IF At(s + 1) = "x" THEN 16 ELSE IF At(s + 1) = "b" THEN 2 ELSE 8
FirstDigit(s) == IF Base(s) = 10 THEN s ELSE IF Base(s) = 8 THEN s + 1 ELSE s + 2

\* Mutant: a digit that wraps around is dropped.
AddDigitNarrow(acc, base, digit) ==
  [val |-> (acc.val * base + digit) % 2^acc.bits, bits |-> acc.bits]

\* One digit of read_intlit_common: a multiplication or an addition that wraps
\* around is done again in a wider integer, the addition from the product.
AddDigit(acc, base, digit) ==
  LET product == (acc.val * base) % 2^acc.bits
      sum == (product + digit) % 2^acc.bits
  IN IF acc.val # 0 /\ product \div acc.val # base
     THEN [val |-> acc.val * base + digit, bits |-> acc.bits + LongLongBits]
     ELSE IF sum < product
     THEN [val |-> product * base + digit, bits |-> acc.bits + LongLongBits]
     ELSE [val |-> sum, bits |-> acc.bits]

ReadInt(s, base) ==
  LET first == FirstDigit(s)
      last == EndOf(first, DigitsOf(base))
      read[k \in first..last] ==
        IF k = first THEN [val |-> 0, bits |-> LongLongBits]
        ELSE AddDigit(read[k - 1], base, DigitValue(At(k - 1)))
  IN read[last].val

FloatTypes == {"FLOAT", "DOUBLE", "LONGDOUBLE"}
LitToks == [INT |-> "INT_LIT", UINT |-> "UINT_LIT", LONG |-> "LONG_LIT",
            ULONG |-> "ULONG_LIT", LONGLONG |-> "LONGLONG_LIT",
            ULONGLONG |-> "ULONGLONG_LIT", FLOAT |-> "FLOAT_LIT",
            DOUBLE |-> "DOUBLE_LIT", LONGDOUBLE |-> "LONGDOUBLE_LIT"]

LiteralAt(s) ==
  LET e == DigitsEnd(s) IN Suffix(e, IsDecimal(s, e))

\* The value of a float is not modelled.
FloatLiteral ==
  /\ lexing = "run" /\ (At(i) \in DigitsOf(10) \/ IsFloat(i))
  /\ LiteralAt(i).type \in FloatTypes
  /\ Goto(LiteralAt(i).end)
  /\ Push(Tok(LitToks[LiteralAt(i).type], LiteralAt(i).end, 0, 0))
  /\ UNCHANGED <<text, lineStart, symtbl, lexDiags, lexing>>

PushInt(types, val, e) ==
  LET type == SelectType(types, val)
  IN /\ Push(Tok(LitToks[type], e, val % 2^BitsOf(type), 0))
     /\ Report(IF TooBig(types, val) THEN <<Error("BAD_LITERAL")>> ELSE <<>>)
     /\ Goto(e)

\* A literal that no type holds is truncated.  One that starts with its point
\* is no integer, whatever its suffix: midlit_read_intlit asserts a digit.
IntLiteral ==
  /\ lexing = "run" /\ (At(i) \in DigitsOf(10) \/ IsFloat(i))
  /\ LiteralAt(i).type \notin FloatTypes
  /\ IF IsFloat(i) THEN Stop("crash")
     ELSE /\ PushInt(Candidates(LiteralAt(i).type, Base(i)), ReadInt(i, Base(i)),
                     LiteralAt(i).end)
          /\ UNCHANGED <<text, lineStart, symtbl, lexing>>

-----------------------------------------------------------------------------
(***************************************************************************)
(* Character and string literals.  Whatever letter stands before the quote *)
(* is taken for a prefix.                                                  *)
(***************************************************************************)
LiteralPrefix == [u |-> "CHAR16", U |-> "CHAR32", L |-> "WCHAR"]
Quote(s) == IF At(s) \in Quotes THEN s ELSE s + 1
StringType(s) == IF At(s) \in DOMAIN LiteralPrefix THEN LiteralPrefix[At(s)] ELSE "CHAR"
PrefixErrors(s) ==
  IF At(s) \in DOMAIN LiteralPrefix \cup Quotes THEN <<>> ELSE <<Error("BAD_LITERAL")>>

CharToks == [CHAR |-> "CHAR_LIT", WCHAR |-> "WCHAR_LIT", CHAR16 |-> "CHAR16_LIT",
             CHAR32 |-> "CHAR32_LIT"]
StringToks == [CHAR |-> "STRING_LIT", WCHAR |-> "WSTRING_LIT",
               CHAR16 |-> "STRING16_LIT", CHAR32 |-> "STRING32_LIT"]

\* verify_charlit_value
Fits(c, type) == c = "wide" => type # "CHAR"

\* A literal starts with its quote, or with one letter before it.
StartsLiteral(quote) ==
  At(i) = quote \/ (At(i) \in Alphas \cup {"_"} /\ At(i + 1) = quote)

\* The quote that closes is looked for behind the character, which may be the
\* terminator.  A character that does not fit its type is put into an integer
\* of that type before it is verified, and midint_init aborts.
CharLiteral ==
  /\ lexing = "run" /\ StartsLiteral("'")
  /\ LET c == At(Quote(i) + 1)
         rquote == Quote(i) + 1 + Bytes(c)
         closed == At(rquote) = "'"
         e == IF closed THEN rquote + 1 ELSE rquote
     IN IF c = "NUL" THEN Stop("overrun")
        ELSE IF ~Fits(c, StringType(i)) THEN Stop("crash")
        ELSE /\ Push(Tok(CharToks[StringType(i)], e, 0, 0))
             /\ Report(PrefixErrors(i) \o
                       (IF closed THEN <<>> ELSE <<Error("MISSING_QUOTE")>>))
             /\ Goto(e)
             /\ UNCHANGED <<text, lineStart, symtbl, lexing>>

Unfit(from, to, type) == {k \in from..to : ~Fits(At(k), type)}

StringLiteral ==
  /\ lexing = "run" /\ StartsLiteral("\"")
  /\ IF ~HasNext(Quote(i) + 1, {"\"", "\n"}) THEN Stop("overrun")
     ELSE LET stop == Next1(Quote(i) + 1, {"\"", "\n"})
              closed == At(stop) = "\""
              e == IF closed THEN stop + 1 ELSE stop
          IN /\ Push(Tok(StringToks[StringType(i)], e, 0, 0))
             /\ Report(PrefixErrors(i) \o
                       [n \in 1..Cardinality(Unfit(Quote(i) + 1, stop - 1, StringType(i))) |->
                          Error("BAD_LITERAL")] \o
                       (IF closed THEN <<>> ELSE <<Error("BAD_LITERAL")>>))
             /\ Goto(e)
             /\ UNCHANGED <<text, lineStart, symtbl, lexing>>

-----------------------------------------------------------------------------
(***************************************************************************)
(* Identifiers and keywords.  The name of an identifier is kept once, in   *)
(* the symbol table; a token of it points there.                           *)
(***************************************************************************)
Keywords ==
  [void |-> "VOID", char |-> "CHAR", wchar_t |-> "WCHAR",
   char16_t |-> "CHAR16", char32_t |-> "CHAR32", bool |-> "BOOL",
   int |-> "INT", float |-> "FLOAT", double |-> "DOUBLE", class |-> "CLASS",
   struct |-> "STRUCT", union |-> "UNION", enum |-> "ENUM", auto |-> "AUTO",
   short |-> "SHORT", long |-> "LONG", signed |-> "SIGNED",
   unsigned |-> "UNSIGNED", static |-> "STATIC", constexpr |-> "CONSTEXPR",
   typedef |-> "TYPEDEF", const |-> "CONST", volatile |-> "VOLATILE",
   typeid |-> "TYPEID", const_cast |-> "CONSTCAST",
   dynamic_cast |-> "DYNAMICCAST", reinterpret_cast |-> "REINTERPRETCAST",
   static_cast |-> "STATICCAST", new |-> "NEW", delete |-> "DELETE",
   throw |-> "THROW", true |-> "BOOL_LIT", false |-> "BOOL_LIT",
   nullptr |-> "NULLPTR_LIT", public |-> "PUBLIC", private |-> "PRIVATE",
   protected |-> "PROTECTED", this |-> "THIS", namespace |-> "NAMESPACE",
   return |-> "RETURN", noexcept |-> "NOEXCEPT", final |-> "FINAL",
   override |-> "OVERRIDE", default |-> "DEFAULT", template |-> "TEMPLATE",
   typename |-> "TYPENAME", sizeof |-> "SIZEOF"]

Spelling(chars) == FoldLeft(LAMBDA word, c : word \o c, "", chars)

InTable(name) == \E s \in 1..Len(symtbl) : symtbl[s] = name
\* Mutant: the last entry is taken for the one that was found.
PlaceLast(name) == IF InTable(name) THEN Len(symtbl) ELSE Len(symtbl) + 1

Place(name) == IF InTable(name)
               THEN CHOOSE s \in 1..Len(symtbl) :
                      symtbl[s] = name /\ \A r \in 1..s-1 : symtbl[r] # name
               ELSE Len(symtbl) + 1

Identifier ==
  /\ lexing = "run"
  /\ At(i) \in Alphas \cup {"_"} /\ At(i + 1) \notin Quotes
  /\ LET e == EndOf(i, IdentChars)
         name == SubSeq(text, i, e - 1)
     IN /\ Goto(e)
        /\ IF Spelling(name) \in DOMAIN Keywords
           THEN /\ Push(Tok(Keywords[Spelling(name)], e, 0, 0))
                /\ UNCHANGED symtbl
           ELSE /\ Push(Tok("IDENTIFIER", e, 0, Place(name)))
                /\ symtbl' = IF InTable(name) THEN symtbl ELSE Append(symtbl, name)
  /\ UNCHANGED <<text, lineStart, lexDiags, lexing>>

Known == Alphas \cup DigitsOf(10) \cup Quotes \cup Blanks \cup {"_", "\n", "NUL"}
           \cup {op[1] : op \in OneChar}

\* A character of several bytes still moves the column by one.
UnknownSymbol ==
  /\ lexing = "run" /\ At(i) \notin Known
  /\ Report(<<Error("UNKNOWN_SYMBOL")>>)
  /\ i' = i + Bytes(At(i))
  /\ pos' = [pos EXCEPT !.column = @ + 1]
  /\ UNCHANGED <<text, lineStart, toks, symtbl, lexing>>

EndOfText ==
  /\ lexing = "run" /\ At(i) = "NUL"
  /\ Push(Tok("END", i, 0, 0))
  /\ lexing' = "done"
  /\ UNCHANGED <<text, i, pos, lineStart, symtbl, lexDiags>>

-----------------------------------------------------------------------------
LexStart(t) ==
  /\ text = t
  /\ i = 1 /\ lineStart = 1
  /\ pos = [line |-> 1, column |-> 1]
  /\ toks = <<>> /\ symtbl = <<>> /\ lexDiags = <<>>
  /\ lexing = "run"

LexInit == \E t \in Texts : LexStart(t)

LexNext ==
  \/ LineComment \/ BlockComment \/ Newline \/ Blank \/ Operator
  \/ FloatLiteral \/ IntLiteral \/ CharLiteral \/ StringLiteral
  \/ Identifier \/ UnknownSymbol \/ EndOfText

LexSpec == LexInit /\ [][LexNext]_lexVars /\ WF_lexVars(LexNext)

-----------------------------------------------------------------------------
(***************************************************************************)
(* What the phases behind the tokenizer make of a token: they ask for its  *)
(* type, and report where it stands.                                       *)
(***************************************************************************)
Is(j, S) == toks[j].type \in S

DiagAt(type, err, j) ==
  [type |-> type, err |-> err, line |-> toks[j].line, column |-> toks[j].column,
   lineStart |-> toks[j].lineStart]
ErrorAt(err, j) == DiagAt("ERROR", err, j)

-----------------------------------------------------------------------------
(***************************************************************************)
(* What the tokens should be, in terms of the text alone.                  *)
(***************************************************************************)
Span(t) == t.at..t.end - 1
Chars(t) == SubSeq(text, t.at, t.end - 1)
Holds(t, c) == \E k \in Span(t) : At(k) = c
InToken(k) == \E n \in 1..Len(toks) : k \in Span(toks[n])

LineOf(j) == 1 + Cardinality(Newlines(1, j - 1))
StartOf(j) == 1 + Max(Newlines(1, j - 1) \cup {0})
ColumnOf(j) == j - StartOf(j) + 1 - Cardinality({k \in StartOf(j)..j-1 : At(k) = "cont"})

\* Nothing before the token that the position is known not to survive: a
\* newline in a character literal, a block comment that ends on its line, a
\* character of several bytes in a literal on its line.
Locatable(t) ==
  /\ \A n \in 1..Len(toks) : toks[n].at < t.at => ~Holds(toks[n], "\n")
  /\ \A k \in StartOf(t.at)..t.at-1 :
       /\ Closes(k) => InToken(k)
       /\ At(k) = "cont" => ~InToken(k)

\* The line, the column and the line start that a token carries, which every
\* diagnostic about it prints, are those of its first character.
PositionsTrue ==
  \A n \in 1..Len(toks) :
    LET t == toks[n]
    IN Locatable(t) => /\ t.line = LineOf(t.at)
                       /\ t.column = ColumnOf(t.at)
                       /\ t.lineStart = StartOf(t.at)

\* The spellings of the operators and the token of each (token_type.h).
Spellings ==
  {<<<<op[1]>>, op[2]>> : op \in OneChar}
    \cup {<<<<op[1], op[2]>>, op[3]>> : op \in TwoChars}
    \cup {<<<<".", ".", ".">>, "ELLIPSIS">>, <<<<"-", ">", "*">>, "PTR_TO_PTR_MEMB_SEL">>,
          <<<<"<", "<", "=">>, "LEFT_SHIFT_ASSIGN">>,
          <<<<">", ">", "=">>, "RIGHT_SHIFT_ASSIGN">>}

\* The operators that are not read as they are spelled.
Misread == {<<"-", ">", "*">>, <<"<", "<", "=">>, <<">", ">", "=">>}

SpelledAt(j) ==
  {sp \in Spellings : \A k \in 1..Len(sp[1]) : At(j + k - 1) = sp[1][k]}

\* An operator token is the longest operator spelled where it stands, except
\* where that is one of the three operators the tokenizer misreads.
MaximalMunch ==
  \A n \in 1..Len(toks) :
    \A op \in SpelledAt(toks[n].at) :
      \/ toks[n].type \in {LitToks[f] : f \in FloatTypes}
      \/ \E longer \in SpelledAt(toks[n].at) :
           Len(longer[1]) > Len(op[1]) \/ longer[1] \in Misread
      \/ toks[n].type = op[2] /\ toks[n].end = toks[n].at + Len(op[1])

Unknown(n) == lexDiags[n].err = "UNKNOWN_SYMBOL"

\* One thing the tokenizer may skip: it stands at j, and k follows it.
Skippable(j, k) ==
  \/ At(j) \in Blanks \cup {"\n"} /\ k = j + 1
  \/ At(j) \notin Known /\ k = j + Bytes(At(j)) /\ \E n \in 1..Len(lexDiags) : Unknown(n)
  \/ /\ IsLineComment(j) /\ At(k) = "\n" /\ Newlines(j, k - 1) = {}
  \/ /\ IsBlockComment(j) /\ k >= j + 4 /\ Closes(k - 2)
     /\ \A m \in j+2..k-3 : ~Closes(m)

IsGap(from, to) ==
  LET reached[k \in from..to] ==
        k = from \/ \E j \in from..k-1 : reached[j] /\ Skippable(j, k)
  IN from <= to /\ reached[to]

\* The tokens stand in the order of the text and do not overlap, and between
\* them are only blanks, comments and the symbols that were reported.
NothingLost ==
  /\ \A n \in 1..Len(toks) :
       /\ toks[n].at <= toks[n].end
       /\ toks[n].type # "END" => toks[n].at < toks[n].end
       /\ IsGap(IF n = 1 THEN 1 ELSE toks[n - 1].end, toks[n].at)
  /\ lexing = "done" => Last(toks).at = Len(text) + 1

\* [lex.icon]: the types of integers, smallest first, and those of them that a
\* literal of this base may have whose suffix asks for a type.
IntTypes == <<"INT", "UINT", "LONG", "ULONG", "LONGLONG", "ULONGLONG">>

Rank(type) == IF type \in {"INT", "UINT"} THEN 1 ELSE IF type \in {"LONG", "ULONG"} THEN 2 ELSE 3

Allowed(asked, base, type) ==
  /\ Rank(type) >= Rank(asked)
  /\ IsSigned(type) => IsSigned(asked)
  /\ ~IsSigned(type) => ~IsSigned(asked) \/ base # 10

\* The number that the digits of the literal denote.
ExactValue(s, base) ==
  LET first == FirstDigit(s)
      last == EndOf(first, DigitsOf(base))
      number[k \in first..last] ==
        IF k = first THEN 0 ELSE number[k - 1] * base + DigitValue(At(k - 1))
  IN number[last]

\* Whether everything before the suffix is a digit of the base.
WellFormed(s) == EndOf(FirstDigit(s), DigitsOf(Base(s))) = DigitsEnd(s)

ReportedAt(t) ==
  \E n \in 1..Len(lexDiags) : /\ lexDiags[n].err = "BAD_LITERAL"
                              /\ lexDiags[n].line = t.line
                              /\ lexDiags[n].column = t.column

\* The types a literal may have that hold its value.
Holding(asked, base, val) ==
  {n \in DOMAIN IntTypes : Allowed(asked, base, IntTypes[n]) /\ InType(val, IntTypes[n])}

\* An integer literal has the value its digits denote and the first type C++
\* allows it that holds this value, or an error was reported if there is none;
\* but a decimal literal with the suffix l may become unsigned.
IntLiterals ==
  \A k \in 1..Len(toks) :
    LET t == toks[k]
        asked == LiteralAt(t.at).type
        val == ExactValue(t.at, Base(t.at))
        holding == Holding(asked, Base(t.at), val)
    IN At(t.at) \in DigitsOf(10) /\ asked \notin FloatTypes /\ WellFormed(t.at) =>
         \/ asked = "LONG" /\ Base(t.at) = 10 /\ ~InType(val, "LONG")
         \/ holding = {} /\ ReportedAt(t)
         \/ \E n \in holding : /\ \A m \in holding : n <= m
                                /\ t.type = LitToks[IntTypes[n]]
                                /\ t.val = val

\* Two identifier tokens share an entry of the symbol table, which later
\* phases compare by address, exactly if they are spelled alike.
SymbolsShared ==
  \A m, n \in 1..Len(toks) :
    toks[m].type = "IDENTIFIER" /\ toks[n].type = "IDENTIFIER" =>
      /\ toks[m].ident \in 1..Len(symtbl)
      /\ symtbl[toks[m].ident] = Chars(toks[m])
      /\ toks[m].ident = toks[n].ident <=> Chars(toks[m]) = Chars(toks[n])

\* A text whose last line is complete is read past its end only if a block
\* comment is open there.
ReadsInside ==
  /\ i <= Len(text) + 1
  /\ lexing = "overrun" /\ Last(text) = "\n" =>
       IsBlockComment(i) /\ \A k \in i+2..Len(text) : ~Closes(k)

=============================================================================
