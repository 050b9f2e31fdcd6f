------------------------------ MODULE MCFrontEnd ------------------------------
(***************************************************************************)
(* Every short text over the characters that one kind of token is made of, *)
(* and every short declaration over the tokens that declarators are.       *)
(***************************************************************************)
EXTENDS DeclGrammar

UpTo(S, n) == UNION {[1..m -> S] : m \in 0..n}

-----------------------------------------------------------------------------
(***************************************************************************)
(* Texts for the tokenizer, character by character.                        *)
(***************************************************************************)
OperatorTexts == UpTo({"-", ">", "*", "<", "=", "&", ".", "/"}, 3)
NumberTexts == UpTo({"0", "1", "9", "x", "b", "u", "l", "."}, 3)
                 \cup {<<d>> \o s : d \in {"4", "7"}, s \in UpTo({"0", "8", "l", "f"}, 3)}
CommentTexts == UpTo({"/", "*", "\n", "x", "\t"}, 4) \cup {<<"/", "*">> \o s \o <<"*", "/">> \o e :
                   s \in UpTo({"\n", "*", " "}, 2), e \in {<<"x">>, <<"\n", "x">>}}
LiteralTexts == UpTo({"'", "\"", "L", "x", "\n"}, 4)
WideTexts == {q \o <<"wide", "cont">> \o r \o s :
                q \in UpTo({"'", "\"", "L"}, 2), r \in UpTo({"'", "\""}, 1),
                s \in {<<"@", "x", "'">>, <<"wide", "cont", "\n", "x">>}}
NameTexts == {<<"i">> \o s : s \in UpTo({"i", "n", "t", " "}, 4)}

-----------------------------------------------------------------------------
(***************************************************************************)
(* Texts for the parser, token by token.                                   *)
(***************************************************************************)
Spelled == [int |-> <<"i", "n", "t">>, char |-> <<"c", "h", "a", "r">>,
            void |-> <<"v", "o", "i", "d">>, auto |-> <<"a", "u", "t", "o">>,
            const |-> <<"c", "o", "n", "s", "t">>, long |-> <<"l", "o", "n", "g">>,
            signed |-> <<"s", "i", "g", "n", "e", "d">>,
            unsigned |-> <<"u", "n", "s", "i", "g", "n", "e", "d">>,
            short |-> <<"s", "h", "o", "r", "t">>,
            double |-> <<"d", "o", "u", "b", "l", "e">>,
            volatile |-> <<"v", "o", "l", "a", "t", "i", "l", "e">>,
            typedef |-> <<"t", "y", "p", "e", "d", "e", "f">>,
            static |-> <<"s", "t", "a", "t", "i", "c">>,
            struct |-> <<"s", "t", "r", "u", "c", "t">>,
            namespace |-> <<"n", "a", "m", "e", "s", "p", "a", "c", "e">>]

Chars1(w) == CASE w \in DOMAIN Spelled -> Spelled[w]
               [] w = "&&" -> <<"&", "&">> [] w = "[2]" -> <<"[", "2", "]">>
               [] w = "[-1]" -> <<"[", "-", "1", "]">> [] OTHER -> <<w>>

\* The words with blanks between them, on a line.
Line(words) ==
  LET line[n \in 0..Len(words)] ==
        IF n = 0 THEN <<>> ELSE line[n - 1] \o <<" ">> \o Chars1(words[n])
  IN line[Len(words)] \o <<"\n">>

BaseWords == {"const", "long", "unsigned", "int", "char", "short", "signed"}
Bases == {Line(b \o <<"a", ";">>) : b \in UpTo(BaseWords, 3)}

DeclaratorTexts == {Line(<<"int">> \o d \o <<";">>) :
                      d \in UpTo({"*", "&", "[2]", "(", ")", "a"}, 4) \cup
                            UpTo({"*", "&&", "[-1]", "const", "volatile", "a"}, 3)}

GroupTexts == {Line(<<"int", "(">> \o d \o <<"a", ")">> \o s \o <<";">>) :
                 d \in UpTo({"*", "&", "const"}, 2),
                 s \in {<<"[2]">>, <<"[2]", "[2]">>, <<"(", ")">>, <<>>}}

FptrTexts == {Line(<<"int", "*", "(", "*", "a", ")", "(">> \o p \o <<")", ";">>) :
                p \in UpTo({"int", "*", "&", "a", ",", ")"}, 3)}

ListTexts == {Line(<<"int">> \o d \o <<",">> \o e \o <<";">>) :
                d \in UpTo({"*", "a"}, 2), e \in UpTo({"*", "a", "b", "[2]", ","}, 2)}

AliasTexts ==
  {Line(<<"typedef">> \o b \o <<"t", ";">> \o u) :
     b \in {<<"int", "&">>, <<"char", "*">>, <<"void">>},
     u \in {q \o d \o e : q \in {<<"t">>, <<"const", "t">>, <<"t", "unsigned">>},
                         d \in UpTo({"*", "&&", "t", "a"}, 2),
                         e \in {<<";">>, <<";", "int", "a", ";">>}}}

\* Files that end early, or go on with something else.
EndTexts == {Line(b \o d) : b \in {<<"auto">>, <<"int">>, <<"void">>, <<"a">>, <<"long", "long">>},
                            d \in UpTo({"a", ",", ";", "="}, 2)}

\* Nodes that start as a declaration does, and may be of another kind.
NodeTexts == {Line(q \o k \o <<"a", ";">>) :
                q \in UpTo({"const", "static", "typedef", "long"}, 2),
                k \in {<<"struct">>, <<"namespace">>, <<"int">>, <<>>}}

MCTexts == OperatorTexts \cup NumberTexts \cup CommentTexts \cup LiteralTexts \cup WideTexts
             \cup NameTexts \cup Bases \cup DeclaratorTexts \cup GroupTexts \cup FptrTexts
             \cup ListTexts \cup AliasTexts \cup EndTexts \cup NodeTexts

=============================================================================
