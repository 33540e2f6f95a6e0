------------------------------ MODULE TrLexer ------------------------------
(***************************************************************************)
(* The lexer of src/src/tr_lexer.c: the input, the buffer the characters   *)
(* of a token are gathered in, and the steps of tr_lexer_next_token, one   *)
(* for each iteration of its loops.  The buffer is never cleared, and an   *)
(* error token does not empty it: what earlier tokens left there is part   *)
(* of the state.  A write outside it is undefined behaviour: the lexer     *)
(* stops in pc "undefined".                                                *)
(***************************************************************************)
EXTENDS Integers, Sequences, FiniteSets, TLC

CONSTANTS
  Inputs,    \* the texts to read, sequences of characters
  Letters,   \* the characters is_alpha accepts
  Digits,    \* the characters is_digit accepts
  BufMax     \* sizeof(source), 512

NUL == "NUL"    \* the character '\0'
Quote == "\""

ASSUME LexerAssumption ==
  /\ Inputs \subseteq Seq(STRING) /\ BufMax \in Nat \ {0}
  /\ NUL \notin Letters \cup Digits

VARIABLES
  input, pos, eof,      \* what getc reads from, how far it is, lex->eof
  source, size,         \* lex->source; current is always source + size
  line,
  pc,                   \* where tr_lexer_next_token is; "idle" outside it
  token,                \* the last token returned
  asked                 \* pos when it was called

inputVars == <<input, pos, eof>>
vars == <<inputVars, source, size, line, pc, token, asked>>

Blank == {" ", "\r", "\t", "\n"}

NoToken == [type |-> "NONE", text |-> <<>>, line |-> 0]

Init ==
  /\ input \in Inputs /\ pos = 0 /\ eof = FALSE
  /\ source = [i \in 0 .. BufMax - 1 |-> NUL] /\ size = 0
  /\ line = 0
  /\ pc = "idle" /\ token = NoToken /\ asked = 0
-----------------------------------------------------------------------------
(* Reading.  s_getc and f_getc agree: past the end they give '\0' and set  *)
(* eof; s_peekc and f_peekc give '\0' there and set nothing.               *)

PeekAt(far) == IF pos + far < Len(input) THEN input[pos + far + 1] ELSE NUL
Char == PeekAt(0)

(* mutant of Getc: it does not stop at the end of the text *)
GetcPastEnd == pos' = pos + 1 /\ UNCHANGED <<eof, input>>

Getc ==
  /\ IF pos < Len(input) THEN pos' = pos + 1 /\ UNCHANGED eof
                         ELSE eof' = TRUE /\ UNCHANGED pos
  /\ UNCHANGED input

Room == size < BufMax

Advance ==
  /\ Room
  /\ source' = [source EXCEPT ![size] = Char]
  /\ size' = size + 1
  /\ Getc

CountLine == line' = IF Char = "\n" THEN line + 1 ELSE line

(* mem_strndup(source, size): up to a '\0', at most size characters *)
Text ==
  LET n == CHOOSE n \in 0 .. size :
             /\ n = size \/ source[n] = NUL
             /\ \A i \in 0 .. n - 1 : source[i] # NUL
  IN  [i \in 1 .. n |-> source[i - 1]]

(* mutant of ErrorToken: the character is put back and will be read again *)
ErrorTokenUnread ==
  /\ token' = [type |-> "ERR", text |-> <<>>, line |-> line]
  /\ pc' = "idle"
  /\ pos' = IF eof THEN pos ELSE pos - 1
  /\ size' = 0
  /\ UNCHANGED <<input, eof, source, line, asked>>

(* make_token, and error_token, which leaves the buffer as it is *)
MakeToken(type) ==
  /\ Room
  /\ token' = [type |-> type, text |-> Text, line |-> line]
  /\ source' = [source EXCEPT ![size] = NUL]
  /\ size' = 0
  /\ pc' = "idle"
  /\ UNCHANGED <<line, asked>>

ErrorToken ==
  /\ token' = [type |-> "ERR", text |-> <<>>, line |-> line]
  /\ pc' = "idle"
  /\ UNCHANGED <<inputVars, source, size, line, asked>>

Goto(where) == pc' = where /\ UNCHANGED <<token, asked>>
-----------------------------------------------------------------------------
(* tr_lexer_next_token, and skip_ws *)

NextToken ==
  /\ pc = "idle"
  /\ pc' = "skip" /\ asked' = pos
  /\ UNCHANGED <<inputVars, source, size, line, token>>

Comment == Char = "/" /\ PeekAt(1) = "/"

(* mutant of SkipBlank: line breaks are blanks like any other *)
SkipBlankUncounted ==
  /\ pc = "skip" /\ Char \in Blank
  /\ Getc /\ Goto("skip")
  /\ UNCHANGED <<source, size, line>>

SkipBlank ==
  /\ pc = "skip" /\ Char \in Blank
  /\ Getc /\ CountLine /\ Goto("skip")
  /\ UNCHANGED <<source, size>>

SkipComment ==
  /\ \/ pc = "skip" /\ Comment
     \/ pc = "comment" /\ Char # "\n" /\ ~eof
  /\ Getc /\ Goto("comment")
  /\ UNCHANGED <<source, size, line>>

(* the case of a comment falls into the default one: its line break is not *)
(* skipped, and is the first character of what follows                     *)
SkipEnds ==
  /\ \/ pc = "skip" /\ Char \notin Blank /\ ~Comment
     \/ pc = "comment" /\ (Char = "\n" \/ eof)
  /\ Goto("first")
  /\ UNCHANGED <<inputVars, source, size, line>>

EndOfFile ==
  /\ pc = "first" /\ eof
  /\ MakeToken("EOF")
  /\ UNCHANGED inputVars

First ==
  /\ pc = "first" /\ ~eof
  /\ Advance
  /\ Goto(CASE Char \in Letters -> "ident"
            [] Char \in Digits -> "number"
            [] Char = Quote -> "string"
            [] OTHER -> "op")
  /\ UNCHANGED line
-----------------------------------------------------------------------------
(* Operators *)

Single ==
  [ch \in {"(", ")", "{", "}", ",", ".", "-", ";", "+", "/", "*"} |->
     CASE ch = "(" -> "L_PAREN" [] ch = ")" -> "R_PAREN"
       [] ch = "{" -> "L_BRACE" [] ch = "}" -> "R_BRACE"
       [] ch = "," -> "COMMA"   [] ch = "." -> "DOT"   [] ch = ";" -> "SEMICOLON"
       [] ch = "-" -> "MINUS"   [] ch = "+" -> "PLUS"
       [] ch = "/" -> "SLASH"   [] ch = "*" -> "STAR"]

(* the character that may follow the first, the token of both and of the first *)
Double ==
  [ch \in {"&", "|", "=", "!", "<", ">"} |->
     CASE ch = "&" -> <<"&", "AND", "AMPERSAND">> [] ch = "|" -> <<"|", "OR", "PIPE">>
       [] ch = "=" -> <<"=", "EQ", "ASSIGN">>     [] ch = "!" -> <<"=", "NE", "EXCL">>
       [] ch = "<" -> <<"=", "LTEQ", "LT">>       [] ch = ">" -> <<"=", "GTEQ", "GT">>]

Current == source[size - 1]
Known == DOMAIN Single \cup DOMAIN Double

(* is_alpha and is_digit accept nothing in common, no blank, no operator *)
ASSUME CharAssumption ==
  Letters \cap Digits = {} /\ (Letters \cup Digits) \cap (Blank \cup Known \cup {Quote}) = {}

(* mutant of Matches: the character is read off unseen *)
MatchesUnseen(ch) == ~eof

(* match: *current is not the next character but what an earlier token     *)
(* left in the buffer; the next character is read off all the same         *)
Matches(ch) == ~eof /\ source[size] = ch

Operator ==
  /\ pc = "op" /\ Room
  /\ \/ /\ Current \in DOMAIN Single
        /\ MakeToken(Single[Current])
        /\ UNCHANGED inputVars
     \/ /\ Current \in DOMAIN Double /\ Matches(Double[Current][1])
        /\ MakeToken(Double[Current][2])
        /\ Getc
     \/ /\ Current \in DOMAIN Double /\ ~Matches(Double[Current][1])
        /\ MakeToken(Double[Current][3])
        /\ UNCHANGED inputVars

UnknownInput ==
  /\ pc = "op" /\ Current \notin Known
  /\ ErrorToken
-----------------------------------------------------------------------------
(* make_identifier, make_number, make_string *)

Keywords ==
  <<"a", "l", "a", "s", "s">> :> "CLASS" @@ <<"s", "u", "p", "e", "r">> :> "SUPER" @@
  <<"t", "h", "i", "s">> :> "THIS" @@ <<"t", "r", "u", "e">> :> "TRUE" @@
  <<"f", "a", "l", "s", "e">> :> "FALSE" @@ <<"f", "o", "r">> :> "FOR" @@
  <<"r", "e", "t", "u", "r", "n">> :> "RETURN" @@ <<"b", "r", "e", "a", "k">> :> "BREAK" @@
  <<"i", "f">> :> "IF" @@ <<"e", "l", "s", "e">> :> "ELSE" @@
  <<"w", "h", "i", "l", "e">> :> "WHILE" @@ <<"n", "i", "l">> :> "NIL" @@
  <<"v", "a", "r">> :> "VAR"

(* ident_type: all that begins with fn is TOKEN_FUNC *)
IdentType ==
  IF size > 1 /\ source[0] = "f" /\ source[1] = "n" THEN "FUNC"
  ELSE IF Text \in DOMAIN Keywords THEN Keywords[Text] ELSE "IDENT"

Word ==
  /\ pc = "ident"
  /\ IF Char \in Letters \cup Digits
     THEN Advance /\ Goto("ident") /\ UNCHANGED line
     ELSE MakeToken(IdentType) /\ UNCHANGED inputVars

(* "type" is set to TOKEN_NUMBER and never used *)
Number ==
  /\ pc \in {"number", "fraction"}
  /\ \/ /\ Char \in Digits
        /\ Advance /\ Goto(pc) /\ UNCHANGED line
     \/ /\ pc = "number" /\ Char = "." /\ PeekAt(1) \in Digits
        /\ Advance /\ Goto("fraction") /\ UNCHANGED line
     \/ /\ Char \notin Digits
        /\ pc = "number" => Char # "." \/ PeekAt(1) \notin Digits
        /\ MakeToken("INT") /\ UNCHANGED inputVars

(* mutant of StringChar: only the closing quote ends the string *)
StringCharToQuote ==
  /\ pc = "string" /\ Char # Quote
  /\ Advance /\ CountLine /\ Goto("string")

StringChar ==
  /\ pc = "string" /\ Char # Quote /\ ~eof
  /\ Advance /\ CountLine /\ Goto("string")

StringEnd ==
  \/ /\ pc = "string" /\ eof
     /\ ErrorToken
  \/ /\ pc = "string" /\ Char = Quote /\ ~eof
     /\ Advance /\ Goto("closed") /\ UNCHANGED line
  \/ /\ pc = "closed"
     /\ MakeToken("STRING") /\ UNCHANGED inputVars

(* a write, or match's read, one past the end of the buffer *)
Overflow ==
  /\ ~Room
  /\ \/ pc \in {"first", "ident", "number", "fraction", "closed"}
     \/ pc = "op" /\ Current \in Known
     \/ pc = "string" /\ ~eof
  /\ Goto("undefined")
  /\ UNCHANGED <<inputVars, source, size, line>>

Lex ==
  \/ SkipBlank \/ SkipComment \/ SkipEnds \/ EndOfFile \/ First \/ Operator
  \/ UnknownInput \/ Word \/ Number \/ StringChar \/ StringEnd \/ Overflow

Next == NextToken \/ Lex

Spec == Init /\ [][Next]_vars

(* Each call runs on, and the parser asks for tokens until the end: the    *)
(* loops of tr_parser_compile and advance have no other exit.              *)
FairSpec == Spec /\ WF_vars(Next)
-----------------------------------------------------------------------------
TypeOK ==
  /\ input \in Inputs /\ pos \in 0 .. Len(input) /\ eof \in BOOLEAN
  /\ DOMAIN source = 0 .. BufMax - 1 /\ size \in 0 .. BufMax
  /\ line \in Nat /\ asked \in 0 .. pos
  /\ pc \in {"idle", "skip", "comment", "first", "op", "ident", "number", "fraction",
             "string", "closed", "undefined"}
  /\ pc = "op" => size > 0

(* The buffer never holds more than was read, although characters that are *)
(* no token pile up in it: only a text about as long as the buffer is can  *)
(* run over its end.                                                       *)
FitsShortInput ==
  /\ size <= pos + IF eof THEN 1 ELSE 0
  /\ pc = "undefined" => Len(input) + 1 >= BufMax

(* A text of characters the lexer knows, without comments: no token of it  *)
(* begins with characters left over from the one before.                   *)
Tokenized(text) ==
  /\ \A i \in DOMAIN text : text[i] \in Letters \cup Digits \cup Blank \cup Known \cup {Quote}
  /\ ~ \E i \in 1 .. Len(text) - 1 : text[i] = "/" /\ text[i + 1] = "/"

(* One without a string that an operator could be continued from.          *)
Clean(text) ==
  LET chars == {text[i] : i \in DOMAIN text} IN
  Tokenized(text) /\ (chars \cap {"=", "&", "|"} = {} \/ Quote \notin chars)

Joint == {Double[ch][2] : ch \in DOMAIN Double}
Second(type) == Double[CHOOSE ch \in DOMAIN Double : Double[ch][2] = type][1]

(* Tokens and blanks tile a text of known characters: each token is the    *)
(* run of characters just read, with only blanks before it.  An operator   *)
(* of two characters keeps the first one only and swallows the next,       *)
(* whatever it is (match, tr_lexer.c:46); it is never recognised by its    *)
(* own second character, but by that of a string, earlier in the text.     *)
TokensTile ==
  [][ pc # "idle" /\ pc' = "idle" /\ token'.type \notin {"ERR", "EOF"} /\ Tokenized(input) =>
        LET joint == pc = "op" /\ token'.type \in Joint
            end == IF joint /\ ~eof' THEN pos' - 1 ELSE pos'
            from == end - Len(token'.text)
        IN  /\ token'.text = SubSeq(input, from + 1, end)
            /\ \A i \in asked + 1 .. from : input[i] \in Blank
            /\ joint => \E i \in 1 .. from - 1 :
                 input[i] = Quote /\ input[i + 1] = Second(token'.type) ]_vars

(* The line breaks that may go uncounted: that of a line with a comment,   *)
(* and one that an operator of two characters has swallowed.               *)
Missable(i) ==
  /\ input[i] = "\n"
  /\ \/ i > 1 /\ input[i - 1] \in DOMAIN Double
     \/ \E j \in 1 .. i - 1 : /\ input[j] = "/" /\ input[j + 1] = "/"
                             /\ \A k \in j .. i - 1 : input[k] # "\n"

(* The line that messages give is the number of line breaks read, but for  *)
(* those: of any text, no break is counted twice, and none is lost outside *)
(* comments and operators.                                                 *)
LinesExact ==
  LET breaks == {i \in 1 .. pos : input[i] = "\n"} IN
  /\ line <= Cardinality(breaks)
  /\ Cardinality(breaks) <= line + Cardinality({i \in 1 .. pos : Missable(i)})
  /\ Clean(input) => line = Cardinality(breaks)

(* Every text comes to TOKEN_EOF and stays there, unterminated strings and *)
(* comments and characters that are no token included, but for those that  *)
(* overrun the buffer (FitsShortInput says which they are).                *)
ReachesEnd == <>[](token.type = "EOF" \/ pc = "undefined")

(* "Decimal means floating points!!" (tr_parser.c:114): what number() gets *)
(* as TOKEN_INT, and reads with strtol, has no decimal point.              *)
DecimalIsFloat ==
  token.type = "INT" => \A i \in DOMAIN token.text : token.text[i] # "."
=============================================================================
