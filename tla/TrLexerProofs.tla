--------------------------- MODULE TrLexerProofs ---------------------------
(***************************************************************************)
(* Proofs about the lexer, for any texts, characters and size of buffer:   *)
(* only a text about as long as the buffer can run over its end; tokens    *)
(* and blanks tile a text of known characters, but for the characters that *)
(* operators swallow; and no line break is lost but for comments and them. *)
(***************************************************************************)
EXTENDS TrLexer, FiniteSetTheorems, TLAPS

(* Either less was read than the text has, or the end was seen.            *)
Read == pos + IF eof THEN 1 ELSE 0

LexerInv ==
  /\ TypeOK
  /\ size <= Read
  /\ eof => pos = Len(input)
  /\ pc = "undefined" => Len(input) + 1 >= BufMax

(* The invariant is what FitsShortInput says, and types.                   *)
LEMMA LexerInvFits == LexerInv => FitsShortInput
  BY DEF LexerInv, FitsShortInput, Read

(* The buffer starts empty and no character has been read.                 *)
LEMMA InitLexerInv == Init => LexerInv
<1>. SUFFICES ASSUME Init
              PROVE  LexerInv
  OBVIOUS
<1>1. input \in Seq(STRING) /\ Len(input) \in Nat /\ BufMax \in Nat \ {0}
  BY LexerAssumption DEF Init
<1>2. DOMAIN source = 0 .. BufMax - 1 /\ size \in 0 .. BufMax
  BY <1>1 DEF Init
<1>3. pos \in 0 .. Len(input) /\ asked \in 0 .. pos /\ line \in Nat
  BY <1>1 DEF Init
<1>4. input \in Inputs /\ eof = FALSE /\ pc = "idle"
  BY DEF Init
<1>5. TypeOK
  BY <1>2, <1>3, <1>4 DEF TypeOK
<1>6. size = 0 /\ pos = 0
  BY DEF Init
<1>. QED
  BY <1>4, <1>5, <1>6 DEF LexerInv, Read

(* getc reads a character that is there, or sees the end.                  *)
LEMMA GetcReads ==
  ASSUME LexerInv, Getc
  PROVE  /\ input' = input /\ input' \in Inputs /\ Len(input) \in Nat
         /\ pos' \in 0 .. Len(input') /\ eof' \in BOOLEAN
         /\ pos' \in Nat /\ pos' >= pos /\ Read' >= Read
         /\ ~eof => Read' = Read + 1
         /\ eof' => pos' = Len(input')
<1>1. /\ input \in Inputs /\ Len(input) \in Nat /\ pos \in 0 .. Len(input)
      /\ eof \in BOOLEAN /\ (eof => pos = Len(input))
  BY LexerAssumption DEF LexerInv, TypeOK
<1>2. CASE pos < Len(input)
  BY <1>1, <1>2 DEF Getc, Read
<1>3. CASE ~(pos < Len(input))
  BY <1>1, <1>3 DEF Getc, Read
<1>. QED
  BY <1>2, <1>3

(* A character goes from the text to the buffer: both grow by one.         *)
LEMMA AdvanceFills ==
  ASSUME LexerInv, Advance, ~eof
  PROVE  /\ size' \in 0 .. BufMax /\ size' > 0 /\ size' <= Read'
         /\ DOMAIN source' = 0 .. BufMax - 1
<1>1. /\ BufMax \in Nat /\ size \in 0 .. BufMax /\ size <= Read /\ size < BufMax
      /\ pos \in Nat /\ DOMAIN source = 0 .. BufMax - 1
  BY LexerAssumption DEF LexerInv, TypeOK, Advance, Room
<1>2. size' = size + 1 /\ source' = [source EXCEPT ![size] = Char]
  BY DEF Advance
<1>3. Read' = Read + 1 /\ Read \in Nat
  BY <1>1, GetcReads DEF Advance, Read
<1>. QED
  BY <1>1, <1>2, <1>3

(* A token made empties the buffer; nothing else of the invariant changes. *)
LEMMA MakeTokenKeepsInv ==
  ASSUME LexerInv, NEW type, MakeToken(type),
         UNCHANGED inputVars \/ Getc
  PROVE  LexerInv'
<1>1. /\ BufMax \in Nat \ {0} /\ line \in Nat /\ input \in Inputs
      /\ Len(input) \in Nat /\ pos \in 0 .. Len(input) /\ eof \in BOOLEAN
      /\ asked \in 0 .. pos /\ DOMAIN source = 0 .. BufMax - 1
      /\ (eof => pos = Len(input))
  BY LexerAssumption DEF LexerInv, TypeOK
<1>2. /\ size' = 0 /\ pc' = "idle" /\ line' = line /\ asked' = asked
      /\ DOMAIN source' = 0 .. BufMax - 1
  BY <1>1 DEF MakeToken
<1>3. /\ input' \in Inputs /\ pos' \in 0 .. Len(input') /\ eof' \in BOOLEAN
      /\ pos' \in Nat /\ pos' >= pos /\ (eof' => pos' = Len(input'))
  <2>1. CASE UNCHANGED inputVars
    BY <1>1, <2>1 DEF inputVars
  <2>2. CASE Getc
    BY <1>1, <2>2, GetcReads
  <2>. QED
    BY <2>1, <2>2
<1>4. asked' \in 0 .. pos' /\ line' \in Nat /\ 0 <= Read' /\ size' \in 0 .. BufMax
  BY <1>1, <1>2, <1>3 DEF Read
<1>5. TypeOK'
  BY <1>2, <1>3, <1>4 DEF TypeOK
<1>. QED
  BY <1>2, <1>3, <1>4, <1>5 DEF LexerInv

(* A character is gathered, or skipped, and the token goes on.             *)
LEMMA GoOnKeepsInv ==
  ASSUME LexerInv, NEW where, Goto(where), ~eof,
         where \in {"skip", "comment", "op", "ident", "number", "fraction", "string",
                   "closed"},
         Advance \/ (Getc /\ UNCHANGED <<source, size>> /\ where # "op"),
         line' = line \/ line' = line + 1
  PROVE  LexerInv'
<1>1. /\ BufMax \in Nat \ {0} /\ line \in Nat /\ pos \in Nat /\ asked \in 0 .. pos
      /\ size \in 0 .. BufMax /\ size <= Read /\ DOMAIN source = 0 .. BufMax - 1
  BY LexerAssumption DEF LexerInv, TypeOK
<1>2. Getc /\ pc' = where /\ asked' = asked
  BY DEF Advance, Goto
<1>3. /\ input' \in Inputs /\ pos' \in 0 .. Len(input') /\ eof' \in BOOLEAN
      /\ pos' \in Nat /\ pos' >= pos /\ Read' = Read + 1
      /\ (eof' => pos' = Len(input'))
  BY <1>2, GetcReads
<1>4. /\ size' \in 0 .. BufMax /\ size' <= Read' /\ DOMAIN source' = 0 .. BufMax - 1
      /\ where = "op" => size' > 0
  <2>1. CASE Advance
    BY <2>1, AdvanceFills
  <2>2. CASE Getc /\ UNCHANGED <<source, size>> /\ where # "op"
    <3>1. Read \in Nat
      BY <1>1 DEF Read
    <3>. QED
      BY <1>1, <1>3, <2>2, <3>1
  <2>. QED
    BY <2>1, <2>2
<1>5. asked' \in 0 .. pos' /\ line' \in Nat
  BY <1>1, <1>2, <1>3
<1>6. TypeOK'
  BY <1>2, <1>3, <1>4, <1>5 DEF TypeOK
<1>. QED
  BY <1>2, <1>3, <1>4, <1>6 DEF LexerInv

(* A step that reads nothing and leaves the buffer as it is.               *)
LEMMA StillKeepsInv ==
  ASSUME LexerInv, UNCHANGED <<inputVars, source, size, line>>,
         asked' = asked \/ asked' = pos,
         pc' \in {"idle", "skip", "first"}
  PROVE  LexerInv'
<1>1. pos \in Nat /\ asked' \in 0 .. pos /\ pos' = pos
  BY LexerAssumption DEF LexerInv, TypeOK, inputVars
<1>2. TypeOK' /\ Read' = Read
  BY <1>1 DEF LexerInv, TypeOK, inputVars, Read
<1>. QED
  BY <1>2 DEF LexerInv, inputVars

(* After the end was seen there is only '\0' to peek at.                    *)
LEMMA NothingAfterEnd ==
  ASSUME LexerInv, Char # NUL
  PROVE  ~eof
  BY LexerAssumption DEF LexerInv, TypeOK, Char, PeekAt

(* The buffer is full only when about as much was read.                    *)
LEMMA OverflowKeepsInv == LexerInv /\ Overflow => LexerInv'
<1>. SUFFICES ASSUME LexerInv, Overflow
              PROVE  LexerInv'
  OBVIOUS
<1>1. /\ BufMax \in Nat /\ size = BufMax /\ Len(input) \in Nat
      /\ pos \in 0 .. Len(input) /\ size <= Read
  BY LexerAssumption DEF LexerInv, TypeOK, Overflow, Room
<1>2. Len(input) + 1 >= BufMax
  BY <1>1 DEF Read
<1>3. /\ pc' = "undefined" /\ UNCHANGED <<inputVars, source, size, line, asked>>
  BY DEF Overflow, Goto
<1>4. TypeOK' /\ Read' = Read
  BY <1>3 DEF LexerInv, TypeOK, inputVars, Read
<1>. QED
  BY <1>2, <1>3, <1>4 DEF LexerInv, inputVars

LEMMA NextKeepsLexerInv == LexerInv /\ [Next]_vars => LexerInv'
<1>. SUFFICES ASSUME LexerInv, [Next]_vars
              PROVE  LexerInv'
  OBVIOUS
<1>1. CASE NextToken
  BY <1>1, StillKeepsInv DEF NextToken
<1>2. CASE SkipBlank
  <2>1. ~eof
    BY <1>2, NothingAfterEnd DEF SkipBlank, Blank, NUL
  <2>. QED
    BY <1>2, <2>1, GoOnKeepsInv DEF SkipBlank, CountLine
<1>3. CASE SkipComment
  <2>1. ~eof
    BY <1>3, NothingAfterEnd DEF SkipComment, Comment, NUL
  <2>. QED
    BY <1>3, <2>1, GoOnKeepsInv DEF SkipComment
<1>4. CASE SkipEnds
  BY <1>4, StillKeepsInv DEF SkipEnds, Goto
<1>5. CASE EndOfFile
  BY <1>5, MakeTokenKeepsInv DEF EndOfFile
<1>6. CASE First
  <2>1. PICK where \in {"ident", "number", "string", "op"} : Goto(where)
    BY <1>6 DEF First
  <2>. QED
    BY <1>6, <2>1, GoOnKeepsInv DEF First
<1>7. CASE Operator
  <2>1. PICK type : MakeToken(type) /\ (UNCHANGED inputVars \/ Getc)
    BY <1>7 DEF Operator
  <2>. QED
    BY <2>1, MakeTokenKeepsInv
<1>8. CASE UnknownInput
  BY <1>8, StillKeepsInv DEF UnknownInput, ErrorToken
<1>9. CASE Word
  <2>1. CASE Char \in Letters \cup Digits
    <3>1. ~eof
      BY <2>1, NothingAfterEnd, LexerAssumption
    <3>. QED
      BY <1>9, <2>1, <3>1, GoOnKeepsInv DEF Word
  <2>2. CASE Char \notin Letters \cup Digits
    BY <1>9, <2>2, MakeTokenKeepsInv DEF Word
  <2>. QED
    BY <2>1, <2>2
<1>10. CASE Number
  <2>1. CASE Advance /\ UNCHANGED line /\ (Goto(pc) \/ Goto("fraction"))
             /\ (Char \in Digits \/ Char = ".")
    <3>1. ~eof
      BY <2>1, NothingAfterEnd, LexerAssumption DEF NUL
    <3>2. pc \in {"number", "fraction"}
      BY <1>10 DEF Number
    <3>. QED
      BY <2>1, <3>1, <3>2, GoOnKeepsInv
  <2>2. CASE MakeToken("INT") /\ UNCHANGED inputVars
    BY <2>2, MakeTokenKeepsInv
  <2>. QED
    BY <1>10, <2>1, <2>2 DEF Number
<1>11. CASE StringChar
  BY <1>11, GoOnKeepsInv DEF StringChar, CountLine
<1>12. CASE StringEnd
  <2>1. CASE ErrorToken
    BY <2>1, StillKeepsInv DEF ErrorToken
  <2>2. CASE ~eof /\ Advance /\ Goto("closed") /\ UNCHANGED line
    BY <2>2, GoOnKeepsInv
  <2>3. CASE MakeToken("STRING") /\ UNCHANGED inputVars
    BY <2>3, MakeTokenKeepsInv
  <2>. QED
    BY <1>12, <2>1, <2>2, <2>3 DEF StringEnd
<1>13. CASE UNCHANGED vars
  <2>1. TypeOK' /\ Read' = Read
    BY <1>13 DEF LexerInv, TypeOK, vars, inputVars, Read
  <2>. QED
    BY <1>13, <2>1 DEF LexerInv, vars, inputVars
<1>. QED
  BY <1>1, <1>2, <1>3, <1>4, <1>5, <1>6, <1>7, <1>8, <1>9, <1>10, <1>11, <1>12, <1>13,
     OverflowKeepsInv DEF Next, Lex

(* A text shorter than the buffer, by two characters, is read without a    *)
(* write past its end, however its characters are cut into tokens.         *)
THEOREM ShortInputsFit == Spec => []FitsShortInput
  BY InitLexerInv, NextKeepsLexerInv, LexerInvFits, PTL DEF Spec

(* The lexer's registers keep to the text and to the buffer.               *)
THEOREM LexerTypes == Spec => []TypeOK
<1>1. LexerInv => TypeOK
  BY DEF LexerInv
<1>. QED
  BY <1>1, InitLexerInv, NextKeepsLexerInv, PTL DEF Spec
-----------------------------------------------------------------------------
(* In a text of known characters the lexer keeps to this: it is in no      *)
(* comment, and between tokens the buffer is empty ...                     *)
BufferEmptied ==
  /\ pc # "comment"
  /\ pc \in {"idle", "skip", "first"} /\ ~eof => size = 0
  /\ pc = "first" /\ ~eof => Char \notin Blank

(* ... what match finds past a character is the second half of an operator *)
(* only when a string before it began with that ...                        *)
StaleFromString ==
  BufMax > 1 /\ source[1] \in {"=", "&", "|"} =>
    \E i \in 1 .. pos - (IF pc = "op" /\ ~eof THEN 2 ELSE 1) :
      input[i] = Quote /\ input[i + 1] = source[1]

(* ... a token begins with a character that is one ...                     *)
BeginsToken ==
  /\ pc = "op" => size = 1
  /\ pc = "op" /\ eof => Current = NUL
  /\ pc = "op" /\ ~eof => Current \in Known
  /\ pc \in {"ident", "number", "fraction", "closed"} => ~eof
  /\ pc = "string" => size > 0 /\ source[0] = Quote

(* ... and the characters read since the call are blanks, then the buffer. *)
BufferIsText ==
  /\ pc \in {"skip", "first"} => \A i \in asked + 1 .. pos : input[i] \in Blank
  /\ pc \in {"op", "ident", "number", "fraction", "string", "closed"} /\ ~eof =>
       /\ size <= pos - asked
       /\ \A i \in 0 .. size - 1 : source[i] = input[pos - size + i + 1]
       /\ \A i \in asked + 1 .. pos - size : input[i] \in Blank

Tiles == BufferEmptied /\ StaleFromString /\ BeginsToken /\ BufferIsText

(* In any text: a line break that is not skipped ends a comment, and an    *)
(* operator is the character last read.                                    *)
InComment ==
  \E j \in 1 .. pos : /\ input[j] = "/" /\ input[j + 1] = "/"
                     /\ \A k \in j .. pos : input[k] # "\n"

WhereBreaksGo ==
  /\ pc = "comment" \/ (pc = "first" /\ Char = "\n") => InComment
  /\ pc = "op" /\ ~eof => pos > 0 /\ Current = input[pos]

TileInv ==
  /\ LexerInv
  /\ WhereBreaksGo /\ LinesExact
  /\ Tokenized(input) => Tiles

(* Where the lexer is in the text, and what there is to know of the next   *)
(* character of such a text.                                               *)
LEMMA Position ==
  ASSUME LexerInv
  PROVE  /\ pos \in Nat /\ Len(input) \in Nat /\ pos <= Len(input)
         /\ input \in Seq(STRING) /\ eof \in BOOLEAN /\ (eof => pos = Len(input))
         /\ asked \in Nat /\ asked <= pos /\ line \in Nat
         /\ BufMax \in Nat \ {0} /\ size \in Nat /\ size <= BufMax
         /\ DOMAIN source = 0 .. BufMax - 1
<1>1. /\ input \in Seq(STRING) /\ BufMax \in Nat \ {0} /\ pos \in 0 .. Len(input)
      /\ Len(input) \in Nat
  BY LexerAssumption DEF LexerInv, TypeOK
<1>. QED
  BY <1>1 DEF LexerInv, TypeOK

LEMMA KnownChar ==
  ASSUME LexerInv, Tokenized(input)
  PROVE  /\ pos = Len(input) => Char = NUL
         /\ pos < Len(input) =>
              /\ Char = input[pos + 1] /\ Char # NUL
              /\ Char \in Letters \cup Digits \cup Blank \cup Known \cup {Quote}
         /\ ~Comment
<1>1. /\ input \in Seq(STRING) /\ Len(input) \in Nat /\ pos \in Nat /\ pos <= Len(input)
      /\ DOMAIN input = 1 .. Len(input)
  BY Position
<1>0. pos < Len(input) \/ pos = Len(input)
  BY Position
<1>2. \A i \in 1 .. Len(input) :
        input[i] \in Letters \cup Digits \cup Blank \cup Known \cup {Quote}
  BY <1>1 DEF Tokenized
<1>3. NUL \notin Letters \cup Digits \cup Blank \cup Known \cup {Quote}
  <2>1. NUL \notin Blank /\ NUL # Quote
    BY DEF Blank, Quote, NUL
  <2>2. NUL \notin Known
    BY DEF Known, Single, Double, NUL
  <2>. QED
    BY <2>1, <2>2, LexerAssumption
<1>4. pos < Len(input) => Char = input[pos + 1] /\ pos + 1 \in 1 .. Len(input)
  BY <1>1 DEF Char, PeekAt
<1>5. pos = Len(input) => Char = NUL
  BY <1>1 DEF Char, PeekAt
<1>6. ~Comment
  <2>. SUFFICES ASSUME Comment
                PROVE  FALSE
    OBVIOUS
  <2>1. Char = "/" /\ PeekAt(1) = "/"
    BY DEF Comment
  <2>2. pos < Len(input) /\ input[pos + 1] = "/"
    <3>1. pos < Len(input)
      BY <1>0, <1>5, <2>1 DEF NUL
    <3>. QED
      BY <1>4, <2>1, <3>1
  <2>3. pos + 1 < Len(input) /\ input[(pos + 1) + 1] = "/"
    BY <2>1 DEF PeekAt, NUL
  <2>4. pos + 1 \in 1 .. Len(input) - 1
    BY <1>1, <2>3
  <2>. QED
    BY <2>2, <2>3, <2>4 DEF Tokenized
<1>7. pos < Len(input) =>
        Char \in Letters \cup Digits \cup Blank \cup Known \cup {Quote}
  BY <1>2, <1>4
<1>8. pos < Len(input) => Char # NUL
  BY <1>3, <1>7
<1>. QED
  BY <1>4, <1>5, <1>6, <1>7, <1>8

(* What is said of the text alone stays as it is.                          *)
LEMMA SameText ==
  ASSUME input' = input
  PROVE  /\ Tokenized(input)' <=> Tokenized(input)
         /\ Clean(input)' <=> Clean(input)
         /\ \A i : Missable(i)' <=> Missable(i)
<1>1. Known' = Known /\ Blank' = Blank /\ (DOMAIN Double)' = DOMAIN Double /\ Quote' = Quote
  BY DEF Known, Single, Double, Blank, Quote
<1>2. Tokenized(input)' <=> Tokenized(input)
  BY ZenonT(60), <1>1 DEF Tokenized
<1>3. Clean(input)' <=> Clean(input)
  BY ZenonT(60), <1>1, <1>2 DEF Clean
<1>4. ASSUME NEW i
      PROVE  Missable(i)' <=> Missable(i)
  BY ZenonT(60), <1>1 DEF Missable
<1>. QED
  BY <1>2, <1>3, <1>4

LEMMA SameLines ==
  ASSUME input' = input,
         LET breaks == {i \in 1 .. pos' : input[i] = "\n"} IN
           /\ line' <= Cardinality(breaks)
           /\ Cardinality(breaks) <= line' + Cardinality({i \in 1 .. pos' : Missable(i)})
           /\ Clean(input) => line' = Cardinality(breaks)
  PROVE  LinesExact'
<1>1. {i \in 1 .. pos' : Missable(i)'} = {i \in 1 .. pos' : Missable(i)}
  BY SameText
<1>. QED
  BY <1>1, SameText DEF LinesExact

(* A character read is counted if it is a line break, but for those that   *)
(* may be missed, of a text that is not clean.                             *)
LEMMA LinesStep ==
  ASSUME LexerInv, LinesExact, Getc,
         \/ CountLine
         \/ line' = line /\ pos < Len(input) /\ Missable(pos + 1) /\ ~Clean(input)
  PROVE  LinesExact'
<1>. DEFINE Breaks(p) == {i \in 1 .. p : input[i] = "\n"}
            Missed(p) == {i \in 1 .. p : Missable(i)}
            Exact(p, n) == /\ n <= Cardinality(Breaks(p))
                           /\ Cardinality(Breaks(p)) <= n + Cardinality(Missed(p))
                           /\ Clean(input) => n = Cardinality(Breaks(p))
<1>1. Exact(pos, line) /\ input' = input /\ line \in Nat /\ pos \in Nat
  BY Position DEF LinesExact, Getc
<1>2. ASSUME NEW p \in Nat
      PROVE  /\ IsFiniteSet(Breaks(p)) /\ IsFiniteSet(Missed(p))
             /\ Cardinality(Breaks(p)) \in Nat /\ Cardinality(Missed(p)) \in Nat
             /\ Breaks(p + 1) = IF input[p + 1] = "\n" THEN Breaks(p) \cup {p + 1}
                                                       ELSE Breaks(p)
             /\ Missed(p + 1) = IF Missable(p + 1) THEN Missed(p) \cup {p + 1}
                                                   ELSE Missed(p)
             /\ p + 1 \notin Breaks(p) /\ p + 1 \notin Missed(p)
  <2>1. IsFiniteSet(1 .. p) /\ Breaks(p) \subseteq 1 .. p /\ Missed(p) \subseteq 1 .. p
    BY FS_Interval
  <2>2. IsFiniteSet(Breaks(p)) /\ IsFiniteSet(Missed(p))
    BY <2>1, FS_Subset
  <2>3. 1 .. p + 1 = (1 .. p) \cup {p + 1} /\ p + 1 \notin 1 .. p
    OBVIOUS
  <2>4. Breaks(p + 1) = IF input[p + 1] = "\n" THEN Breaks(p) \cup {p + 1} ELSE Breaks(p)
    BY <2>3
  <2>5. Missed(p + 1) = IF Missable(p + 1) THEN Missed(p) \cup {p + 1} ELSE Missed(p)
    <3>. HIDE DEF Breaks, Exact
    <3>. QED
      BY <2>3
  <2>. QED
    BY <2>2, <2>3, <2>4, <2>5, FS_CardinalityType
<1>3. ASSUME pos < Len(input)
      PROVE  Exact(pos + 1, line')
  <2>. DEFINE B == Cardinality(Breaks(pos))
              M == Cardinality(Missed(pos))
              C == Cardinality(Breaks(pos + 1))
              N == Cardinality(Missed(pos + 1))
  <2>1. /\ B \in Nat /\ M \in Nat
        /\ C = IF input[pos + 1] = "\n" THEN B + 1 ELSE B
        /\ N = IF Missable(pos + 1) THEN M + 1 ELSE M
    <3>1. /\ IsFiniteSet(Breaks(pos)) /\ IsFiniteSet(Missed(pos))
          /\ pos + 1 \notin Breaks(pos) /\ pos + 1 \notin Missed(pos)
          /\ B \in Nat /\ M \in Nat
      BY <1>1, <1>2
    <3>2. /\ Cardinality(Breaks(pos) \cup {pos + 1}) = B + 1
          /\ Cardinality(Missed(pos) \cup {pos + 1}) = M + 1
      <4>. HIDE DEF Breaks, Missed
      <4>. QED
        BY <3>1, FS_AddElement
    <3>3. /\ Breaks(pos + 1) = IF input[pos + 1] = "\n" THEN Breaks(pos) \cup {pos + 1}
                                                        ELSE Breaks(pos)
          /\ Missed(pos + 1) = IF Missable(pos + 1) THEN Missed(pos) \cup {pos + 1}
                                                    ELSE Missed(pos)
      BY <1>1, <1>2
    <3>. HIDE DEF Breaks, Missed
    <3>. QED
      BY <3>1, <3>2, <3>3
  <2>2. Missable(pos + 1) => input[pos + 1] = "\n"
    BY DEF Missable
  <2>3. Char = input[pos + 1]
    BY <1>1, <1>3 DEF Char, PeekAt
  <2>4. /\ line <= B /\ B <= line + M /\ (Clean(input) => line = B)
    BY <1>1
  <2>5. \/ line' = IF input[pos + 1] = "\n" THEN line + 1 ELSE line
        \/ line' = line /\ Missable(pos + 1) /\ ~Clean(input)
    BY <2>3 DEF CountLine
  <2>6. line' <= C /\ C <= line' + N /\ (Clean(input) => line' = C)
    <3>. HIDE DEF B, M, C, N
    <3>. QED
      BY <1>1, <2>1, <2>2, <2>4, <2>5
  <2>. QED
    BY <2>6
<1>4. CASE pos < Len(input)
  <2>1. pos' = pos + 1 /\ Exact(pos', line')
    BY <1>3, <1>4 DEF Getc
  <2>. QED
    BY <1>1, <2>1, SameLines
<1>5. CASE ~(pos < Len(input))
  <2>1. Char = NUL
    BY <1>1, <1>5 DEF Char, PeekAt
  <2>2. pos' = pos /\ line' = line
    BY <1>5, <2>1 DEF Getc, CountLine, NUL
  <2>3. Exact(pos', line')
    BY <1>1, <2>2
  <2>. QED
    BY <1>1, <2>3, SameLines
<1>. QED
  BY <1>4, <1>5

(* Where a token has begun and has not ended.                              *)
InToken == {"op", "ident", "number", "fraction", "string", "closed"}

(* A character gathered is the next of the text, and the last of the       *)
(* buffer.                                                                 *)
LEMMA GatheredIsText ==
  ASSUME LexerInv, Tokenized(input), BufferIsText, BufferEmptied, ~eof, Advance,
         pc \in InToken \cup {"first"}, pc' \in InToken, asked' = asked
  PROVE  BufferIsText'
<1>1. /\ pos \in Nat /\ size \in Nat /\ asked \in Nat /\ asked <= pos /\ BufMax \in Nat
      /\ size < BufMax /\ DOMAIN source = 0 .. BufMax - 1
  BY Position DEF Advance, Room
<1>2. /\ size <= pos - asked
      /\ \A i \in 0 .. size - 1 : source[i] = input[pos - size + i + 1]
      /\ \A i \in asked + 1 .. pos - size : input[i] \in Blank
  <2>1. CASE pc = "first"
    <3>1. size = 0 /\ \A i \in asked + 1 .. pos : input[i] \in Blank
      BY <2>1 DEF BufferEmptied, BufferIsText
    <3>. QED
      BY <1>1, <3>1
  <2>2. CASE pc \in InToken
    BY <2>2 DEF BufferIsText, InToken
  <2>. QED
    BY <2>1, <2>2
<1>3. input' = input /\ size' = size + 1 /\ source' = [source EXCEPT ![size] = Char]
  BY DEF Advance, Getc
<1>4. CASE pos < Len(input)
  <2>1. pos' = pos + 1 /\ Char = input[pos + 1]
    BY <1>4, KnownChar DEF Advance, Getc
  <2>2. size' <= pos' - asked'
    BY <1>1, <1>2, <1>3, <2>1
  <2>3. pos' - size' = pos - size
    BY <1>1, <1>3, <2>1
  <2>4. ASSUME NEW i \in 0 .. size' - 1
        PROVE  source'[i] = input'[pos' - size' + i + 1]
    <3>1. CASE i = size
      <4>1. source'[i] = Char /\ pos - size + i + 1 = pos + 1
        BY <1>1, <1>3, <3>1
      <4>. QED
        BY <1>3, <2>1, <2>3, <4>1
    <3>2. CASE i # size
      <4>1. i \in 0 .. size - 1 /\ source'[i] = source[i]
        BY <1>1, <1>3, <2>4, <3>2
      <4>. QED
        BY <1>2, <1>3, <2>3, <4>1
    <3>. QED
      BY <3>1, <3>2
  <2>5. \A i \in asked' + 1 .. pos' - size' : input'[i] \in Blank
    BY <1>2, <1>3, <2>3
  <2>6. pc' \notin {"skip", "first"}
    BY DEF InToken
  <2>. QED
    BY <2>2, <2>4, <2>5, <2>6 DEF BufferIsText
<1>5. CASE ~(pos < Len(input))
  <2>1. eof' /\ pc' \notin {"skip", "first"}
    BY <1>5 DEF Advance, Getc, InToken
  <2>. QED
    BY <2>1 DEF BufferIsText
<1>. QED
  BY <1>4, <1>5

LEMMA Earlier ==
  ASSUME NEW m \in Nat, NEW n \in Nat, n >= m, NEW i \in 1 .. m - 1
  PROVE  i \in 1 .. n - 1
  OBVIOUS

(* A token made leaves the buffer empty, and nothing new in it.            *)
LEMMA MadeTiles ==
  ASSUME LexerInv, Tiles, NEW type, MakeToken(type), UNCHANGED inputVars \/ Getc
  PROVE  Tiles'
<1>1. /\ size' = 0 /\ pc' = "idle" /\ source' = [source EXCEPT ![size] = NUL]
  BY DEF MakeToken
<1>2. input' = input /\ pos \in Nat /\ pos' \in Nat /\ pos' >= pos
  BY GetcReads, Position DEF inputVars
<1>3. BufferEmptied'
  BY <1>1 DEF BufferEmptied
<1>4. StaleFromString'
  <2>. SUFFICES ASSUME BufMax > 1, source'[1] \in {"=", "&", "|"}
                PROVE  \E i \in 1 .. pos' - 1 : input[i] = Quote /\ input[i + 1] = source'[1]
    BY <1>1, <1>2 DEF StaleFromString
  <2>1. source'[1] = source[1] \/ source'[1] = NUL
    BY <1>1, Position
  <2>2. source'[1] = source[1]
    BY <2>1 DEF NUL
  <2>3. \E i \in 1 .. pos - (IF pc = "op" /\ ~eof THEN 2 ELSE 1) :
          input[i] = Quote /\ input[i + 1] = source[1]
    BY <2>2 DEF Tiles, StaleFromString
  <2>4. PICK i \in 1 .. pos - 1 : input[i] = Quote /\ input[i + 1] = source[1]
    <3>1. CASE pc = "op" /\ ~eof
      <4>1. 1 .. pos - 2 \subseteq 1 .. pos - 1
        BY <1>2
      <4>. QED
        BY <2>3, <3>1, <4>1
    <3>2. CASE ~(pc = "op" /\ ~eof)
      BY <2>3, <3>2
    <3>. QED
      BY <3>1, <3>2
  <2>5. i \in 1 .. pos' - 1
    BY <1>2, Earlier
  <2>. QED
    BY <2>2, <2>4, <2>5
<1>5. BeginsToken' /\ BufferIsText'
  BY <1>1 DEF BeginsToken, BufferIsText
<1>. QED
  BY <1>3, <1>4, <1>5 DEF Tiles

(* A character gathered goes on with the token that its class begins.      *)
LEMMA GatheredTiles ==
  ASSUME LexerInv, Tokenized(input), Tiles, ~eof, Advance,
         NEW where \in InToken, Goto(where), pc \in (InToken \ {"op"}) \cup {"first"},
         size > 0 => pc = "string" \/ Char \notin {"=", "&", "|"},
         where = "op" => size = 0 /\ (Char = NUL \/ Char \in Known),
         where \in {"ident", "number", "fraction", "closed"} => Char # NUL,
         where = "string" => pc = "string" \/ (size = 0 /\ Char = Quote)
  PROVE  Tiles'
<1>0. /\ size \in Nat /\ BufMax \in Nat /\ DOMAIN source = 0 .. BufMax - 1
      /\ pos \in Nat /\ asked \in Nat
  BY Position
<1>1. /\ pc' = where /\ asked' = asked /\ size' = size + 1 /\ size \in 0 .. BufMax - 1
      /\ source' = [source EXCEPT ![size] = Char] /\ input' = input
  BY <1>0 DEF Goto, Advance, Room, Getc
<1>2. BufferEmptied'
  BY <1>1 DEF BufferEmptied, InToken
<1>3. BufferIsText'
  BY <1>1, GatheredIsText DEF Tiles
<1>4. pc # "op"
  BY DEF InToken
<1>5. pos < Len(input) <=> Char # NUL
  <2>1. pos = Len(input) => Char = NUL
    BY KnownChar
  <2>2. pos < Len(input) => Char # NUL
    BY KnownChar
  <2>3. pos < Len(input) \/ pos = Len(input)
    BY Position
  <2>4. pos = Len(input) => ~(pos < Len(input))
    BY Position
  <2>. QED
    BY <2>1, <2>2, <2>3, <2>4
<1>6. (eof' <=> Char = NUL) /\ pos' = IF eof' THEN pos ELSE pos + 1
  BY <1>5 DEF Advance, Getc
<1>7. StaleFromString'
  <2>. SUFFICES ASSUME BufMax > 1, source'[1] \in {"=", "&", "|"}
                PROVE  \E i \in 1 .. pos' - (IF pc' = "op" /\ ~eof' THEN 2 ELSE 1) :
                         input[i] = Quote /\ input[i + 1] = source'[1]
    BY <1>1 DEF StaleFromString
  <2>1. CASE size = 1
    <3>1. source'[1] = Char /\ pc = "string" /\ where # "op"
      BY <1>0, <1>1, <2>1
    <3>2. Char # NUL /\ pos' = pos + 1 /\ Char = input[pos + 1] /\ ~eof'
      BY <1>5, <1>6, <3>1, KnownChar DEF NUL
    <3>3. source[0] = Quote /\ source[0] = input[pos - 1 + 0 + 1] /\ 1 <= pos - asked
      BY <2>1, <3>1 DEF Tiles, BeginsToken, BufferIsText
    <3>4. input[pos] = Quote /\ pos \in 1 .. pos' - 1
      <4>1. pos - 1 + 0 + 1 = pos
        BY <1>0
      <4>. QED
        BY <1>0, <3>2, <3>3, <4>1
    <3>. QED
      BY <1>1, <3>1, <3>2, <3>4
  <2>2. CASE size # 1
    <3>1. source'[1] = source[1]
      BY <1>0, <1>1, <2>2
    <3>2. PICK i \in 1 .. pos - 1 : input[i] = Quote /\ input[i + 1] = source[1]
      BY <1>4, <3>1 DEF Tiles, StaleFromString
    <3>3. i \in 1 .. pos' - (IF pc' = "op" /\ ~eof' THEN 2 ELSE 1)
      BY <1>0, <1>6
    <3>. QED
      BY <3>1, <3>2, <3>3
  <2>. QED
    BY <2>1, <2>2
<1>8. BeginsToken'
  <2>1. Current' = Char
    <3>1. size' - 1 = size /\ source'[size] = Char
      BY <1>0, <1>1
    <3>. QED
      BY <3>1 DEF Current
  <2>2. pc' = "string" => size' > 0 /\ source'[0] = Quote
    <3>1. CASE pc = "string"
      <4>1. size > 0 /\ source[0] = Quote
        BY <3>1 DEF Tiles, BeginsToken
      <4>. QED
        BY <1>0, <1>1, <4>1
    <3>2. CASE size = 0 /\ Char = Quote
      BY <1>0, <1>1, <3>2
    <3>. QED
      BY <1>1, <3>1, <3>2
  <2>3. pc' = "op" => size' = 1
    BY <1>1
  <2>4. pc' = "op" /\ eof' => Current' = NUL
    BY <1>6, <2>1
  <2>5. pc' = "op" /\ ~eof' => Current' \in Known'
    BY <1>1, <1>6, <2>1 DEF Known, Single, Double
  <2>6. pc' \in {"ident", "number", "fraction", "closed"} => ~eof'
    BY <1>1, <1>6
  <2>. QED
    BY <2>2, <2>3, <2>4, <2>5, <2>6 DEF BeginsToken
<1>. QED
  BY <1>2, <1>3, <1>7, <1>8 DEF Tiles

(* A step that reads nothing and leaves the buffer as it is, out of a      *)
(* token or at the end of the text.                                        *)
LEMMA StillTiles ==
  ASSUME LexerInv, Tiles, UNCHANGED <<inputVars, source, size>>,
         \/ pc' = "idle" /\ eof
         \/ pc' = "skip" /\ pc = "idle" /\ asked' = pos
         \/ pc' = "first" /\ pc = "skip" /\ asked' = asked /\ Char \notin Blank
         \/ pc' = "undefined"
         \/ pc' = pc /\ asked' = asked
  PROVE  Tiles'
<1>1. Current' = Current /\ Char' = Char
  BY DEF Current, Char, PeekAt, inputVars
<1>2. BufferEmptied'
  BY <1>1 DEF Tiles, BufferEmptied, inputVars
<1>3. StaleFromString'
  <2>1. /\ input' = input /\ pos' = pos /\ eof' = eof /\ source' = source /\ pos \in Nat
    BY Position DEF inputVars
  <2>2. pc' = "op" /\ ~eof' => pc = "op" /\ ~eof
    BY <2>1
  <2>3. 1 .. pos - (IF pc = "op" /\ ~eof THEN 2 ELSE 1)
          \subseteq 1 .. pos' - (IF pc' = "op" /\ ~eof' THEN 2 ELSE 1)
    BY <2>1, <2>2
  <2>. QED
    BY <2>1, <2>3 DEF Tiles, StaleFromString
<1>4. BeginsToken'
  BY <1>1 DEF Tiles, BeginsToken, inputVars, Known, Single, Double
<1>5. BufferIsText'
  BY SMTT(30), Position DEF Tiles, BufferIsText, inputVars
<1>. QED
  BY <1>2, <1>3, <1>4, <1>5 DEF Tiles

(* The empty buffer is that of no token, and no line was read.             *)
LEMMA InitTiles == Init => TileInv
<1>. SUFFICES ASSUME Init
              PROVE  Tiles /\ WhereBreaksGo /\ LinesExact
  BY InitLexerInv DEF TileInv
<1>1. BufferEmptied /\ BeginsToken /\ BufferIsText /\ WhereBreaksGo
  BY DEF Init, BufferEmptied, BeginsToken, BufferIsText, WhereBreaksGo
<1>2. StaleFromString
  BY LexerAssumption DEF Init, StaleFromString, NUL
<1>3. /\ {i \in 1 .. pos : input[i] = "\n"} = {} /\ line = 0
      /\ {i \in 1 .. pos : Missable(i)} = {}
  BY DEF Init
<1>4. LinesExact
  <2>. DEFINE breaks == {i \in 1 .. pos : input[i] = "\n"}
              missed == {i \in 1 .. pos : Missable(i)}
  <2>1. Cardinality(breaks) = 0 /\ Cardinality(missed) = 0
    BY <1>3, FS_EmptySet
  <2>2. /\ line <= Cardinality(breaks) /\ Cardinality(breaks) <= line + Cardinality(missed)
        /\ line = Cardinality(breaks)
    <3>. HIDE DEF breaks, missed
    <3>. QED
      BY <1>3, <2>1
  <2>. HIDE DEF missed
  <2>. QED
    BY <2>2 DEF LinesExact, missed
<1>. QED
  BY <1>1, <1>2, <1>4 DEF Tiles

(* Blanks are read between tokens.                                         *)
LEMMA BlankTiles ==
  ASSUME LexerInv, Tokenized(input), Tiles, SkipBlank
  PROVE  Tiles'
<1>1. pc = "skip" /\ pc' = "skip" /\ Char \in Blank /\ Getc
      /\ asked' = asked /\ source' = source /\ size' = size
  BY DEF SkipBlank, Goto
<1>2. pos < Len(input) /\ Char = input[pos + 1]
  <2>1. Char # NUL
    BY <1>1 DEF Blank, NUL
  <2>2. pos < Len(input) \/ pos = Len(input)
    BY Position
  <2>. QED
    BY <2>1, <2>2, KnownChar
<1>3. pos' = pos + 1 /\ eof' = eof /\ input' = input /\ pos \in Nat
  BY <1>1, <1>2, Position DEF Getc
<1>4. BufferEmptied'
  BY <1>1, <1>3 DEF Tiles, BufferEmptied
<1>5. StaleFromString'
  <2>1. 1 .. pos - 1 \subseteq 1 .. pos' - 1
    BY <1>3
  <2>. QED
    BY <1>1, <1>3, <2>1 DEF Tiles, StaleFromString
<1>6. BeginsToken'
  BY <1>1 DEF BeginsToken
<1>7. BufferIsText'
  <2>1. \A i \in asked + 1 .. pos : input[i] \in Blank
    BY <1>1 DEF Tiles, BufferIsText
  <2>2. \A i \in asked' + 1 .. pos' : input'[i] \in Blank
    BY <1>1, <1>2, <1>3, <2>1, Position
  <2>. QED
    BY <1>1, <2>2 DEF BufferIsText
<1>. QED
  BY <1>4, <1>5, <1>6, <1>7 DEF Tiles

(* The first character of a token.                                         *)
LEMMA FirstTiles ==
  ASSUME LexerInv, Tokenized(input), Tiles, First
  PROVE  Tiles'
<1>1. pc = "first" /\ ~eof /\ Advance
  BY DEF First
<1>2. size = 0 /\ Char \notin Blank
  BY <1>1 DEF Tiles, BufferEmptied
<1>3. pc \in (InToken \ {"op"}) \cup {"first"} /\ ~(size > 0)
  BY <1>1, <1>2
<1>4. CASE Char \in Letters
  <2>1. Goto("ident") /\ Char # NUL /\ "ident" \in InToken
    BY <1>4, CharAssumption, LexerAssumption DEF First, InToken
  <2>. QED
    BY <1>1, <1>3, <2>1, GatheredTiles
<1>5. CASE Char \in Digits
  <2>1. Goto("number") /\ Char # NUL /\ "number" \in InToken
    BY <1>5, CharAssumption, LexerAssumption DEF First, InToken
  <2>. QED
    BY <1>1, <1>3, <2>1, GatheredTiles
<1>6. CASE Char = Quote
  <2>1. Goto("string") /\ "string" \in InToken
    BY <1>6, CharAssumption DEF First, InToken
  <2>. QED
    BY <1>1, <1>2, <1>3, <1>6, <2>1, GatheredTiles
<1>7. CASE Char \notin Letters \cup Digits \cup {Quote}
  <2>1. Goto("op") /\ "op" \in InToken
    BY <1>7 DEF First, InToken
  <2>2. Char = NUL \/ Char \in Known
    <3>1. pos < Len(input) \/ pos = Len(input)
      BY Position
    <3>. QED
      BY <1>2, <1>7, <3>1, KnownChar
  <2>. QED
    BY <1>1, <1>2, <1>3, <2>1, <2>2, GatheredTiles
<1>. QED
  BY <1>4, <1>5, <1>6, <1>7

(* The character of a word or a number is none of an operator; a string's  *)
(* may be one.                                                             *)
LEMMA InnerTiles ==
  ASSUME LexerInv, Tokenized(input), Tiles, ~eof, Advance,
         NEW where \in {"ident", "number", "fraction", "string", "closed"}, Goto(where),
         \/ /\ pc = "string"
            /\ where = "string" \/ (where = "closed" /\ Char = Quote)
         \/ /\ pc \in {"ident", "number", "fraction"}
            /\ where \in {"ident", "number", "fraction"}
            /\ Char \in Letters \cup Digits \cup {"."}
  PROVE  Tiles'
<1>1. pc \in (InToken \ {"op"}) \cup {"first"} /\ where \in InToken /\ where # "op"
  BY DEF InToken
<1>2. CASE /\ pc = "string"
           /\ where = "string" \/ (where = "closed" /\ Char = Quote)
  <2>1. where = "closed" => Char # NUL
    BY <1>2 DEF NUL, Quote
  <2>. QED
    BY <1>1, <1>2, <2>1, GatheredTiles
<1>3. CASE /\ pc \in {"ident", "number", "fraction"}
           /\ where \in {"ident", "number", "fraction"}
           /\ Char \in Letters \cup Digits \cup {"."}
  <2>1. Char # NUL
    BY <1>3, LexerAssumption DEF NUL
  <2>2. Char \notin {"=", "&", "|"}
    BY <1>3, CharAssumption DEF Known, Double
  <2>. QED
    BY <1>1, <1>3, <2>1, <2>2, GatheredTiles
<1>. QED
  BY <1>2, <1>3

(* The operator of two characters that Second names.                       *)
LEMMA SecondOf ==
  ASSUME NEW ch \in DOMAIN Double
  PROVE  /\ Double[ch][2] \in Joint /\ Double[ch][3] \notin Joint
         /\ Second(Double[ch][2]) = Double[ch][1]
         /\ Double[ch][1] \in {"=", "&", "|"}
<1>1. \A c, d \in DOMAIN Double : Double[c][2] = Double[d][2] => c = d
  BY DEF Double
<1>2. (CHOOSE c \in DOMAIN Double : Double[c][2] = Double[ch][2]) = ch
  BY <1>1
<1>3. \A c, d \in DOMAIN Double : Double[c][2] # Double[d][3]
  BY DEF Double
<1>4. Double[ch][1] \in {"=", "&", "|"}
  BY DEF Double
<1>. QED
  BY <1>2, <1>3, <1>4 DEF Second, Joint

(* match looks at what is behind the first character in the buffer: an     *)
(* operator has its second one from a string.                              *)
LEMMA OperatorStale ==
  ASSUME LexerInv, Tokenized(input), Tiles, Operator
  PROVE  /\ ~eof /\ pc = "op"
         /\ \E type :
              /\ MakeToken(type)
              /\ \/ type \notin Joint /\ UNCHANGED inputVars
                 \/ /\ type \in Joint /\ Getc
                    /\ \E i \in 1 .. pos - 2 : input[i] = Quote /\ input[i + 1] = Second(type)
                    /\ Second(type) \in {"=", "&", "|"}
<1>1. pc = "op" /\ size = 1 /\ BufMax > 1
  BY Position DEF Operator, Room, Tiles, BeginsToken
<1>2. Current \in Known
  BY DEF Operator, Known
<1>3. ~eof
  <2>1. NUL \notin Known
    BY DEF Known, Single, Double, NUL
  <2>. QED
    BY <1>1, <1>2, <2>1 DEF Tiles, BeginsToken
<1>4. CASE Current \in DOMAIN Single /\ MakeToken(Single[Current]) /\ UNCHANGED inputVars
  <2>1. Single[Current] \notin Joint
    BY <1>4 DEF Single, Joint, Double
  <2>. QED
    BY <1>1, <1>3, <1>4, <2>1
<1>5. CASE /\ Current \in DOMAIN Double /\ Matches(Double[Current][1])
           /\ MakeToken(Double[Current][2]) /\ Getc
  <2>1. source[1] = Double[Current][1] /\ source[1] \in {"=", "&", "|"}
    BY <1>1, <1>5, SecondOf DEF Matches
  <2>2. \E i \in 1 .. pos - 2 : input[i] = Quote /\ input[i + 1] = source[1]
    BY <1>1, <1>3, <2>1 DEF Tiles, StaleFromString
  <2>. QED
    BY <1>1, <1>3, <1>5, <2>1, <2>2, SecondOf
<1>6. CASE /\ Current \in DOMAIN Double /\ MakeToken(Double[Current][3])
           /\ UNCHANGED inputVars
  BY <1>1, <1>3, <1>6, SecondOf
<1>. QED
  BY <1>4, <1>5, <1>6 DEF Operator

(* Of a clean text no operator has two characters.                         *)
LEMMA OperatorAlone ==
  ASSUME LexerInv, Tokenized(input), Tiles, Operator, Clean(input)
  PROVE  UNCHANGED inputVars
<1>. SUFFICES ASSUME NEW i \in 1 .. pos - 2, input[i] = Quote,
                     input[i + 1] \in {"=", "&", "|"}
              PROVE  FALSE
  BY OperatorStale
<1>1. i \in DOMAIN input /\ i + 1 \in DOMAIN input
  <2>1. pos \in Nat /\ pos <= Len(input) /\ Len(input) \in Nat
        /\ DOMAIN input = 1 .. Len(input)
    BY Position
  <2>. QED
    BY <2>1
<1>. QED
  BY <1>1 DEF Clean

LEMMA InputStays == [Next]_vars => input' = input
<1>. SUFFICES ASSUME [Next]_vars
              PROVE  input' = input
  OBVIOUS
<1>1. Advance \/ Getc \/ UNCHANGED inputVars => input' = input
  BY DEF Advance, Getc, inputVars
<1>2. CASE UNCHANGED vars
  BY <1>2 DEF vars, inputVars
<1>3. CASE NextToken \/ SkipBlank \/ SkipComment \/ SkipEnds \/ EndOfFile \/ First
  BY <1>1, <1>3 DEF NextToken, SkipBlank, SkipComment, SkipEnds, EndOfFile, First
<1>4. CASE Operator \/ UnknownInput \/ Overflow
  BY <1>1, <1>4 DEF Operator, UnknownInput, ErrorToken, Overflow
<1>5. CASE Word \/ Number \/ StringChar \/ StringEnd
  BY <1>1, <1>5 DEF Word, Number, StringChar, StringEnd, ErrorToken
<1>. QED
  BY <1>2, <1>3, <1>4, <1>5 DEF Next, Lex

LEMMA NextKeepsTiles ==
  ASSUME LexerInv, Tokenized(input), Tiles, [Next]_vars
  PROVE  Tiles'
<1>1. CASE NextToken
  BY <1>1, StillTiles DEF NextToken
<1>2. CASE SkipBlank
  BY <1>2, BlankTiles
<1>3. CASE SkipComment
  BY <1>3, KnownChar DEF SkipComment, Tiles, BufferEmptied
<1>4. CASE SkipEnds
  BY <1>4, StillTiles DEF SkipEnds, Goto, Tiles, BufferEmptied
<1>5. CASE EndOfFile
  BY <1>5, MadeTiles DEF EndOfFile
<1>6. CASE First
  BY <1>6, FirstTiles
<1>7. CASE Operator
  BY <1>7, OperatorStale, MadeTiles
<1>8. CASE UnknownInput
  <2>1. eof
    BY <1>8 DEF UnknownInput, Tiles, BeginsToken
  <2>. QED
    BY <1>8, <2>1, StillTiles DEF UnknownInput, ErrorToken
<1>9. CASE Word
  <2>1. CASE Char \in Letters \cup Digits
    <3>1. pc = "ident" /\ ~eof /\ Advance /\ Goto("ident")
      BY <1>9, <2>1 DEF Word, Tiles, BeginsToken
    <3>. QED
      BY <2>1, <3>1, InnerTiles
  <2>2. CASE Char \notin Letters \cup Digits
    BY <1>9, <2>2, MadeTiles DEF Word
  <2>. QED
    BY <2>1, <2>2
<1>10. CASE Number
  <2>1. CASE Advance /\ (Goto(pc) \/ Goto("fraction")) /\ Char \in Digits \cup {"."}
    <3>1. pc \in {"number", "fraction"} /\ ~eof
      BY <1>10 DEF Number, Tiles, BeginsToken
    <3>. QED
      BY <2>1, <3>1, InnerTiles
  <2>2. CASE MakeToken("INT") /\ UNCHANGED inputVars
    BY <2>2, MadeTiles
  <2>. QED
    BY <1>10, <2>1, <2>2 DEF Number
<1>11. CASE StringChar
  <2>1. pc = "string" /\ ~eof /\ Advance /\ Goto("string")
    BY <1>11 DEF StringChar
  <2>2. PICK where \in {"ident", "number", "fraction", "string", "closed"} :
          where = "string" /\ Goto(where)
    BY <2>1
  <2>. QED
    BY <2>1, <2>2, InnerTiles
<1>12. CASE StringEnd
  <2>1. CASE eof /\ ErrorToken
    BY <2>1, StillTiles DEF ErrorToken
  <2>2. CASE pc = "string" /\ Char = Quote /\ ~eof /\ Advance /\ Goto("closed")
    BY <2>2, InnerTiles
  <2>3. CASE MakeToken("STRING") /\ UNCHANGED inputVars
    BY <2>3, MadeTiles
  <2>. QED
    BY <1>12, <2>1, <2>2, <2>3 DEF StringEnd
<1>13. CASE Overflow
  BY <1>13, StillTiles DEF Overflow, Goto
<1>14. CASE UNCHANGED vars
  BY <1>14, StillTiles DEF vars, inputVars
<1>. QED
  BY <1>1, <1>2, <1>3, <1>4, <1>5, <1>6, <1>7, <1>8, <1>9, <1>10, <1>11, <1>12, <1>13,
     <1>14 DEF Next, Lex

(* A comment goes on to the line break that ends it.                       *)
LEMMA NextKeepsWhere ==
  ASSUME LexerInv, WhereBreaksGo, [Next]_vars
  PROVE  WhereBreaksGo'
<1>1. /\ pos \in Nat /\ Len(input) \in Nat /\ pos <= Len(input) /\ input' = input
      /\ DOMAIN input = 1 .. Len(input) /\ BufMax \in Nat
      /\ size \in Nat /\ DOMAIN source = 0 .. BufMax - 1
  BY Position, InputStays
<1>2. CASE SkipComment
  <2>1. pc' = "comment" /\ Getc
    BY <1>2 DEF SkipComment, Goto
  <2>2. CASE pc = "skip" /\ Comment
    <3>1. pos < Len(input) /\ input[pos + 1] = "/" /\ input[(pos + 1) + 1] = "/"
      BY <1>1, <2>2 DEF Comment, Char, PeekAt, NUL
    <3>2. pos' = pos + 1 /\ pos' \in 1 .. pos' /\ \A k \in pos' .. pos' : input[k] # "\n"
      BY <1>1, <2>1, <3>1 DEF Getc
    <3>. QED
      BY <1>1, <2>1, <3>1, <3>2 DEF WhereBreaksGo, InComment
  <2>3. CASE pc = "comment" /\ Char # "\n" /\ ~eof
    <3>1. PICK j \in 1 .. pos : /\ input[j] = "/" /\ input[j + 1] = "/"
                               /\ \A k \in j .. pos : input[k] # "\n"
      BY <2>3 DEF WhereBreaksGo, InComment
    <3>2. pos' = pos \/ (pos' = pos + 1 /\ input[pos + 1] # "\n")
      BY <1>1, <2>1, <2>3 DEF Getc, Char, PeekAt
    <3>3. j \in 1 .. pos' /\ \A k \in j .. pos' : input[k] # "\n"
      BY <1>1, <3>1, <3>2
    <3>. QED
      BY <1>1, <2>1, <3>1, <3>3 DEF WhereBreaksGo, InComment
  <2>. QED
    BY <1>2, <2>2, <2>3 DEF SkipComment
<1>3. CASE SkipEnds
  <2>1. pc' = "first" /\ pos' = pos /\ Char' = Char /\ (Char = "\n" => pc = "comment")
    BY <1>3 DEF SkipEnds, Goto, inputVars, Char, PeekAt, Blank
  <2>. QED
    BY <1>1, <2>1 DEF WhereBreaksGo, InComment
<1>4. CASE First
  <2>1. /\ pc' \in {"ident", "number", "string", "op"} /\ Getc /\ size' = size + 1
        /\ source' = [source EXCEPT ![size] = Char] /\ size < BufMax /\ ~eof
    BY <1>4 DEF First, Goto, Advance, Room
  <2>2. ~eof' => pos' = pos + 1 /\ Char = input[pos + 1]
    BY <1>1, <2>1 DEF Getc, Char, PeekAt
  <2>3. Current' = Char
    BY <1>1, <2>1 DEF Current
  <2>. QED
    BY <1>1, <2>1, <2>2, <2>3 DEF WhereBreaksGo
<1>5. CASE NextToken \/ SkipBlank \/ EndOfFile \/ Operator \/ UnknownInput \/ Word \/ Number
           \/ StringChar \/ StringEnd \/ Overflow
  <2>1. pc' \notin {"comment", "first", "op"}
    BY <1>5 DEF NextToken, SkipBlank, EndOfFile, Operator, MakeToken, UnknownInput, ErrorToken,
       Word, Number, StringChar, StringEnd, Overflow, Goto
  <2>. QED
    BY <2>1 DEF WhereBreaksGo
<1>6. CASE UNCHANGED vars
  <2>1. Char' = Char /\ Current' = Current /\ (InComment <=> InComment')
    BY <1>6 DEF vars, inputVars, Char, PeekAt, Current, InComment
  <2>. QED
    BY <1>6, <2>1 DEF WhereBreaksGo, vars, inputVars
<1>. QED
  BY <1>2, <1>3, <1>4, <1>5, <1>6 DEF Next, Lex

(* Nothing is read, or a character whose line break is counted, or one     *)
(* that a comment or an operator ends with.                                *)
LEMMA NextKeepsLines ==
  ASSUME TileInv, [Next]_vars
  PROVE  LinesExact'
<1>. USE DEF TileInv
<1>1. /\ pos \in Nat /\ Len(input) \in Nat /\ pos <= Len(input) /\ input' = input
      /\ DOMAIN input = 1 .. Len(input)
  BY Position, InputStays
<1>2. ASSUME pos' = pos, line' = line
      PROVE  LinesExact'
  <2>1. LET breaks == {i \in 1 .. pos' : input[i] = "\n"} IN
           /\ line' <= Cardinality(breaks)
           /\ Cardinality(breaks) <= line' + Cardinality({i \in 1 .. pos' : Missable(i)})
           /\ Clean(input) => line' = Cardinality(breaks)
    BY <1>2 DEF LinesExact
  <2>. QED
    BY <1>1, <2>1, SameLines
<1>3. pos < Len(input) => Char = input[pos + 1]
  BY <1>1 DEF Char, PeekAt
<1>4. Char = "\n" => pos < Len(input)
  BY <1>1 DEF Char, PeekAt, NUL
<1>5. CASE SkipBlank \/ StringChar
  BY <1>5, LinesStep DEF SkipBlank, StringChar, Advance
<1>6. CASE SkipComment
  BY <1>6, LinesStep DEF SkipComment, Comment, CountLine
<1>7. CASE First
  <2>1. Getc /\ line' = line /\ pc = "first"
    BY <1>7 DEF First, Advance
  <2>2. CASE Char # "\n"
    BY <2>1, <2>2, LinesStep DEF CountLine
  <2>3. CASE Char = "\n"
    <3>1. PICK j \in 1 .. pos : /\ input[j] = "/" /\ input[j + 1] = "/"
                               /\ \A k \in j .. pos : input[k] # "\n"
      BY <2>1, <2>3 DEF WhereBreaksGo, InComment
    <3>2. pos < Len(input) /\ input[pos + 1] = "\n"
      BY <1>3, <1>4, <2>3
    <3>3. Missable(pos + 1)
      <4>1. j \in 1 .. (pos + 1) - 1 /\ \A k \in j .. (pos + 1) - 1 : input[k] # "\n"
        BY <1>1, <3>1
      <4>. QED
        BY <3>1, <3>2, <4>1 DEF Missable
    <3>4. ~Clean(input)
      <4>1. j \in 1 .. Len(input) - 1
        BY <1>1, <3>1, <3>2
      <4>. QED
        BY <3>1, <4>1 DEF Clean, Tokenized
    <3>. QED
      BY <2>1, <3>2, <3>3, <3>4, LinesStep
  <2>. QED
    BY <2>2, <2>3
<1>8. CASE Operator
  <2>1. line' = line /\ pc = "op"
    BY <1>8 DEF Operator, MakeToken
  <2>2. CASE pos' = pos
    BY <1>2, <2>1, <2>2
  <2>3. CASE pos' # pos
    <3>1. /\ Getc /\ ~eof /\ Current \in DOMAIN Double
      BY <1>8, <2>3 DEF Operator, inputVars, Matches
    <3>2. pos < Len(input)
      BY <2>3, <3>1 DEF Getc
    <3>3. pos > 0 /\ input[pos] \in DOMAIN Double
      BY <2>1, <3>1 DEF WhereBreaksGo
    <3>4. ~Clean(input)
      <4>1. Clean(input) => UNCHANGED inputVars
        BY <1>8, OperatorAlone DEF Clean
      <4>. QED
        BY <2>3, <4>1 DEF inputVars
    <3>5. input[pos + 1] = "\n" => Missable(pos + 1)
      <4>1. pos + 1 > 1 /\ (pos + 1) - 1 = pos
        BY <1>1, <3>3
      <4>. QED
        BY <3>3, <4>1 DEF Missable
    <3>6. input[pos + 1] # "\n" => CountLine
      BY <1>3, <2>1, <3>2 DEF CountLine
    <3>. QED
      BY <2>1, <3>1, <3>2, <3>4, <3>5, <3>6, LinesStep
  <2>. QED
    BY <2>2, <2>3
<1>9. CASE Word
  <2>1. CASE Char \in Letters \cup Digits
    <3>1. Getc /\ CountLine
      BY <1>9, <2>1, CharAssumption DEF Word, Advance, CountLine, Blank
    <3>. QED
      BY <3>1, LinesStep
  <2>2. CASE Char \notin Letters \cup Digits
    BY <1>2, <1>9, <2>2 DEF Word, MakeToken, inputVars
  <2>. QED
    BY <2>1, <2>2
<1>10. CASE Number
  <2>1. CASE Advance /\ UNCHANGED line /\ Char \in Digits \cup {"."}
    <3>1. Getc /\ CountLine
      BY <2>1, CharAssumption DEF Advance, CountLine, Blank
    <3>. QED
      BY <3>1, LinesStep
  <2>2. CASE MakeToken("INT") /\ UNCHANGED inputVars
    BY <1>2, <2>2 DEF MakeToken, inputVars
  <2>. QED
    BY <1>10, <2>1, <2>2 DEF Number
<1>11. CASE StringEnd
  <2>1. CASE Char = Quote /\ Advance /\ UNCHANGED line
    <3>1. Getc /\ CountLine
      BY <2>1 DEF Advance, CountLine, Quote
    <3>. QED
      BY <3>1, LinesStep
  <2>2. CASE ErrorToken \/ (MakeToken("STRING") /\ UNCHANGED inputVars)
    BY <1>2, <2>2 DEF ErrorToken, MakeToken, inputVars
  <2>. QED
    BY <1>11, <2>1, <2>2 DEF StringEnd
<1>12. CASE NextToken \/ SkipEnds \/ EndOfFile \/ UnknownInput \/ Overflow \/ UNCHANGED vars
  <2>1. pos' = pos /\ line' = line
    BY <1>12 DEF NextToken, SkipEnds, EndOfFile, MakeToken, UnknownInput, ErrorToken,
       Overflow, vars, inputVars
  <2>. QED
    BY <1>2, <2>1
<1>. QED
  BY <1>5, <1>6, <1>7, <1>8, <1>9, <1>10, <1>11, <1>12 DEF Next, Lex

LEMMA NextKeepsTileInv == TileInv /\ [Next]_vars => TileInv'
<1>. SUFFICES ASSUME TileInv, [Next]_vars
              PROVE  TileInv'
  OBVIOUS
<1>1. LexerInv' /\ WhereBreaksGo' /\ LinesExact'
  BY NextKeepsLexerInv, NextKeepsWhere, NextKeepsLines DEF TileInv
<1>2. ASSUME Tokenized(input)
      PROVE  Tiles'
  BY <1>2, NextKeepsTiles DEF TileInv
<1>3. Tokenized(input)' => Tokenized(input)
  BY InputStays, SameText
<1>. QED
  BY <1>1, <1>2, <1>3 DEF TileInv

(* The line that messages give is that of the text, but for the line       *)
(* breaks of comments and of operators: each other one read is counted,    *)
(* none twice, and of a clean text every one.                              *)
THEOREM LinesAreExact == Spec => []LinesExact
<1>1. TileInv => LinesExact
  BY DEF TileInv
<1>. QED
  BY <1>1, InitTiles, NextKeepsTileInv, PTL DEF Spec

(* SubSeq, element by element.                                             *)
LEMMA SubText ==
  ASSUME NEW t \in Seq(STRING), NEW m \in Nat, NEW n \in Nat, m <= n, n <= Len(t)
  PROVE  SubSeq(t, m + 1, n) = [i \in 1 .. n - m |-> t[m + i]]
  OBVIOUS

(* A token is made of the buffer's characters, for none of them is '\0',   *)
(* and these are the last ones read.                                       *)
LEMMA TokenIsText ==
  ASSUME LexerInv, Tokenized(input), Tiles, pc \in InToken, ~eof,
         NEW type, MakeToken(type)
  PROVE  LET from == pos - Len(token'.text) IN
           /\ token'.text = SubSeq(input, from + 1, pos)
           /\ \A i \in asked + 1 .. from : input[i] \in Blank
           /\ from = pos - size
<1>1. /\ size \in Nat /\ pos \in Nat /\ asked \in Nat /\ size <= pos
      /\ pos - size \in Nat /\ pos - size <= pos
      /\ \A i \in 0 .. size - 1 : source[i] = input[(pos - size) + (i + 1)]
      /\ \A i \in asked + 1 .. pos - size : input[i] \in Blank
  <2>1. /\ size <= pos - asked
        /\ \A i \in 0 .. size - 1 : source[i] = input[pos - size + i + 1]
        /\ \A i \in asked + 1 .. pos - size : input[i] \in Blank
    BY DEF Tiles, BufferIsText, InToken
  <2>2. size \in Nat /\ pos \in Nat /\ asked \in Nat
    BY Position
  <2>3. \A i \in 0 .. size - 1 : pos - size + i + 1 = (pos - size) + (i + 1)
    BY <2>2
  <2>. QED
    BY <2>1, <2>2, <2>3
<1>2. ASSUME NEW i \in 0 .. size - 1
      PROVE  source[i] # NUL
  <2>1. source[i] = input[(pos - size) + (i + 1)] /\ (pos - size) + (i + 1) \in 1 .. Len(input)
    <3>1. pos <= Len(input) /\ Len(input) \in Nat
      BY Position
    <3>. QED
      BY <1>1, <3>1
  <2>2. \A j \in 1 .. Len(input) :
          input[j] \in Letters \cup Digits \cup Blank \cup Known \cup {Quote}
    <3>1. DOMAIN input = 1 .. Len(input)
      BY Position
    <3>. QED
      BY <3>1 DEF Tokenized
  <2>3. NUL \notin Letters \cup Digits \cup Blank \cup Known \cup {Quote}
    <3>1. NUL \notin Blank /\ NUL # Quote
      BY DEF Blank, Quote, NUL
    <3>2. NUL \notin Known
      BY DEF Known, Single, Double, NUL
    <3>. QED
      BY <3>1, <3>2, LexerAssumption
  <2>. QED
    BY <2>1, <2>2, <2>3
<1>3. Text = [i \in 1 .. size |-> source[i - 1]]
  <2>. DEFINE Stops(n) == /\ n = size \/ source[n] = NUL
                          /\ \A i \in 0 .. n - 1 : source[i] # NUL
  <2>1. size \in 0 .. size /\ Stops(size)
    BY <1>1, <1>2
  <2>2. \A n \in 0 .. size : Stops(n) => n = size
    BY <1>1, <1>2
  <2>3. (CHOOSE n \in 0 .. size : Stops(n)) = size
    BY <2>1, <2>2
  <2>. QED
    BY <2>3 DEF Text
<1>4. SubSeq(input, (pos - size) + 1, pos) = [i \in 1 .. pos - (pos - size) |-> input[(pos - size) + i]]
  <2>1. input \in Seq(STRING) /\ pos <= Len(input)
    BY Position
  <2>. QED
    BY <1>1, <2>1, SubText
<1>5. Text = SubSeq(input, (pos - size) + 1, pos)
  <2>1. pos - (pos - size) = size
    BY <1>1
  <2>2. \A i \in 1 .. size : source[i - 1] = input[(pos - size) + i]
    <3>. SUFFICES ASSUME NEW i \in 1 .. size
                  PROVE  source[i - 1] = input[(pos - size) + i]
      OBVIOUS
    <3>1. i - 1 \in 0 .. size - 1 /\ (i - 1) + 1 = i
      BY <1>1
    <3>2. source[i - 1] = input[(pos - size) + ((i - 1) + 1)]
      BY <1>1, <3>1
    <3>. QED
      BY <3>1, <3>2
  <2>. QED
    BY <1>3, <1>4, <2>1, <2>2
<1>6. Len(Text) = size
  BY <1>1, <1>3
<1>7. token'.text = Text
  BY DEF MakeToken
<1>. QED
  BY <1>1, <1>5, <1>6, <1>7

(* Each token of such a text is the text of the characters just read, with *)
(* only blanks between it and the token before: none is lost but the one   *)
(* that an operator swallows, and it does so only after a string that      *)
(* begins with the character it looks for.                                 *)
THEOREM TokensTileText == Spec => TokensTile
<1>. DEFINE Tiled ==
       LET joint == pc = "op" /\ token'.type \in Joint
           end == IF joint /\ ~eof' THEN pos' - 1 ELSE pos'
           from == end - Len(token'.text)
       IN  /\ token'.text = SubSeq(input, from + 1, end)
           /\ \A i \in asked + 1 .. from : input[i] \in Blank
           /\ joint => \E i \in 1 .. from - 1 :
                input[i] = Quote /\ input[i + 1] = Second(token'.type)
     Tile ==
       pc # "idle" /\ pc' = "idle" /\ token'.type \notin {"ERR", "EOF"} /\ Tokenized(input) =>
         Tiled
<1>1. ASSUME TileInv, Next, pc # "idle", pc' = "idle", token'.type \notin {"ERR", "EOF"},
             Tokenized(input)
      PROVE  Tiled
  <2>1. LexerInv /\ Tiles /\ pos \in Nat /\ Len(input) \in Nat /\ pos <= Len(input)
    BY <1>1, Position DEF TileInv
  <2>2. ~NextToken /\ ~ErrorToken /\ \A where : Goto(where) => where = "idle"
    BY <1>1 DEF NextToken, ErrorToken, Goto
  <2>3. pc \in {"ident", "number", "fraction", "closed"} => ~eof
    BY <2>1 DEF Tiles, BeginsToken
  <2>4. ASSUME pc \in InToken, pc # "op", ~eof, UNCHANGED inputVars, NEW type, MakeToken(type)
        PROVE  Tiled
    <3>1. pos' = pos
      BY <2>4 DEF inputVars
    <3>. QED
      BY <1>1, <2>1, <2>4, <3>1, TokenIsText
  <2>5. CASE Operator
    <3>1. PICK type :
            /\ MakeToken(type)
            /\ \/ type \notin Joint /\ UNCHANGED inputVars
               \/ /\ type \in Joint /\ Getc
                  /\ \E i \in 1 .. pos - 2 : input[i] = Quote /\ input[i + 1] = Second(type)
      BY <1>1, <2>1, <2>5, OperatorStale
    <3>2. ~eof /\ pc = "op" /\ pc \in InToken /\ size = 1 /\ token'.type = type
      BY <1>1, <2>1, <2>5, <3>1, OperatorStale DEF InToken, Tiles, BeginsToken, MakeToken
    <3>3. /\ token'.text = SubSeq(input, (pos - Len(token'.text)) + 1, pos)
          /\ \A i \in asked + 1 .. pos - Len(token'.text) : input[i] \in Blank
          /\ pos - Len(token'.text) = pos - 1
      BY <1>1, <2>1, <3>1, <3>2, TokenIsText
    <3>4. CASE type \notin Joint /\ UNCHANGED inputVars
      BY <3>2, <3>3, <3>4 DEF inputVars
    <3>5. CASE /\ type \in Joint /\ Getc
               /\ \E i \in 1 .. pos - 2 : input[i] = Quote /\ input[i + 1] = Second(type)
      <4>1. (IF ~eof' THEN pos' - 1 ELSE pos') = pos
        BY <2>1, <3>2, <3>5 DEF Getc
      <4>2. (pos - 1) - 1 = pos - 2
        BY <2>1
      <4>. QED
        BY <3>2, <3>3, <3>5, <4>1, <4>2
    <3>. QED
      BY <3>1, <3>4, <3>5
  <2>6. CASE Word
    BY <2>2, <2>3, <2>4, <2>6 DEF Word, InToken
  <2>7. CASE Number
    BY <2>2, <2>3, <2>4, <2>7 DEF Number, InToken
  <2>8. CASE StringEnd
    BY <2>2, <2>3, <2>4, <2>8 DEF StringEnd, InToken
  <2>9. ~EndOfFile
    BY <1>1 DEF EndOfFile, MakeToken
  <2>10. ~(SkipBlank \/ SkipComment \/ SkipEnds \/ First \/ UnknownInput \/ StringChar
           \/ Overflow)
    BY <2>2 DEF SkipBlank, SkipComment, SkipEnds, First, UnknownInput, StringChar,
       Overflow, Goto
  <2>. QED
    BY <1>1, <2>2, <2>5, <2>6, <2>7, <2>8, <2>9, <2>10 DEF Next, Lex
<1>2. TileInv /\ [Next]_vars => [Tile]_vars
  BY <1>1
<1>. QED
  BY <1>2, InitTiles, NextKeepsTileInv, PTL DEF Spec, TokensTile
=============================================================================
