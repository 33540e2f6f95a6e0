----------------------------- MODULE TrGrammar -----------------------------
(***************************************************************************)
(* The language that tr_parser.c accepts, as a grammar with a recognizer   *)
(* that tries everything, and the order in which its operators are         *)
(* computed: references for TrCompiler, written without looking ahead.     *)
(***************************************************************************)
EXTENDS TrCompilerChecked, SequencesExt

Operators == {"PLUS", "MINUS", "STAR", "SLASH", "EQ", "NE", "LT", "LTEQ", "GT", "GTEQ"}

(* Declarations and statements, in a script and, with return, in functions *)
Statements(decls, stmt) ==
  { <<"FUNC", "IDENT", "L_PAREN", "parameters", "R_PAREN", "L_BRACE", "fdecls", "R_BRACE">>,
    <<"VAR", "IDENT", "SEMICOLON">>, <<"VAR", "IDENT", "ASSIGN", "expr", "SEMICOLON">>,
    <<"FOR", "L_PAREN", "first", "test", "last", stmt>>,
    <<"IF", "L_PAREN", "expr", "R_PAREN", stmt>>,
    <<"IF", "L_PAREN", "expr", "R_PAREN", stmt, "ELSE", stmt>>,
    <<"WHILE", "L_PAREN", "expr", "R_PAREN", stmt>>, <<stmt>> }

Grammar == [
  script  |-> {<<"decls", "EOF">>},
  decls   |-> {<< >>, <<"decl", "decls">>},
  fdecls  |-> {<< >>, <<"fdecl", "fdecls">>},
  decl    |-> Statements("decls", "stmt"),
  fdecl   |-> Statements("fdecls", "fstmt")
                \cup {<<"RETURN", "SEMICOLON">>, <<"RETURN", "expr", "SEMICOLON">>},
  stmt    |-> {<<"L_BRACE", "decls", "R_BRACE">>, <<"expr", "SEMICOLON">>},
  fstmt   |-> {<<"L_BRACE", "fdecls", "R_BRACE">>, <<"expr", "SEMICOLON">>},
  parameters |-> {<< >>, <<"names">>},
  names   |-> {<<"IDENT">>, <<"IDENT", "COMMA", "names">>},
  first   |-> {<<"SEMICOLON">>, <<"expr", "SEMICOLON">>, <<"VAR", "IDENT", "SEMICOLON">>,
               <<"VAR", "IDENT", "ASSIGN", "expr", "SEMICOLON">>},
  test    |-> {<<"SEMICOLON">>, <<"expr", "SEMICOLON">>},
  last    |-> {<<"R_PAREN">>, <<"expr", "R_PAREN">>},
  expr    |-> {<<"IDENT", "ASSIGN", "expr">>, <<"binary">>},
  binary  |-> {<<"unary">>} \cup {<<"unary", op, "binary">> : op \in Operators},
  unary   |-> {<<"MINUS", "unary">>, <<"EXCL", "unary">>, <<"primary", "calls">>},
  calls   |-> {<< >>, <<"L_PAREN", "R_PAREN", "calls">>,
               <<"L_PAREN", "args", "R_PAREN", "calls">>},
  args    |-> {<<"expr">>, <<"expr", "COMMA", "args">>},
  primary |-> {<<"IDENT">>, <<"INT">>, <<"NUMBER">>, <<"STRING">>, <<"TRUE">>, <<"FALSE">>,
               <<"L_PAREN", "expr", "R_PAREN">>} ]

(* the ends of what a sequence of symbols derives of t from i on *)
RECURSIVE Ends(_, _, _)
Ends(t, symbols, i) ==
  IF symbols = << >> THEN {i}
  ELSE LET s == Head(symbols)
           ends == IF s \in DOMAIN Grammar THEN UNION {Ends(t, rhs, i) : rhs \in Grammar[s]}
                   ELSE IF i <= Len(t) /\ t[i].type = s THEN {i + 1} ELSE {}
       IN  UNION {Ends(t, Tail(symbols), j) : j \in ends}

(* error tokens are dropped without a word *)
Seen == SelectSeq(text, LAMBDA t : t.type # "ERR")
Derivable == Ends(Append(Seen, EOF), <<"script">>, 1) # {}

(* Without scopes and within the limits, an error is reported exactly for  *)
(* the texts that are not of the grammar: none goes unnoticed while the    *)
(* compiler is panicking, and synchronize causes none (error_at,           *)
(* synchronize, consume).                                                  *)
AcceptsGrammar == Done => (parser.error <=> ~Derivable)
-----------------------------------------------------------------------------
(* Operators.  binary() asks for one level more than its own although the  *)
(* loop of precedence() is strict: an operator leaves to its right operand *)
(* only what binds tighter by two levels, 1 + 2 * 3 is (1 + 2) * 3.  What  *)
(* is computed last is the first that leaves all behind it to its right.   *)

Level(type) ==
  CASE type \in {"EQ", "NE"} -> 1  [] type \in {"LT", "LTEQ", "GT", "GTEQ"} -> 2
    [] type \in {"PLUS", "MINUS"} -> 3  [] type \in {"STAR", "SLASH"} -> 4

Number(t, i, type) == Cardinality({j \in 1 .. i : t[j].type = type})

(* the binary operators of t, and those in no parentheses *)
Infix(t) == {i \in 2 .. Len(t) : t[i].type \in Operators /\ t[i - 1].type \in Operands}
Outer(t) == {i \in Infix(t) : Number(t, i, "L_PAREN") = Number(t, i, "R_PAREN")}

TakesRest(t, i) ==
  \A j \in Outer(t) : j > i => Level(t[j].type) > Level(t[i].type) + 1

ComputedLast(t) == Min({i \in Outer(t) : TakesRest(t, i)})

(* instructions as pairs of an opcode and the constant it names, if any *)
Leaf(token) == << IF token.type = "IDENT" THEN "GET_GLOBAL" ELSE "CONSTANT", Value(token) >>

RECURSIVE Postfix(_)
Postfix(t) ==
  LET i == ComputedLast(t) IN
  CASE Len(t) = 1 -> << Leaf(t[1]) >>
    [] Outer(t) # {} ->
         Postfix(SubSeq(t, 1, i - 1)) \o Postfix(SubSeq(t, i + 1, Len(t)))
           \o << <<BinaryOp(t[i].type, FALSE), Nil>> >>
    [] t[1].type = "L_PAREN" -> Postfix(SubSeq(t, 2, Len(t) - 1))
    [] OTHER -> Postfix(Tail(t))
                  \o << <<IF t[1].type = "EXCL" THEN "NOT" ELSE "NEGATE", Nil>> >>

RECURSIVE Decoded(_, _)
Decoded(f, i) ==
  IF i >= Len(f.code) THEN << >>
  ELSE LET op == OpAt(f, i) IN
       << <<op, IF op \in NamedOps THEN ConstantAt(f, Operand(f, i)) ELSE Nil>> >>
         \o Decoded(f, i + InstructionLength(op))

(* one expression, without calls and assignments *)
IsExpression ==
  /\ Len(text) > 0
  /\ \A i \in 1 .. Len(text) :
       /\ text[i].type \in Operators \cup Operands \cup {"EXCL", "L_PAREN", "SEMICOLON"}
       /\ text[i].type = "SEMICOLON" <=> i = Len(text)
       /\ text[i].type = "L_PAREN" => i = 1 \/ text[i - 1].type \notin Operands

(* An expression alone, of any operators and parentheses, is computed in   *)
(* the order of their levels, two levels apart, and from the left else     *)
(* (precedence, binary, unary, grouping, the rule table).                  *)
GroupsByLevel ==
  Accepted /\ IsExpression =>
    Decoded(Compiled, 0) =
      Postfix(SubSeq(text, 1, Len(text) - 1))
        \o << <<"POP", Nil>>, <<"NIL", Nil>>, <<"RETURN", Nil>> >>
-----------------------------------------------------------------------------
(* Scopes as written: a block, or a function with its parameters.          *)

Open(b, i) ==
  /\ b < i /\ text[b].type = "L_BRACE"
  /\ \A j \in b .. i : Number(text, j, "L_BRACE") - Number(text, b, "L_BRACE") >=
                        Number(text, j, "R_BRACE") - Number(text, b, "R_BRACE")
Scope(i) == Max({0} \cup {b \in 1 .. Len(text) : Open(b, i)})

Header(i) ==
  {k \in 1 .. i - 3 : /\ text[k].type = "FUNC"
                     /\ \A j \in k + 3 .. i : text[j].type \in {"IDENT", "COMMA"}}
IsParameter(i) == text[i].type = "IDENT" /\ Header(i) # {}
Body(i) == Min({b \in i .. Len(text) : text[b].type = "L_BRACE"})

IsDeclared(i) == i > 1 /\ text[i].type = "IDENT" /\ text[i - 1].type \in {"VAR", "FUNC"}

(* the names declared, each with where and the scope it is declared in *)
Declarations ==
  {<<i, text[i].text, Scope(i)>> : i \in {k \in 1 .. Len(text) : IsDeclared(k)}}
  \cup {<<i, text[i].text, Body(i)>> : i \in {k \in 1 .. Len(text) : IsParameter(k)}}

Redeclared ==
  \E d, e \in Declarations : d[1] < e[1] /\ d[2] = e[2] /\ d[3] = e[3] /\ d[3] > 0

(* var x = ... x ...; in a block *)
ReadsItself ==
  \E i, j \in 1 .. Len(text) :
    /\ IsDeclared(i) /\ text[i - 1].type = "VAR" /\ Scope(i) > 0
    /\ i < j /\ text[j] = text[i]
    /\ \A k \in i .. j : text[k].type # "SEMICOLON"

(* With the scopes in one record, and no for, whose scope has no brace, an *)
(* error is reported exactly for texts that are not of the grammar,        *)
(* declare a name twice in a block or read a local in its initializer: an  *)
(* outer name may be hidden, and a name used again once its block has      *)
(* ended (declare_variable, add_local, resolve_local_up, end_scope).       *)
ScopesAsWritten ==
  Done /\ (\A i \in 1 .. Len(text) : text[i].type # "FOR") =>
    (parser.error <=> ~Derivable \/ Redeclared \/ ReadsItself)

(* "Redeclaring previously declared variable", tr_parser.c:297: a text     *)
(* that is accepted declares no name twice in a block.                     *)
NeverRedeclares == Accepted => ~Redeclared
=============================================================================
