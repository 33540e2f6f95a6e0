--------------------------- MODULE MCTrCompiler ---------------------------
(***************************************************************************)
(* Texts for the compiler.                                                 *)
(***************************************************************************)
EXTENDS Spelling

(* every statement *)
Loops == {
  <<"while", "(", "x", ")", "{", "x", "=", "x", "-", "1", ";", "}">>,
  <<"for", "(", "var", "x", "=", "1", ";", "x", ";", "x", "=", "x", "-", "1", ")",
    "{", "y", "(", "x", ",", "'s'", ")", ";", "}">>,
  <<"for", "(", ";", ";", ")", "x", ";">>,
  <<"for", "(", "x", ";", "x", ";", ")", "!", "x", ";">> }
Others == {
  <<"var", "x", "=", "1", ";", "x", "=", "x", "+", "2", ";">>,
  <<"if", "(", "x", ")", "{", "y", ";", "}", "else", "y", "=", "1", ";">>,
  <<"fn", "f", "(", "x", ",", "y", ")", "{", "if", "(", "x", ")", "f", "(", ")", ";",
    "return", "x", ";", "}", "f", "(", "1", ",", "2", ")", ";">>,
  <<"{", "fn", "f", "(", ")", "{", "fn", "g", "(", "x", ")", "{", "}", "return", ";", "}",
    "}">>,
  <<"{", "var", "x", ";", "}", "-", "1", "*", "(", "2", ")", ";", "true", ";">>,
  <<"if", "(", "x", ")", "-", "1", ";">> }

MCStatements == EditsOf(Loops \cup Others, {";", ")", "}", "var", "=", "x", "?"})

(* expressions of up to four operands, with and without parentheses *)
Ops == {"+", "-", "*", "/", "==", "!=", "<", ">="}
Chains ==
  {<<"a", p, "b", ";">> : p \in Ops}
  \cup UNION {{ <<"a", p, "b", q, "c", ";">>, <<"(", "a", p, "b", ")", q, "1", ";">>,
               <<"a", p, "(", "b", q, "'s'", ")", ";">>, <<"!", "a", p, "-", "b", q, "c", ";">>,
               <<"-", "(", "a", p, "b", ")", q, "!", "!", "c", ";">> } : p, q \in Ops}
  \cup {<<"a", p, "b", q, "c", r, "d", ";">> : p, q, r \in Ops \ {"!=", ">="}}

MCTexts == MCStatements \cup {Spelled(t) : t \in Chains}

(* scopes *)
Blocks == {
  <<"{", "var", "x", ";", "{", "var", "x", "=", "1", ";", "x", ";", "}", "x", "=", "2", ";",
    "}">>,
  <<"{", "var", "x", "=", "1", ";", "var", "y", "=", "x", ";", "{", "var", "z", "=", "y",
    ";", "}", "var", "z", ";", "z", "=", "x", ";", "}">>,
  <<"fn", "f", "(", "x", ",", "y", ")", "{", "var", "z", "=", "x", ";", "{", "var", "x", "=",
    "z", ";", "}", "return", "y", ";", "}">>,
  <<"{", "fn", "f", "(", "x", ")", "{", "f", "(", "x", ")", ";", "}", "var", "y", "=", "f",
    ";", "}">>,
  <<"{", "var", "x", ";", "if", "(", "x", ")", "{", "var", "y", ";", "}", "else", "{", "x",
    "=", "1", ";", "}", "while", "(", "x", ")", "{", "var", "y", ";", "}", "}">>,
  <<"for", "(", "var", "x", "=", "1", ";", "x", ";", "x", "=", "x", "-", "1", ")",
    "{", "var", "y", "=", "x", ";", "}">> }
MCScopes == EditsOf(Blocks, {"x", "y", "}"})
MCRedeclare == {Spelled(<<"{", "var", "x", ";", "var", "x", ";", "}">>)}

(* around the limits, with ByteMax 3 and JumpMax 15 *)
Fresh == <<"a", "b", "c", "d", "e">>
Vars(n) == FlattenSeq([i \in 1 .. n |-> <<"var", Fresh[i], ";">>])
In(t) == <<"{", "var", "a", ";">> \o t \o <<"}">>

Pools(n) == { Repeat(<<"x", ";">>, n), <<"x", "=", "1", ";">> \o Repeat(<<"'s'", ";">>, n - 2),
              Repeat(<<"var", "x", ";">>, n), <<"x", "(", ")", ";">> \o Repeat(<<"1", ";">>, n) }
Slots(n) == { <<"{">> \o Vars(n) \o <<Fresh[n], ";", "}">>,
              <<"fn", "f", "(", "a">> \o FlattenSeq([i \in 1 .. n - 1 |-> <<",", Fresh[i + 1]>>])
                \o <<")", "{", Fresh[n], ";", "}">> }
ManyArguments(n) == { In(<<"a", "(", "a">> \o Repeat(<<",", "a">>, n - 1) \o <<")", ";">>) }
Jumps(n) == LET body == Repeat(<<"a", ";">>, n) IN {
  In(<<"if", "(", "a", ")", "{">> \o body \o <<"}">>),
  In(<<"if", "(", "a", ")", "a", ";", "else", "{">> \o body \o <<"}">>),
  In(<<"while", "(", "a", ")", "{">> \o body \o <<"}">>),
  In(<<"for", "(", ";", ";", ")", "{">> \o body \o <<"}">>),
  In(<<"for", "(", ";", "a", ";", "a", ")", "{">> \o body \o <<"}">>),
  In(<<"for", "(", ";", ";">> \o Repeat(<<"!">>, n) \o <<"a", ")", "a", ";">>) }

MCLimits ==
  {Spelled(t) : t \in UNION {Pools(n) \cup Slots(n) \cup ManyArguments(n) \cup Jumps(n) : n \in 2 .. 5}}
    \cup {Spelled(t) : t \in UNION {Jumps(n) : n \in {1, 6, 12}}}
=============================================================================
