------------------------------ MODULE MCTroel ------------------------------
(***************************************************************************)
(* Programs for the whole of troelc, as texts.                             *)
(***************************************************************************)
EXTENDS TroelMeaning, Spelling

Sums == UNION {
  { <<"var", "x", "=", a, p, b, q, "2", ";", "x", "=", "x", q, "x", ";">>,
    <<"var", "x", "=", a, ";", "var", "y", "=", "(", "x", p, b, ")", q, "x", ";">>,
    <<"var", "x", "=", a, p, "(", b, q, "1", ")", ";", "y", "=", "x", ";">>,
    <<"var", "y", "=", a, ";", "var", "y", "=", "y", p, "y", q, b, ";">> } :
  a, b \in {"0", "1", "2"}, p, q \in {"+", "-", "*", "/"} }

Flow == UNION {
  { <<"if", "(", c, ")", "{", "x", ";", "}", "else", "print", "(", c, ")", ";">>,
    <<"var", "x", "=", c, ";", "while", "(", "x", ")", "{", "x", "=", "x", "-", "1", ";", "}">>,
    <<"for", "(", "var", "x", "=", c, ";", "x", ";", "x", "=", "x", "*", "0", ")", "{",
      "print", "(", "x", ",", "'s'", ")", ";", "}">>,
    <<"for", "(", ";", "!", c, ";", ")", "{", "var", "y", "=", c, "/", "2", ";", "}">>,
    <<"clock", "(", ")", "+", c, ";", c, "(", ")", ";">>,
    <<"print", "(", "'s'", ",", c, "+", "'s'", ")", ";">> } : c \in {"0", "1", "'s'"} }

MCPrograms == {Spelled(t) : t \in Sums} \cup EditsOf(Flow, {";", "?", "print"})

(* print("x"); -1; *)
MCNegate == {Spelled(<<"print", "(", "'x'", ")", ";", "-", "1", ";">>)}

(* example.tr *)
MCExample == {Spelled(<<
  "fn", "Hello", "(", ")", "{", "var", "x", "=", "12", ";", "var", "y", "=", "4", ";",
  "var", "z", "=", "y", "*", "x", ";", "print", "(", "z", ")", ";",
  "print", "(", "'Hello World!'", ")", ";", "}",
  "Hello", "(", ")", ";", "print", "(", "'Hi Guys'", ")", ";",
  "print", "(", "4", "+", "7", ")", ";" >>)}
=============================================================================
