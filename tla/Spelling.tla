------------------------------ MODULE Spelling ------------------------------
(***************************************************************************)
(* Texts as sequences of spellings, for model checking.                    *)
(***************************************************************************)
EXTENDS TrGrammar

KeywordTypes == [ fn |-> "FUNC", return |-> "RETURN", var |-> "VAR", for |-> "FOR",
                  if |-> "IF", else |-> "ELSE", while |-> "WHILE", true |-> "TRUE" ]

Signs == ("(" :> "L_PAREN") @@ (")" :> "R_PAREN") @@ ("{" :> "L_BRACE")
  @@ ("}" :> "R_BRACE") @@ ("," :> "COMMA") @@ (";" :> "SEMICOLON") @@ ("=" :> "ASSIGN")
  @@ ("+" :> "PLUS") @@ ("-" :> "MINUS") @@ ("*" :> "STAR") @@ ("/" :> "SLASH")
  @@ ("!" :> "EXCL") @@ ("==" :> "EQ") @@ ("!=" :> "NE") @@ ("<" :> "LT")
  @@ ("<=" :> "LTEQ") @@ (">" :> "GT") @@ (">=" :> "GTEQ") @@ ("&&" :> "AND")
  @@ ("?" :> "ERR")

Strings == ("'s'" :> "s") @@ ("'x'" :> "x") @@ ("'Hello World!'" :> "Hello World!")
  @@ ("'Hi Guys'" :> "Hi Guys")
Numbers == ("0" :> 0) @@ ("1" :> 1) @@ ("2" :> 2) @@ ("4" :> 4) @@ ("7" :> 7) @@ ("12" :> 12)

MCLiteral == [s \in DOMAIN Strings \cup DOMAIN Numbers |->
                IF s \in DOMAIN Strings THEN Str(Strings[s]) ELSE Lng(Numbers[s])]

Spell(s) ==
  Token(CASE s \in DOMAIN KeywordTypes -> KeywordTypes[s] [] s \in DOMAIN Signs -> Signs[s]
          [] s \in DOMAIN Strings -> "STRING" [] s \in DOMAIN Numbers -> "INT"
          [] OTHER -> "IDENT", s)
Spelled(t) == [i \in DOMAIN t |-> Spell(t[i])]

Repeat(s, n) == FlattenSeq([i \in 1 .. n |-> s])

(* What becomes of a text when a token is left out, or written as another, *)
(* or followed by another.                                                 *)
Without(t, i) == SubSeq(t, 1, i - 1) \o SubSeq(t, i + 1, Len(t))
Edits(t, others) ==
  {t} \cup {Without(t, i) : i \in DOMAIN t}
      \cup {[t EXCEPT ![i] = s] : i \in DOMAIN t, s \in others}
      \cup {SubSeq(t, 1, i) \o <<s>> \o SubSeq(t, i + 1, Len(t)) :
               i \in DOMAIN t, s \in others}
EditsOf(texts, others) == {Spelled(t) : t \in UNION {Edits(u, others) : u \in texts}}
=============================================================================
