----------------------------- MODULE MCTrLexer -----------------------------
(***************************************************************************)
(* TrLexer for TLC: all texts of up to InputMax characters, of an alphabet *)
(* with one or two characters of each class, and all continuations of a    *)
(* string that an operator is read from.                                   *)
(***************************************************************************)
EXTENDS TrLexer

CONSTANT InputMax

Alphabet == {"f", "n", "1", ".", "=", "\"", "\n", "/", "@"}

Stale == {<<Quote, "=", Quote, "=", a, b>> : a, b \in Alphabet}

MCInputs == Stale \cup UNION {[1 .. m -> Alphabet] : m \in 0 .. InputMax}

(* 1.1 *)
MCDecimal == {<<"1", ".", "1">>}
=============================================================================
