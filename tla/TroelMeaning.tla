---------------------------- MODULE TroelMeaning ----------------------------
(***************************************************************************)
(* What a text means, by the grammar, and what its run makes of it.        *)
(***************************************************************************)
EXTENDS Troel, TrGrammar

(* Texts of declarations and assignments, x = e; or var x = e;, of numbers *)
(* and names and the four operations.                                      *)

Starting == {i \in 1 .. Len(text) : i = 1 \/ text[i - 1].type = "SEMICOLON"}
Assigned(t) == IF t[1].type = "VAR" THEN 2 ELSE 1    \* where its name is

Straight ==
  /\ text # << >>
  /\ \A i \in 1 .. Len(text) :
       /\ text[i].type \in {"VAR", "IDENT", "INT", "ASSIGN", "PLUS", "MINUS", "STAR", "SLASH",
                            "L_PAREN", "R_PAREN", "SEMICOLON"}
       /\ text[i].type \in Operators => i \in Infix(text)
       /\ text[i].type = "L_PAREN" => i > 1 /\ text[i - 1].type \notin Operands
       /\ text[i].type = "ASSIGN" =>
            \E j \in Starting : i = j + Assigned(SubSeq(text, j, i))
  /\ \A j \in Starting :
       \E i \in {j + 1, j + 2} \cap DOMAIN text : text[i].type = "ASSIGN"

(* The value of an expression where names have the values of env, if it    *)
(* has one, as its instructions in the order of Postfix give it.  The      *)
(* machine pops the left operand last and computes with it on the right:   *)
(* 1 - 2 is 1, and 0 / 2 divides by zero.                                  *)
ValueIn(env, t) ==
  LET step(vals, c) ==
        LET n == Len(vals) IN
        CASE c[1] = "GET_GLOBAL" -> Append(vals, {env[c[2].s]})
          [] c[1] = "CONSTANT" -> Append(vals, {c[2].l})
          [] OTHER -> Append(SubSeq(vals, 1, n - 2),
               {M!Wrap(M!Arith(c[1], ab[1], ab[2])) :
                  ab \in {rl \in vals[n] \X vals[n - 1] : ~M!Traps(c[1], rl[1], rl[2])}})
  IN FoldLeft(step, << >>, Postfix(t))[1]

(* the values of names after one statement after another, if there is no   *)
(* division by zero                                                        *)
RECURSIVE EnvsAfter(_, _)
EnvsAfter(env, t) ==
  IF t = << >> THEN {env}
  ELSE LET end  == Min({i \in DOMAIN t : t[i].type = "SEMICOLON"})
           name == t[Assigned(t)].text
       IN  UNION {EnvsAfter([n \in DOMAIN env \cup {name} |-> IF n = name THEN v ELSE env[n]],
                            SubSeq(t, end + 1, Len(t))) :
                    v \in ValueIn(env, SubSeq(t, Assigned(t) + 2, end - 1))}

(* A straight text that runs to its end has given every name the value it  *)
(* denotes, and one that traps denotes none: compiler and machine agree on *)
(* operands, constants, names and order, for neighbouring levels and       *)
(* exchanged operands too (binary, IBINARY_OP).                            *)
ComputesText ==
  status \in {"ok", "trap"} /\ Straight =>
    LET envs == EnvsAfter(<< >>, text) IN
    IF status = "trap" THEN envs = {}
    ELSE \E env \in envs : \A n \in DOMAIN env : globals[n] = Lng(env[n])
=============================================================================
