---------------------------- MODULE Certificate ----------------------------
(***************************************************************************)
(* What the interpreter takes for granted of the code it runs, as it       *)
(* checks nothing itself: at every offset an execution can reach, the      *)
(* frame has a number of slots on the stack that suits the instruction     *)
(* there.  The compiler is to emit such code, the interpreter is defined   *)
(* on it.                                                                  *)
(***************************************************************************)
EXTENDS Bytecode

(* What the instruction at offset i of f needs of a frame of h slots.      *)
(* Slot 0 of a frame is its function, never popped.                        *)
Needs(f, i, h) ==
  /\ HasBytes(f, i, 0)
  /\ LET op == OpAt(f, i) IN
     /\ op \in {"CONSTANT", "CLOSURE", "GET_LOCAL", "SET_LOCAL", "CALL"} =>
          HasBytes(f, i, 1)
     /\ op \in {"JMP", "LOOP", "JMP_FALSE"} => HasBytes(f, i, 2)
     /\ op \in {"GET_GLOBAL", "SET_GLOBAL", "DEFINE_GLOBAL", "NEGATE"} => HasName(f, i)
     /\ op \in {"CONSTANT", "CLOSURE"} => HasConstant(f, Operand(f, i))
     /\ op = "CLOSURE" => IsFunc(ConstantAt(f, Operand(f, i)))
     /\ op \in {"GET_LOCAL", "SET_LOCAL"} => Operand(f, i) < h
     /\ op \in {"SET_LOCAL", "SET_GLOBAL", "DEFINE_GLOBAL", "JMP_FALSE", "NOT",
                "NEGATE", "POP", "RETURN"} => h >= 2
     /\ op \in IBinaryOps \cup FBinaryOps \cup {"EQUAL", "NEQUAL"} => h >= 3
     /\ op = "CALL" => h >= Operand(f, i) + 2

(* The offsets and heights that can follow; OP_EQUAL has two heights, and  *)
(* OP_NEGATE may fall into OP_DEFINE_GLOBAL.                               *)
Follows(f, i, h) ==
  LET op == OpAt(f, i) IN
  CASE op = "NIL" -> {<<i + 1, h + 1>>}
    [] op \in {"CONSTANT", "CLOSURE", "GET_GLOBAL", "GET_LOCAL"} -> {<<i + 2, h + 1>>}
    [] op \in {"SET_LOCAL", "SET_GLOBAL"} -> {<<i + 2, h>>}
    [] op = "DEFINE_GLOBAL" -> {<<i + 2, h - 1>>}
    [] op = "CALL" -> {<<i + 2, h - Operand(f, i)>>}
    [] op = "RETURN" -> {}
    [] op = "POP" -> {<<i + 1, h - 1>>}
    [] op = "JMP" -> {<<i + 3 + Short(f, i), h>>}
    [] op = "LOOP" -> {<<i + 3 - Short(f, i), h>>}
    [] op = "JMP_FALSE" -> {<<i + 3, h>>, <<i + 3 + Short(f, i), h>>}
    [] op \in {"EQUAL", "NEQUAL"} -> {<<i + 1, h - 2>>, <<i + 1, h - 1>>}
    [] op \in IBinaryOps \cup FBinaryOps -> {<<i + 1, h - 1>>}
    [] op = "NEGATE" -> {<<i + 1, h>>, <<i + 2, h - 1>>}
    [] OTHER -> {<<i + 1, h>>}

(* Every path has what it needs where it comes; a script leaves nothing    *)
(* but itself and its result.                                              *)
Balances(heights, f, isScript) ==
  /\ <<0, f.arity + 1>> \in heights
  /\ \A s \in heights :
       /\ s[2] >= 1
       /\ Needs(f, s[1], s[2])
       /\ isScript /\ OpAt(f, s[1]) = "RETURN" => s[2] = 2
       /\ Follows(f, s[1], s[2]) \subseteq heights

(* No frame has more slots than STACK_MAX reckons with; OP_NOT and         *)
(* OP_NEGATE use the slot above the top.                                   *)
FitsSlots(heights, f) ==
  \A s \in heights :
    IF OpAt(f, s[1]) \in {"NOT", "NEGATE"} THEN s[2] < SlotsMax ELSE s[2] <= SlotsMax

Certifies(heights, f, isScript) ==
  Balances(heights, f, isScript) /\ FitsSlots(heights, f)

(* The offsets and heights that n instructions after f's first can reach.  *)
(* If any set of them balances f, those of all its offsets do.             *)
ReachedIn(f, n) ==
  LET reached[k \in 0 .. n] ==
        IF k = 0 THEN {<<0, f.arity + 1>>}
        ELSE LET before == reached[k - 1] IN
             before \cup UNION {Follows(f, s[1], s[2]) :
                                  s \in {t \in before : Needs(f, t[1], t[2])}}
  IN reached[n]

Reached(f) == ReachedIn(f, Len(f.code))
Balanced(f, isScript) == Balances(Reached(f), f, isScript)
=============================================================================
