-------------------------- MODULE MCTrVMVerified --------------------------
(***************************************************************************)
(* Certified programs for TLC: scripts run in any order, any number of     *)
(* times, on one machine, with calls, recursion to the frame limit, a      *)
(* loop, locals and globals, every opcode, and a closure that is printed.  *)
(* Their certificates are computed from the code.                          *)
(***************************************************************************)
EXTENDS TrVMVerified

B(op) == Opcode[op]

Add == Function(2, << B("GET_LOCAL"), 1, B("GET_LOCAL"), 2, B("FADD"), B("RETURN") >>,
                << >>)
Same == Function(2, << B("GET_LOCAL"), 1, B("GET_LOCAL"), 2, B("EQUAL"), B("RETURN") >>,
                 << >>)
Neg == Function(1, << B("GET_LOCAL"), 1, B("NEGATE"), 0, B("RETURN") >>, << Str("g") >>)
Deep == Function(1, << B("GET_GLOBAL"), 0, B("GET_LOCAL"), 1, B("CALL"), 1,
                       B("RETURN") >>, << Str("deep") >>)

(* g = add(1, clock()); deep(g); (when g is not zero) *)
Calls == Function(0,
  << B("CLOSURE"), 0, B("CONSTANT"), 1, B("GET_GLOBAL"), 2, B("CALL"), 0,
     B("CALL"), 2, B("DEFINE_GLOBAL"), 3, B("GET_GLOBAL"), 3,
     B("JMP_FALSE"), 0, 11, B("POP"), B("CLOSURE"), 4, B("DEFINE_GLOBAL"), 5,
     B("GET_GLOBAL"), 5, B("GET_GLOBAL"), 3, B("CALL"), 1, B("POP"),
     B("NIL"), B("RETURN") >>,
  << Func(Add), Lng(1), Str("clock"), Str("g"), Func(Deep), Str("deep") >>)

(* { var i = 2; while (i) i = 1 - i ...; } neg(same(i, x)) *)
Loops == Function(0,
  << B("CONSTANT"), 0, B("GET_LOCAL"), 1, B("JMP_FALSE"), 0, 12, B("POP"),
     B("CONSTANT"), 1, B("GET_LOCAL"), 1, B("ISUB"), B("SET_LOCAL"), 1,
     B("POP"), B("LOOP"), 0, 17, B("POP"), B("POP"),
     B("CLOSURE"), 2, B("CLOSURE"), 3, B("NIL"), B("GET_GLOBAL"), 4,
     B("CALL"), 2, B("CALL"), 1, B("SET_GLOBAL"), 4, B("NOT"), B("POP"),
     B("JMP"), 0, 1, B("LT"), B("NIL"), B("RETURN") >>,
  << Lng(1), Lng(1), Func(Neg), Func(Same), Str("g") >>)

(* print(neg), with the closure OP_CLOSURE makes *)
Prints == Function(0,
  << B("GET_GLOBAL"), 0, B("CLOSURE"), 1, B("CALL"), 1, B("POP"),
     B("NIL"), B("RETURN") >>, << Str("print"), Func(Neg) >>)

MCScripts == {Calls, Loops, Prints}
MCFuncs == MCScripts \cup {Add, Same, Neg, Deep}
MCHeights == [f \in MCFuncs |-> ReachedIn(f, 2 * Len(f.code))]
=============================================================================
