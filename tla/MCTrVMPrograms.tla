-------------------------- MODULE MCTrVMPrograms --------------------------
(***************************************************************************)
(* Programs as the bytes tr_parser.c emits for them, run in any order, any *)
(* number of times, on one machine.  Only "rec" is not: a declaration of a *)
(* function emits OP_CLOSURE, OP_CONSTANT, id, id, so that no small source *)
(* text makes a closure; its bytes are what OP_CLOSURE is written for.     *)
(***************************************************************************)
EXTENDS TrVM

B(op) == Opcode[op]

Program(arity, code, consts) == Function(arity, code \o <<B("NIL"), B("RETURN")>>, consts)

Empty == Program(0, << >>, << >>)

R == Program(1,
  << B("GET_LOCAL"), 1, B("GET_GLOBAL"), 0, B("GET_LOCAL"), 2, B("CALL"), 1, B("POP") >>,
  << Str("r") >>)

MCPrograms == [
  \* "=" == "=";  (with "x" for "=": only after such a string does == make TOKEN_EQ)
  equal |-> Program(0,
    << B("CONSTANT"), 0, B("CONSTANT"), 1, B("EQUAL"), B("POP") >>, << Str("x"), Str("x") >>),
  \* print("x"); -1;
  minus |-> Program(0,
    << B("GET_GLOBAL"), 0, B("CONSTANT"), 1, B("CALL"), 1, B("POP"),
       B("CONSTANT"), 2, B("NEGATE"), B("POP") >>, << Str("print"), Str("x"), Lng(1) >>),
  \* g = 1;
  assign |-> Program(0,
    << B("CONSTANT"), 1, B("SET_GLOBAL"), 0, B("POP") >>, << Str("g"), Lng(1) >>),
  \* x = 1;  (declared by nobody)
  strange |-> Program(0,
    << B("CONSTANT"), 1, B("SET_GLOBAL"), 0, B("POP") >>, << Str("x"), Lng(1) >>),
  \* if (!1) g; else true;
  read |-> Program(0,
    << B("CONSTANT"), 0, B("NOT"), B("JMP_FALSE"), 0, 7, B("POP"), B("GET_GLOBAL"), 1,
       B("POP"), B("JMP"), 0, 3, B("POP"), B("TRUE"), B("POP") >>, << Lng(1), Str("g") >>),
  \* var g = true;
  truth |-> Program(0, << B("TRUE"), B("DEFINE_GLOBAL"), 0 >>, << Str("g") >>),
  \* 0 / 1;
  divide |-> Program(0,
    << B("CONSTANT"), 0, B("CONSTANT"), 1, B("IDIV"), B("POP") >>, << Lng(0), Lng(1) >>),
  \* "x"; fn f() {} f();
  declare |-> Program(0,
    << B("CONSTANT"), 0, B("POP"), B("CLOSURE"), B("CONSTANT"), 2, 2,
       B("DEFINE_GLOBAL"), 1, B("GET_GLOBAL"), 3, B("CALL"), 0, B("POP") >>,
    << Str("x"), Str("f"), Func(Empty), Str("f") >>),
  \* "x"; "x"; fn f() {}
  other |-> Program(0,
    << B("CONSTANT"), 0, B("POP"), B("CONSTANT"), 1, B("POP"),
       B("CLOSURE"), B("CONSTANT"), 3, 3, B("DEFINE_GLOBAL"), 2 >>,
    << Str("x"), Str("x"), Str("f"), Func(Empty) >>),
  \* example.tr but its last line, with Hello as f and "Hi Guys" as "x":
  \* fn f() { ... } f(); print("x");
  example |-> Program(0,
    << B("CLOSURE"), B("CONSTANT"), 1, 1, B("DEFINE_GLOBAL"), 0,
       B("GET_GLOBAL"), 2, B("CALL"), 0, B("POP"),
       B("GET_GLOBAL"), 3, B("CONSTANT"), 4, B("CALL"), 1, B("POP") >>,
    << Str("f"), Func(Empty), Str("f"), Str("print"), Str("x") >>),
  \* fn r(n) { var y = n; r(y); } r(1);
  rec |-> Program(0,
    << B("CLOSURE"), 1, B("DEFINE_GLOBAL"), 0, B("GET_GLOBAL"), 2,
       B("CONSTANT"), 3, B("CALL"), 1, B("POP") >>,
    << Str("r"), Func(R), Str("r"), Lng(1) >>) ]

MCScripts == {MCPrograms[n] : n \in DOMAIN MCPrograms}
MCFuncs == MCScripts \cup {Empty, R}
=============================================================================
