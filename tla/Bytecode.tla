------------------------------ MODULE Bytecode ------------------------------
(***************************************************************************)
(* What the compiler and the interpreter share: values, functions with     *)
(* their chunks, and the opcodes.  A function is its record: the constants *)
(* of a chunk hold the functions it declares, one inside the other.        *)
(***************************************************************************)
EXTENDS Integers, Sequences

CONSTANT ByteMax   \* UINT8_MAX where it bounds slots, constants, arguments

ASSUME ByteAssumption == ByteMax \in 0 .. 255

SlotsMax == ByteMax + 1    \* the slots of a frame, UINT8_COUNT
-----------------------------------------------------------------------------
(* Values.  A double is known by whether it is zero.  Wild is a value whose *)
(* payload is not one of its type: never written, or scribbled on.          *)

Nil       == [type |-> "NIL"]
NullPtr   == [type |-> "PTR"]
Lng(n)    == [type |-> "LNG", l |-> n]
Dbl(d)    == [type |-> "DBL", d |-> d]
Bool(b)   == [type |-> "BOOL", b |-> b]
Str(s)    == [type |-> "STR", s |-> s]
CFunc(c)  == [type |-> "CFUNC", c |-> c]
Func(f)   == [type |-> "OBJ", func |-> f]
Closure(f) == [type |-> "OBJ", closure |-> f]
Wild(t)   == [type |-> t, wild |-> TRUE]

Types == {"NIL", "STR", "LNG", "DBL", "PTR", "BOOL", "CFUNC", "OBJ"}

IsWild(v)    == "wild" \in DOMAIN v
IsClosure(v) == "closure" \in DOMAIN v
IsFunc(v)    == "func" \in DOMAIN v
-----------------------------------------------------------------------------
(* Functions: instructions and constants.values count from 0.              *)

Function(arity, code, consts) == [arity |-> arity, code |-> code, consts |-> consts]

HasBytes(f, i, n) == i >= 0 /\ i + n < Len(f.code)
ByteAt(f, i)  == f.code[i + 1]
Operand(f, i) == ByteAt(f, i + 1)
Short(f, i)   == ByteAt(f, i + 1) * 256 + ByteAt(f, i + 2)

(* tr_constants_get gives NULL for an index that has no constant *)
HasConstant(f, k) == k \in 0 .. Len(f.consts) - 1
ConstantAt(f, k)  == f.consts[k + 1]

(* constants.values[operand].s: a name only where the constant is a string *)
HasName(f, i) ==
  /\ HasBytes(f, i, 1) /\ HasConstant(f, Operand(f, i))
  /\ ConstantAt(f, Operand(f, i)).type = "STR"
  /\ ~IsWild(ConstantAt(f, Operand(f, i)))
NameAt(f, i) == ConstantAt(f, Operand(f, i)).s
-----------------------------------------------------------------------------
OPS == <<"NO", "RETURN", "CONSTANT", "DEFINE_GLOBAL", "SET_LOCAL", "GET_LOCAL",
  "SET_GLOBAL", "GET_GLOBAL", "GET_UPVAL", "SET_UPVAL", "PRINT", "POP", "NEGATE",
  "NOT", "NIL", "TRUE", "FALSE", "CLOSURE", "CALL", "LOOP", "JMP_FALSE", "JMP",
  "EQUAL", "NEQUAL", "LT", "LTEQ", "GT", "GTEQ", "IADD", "ISUB", "IDIV", "IMUL",
  "FADD", "FSUB", "FDIV", "FMUL">>

IBinaryOps == {"IADD", "ISUB", "IDIV", "IMUL"}
FBinaryOps == {"FADD", "FSUB", "FDIV", "FMUL"}

Opcode == [op \in {OPS[i] : i \in 1 .. Len(OPS)} |->
             (CHOOSE i \in 1 .. Len(OPS) : OPS[i] = op) - 1]

(* a byte that is no opcode has no case in the switch, like OP_NO *)
OpAt(f, i) == IF ByteAt(f, i) < Len(OPS) THEN OPS[ByteAt(f, i) + 1] ELSE "NO"
=============================================================================
