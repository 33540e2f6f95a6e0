---------------------------- MODULE Disassembler ----------------------------
(***************************************************************************)
(* The disassembler of src/src/tr_debug.c, which prints every chunk that   *)
(* was compiled without an error: where it takes the instructions of a     *)
(* chunk to begin, and what it reads of each.  It has a decoder of its own,*)
(* beside that of the interpreter.                                         *)
(***************************************************************************)
EXTENDS Bytecode

NamedOps == {"CONSTANT", "DEFINE_GLOBAL", "SET_GLOBAL", "GET_GLOBAL"}
JumpOps  == {"JMP_FALSE", "JMP", "LOOP"}

(* tr_opcode_dissasemble: how far it goes on.  A mutant without OP_CALL.   *)
InstructionLengthNoCall(op) ==
  CASE op \in NamedOps \cup {"SET_LOCAL", "GET_LOCAL", "CLOSURE"} -> 2
    [] op \in JumpOps -> 3
    [] OTHER -> 1

InstructionLength(op) ==
  CASE op \in NamedOps \cup {"SET_LOCAL", "GET_LOCAL", "CALL", "CLOSURE"} -> 2
    [] op \in JumpOps -> 3
    [] OTHER -> 1      \* those without operands, and "Unknown"

(* the offsets of the loop of tr_chunk_disassemble *)
Listed(f) ==
  LET from[i \in 0 .. Len(f.code) + 2] ==
        IF i >= Len(f.code) THEN {}
        ELSE {i} \cup from[i + InstructionLength(OpAt(f, i))]
  IN from[0]

(* Every byte and constant it reads is there; only for OP_CLOSURE does it  *)
(* index the constants without asking tr_constants_get.                    *)
Readable(f, i) ==
  /\ HasBytes(f, i, InstructionLength(OpAt(f, i)) - 1)
  /\ OpAt(f, i) = "CLOSURE" => HasConstant(f, Operand(f, i))
=============================================================================
