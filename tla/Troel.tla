------------------------------- MODULE Troel -------------------------------
(***************************************************************************)
(* main of src/src/troelc.c: the compiler, and, when it reports no error,  *)
(* one run of what it compiled on a new machine with the native library.   *)
(* What the two promise each other (Certificate) is put to the test here.  *)
(***************************************************************************)
EXTENDS TrCompilerChecked

CONSTANTS GlobalNames, FramesMax, LongMax    \* see TrVM

VARIABLES globals, stack, top, frames, status, life    \* the machine, see TrVM

M == INSTANCE TrVM WITH Funcs <- {}, Scripts <- {}, Names <- GlobalNames

(* The names of a text are strings in use, and what number() and string()  *)
(* make of one is a long, a double or a string.                            *)
ASSUME MainAssumption ==
  /\ FramesMax \in Nat \ {0} /\ LongMax \in Nat \ {0}
  /\ \A t \in Tokens :
       /\ t.type = "IDENT" => t.text \in GlobalNames
       /\ t.type \in {"NUMBER", "INT", "STRING"} =>
            Literal[t.text] \in M!Value /\ ~ IsWild(Literal[t.text])

machine == <<globals, stack, top, frames, status, life>>
mainVars == <<vars, machine>>

MainInit == Init /\ M!Init

Compiles == Next /\ UNCHANGED machine

Runs ==
  /\ Accepted /\ status = "idle"
  /\ M!RunChunk(Compiled)
  /\ UNCHANGED vars

Executes == M!Step /\ UNCHANGED vars

MainNext == Compiles \/ Runs \/ Executes

MainSpec == MainInit /\ [][MainNext]_mainVars

(* a process runs on until main returns *)
FairMainSpec == MainSpec /\ WF_mainVars(MainNext)
-----------------------------------------------------------------------------
(* A text is compiled or refused, and what it says runs to its end, unless *)
(* it loops: main returns.                                                 *)
Loopless == \A i \in 1 .. Len(text) : text[i].type \notin {"FOR", "WHILE"}
Returned == Done /\ (parser.error \/ status \notin {"idle", "running"})
MainEnds == Loopless => <>Returned

(* What is compiled of any text, broken or not, is safe to run: no plain   *)
(* text without functions makes the machine leave its arrays, and a run    *)
(* that ends well leaves nothing on the stack (tr_parser_compile,          *)
(* tr_vm_do_chunk, which checks nothing).                                  *)
RunsDefined ==
  Plain /\ NoFunctions =>
    /\ status # "undefined"
    /\ status = "ok" => top = 0 /\ frames = << >>
-----------------------------------------------------------------------------
(* What the repository says of programs.                                   *)

Running(ops) == status = "running" /\ M!Exec(ops)

(* OP_NEGATE reports "Attempted to negate non number type" (tr_vm.c:322)   *)
(* only of an operand, the value on top, that is not a number.             *)
NegateTruthful ==
  [][ Running({"NEGATE"}) /\ M!Peekable(0) /\ status' = "error"
        => M!Peek(0).type \notin M!Negatable ]_mainVars

(* A run that returns TR_VM_E_OK has run the script to its end: what the   *)
(* statements after a declaration in example.tr:9-11 are there for.        *)
WholeScript ==
  [][ status = "running" /\ status' = "ok" => ~HasBytes(M!F, M!IP + 1, 0) ]_mainVars
=============================================================================
