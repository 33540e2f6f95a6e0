---------------------------- MODULE TrVMVerified ----------------------------
(***************************************************************************)
(* The interpreter on code that carries a height certificate: for every    *)
(* offset an execution can reach, the numbers of slots the frame can have  *)
(* on the stack there.  This is what the interpreter takes for granted of  *)
(* the compiler, as it checks nothing itself, and under it every access it *)
(* makes is to be in range and every frame keeps to its own window.        *)
(***************************************************************************)
EXTENDS TrVM, Certificate

CONSTANT Heights   \* Heights[f]: pairs <<offset, height>>

ASSUME CertifiedAssumption ==
  /\ \A f \in Scripts : f.arity = 0
  /\ \A f \in Funcs :
       /\ \A i \in 1 .. Len(f.consts) : ~IsWild(f.consts[i])
       /\ Heights[f] \subseteq Int \X Int
       /\ Certifies(Heights[f], f, f \in Scripts)
-----------------------------------------------------------------------------
Clean == life = "clean"

(* The slots frame i owns: up to the slot of the function it called, where *)
(* the result will be, or up to the top.                                   *)
EndOf(i) == IF i = Len(frames) THEN top ELSE frames[i + 1].slots
HeightOf(i) == EndOf(i) - frames[i].slots + IF i = Len(frames) THEN 0 ELSE 1

(* The call at work is print of a closure.                                 *)
PrintsClosure ==
  /\ frames # <<>> /\ HasBytes(F, IP, 1)
  /\ Op = "CALL" /\ Arg = 1 /\ Peekable(1) /\ Peek(1) = CFunc("print")
  /\ IsClosure(Peek(0))

(* Every access of the machine is inside the array it is to, and every     *)
(* value it uses was written: a run of certified code, on a machine no run *)
(* has failed on, is defined as long as it does not print a closure, and   *)
(* heights alone cannot promise more: tr_print takes any value.            *)
UndefinedOnlyByPrint == Clean /\ status = "undefined" => PrintsClosure

(* The run in progress has, at each frame's offset, a height certified for *)
(* it: of the frames below, the height their call's result will give them. *)
HeightsHold ==
  Clean /\ Running =>
    /\ frames[1].slots = 0 /\ frames[1].func \in Scripts
    /\ \A i \in 1 .. Len(frames) :
         <<frames[i].ip, HeightOf(i)>> \in Heights[frames[i].func]

(* A successful run leaves the stack and the frames as it found them, so   *)
(* that any number of chunks can be run one after another.                 *)
LeavesNothing ==
  Clean /\ status \in {"idle", "ok"} => top = 0 /\ frames = <<>>

(* No slot of the run, nor any global, holds a value never written or      *)
(* scribbled on by the operators that work above the top.                  *)
NothingWild ==
  Clean =>
    /\ Running => \A j \in 0 .. top - 1 : ~IsWild(stack[j])
    /\ \A n \in Names : ~IsWild(globals[n])
-----------------------------------------------------------------------------
(* Refinement: windows of one array are separate stacks (WindowStack).     *)

Window(i) == [j \in 1 .. EndOf(i) - frames[i].slots |-> stack[frames[i].slots + j - 1]]

WindowsOfRun ==
  IF Clean /\ Running THEN [i \in 1 .. Len(frames) |-> Window(i)] ELSE <<>>

Windows == INSTANCE WindowStack WITH windows <- WindowsOfRun

(* A frame's values are its own: whatever is called, a caller finds its    *)
(* window as it left it, with the result in place of callee and arguments. *)
ImplementsWindows == Windows!WindowSpec
=============================================================================
