-------------------------------- MODULE TrVM --------------------------------
(***************************************************************************)
(* The bytecode interpreter of src/src/tr_vm.c: tr_vm_do_chunk and the     *)
(* loop of tr_vm_do_call_frame, one action per opcode.  The code is bytes, *)
(* as in the C: an opcode without a case is skipped, and its operands are  *)
(* then executed.  Every array access of the C is checked here, and one    *)
(* outside its array is undefined behaviour: the machine stops in status   *)
(* "undefined".  The table of globals is the map that TrTable implements.  *)
(***************************************************************************)
EXTENDS Bytecode

CONSTANTS
  Funcs,      \* the functions that values can be
  Scripts,    \* the functions handed to tr_vm_do_chunk
  Names,      \* the strings in use
  FramesMax,  \* FRAMES_MAX
  LongMax     \* LONG_MAX

StackMax == FramesMax * SlotsMax

VARIABLES
  globals,    \* vm->globals, a map from names
  stack, top, \* vm->stack, and the index vm->stackTop points at
  frames,     \* vm->frames[0 .. frame_count - 1]
  status,     \* "idle", "running", what tr_vm_do_chunk returned, or how it died
  life        \* "reused" once a chunk was run on a machine whose last run failed

vars == <<globals, stack, top, frames, status, life>>
-----------------------------------------------------------------------------
(* Values in use, and what is read of them.                                *)

Long == -(LongMax + 1) .. LongMax

Unset == Wild("ANY")    \* malloc'ed and never written: its type is any too

CFuncs == {"print", "clock"}

Value == {Nil, NullPtr}
  \cup [type : {"LNG"}, l : Long] \cup [type : {"DBL"}, d : {0, 1}]
  \cup [type : {"BOOL"}, b : BOOLEAN] \cup [type : {"STR"}, s : Names]
  \cup [type : {"CFUNC"}, c : CFuncs]
  \cup [type : {"OBJ"}, func : Funcs] \cup [type : {"OBJ"}, closure : Funcs]
  \cup [type : Types \cup {"ANY"}, wild : {TRUE}]

TypesOf(v) == IF v.type = "ANY" THEN Types ELSE {v.type}

(* The arrays are there, and functions are made of bytes and of values.    *)
ASSUME VMAssumption ==
  /\ FramesMax \in Nat \ {0} /\ LongMax \in Nat \ {0}
  /\ Scripts \subseteq Funcs
  /\ \A f \in Funcs :
       f.arity \in Nat /\ f.code \in Seq(0 .. 255) /\ f.consts \in Seq(Value)

Absent == [type |-> "ABSENT"]   \* no such global

(* tr_value_is_falsey: the outcomes it can have; note VAL_BOOL gives v.b   *)
Falsey(v) ==
  IF v.type = "NIL" \/ v = NullPtr THEN {TRUE}
  ELSE IF IsWild(v) THEN BOOLEAN
  ELSE CASE v.type = "LNG"  -> {v.l = 0}
         [] v.type = "DBL"  -> {v.d = 0}
         [] v.type = "BOOL" -> {v.b}
         [] OTHER -> {FALSE}

(* tr_vm_ipop reads the l of the union, whatever the type: a pointer or    *)
(* the bits of a double are any long                                       *)
LongOf(v) ==
  IF v \in {Nil, NullPtr} THEN {0}
  ELSE IF IsWild(v) THEN Long
  ELSE CASE v.type = "LNG"  -> {v.l}
         [] v.type = "BOOL" -> {IF v.b THEN 1 ELSE 0}
         [] OTHER -> Long

Wrap(n) == ((n + LongMax + 1) % (2 * LongMax + 2)) - (LongMax + 1)

Abs(n) == IF n < 0 THEN -n ELSE n
Quotient(a, b) ==
  IF (a < 0) = (b < 0) THEN Abs(a) \div Abs(b) ELSE -(Abs(a) \div Abs(b))

Arith(op, a, b) ==
  CASE op = "IADD" -> a + b
    [] op = "ISUB" -> a - b
    [] op = "IMUL" -> a * b
    [] op = "IDIV" -> Quotient(a, b)

(* the divide instruction traps on a zero divisor and on LONG_MIN / -1     *)
Traps(op, a, b) == op = "IDIV" /\ (b = 0 \/ (a = -(LongMax + 1) /\ b = -1))

Negated(v) == IF v.type = "LNG" /\ ~IsWild(v) THEN Lng(Wrap(-v.l)) ELSE v

(* l = (l == 0) written over the payload of v *)
Toggled(v) ==
  IF IsWild(v) THEN v
  ELSE CASE v.type = "LNG"  -> Lng(IF v.l = 0 THEN 1 ELSE 0)
         [] v.type = "BOOL" -> Bool(~v.b)
         [] OTHER -> Wild(v.type)

(* The same after b = !b, which changes the lowest byte of the l only: the *)
(* outcomes, as a byte that is neither 0 nor 1 is no bool                  *)
BytesToggled(v) ==
  IF IsWild(v) THEN {v}
  ELSE CASE v.type = "LNG" ->
              {Lng(l) : l \in IF v.l \in {0, 1} THEN {v.l}
                              ELSE IF v.l \in 2 .. 255 THEN {0, 1} ELSE {0}}
         [] v.type = "BOOL" -> {v}
         [] OTHER -> {Wild(v.type)}

(* What tr_print can print: of a closure, tr_debug_print_val leaves the    *)
(* buffer as it was, and nobody has written it                             *)
Printable(v) ==
  /\ ~IsClosure(v)
  /\ IsWild(v) => v.type \notin {"STR", "OBJ", "ANY"}
-----------------------------------------------------------------------------
(* opcodes the compiler may emit for which the switch has no case *)
Skipped == {"NO", "GET_UPVAL", "SET_UPVAL", "PRINT", "TRUE", "FALSE", "LT", "LTEQ",
            "GT", "GTEQ"}
-----------------------------------------------------------------------------
(* The state seen by one instruction.                                      *)

Init ==
  /\ globals = [n \in Names |-> IF n \in CFuncs THEN CFunc(n) ELSE Absent]
  /\ stack = [i \in 0 .. StackMax - 1 |-> Unset] /\ top = 0
  /\ frames = <<>>
  /\ status = "idle" /\ life = "clean"

Frame == frames[Len(frames)]
F  == Frame.func
IP == Frame.ip

Running == status = "running"
Op == OpAt(F, IP)

Pushable == top < StackMax
Peekable(n) == top - n - 1 >= 0
Peek(n) == stack[top - n - 1]

(* tr_vm_pop, of a stack with t values: an empty one stays empty *)
Popped(t) == IF t = 0 THEN NullPtr ELSE stack[t - 1]
Below(t)  == IF t = 0 THEN 0 ELSE t - 1
Drop(n) == /\ top' = IF top < n THEN 0 ELSE top - n
           /\ UNCHANGED stack

PutAt(i, v) == /\ stack' = [stack EXCEPT ![i] = v]
               /\ top' = i + 1
Push(v) == PutAt(top, v)
Replace2(v) == PutAt(Below(Below(top)), v)     \* push after two pops

Goto(i)    == frames' = [frames EXCEPT ![Len(frames)].ip = i]
Advance(n) == Goto(IP + n)

(* mutant of SlotOf: the slots counted without the function in slot 0 *)
SlotOfPastFunction(f, i) == Frame.slots + Operand(f, i) + 1

SlotOf(f, i) == Frame.slots + Operand(f, i)

Arg == Operand(F, IP)

(* The types the unset or scribbled slot above the top may make NEGATE see *)
Negatable   == {"LNG", "DBL"}
Unnegatable == {"PTR", "STR"}
NegateTypes == TypesOf(stack[top])

Exec(ops) == Running /\ HasBytes(F, IP, 0) /\ Op \in ops

(* Every byte, constant, name and slot an instruction touches exists.      *)
HasConst == HasBytes(F, IP, 1) /\ HasConstant(F, Arg)
HasLocal == HasBytes(F, IP, 1) /\ SlotOf(F, IP) < StackMax

SafeCall ==
  /\ HasBytes(F, IP, 1) /\ Peekable(Arg)
  /\ IsWild(Peek(Arg)) => Peek(Arg).type \notin {"OBJ", "CFUNC", "ANY"}
  /\ Peek(Arg) = CFunc("print") /\ Arg = 1 => Printable(Peek(0))

SafeNegate ==
  /\ Pushable
  /\ \/ NegateTypes \subseteq Negatable \cup Unnegatable
     \/ HasName(F, IP) /\ Peekable(0)

SafeNot ==
  /\ Peekable(0)
  /\ TypesOf(Peek(0)) \cap {"BOOL", "LNG"} # {} => Pushable

Safe ==
  /\ HasBytes(F, IP, 0)
  /\ CASE Op = "NIL" -> Pushable
       [] Op \in {"CONSTANT", "CLOSURE"} -> HasConst /\ Pushable
       [] Op = "GET_GLOBAL" -> HasName(F, IP) /\ Pushable
       [] Op \in {"DEFINE_GLOBAL", "SET_GLOBAL"} -> HasName(F, IP) /\ Peekable(0)
       [] Op = "GET_LOCAL" -> HasLocal /\ Pushable
       [] Op = "SET_LOCAL" -> HasLocal /\ Peekable(0)
       [] Op = "CALL" -> SafeCall
       [] Op = "JMP_FALSE" -> HasBytes(F, IP, 2) /\ Peekable(0)
       [] Op \in {"JMP", "LOOP"} -> HasBytes(F, IP, 2)
       [] Op = "NOT" -> SafeNot
       [] Op = "NEGATE" -> SafeNegate
       [] OTHER -> TRUE

(* An access outside an array, through a pointer that is none, or to bytes *)
(* nobody has written.                                                     *)
Undefined ==
  /\ Running /\ ~Safe
  /\ status' = "undefined"
  /\ UNCHANGED <<globals, stack, top, frames, life>>

(* tr_vm_runtime_err, and the return of TR_VM_E_RUNTIME *)
RuntimeErr ==
  /\ status' = "error"
  /\ top' = 0
  /\ UNCHANGED <<stack, life>>

Goes == UNCHANGED <<status, life>>
-----------------------------------------------------------------------------
(* tr_vm_do_chunk, and call()                                              *)

(* mutant of CallFails: no check of FRAMES_MAX *)
CallFailsUnchecked(f, args) == args # f.arity

CallFails(f, args) == args # f.arity \/ Len(frames) = FramesMax

Enter(f, args, t) ==
  frames' = Append(frames, [func |-> f, ip |-> 0, slots |-> t - args - 1])

(* The result of call() is ignored: when it fails, the loop runs whatever  *)
(* frame an earlier run left, or reads frames[-1].                         *)
RunChunk(f) ==
  /\ status \in {"idle", "ok", "error"}
  /\ life' = IF status = "error" THEN "reused" ELSE life
  /\ UNCHANGED globals
  /\ IF ~Pushable
     THEN status' = "undefined" /\ UNCHANGED <<stack, top, frames>>
     ELSE /\ stack' = [stack EXCEPT ![top] = Func(f)]
          /\ IF CallFails(f, 0)
             THEN /\ top' = 0
                  /\ status' = IF frames = <<>> THEN "undefined" ELSE "running"
                  /\ UNCHANGED frames
             ELSE /\ top' = top + 1
                  /\ Enter(f, 0, top + 1)
                  /\ status' = "running"

(* mutant of CallClosure: the window begins at the arguments *)
CallClosureAtArgs ==
  /\ Exec({"CALL"}) /\ SafeCall /\ IsClosure(Peek(Arg))
  /\ LET f == Peek(Arg).closure IN
       /\ ~CallFails(f, Arg)
       /\ frames' = Append([frames EXCEPT ![Len(frames)].ip = IP + 2],
                           [func |-> f, ip |-> 0, slots |-> top - Arg])
  /\ UNCHANGED <<globals, stack, top>> /\ Goes

CallClosure ==
  /\ Exec({"CALL"}) /\ SafeCall /\ IsClosure(Peek(Arg))
  /\ LET f == Peek(Arg).closure IN
       /\ ~CallFails(f, Arg)
       /\ frames' = Append([frames EXCEPT ![Len(frames)].ip = IP + 2],
                           [func |-> f, ip |-> 0, slots |-> top - Arg - 1])
  /\ UNCHANGED <<globals, stack, top>> /\ Goes

(* tr_print and tr_clock *)
Results(c, args) ==
  IF c = "clock" THEN {Dbl(0), Dbl(1)} ELSE {Lng(IF args = 1 THEN 0 ELSE -1)}

CallCFunc ==
  /\ Exec({"CALL"}) /\ SafeCall /\ Peek(Arg).type = "CFUNC" /\ ~IsWild(Peek(Arg))
  /\ \E v \in Results(Peek(Arg).c, Arg) : PutAt(top - Arg - 1, v)
  /\ Advance(2)
  /\ UNCHANGED globals /\ Goes

CallError ==
  /\ Exec({"CALL"}) /\ SafeCall
  /\ \/ IsClosure(Peek(Arg)) /\ CallFails(Peek(Arg).closure, Arg)
     \/ ~IsClosure(Peek(Arg)) /\ Peek(Arg).type # "CFUNC"
  /\ RuntimeErr /\ Advance(2)
  /\ UNCHANGED globals

(* mutant of Return: the stack top is not set back to the frame's slots *)
ReturnOnTop ==
  /\ Exec({"RETURN"})
  /\ frames' = SubSeq(frames, 1, Len(frames) - 1)
  /\ IF Len(frames) = 1
     THEN Drop(2) /\ status' = "ok"
     ELSE UNCHANGED <<stack, top, status>>
  /\ UNCHANGED <<globals, life>>

(* mutant of Return: the last frame's function is not popped *)
ReturnLeavesFunction ==
  /\ Exec({"RETURN"})
  /\ frames' = SubSeq(frames, 1, Len(frames) - 1)
  /\ IF Len(frames) = 1
     THEN Drop(1) /\ status' = "ok"
     ELSE PutAt(Frame.slots, Popped(top)) /\ UNCHANGED status
  /\ UNCHANGED <<globals, life>>

Return ==
  /\ Exec({"RETURN"})
  /\ frames' = SubSeq(frames, 1, Len(frames) - 1)
  /\ IF Len(frames) = 1
     THEN Drop(2) /\ status' = "ok"
     ELSE PutAt(Frame.slots, Popped(top)) /\ UNCHANGED status
  /\ UNCHANGED <<globals, life>>
-----------------------------------------------------------------------------
(* The other cases of the switch                                           *)

PushOp ==
  /\ Pushable
  /\ \/ Exec({"NIL"}) /\ Push(Nil) /\ Advance(1)
     \/ Exec({"CONSTANT"}) /\ HasConst /\ Push(ConstantAt(F, Arg)) /\ Advance(2)
     \/ Exec({"GET_LOCAL"}) /\ HasLocal /\ Push(stack[SlotOf(F, IP)]) /\ Advance(2)
     \/ /\ Exec({"CLOSURE"}) /\ HasConst
        /\ Push(IF IsFunc(ConstantAt(F, Arg)) THEN Closure(ConstantAt(F, Arg).func)
                                          ELSE Wild("OBJ"))
        /\ Advance(2)
     \/ /\ Exec({"GET_GLOBAL"}) /\ HasName(F, IP)
        /\ globals[NameAt(F, IP)] # Absent
        /\ Push(globals[NameAt(F, IP)]) /\ Advance(2)
  /\ UNCHANGED globals /\ Goes

(* OP_SET_GLOBAL inserts the value to find out whether the name is new,    *)
(* and then deletes what it has inserted                                   *)
Inserted(n, v)  == [globals EXCEPT ![n] = v]
Deleted(map, n) == [map EXCEPT ![n] = Absent]

(* mutant of UndefinedGlobal: the name is inserted and not deleted *)
UndefinedGlobalDeclared ==
  /\ Exec({"GET_GLOBAL", "SET_GLOBAL"}) /\ HasName(F, IP)
  /\ globals[NameAt(F, IP)] = Absent
  /\ \/ Op = "GET_GLOBAL" /\ Pushable /\ UNCHANGED globals
     \/ /\ Op = "SET_GLOBAL" /\ Peekable(0)
        /\ globals' = Inserted(NameAt(F, IP), Peek(0))
  /\ RuntimeErr /\ Advance(2)

UndefinedGlobal ==
  /\ Exec({"GET_GLOBAL", "SET_GLOBAL"}) /\ HasName(F, IP)
  /\ globals[NameAt(F, IP)] = Absent
  /\ \/ Op = "GET_GLOBAL" /\ Pushable /\ UNCHANGED globals
     \/ /\ Op = "SET_GLOBAL" /\ Peekable(0)
        /\ globals' = Deleted(Inserted(NameAt(F, IP), Peek(0)), NameAt(F, IP))
  /\ RuntimeErr /\ Advance(2)

SetLocal ==
  /\ Exec({"SET_LOCAL"}) /\ HasLocal /\ Peekable(0)
  /\ stack' = [stack EXCEPT ![SlotOf(F, IP)] = Peek(0)]
  /\ Advance(2)
  /\ UNCHANGED <<globals, top>> /\ Goes

SetGlobal ==
  /\ Exec({"SET_GLOBAL"}) /\ HasName(F, IP) /\ Peekable(0)
  /\ globals[NameAt(F, IP)] # Absent
  /\ globals' = Inserted(NameAt(F, IP), Peek(0))
  /\ Advance(2)
  /\ UNCHANGED <<stack, top>> /\ Goes

DefineGlobal ==
  /\ Exec({"DEFINE_GLOBAL"}) /\ HasName(F, IP) /\ Peekable(0)
  /\ globals' = [globals EXCEPT ![NameAt(F, IP)] = Peek(0)]
  /\ Drop(1) /\ Advance(2) /\ Goes

Pop ==
  /\ Exec({"POP"})
  /\ Drop(1) /\ Advance(1)
  /\ UNCHANGED globals /\ Goes

(* mutants of Jump: OP_JMP goes back, and operands are not skipped *)
JumpBack ==
  /\ Exec({"JMP", "LOOP", "JMP_FALSE"}) /\ HasBytes(F, IP, 2)
  /\ \/ Op \in {"JMP", "LOOP"} /\ Goto(IP + 3 - Short(F, IP))
     \/ /\ Op = "JMP_FALSE" /\ Peekable(0)
        /\ \E falsey \in Falsey(Peek(0)) :
             Goto(IP + 3 + IF falsey THEN Short(F, IP) ELSE 0)
  /\ UNCHANGED <<globals, stack, top>> /\ Goes

JumpFromOperand ==
  /\ Exec({"JMP", "LOOP", "JMP_FALSE"}) /\ HasBytes(F, IP, 2)
  /\ \/ Op = "JMP" /\ Goto(IP + 1 + Short(F, IP))
     \/ Op = "LOOP" /\ Goto(IP + 1 - Short(F, IP))
     \/ /\ Op = "JMP_FALSE" /\ Peekable(0)
        /\ \E falsey \in Falsey(Peek(0)) :
             Goto(IP + IF falsey THEN 1 + Short(F, IP) ELSE 3)
  /\ UNCHANGED <<globals, stack, top>> /\ Goes

Jump ==
  /\ Exec({"JMP", "LOOP", "JMP_FALSE"}) /\ HasBytes(F, IP, 2)
  /\ \/ Op = "JMP" /\ Goto(IP + 3 + Short(F, IP))
     \/ Op = "LOOP" /\ Goto(IP + 3 - Short(F, IP))
     \/ /\ Op = "JMP_FALSE" /\ Peekable(0)
        /\ \E falsey \in Falsey(Peek(0)) :
             Goto(IP + 3 + IF falsey THEN Short(F, IP) ELSE 0)
  /\ UNCHANGED <<globals, stack, top>> /\ Goes

(* VALUE_OP: the "break" after the first push leaves the macro, so that    *)
(* two values of one type are compared to nothing at all                   *)
Compare ==
  /\ Exec({"EQUAL", "NEQUAL"})
  /\ \E tb \in TypesOf(Popped(top)), ta \in TypesOf(Popped(Below(top))) :
       IF ta # tb THEN Replace2(Bool(FALSE)) ELSE Drop(2)
  /\ Advance(1)
  /\ UNCHANGED globals /\ Goes

(* IBINARY_OP: a is the value on top, the right operand *)
IBinary ==
  /\ Exec(IBinaryOps)
  /\ \E a \in LongOf(Popped(top)), b \in LongOf(Popped(Below(top))) :
       IF Traps(Op, a, b)
       THEN status' = "trap" /\ UNCHANGED <<stack, top, frames>>
       ELSE Replace2(Lng(Wrap(Arith(Op, a, b)))) /\ Advance(1) /\ UNCHANGED status
  /\ UNCHANGED <<globals, life>>

FBinary ==
  /\ Exec(FBinaryOps)
  /\ \E d \in {0, 1} : Replace2(Dbl(d))
  /\ Advance(1)
  /\ UNCHANGED globals /\ Goes

(* OP_NEGATE works on *stackTop, the slot above the top; a type it does    *)
(* not list falls into the case of OP_DEFINE_GLOBAL                        *)
Negate ==
  /\ Exec({"NEGATE"}) /\ SafeNegate
  /\ \E t \in NegateTypes :
       \/ /\ t \in Negatable
          /\ stack' = [stack EXCEPT ![top] = Negated(@)]
          /\ Advance(1)
          /\ UNCHANGED <<globals, top>> /\ Goes
       \/ /\ t \in Unnegatable
          /\ RuntimeErr /\ Advance(1)
          /\ UNCHANGED globals
       \/ /\ t \notin Negatable \cup Unnegatable
          /\ globals' = [globals EXCEPT ![NameAt(F, IP)] = Peek(0)]
          /\ Drop(1) /\ Advance(2) /\ Goes

(* OP_NOT looks at the top and writes the slot above it, for a Boolean twice *)
Not ==
  /\ Exec({"NOT"}) /\ SafeNot
  /\ \E t \in TypesOf(Peek(0)) :
       \/ /\ t = "BOOL"
          /\ \E v \in BytesToggled(stack[top]) : stack' = [stack EXCEPT ![top] = v]
       \/ t = "LNG" /\ stack' = [stack EXCEPT ![top] = Toggled(@)]
       \/ t \notin {"BOOL", "LNG"} /\ UNCHANGED stack
  /\ Advance(1)
  /\ UNCHANGED <<globals, top>> /\ Goes

Skip ==
  /\ Exec(Skipped) /\ Advance(1)
  /\ UNCHANGED <<globals, stack, top>> /\ Goes

Step ==
  \/ CallClosure \/ CallCFunc \/ CallError \/ Return
  \/ PushOp \/ UndefinedGlobal \/ SetLocal \/ SetGlobal \/ DefineGlobal \/ Pop
  \/ Jump \/ Compare \/ IBinary \/ FBinary \/ Negate \/ Not \/ Skip \/ Undefined

Next == Step \/ \E f \in Scripts : RunChunk(f)

Spec == Init /\ [][Next]_vars

(* The loop goes on for as long as the machine runs; nobody has to run it. *)
FairSpec == Spec /\ WF_vars(Step)
-----------------------------------------------------------------------------
(* What holds of any code, well formed or not.                             *)

Statuses == {"idle", "running", "ok", "error", "undefined", "trap"}

(* The registers stay in their arrays, and no run leaves the frame array.  *)
TypeOK ==
  /\ globals \in [Names -> Value \cup {Absent}]
  /\ stack \in [0 .. StackMax - 1 -> Value] /\ top \in 0 .. StackMax
  /\ frames \in Seq([func : Funcs, ip : Int, slots : 0 .. StackMax - 1])
  /\ Len(frames) <= FramesMax
  /\ status \in Statuses
  /\ status = "running" => frames # <<>>
  /\ life \in {"clean", "reused"}

(* Some code declares n: n is the name of an OP_DEFINE_GLOBAL, or of an    *)
(* OP_NEGATE, which can fall into its case.                                *)
Declared(n) ==
  \E f \in Funcs : \E i \in 0 .. Len(f.code) - 1 :
    OpAt(f, i) \in {"DEFINE_GLOBAL", "NEGATE"} /\ HasName(f, i) /\ NameAt(f, i) = n

(* A global that is there was declared, or is a native: an assignment      *)
(* makes none, neither the one that succeeds nor the one that fails, which *)
(* inserts the name and takes it out again.                                *)
OnlyDeclared ==
  \A n \in Names : globals[n] # Absent => n \in CFuncs \/ Declared(n)

(* Code without OP_LOOP comes to an end whatever it calls, recursion       *)
(* included: the frame array bounds the depth of the calls.                *)
RunsEnd == status = "running" ~> status # "running"
=============================================================================
