----------------------------- MODULE TrVMProofs -----------------------------
(***************************************************************************)
(* Proofs about the interpreter on any code, well formed or not: its       *)
(* registers stay in range, and only declarations make globals.            *)
(***************************************************************************)
EXTENDS TrVM, SequenceTheorems, TLAPS

-----------------------------------------------------------------------------
(* Values.                                                                 *)

(* The values made of parts in use are values in use.                      *)
LEMMA ValuesMade ==
  /\ Nil \in Value /\ NullPtr \in Value
  /\ \A n \in Long : Lng(n) \in Value
  /\ \A d \in {0, 1} : Dbl(d) \in Value
  /\ \A b \in BOOLEAN : Bool(b) \in Value
  /\ \A c \in CFuncs : CFunc(c) \in Value
  /\ \A f \in Funcs : Func(f) \in Value /\ Closure(f) \in Value
  /\ \A t \in Types \cup {"ANY"} : Wild(t) \in Value
  BY DEF Value, Nil, NullPtr, Lng, Dbl, Bool, CFunc, Func, Closure, Wild

(* What the parts of a value can be, by its type.                          *)
LEMMA ValueParts ==
  ASSUME NEW v \in Value
  PROVE  /\ v.type \in Types \cup {"ANY"}
         /\ ~IsWild(v) => v.type \in Types
         /\ IsFunc(v) => v.func \in Funcs /\ v.type = "OBJ" /\ ~IsWild(v)
         /\ IsClosure(v) => v.closure \in Funcs /\ v.type = "OBJ" /\ ~IsWild(v)
         /\ v.type = "LNG" /\ ~IsWild(v) => v.l \in Long
         /\ v.type = "BOOL" /\ ~IsWild(v) => v.b \in BOOLEAN
         /\ v.type = "STR" /\ ~IsWild(v) => v.s \in Names
         /\ v.type = "CFUNC" /\ ~IsWild(v) => v.c \in CFuncs
<1>1. CASE v \in {Nil, NullPtr}
  BY <1>1 DEF Nil, NullPtr, Types, IsWild, IsFunc, IsClosure
<1>2. CASE v \in [type : {"LNG"}, l : Long]
  BY <1>2 DEF Types, IsWild, IsFunc, IsClosure
<1>3. CASE v \in [type : {"DBL"}, d : {0, 1}]
  BY <1>3 DEF Types, IsWild, IsFunc, IsClosure
<1>4. CASE v \in [type : {"BOOL"}, b : BOOLEAN]
  BY <1>4 DEF Types, IsWild, IsFunc, IsClosure
<1>5. CASE v \in [type : {"STR"}, s : Names]
  BY <1>5 DEF Types, IsWild, IsFunc, IsClosure
<1>6. CASE v \in [type : {"CFUNC"}, c : CFuncs]
  BY <1>6 DEF Types, IsWild, IsFunc, IsClosure
<1>7. CASE v \in [type : {"OBJ"}, func : Funcs]
  BY <1>7 DEF Types, IsWild, IsFunc, IsClosure
<1>8. CASE v \in [type : {"OBJ"}, closure : Funcs]
  BY <1>8 DEF Types, IsWild, IsFunc, IsClosure
<1>9. CASE v \in [type : Types \cup {"ANY"}, wild : {TRUE}]
  BY <1>9 DEF Types, IsWild, IsFunc, IsClosure
<1>. QED
  BY <1>1, <1>2, <1>3, <1>4, <1>5, <1>6, <1>7, <1>8, <1>9 DEF Value

(* A global that is not there is told from all that are.                   *)
LEMMA AbsentIsNone == Absent \notin Value
<1>1. Absent.type = "ABSENT"
  BY DEF Absent
<1>. QED
  BY <1>1, ValueParts DEF Types

(* Arithmetic wraps to the longs.                                          *)
LEMMA WrapsToLong == \A n \in Int : Wrap(n) \in Long
<1>. SUFFICES ASSUME NEW n \in Int
              PROVE  Wrap(n) \in Long
  OBVIOUS
<1>1. LongMax \in Nat /\ 2 * LongMax + 2 \in Nat /\ 2 * LongMax + 2 > 0
  BY VMAssumption
<1>2. \A m \in Int, k \in Nat : k > 0 => m % k \in 0 .. k - 1
  OBVIOUS
<1>3. (n + LongMax + 1) % (2 * LongMax + 2) \in 0 .. (2 * LongMax + 2) - 1
  BY <1>1, <1>2
<1>. QED
  BY <1>1, <1>3 DEF Wrap, Long

(* What NEGATE and NOT write is a value.                                   *)
LEMMA UnaryResults ==
  ASSUME NEW v \in Value
  PROVE  Negated(v) \in Value /\ Toggled(v) \in Value /\ BytesToggled(v) \subseteq Value
<1>1. Negated(v) \in Value
  <2>1. CASE v.type = "LNG" /\ ~IsWild(v)
    <3>1. v.l \in Int /\ -v.l \in Int
      BY <2>1, ValueParts, VMAssumption DEF Long
    <3>. QED
      BY <2>1, <3>1, WrapsToLong, ValuesMade DEF Negated
  <2>2. CASE ~(v.type = "LNG" /\ ~IsWild(v))
    BY <2>2 DEF Negated
  <2>. QED
    BY <2>1, <2>2
<1>2. Toggled(v) \in Value
  <2>1. CASE IsWild(v)
    BY <2>1 DEF Toggled
  <2>2. CASE ~IsWild(v) /\ v.type = "LNG"
    <3>1. 0 \in Long /\ 1 \in Long
      BY VMAssumption DEF Long
    <3>. QED
      BY <2>2, <3>1, ValuesMade DEF Toggled
  <2>3. CASE ~IsWild(v) /\ v.type = "BOOL"
    BY <2>3, ValueParts, ValuesMade DEF Toggled
  <2>4. CASE ~IsWild(v) /\ v.type \notin {"LNG", "BOOL"}
    BY <2>4, ValueParts, ValuesMade DEF Toggled
  <2>. QED
    BY <2>1, <2>2, <2>3, <2>4
<1>3. BytesToggled(v) \subseteq Value
  <2>1. CASE IsWild(v)
    BY <2>1 DEF BytesToggled
  <2>2. CASE ~IsWild(v) /\ v.type = "LNG"
    <3>1. 0 \in Long /\ 1 \in Long
      BY VMAssumption DEF Long
    <3>2. BytesToggled(v) \subseteq {Lng(0), Lng(1)}
      BY <2>2 DEF BytesToggled
    <3>. QED
      BY <3>1, <3>2, ValuesMade
  <2>3. CASE ~IsWild(v) /\ v.type = "BOOL"
    BY <2>3 DEF BytesToggled
  <2>4. CASE ~IsWild(v) /\ v.type \notin {"LNG", "BOOL"}
    BY <2>4, ValueParts, ValuesMade DEF BytesToggled
  <2>. QED
    BY <2>1, <2>2, <2>3, <2>4
<1>. QED
  BY <1>1, <1>2, <1>3
-----------------------------------------------------------------------------
(* Code.                                                                   *)

Frames == [func : Funcs, ip : Int, slots : 0 .. StackMax - 1]

(* The stack has a slot.                                                   *)
LEMMA StackThere == SlotsMax \in Nat /\ SlotsMax > 0 /\ StackMax \in Nat /\ StackMax > 0
<1>1. \A m, n \in Nat : m > 0 /\ n > 0 => m * n \in Nat /\ m * n > 0
  OBVIOUS
<1>2. SlotsMax \in Nat /\ SlotsMax > 0 /\ FramesMax \in Nat /\ FramesMax > 0
  BY ByteAssumption, VMAssumption DEF SlotsMax
<1>. QED
  BY <1>1, <1>2 DEF StackMax

(* What a sequence is made of.                                             *)
LEMMA ElementsTyped ==
  ASSUME NEW S, NEW s \in Seq(S), NEW j \in 1 .. Len(s)
  PROVE  s[j] \in S
  OBVIOUS

(* All but the last element of a sequence.                                 *)
LEMMA FrontTyped ==
  ASSUME NEW S, NEW s \in Seq(S), Len(s) >= 1
  PROVE  /\ SubSeq(s, 1, Len(s) - 1) \in Seq(S)
         /\ Len(SubSeq(s, 1, Len(s) - 1)) = Len(s) - 1
         /\ \A j \in 1 .. Len(s) - 1 : SubSeq(s, 1, Len(s) - 1)[j] = s[j]
<1>1. Len(s) - 1 \in Int /\ \A j \in 1 .. Len(s) - 1 : s[j] \in S
  BY ElementsTyped
<1>2. /\ SubSeq(s, 1, Len(s) - 1) \in Seq(S)
      /\ Len(SubSeq(s, 1, Len(s) - 1)) = IF 1 <= Len(s) - 1 THEN Len(s) - 1 - 1 + 1 ELSE 0
      /\ \A j \in 1 .. Len(s) - 1 - 1 + 1 : SubSeq(s, 1, Len(s) - 1)[j] = s[1 + j - 1]
  BY <1>1, SubSeqProperties
<1>3. \A j \in 1 .. Len(s) - 1 : SubSeq(s, 1, Len(s) - 1)[j] = s[j]
  <2>. TAKE j \in 1 .. Len(s) - 1
  <2>1. j \in 1 .. Len(s) - 1 - 1 + 1 /\ 1 + j - 1 = j
    BY <1>1
  <2>. QED
    BY <1>2, <2>1
<1>4. Len(SubSeq(s, 1, Len(s) - 1)) = Len(s) - 1
  <2>1. Len(s) - 1 - 1 + 1 = Len(s) - 1 /\ ~(1 <= Len(s) - 1) => Len(s) - 1 = 0
    BY <1>1
  <2>. QED
    BY <1>2, <2>1
<1>. QED
  BY <1>2, <1>3, <1>4

(* Bytes of code that are there are bytes.                                 *)
LEMMA BytesOfCode ==
  ASSUME NEW f \in Funcs, NEW i \in Int, NEW n \in Nat, HasBytes(f, i, n)
  PROVE  \A k \in 0 .. n : ByteAt(f, i + k) \in 0 .. 255
<1>. SUFFICES ASSUME NEW k \in 0 .. n
              PROVE  ByteAt(f, i + k) \in 0 .. 255
  OBVIOUS
<1>1. f.code \in Seq(0 .. 255)
  BY VMAssumption
<1>2. i + k + 1 \in 1 .. Len(f.code)
  BY <1>1 DEF HasBytes
<1>3. f.code[i + k + 1] \in 0 .. 255
  BY <1>1, <1>2, ElementsTyped
<1>. QED
  BY <1>3 DEF ByteAt

(* A constant that is there is a value.                                    *)
LEMMA ConstantsOfCode ==
  ASSUME NEW f \in Funcs, NEW k \in Int, HasConstant(f, k)
  PROVE  ConstantAt(f, k) \in Value
  BY VMAssumption DEF HasConstant, ConstantAt

(* An operand that names, names a string in use.                           *)
LEMMA NamesOfCode ==
  ASSUME NEW f \in Funcs, NEW i \in Int, HasName(f, i)
  PROVE  NameAt(f, i) \in Names
<1>1. Operand(f, i) \in Int
  <2>1. ByteAt(f, i + 1) \in 0 .. 255
    BY BytesOfCode DEF HasName
  <2>. QED
    BY <2>1 DEF Operand
<1>2. ConstantAt(f, Operand(f, i)) \in Value
  BY <1>1, ConstantsOfCode DEF HasName
<1>. QED
  BY <1>2, ValueParts DEF HasName, NameAt
-----------------------------------------------------------------------------
(* What the small steps of an instruction do to the registers.             *)

(* While the machine runs there is a frame at work.                        *)
LEMMA FrameAtWork ==
  ASSUME TypeOK, Running
  PROVE  /\ frames \in Seq(Frames) /\ Len(frames) \in 1 .. FramesMax
         /\ Frame \in Frames /\ F \in Funcs /\ IP \in Int
         /\ Frame.slots \in 0 .. StackMax - 1
<1>1. frames \in Seq(Frames) /\ frames # <<>> /\ Len(frames) <= FramesMax
  BY DEF TypeOK, Running, Frames
<1>2. Len(frames) \in 1 .. FramesMax
  BY <1>1, VMAssumption
<1>3. Frame \in Frames
  BY <1>1, <1>2 DEF Frame
<1>. QED
  BY <1>1, <1>2, <1>3 DEF Frames, F, IP

(* ip moves in the frame at work and nothing else.                         *)
LEMMA GotoMoves ==
  ASSUME TypeOK, Running, NEW i \in Int, Goto(i)
  PROVE  /\ frames' \in Seq(Frames) /\ Len(frames') = Len(frames)
         /\ frames' # <<>>
<1>1. frames \in Seq(Frames) /\ Len(frames) \in 1 .. FramesMax /\ Frame \in Frames
  BY FrameAtWork
<1>2. frames' = [frames EXCEPT ![Len(frames)] = [frames[Len(frames)] EXCEPT !.ip = i]]
  BY DEF Goto
<1>3. [frames[Len(frames)] EXCEPT !.ip = i] \in Frames
  BY <1>1 DEF Frames, Frame
<1>. QED
  BY <1>1, <1>2, <1>3

(* A slot is written and is the last one.                                  *)
LEMMA PutKeepsTypes ==
  ASSUME TypeOK, NEW i \in 0 .. StackMax - 1, NEW v \in Value, PutAt(i, v)
  PROVE  stack' \in [0 .. StackMax - 1 -> Value] /\ top' \in 0 .. StackMax
  BY StackThere DEF TypeOK, PutAt

(* Slots are popped, as far as there are any.                              *)
LEMMA DropKeepsTypes ==
  ASSUME TypeOK, NEW n \in Nat, Drop(n)
  PROVE  stack' \in [0 .. StackMax - 1 -> Value] /\ top' \in 0 .. StackMax
  BY StackThere DEF TypeOK, Drop

(* What is popped is a value.                                              *)
LEMMA PoppedTypes ==
  ASSUME TypeOK, NEW t \in 0 .. StackMax
  PROVE  Popped(t) \in Value /\ Below(t) \in 0 .. StackMax
         /\ Below(t) \in 0 .. StackMax - 1
  BY StackThere, ValuesMade DEF TypeOK, Popped, Below

(* What is peeked at is a value.                                           *)
LEMMA PeekedTypes ==
  ASSUME TypeOK, NEW n \in Nat, Peekable(n)
  PROVE  Peek(n) \in Value /\ top - n - 1 \in 0 .. StackMax - 1
  BY StackThere DEF TypeOK, Peekable, Peek

(* Operands of an instruction at work.                                     *)
LEMMA ArgTypes ==
  ASSUME TypeOK, Running, HasBytes(F, IP, 1)
  PROVE  Arg \in 0 .. 255
<1>1. F \in Funcs /\ IP \in Int
  BY FrameAtWork
<1>2. ByteAt(F, IP + 1) \in 0 .. 255
  BY <1>1, BytesOfCode
<1>. QED
  BY <1>2 DEF Arg, Operand

(* The slot of a local is in the stack, the name of a global in use.       *)
LEMMA LocalTypes ==
  ASSUME TypeOK, Running, HasLocal
  PROVE  SlotOf(F, IP) \in 0 .. StackMax - 1
<1>1. Operand(F, IP) \in 0 .. 255
  BY ArgTypes DEF HasLocal, Arg
<1>2. Frame.slots \in 0 .. StackMax - 1
  BY FrameAtWork
<1>. QED
  BY <1>1, <1>2, StackThere DEF SlotOf, HasLocal

LEMMA NameTypes ==
  ASSUME TypeOK, Running, HasName(F, IP)
  PROVE  NameAt(F, IP) \in Names
<1>1. F \in Funcs /\ IP \in Int
  BY FrameAtWork
<1>. QED
  BY <1>1, NamesOfCode

LEMMA ShortTypes ==
  ASSUME TypeOK, Running, HasBytes(F, IP, 2)
  PROVE  Short(F, IP) \in Nat
<1>1. F \in Funcs /\ IP \in Int
  BY FrameAtWork
<1>2. \A k \in 0 .. 2 : ByteAt(F, IP + k) \in 0 .. 255
  BY <1>1, BytesOfCode
<1>3. ByteAt(F, IP + 1) \in 0 .. 255 /\ ByteAt(F, IP + 2) \in 0 .. 255
  BY <1>2
<1>4. \A a, b \in 0 .. 255 : a * 256 + b \in Nat
  OBVIOUS
<1>. QED
  BY <1>3, <1>4 DEF Short

(* Most instructions: the registers are put together again.                *)
LEMMA WorkKeepsTypes ==
  ASSUME TypeOK, Running, NEW i \in Int, Goto(i),
         globals' \in [Names -> Value \cup {Absent}],
         stack' \in [0 .. StackMax - 1 -> Value], top' \in 0 .. StackMax,
         Goes \/ (status' \in Statuses /\ life' = life)
  PROVE  TypeOK'
<1>1. /\ frames' \in Seq(Frames) /\ Len(frames') <= FramesMax /\ frames' # <<>>
  BY GotoMoves DEF TypeOK
<1>2. status' \in Statuses /\ life' \in {"clean", "reused"}
  BY DEF TypeOK, Goes
<1>. QED
  BY <1>1, <1>2 DEF TypeOK, Frames
-----------------------------------------------------------------------------
(* Type correctness, action by action.                                     *)

(* A new machine has no frame and an empty stack.                          *)
LEMMA InitTypes == Init => TypeOK
<1>. SUFFICES ASSUME Init
              PROVE  TypeOK
  OBVIOUS
<1>1. globals \in [Names -> Value \cup {Absent}]
  BY ValuesMade DEF Init
<1>2. stack \in [0 .. StackMax - 1 -> Value]
  BY ValuesMade DEF Init, Unset
<1>3. top \in 0 .. StackMax
  BY StackThere DEF Init
<1>4. frames \in Seq(Frames) /\ Len(frames) <= FramesMax
  BY VMAssumption DEF Init
<1>5. status = "idle" /\ life = "clean"
  BY DEF Init
<1>. QED
  BY <1>1, <1>2, <1>3, <1>4, <1>5 DEF TypeOK, Statuses, Frames

(* tr_vm_do_chunk writes the script's function and enters it, or not.      *)
LEMMA RunChunkTypes ==
  ASSUME TypeOK, NEW f \in Scripts, RunChunk(f)
  PROVE  TypeOK'
<1>1. globals' \in [Names -> Value \cup {Absent}] /\ life' \in {"clean", "reused"}
  BY DEF TypeOK, RunChunk
<1>2. f \in Funcs /\ Func(f) \in Value
  BY VMAssumption, ValuesMade
<1>3. CASE ~Pushable
  BY <1>1, <1>3 DEF TypeOK, RunChunk, Statuses
<1>4. CASE Pushable /\ CallFails(f, 0)
  <2>1. stack' \in [0 .. StackMax - 1 -> Value]
    BY <1>2, <1>4 DEF TypeOK, RunChunk
  <2>2. top' = 0 /\ frames' = frames
        /\ status' = IF frames = <<>> THEN "undefined" ELSE "running"
    BY <1>4 DEF RunChunk
  <2>. QED
    BY <1>1, <2>1, <2>2, StackThere DEF TypeOK, Statuses
<1>5. CASE Pushable /\ ~CallFails(f, 0)
  <2>1. stack' \in [0 .. StackMax - 1 -> Value] /\ top' = top + 1 /\ top \in 0 .. StackMax - 1
    BY <1>2, <1>5, StackThere DEF TypeOK, RunChunk, Pushable
  <2>2. frames' = Append(frames, [func |-> f, ip |-> 0, slots |-> top])
    BY <1>5, <2>1, StackThere DEF RunChunk, Enter
  <2>3. [func |-> f, ip |-> 0, slots |-> top] \in Frames
    BY <1>2, <2>1 DEF Frames
  <2>4. frames \in Seq(Frames) /\ Len(frames) <= FramesMax /\ Len(frames) # FramesMax
    BY <1>5 DEF TypeOK, Frames, CallFails
  <2>5. frames' \in Seq(Frames) /\ Len(frames') <= FramesMax /\ frames' # <<>>
    BY <2>2, <2>3, <2>4, VMAssumption
  <2>6. status' = "running"
    BY <1>5 DEF RunChunk
  <2>. QED
    BY <1>1, <2>1, <2>5, <2>6, StackThere DEF TypeOK, Statuses, Frames
<1>. QED
  BY <1>3, <1>4, <1>5

(* A closure is called: a frame more, whose window is in the stack.        *)
LEMMA CallClosureTypes ==
  ASSUME TypeOK, CallClosure
  PROVE  TypeOK'
<1>. DEFINE f == Peek(Arg).closure
            new == [func |-> f, ip |-> 0, slots |-> top - Arg - 1]
            moved == [frames EXCEPT ![Len(frames)].ip = IP + 2]
<1>1. Running /\ HasBytes(F, IP, 1) /\ Peekable(Arg) /\ IsClosure(Peek(Arg))
  BY DEF CallClosure, Exec, SafeCall
<1>2. Arg \in Nat /\ IP + 2 \in Int
  <2>1. Arg \in 0 .. 255
    BY <1>1, ArgTypes
  <2>2. IP \in Int
    BY <1>1, FrameAtWork
  <2>. QED
    BY <2>1, <2>2
<1>3. Peek(Arg) \in Value /\ top - Arg - 1 \in 0 .. StackMax - 1
  BY <1>1, <1>2, PeekedTypes
<1>4. new \in Frames
  BY <1>1, <1>3, ValueParts DEF Frames
<1>5. moved \in Seq(Frames) /\ Len(moved) = Len(frames)
  <2>1. frames \in Seq(Frames) /\ Len(frames) \in 1 .. FramesMax /\ Frame \in Frames
    BY <1>1, FrameAtWork
  <2>2. moved = [frames EXCEPT ![Len(frames)] = [frames[Len(frames)] EXCEPT !.ip = IP + 2]]
    OBVIOUS
  <2>3. [frames[Len(frames)] EXCEPT !.ip = IP + 2] \in Frames
    BY <1>2, <2>1 DEF Frames, Frame
  <2>. QED
    BY <2>1, <2>2, <2>3
<1>6. frames' = Append(moved, new) /\ Len(frames) # FramesMax
  BY DEF CallClosure, CallFails
<1>. HIDE DEF new, moved, f
<1>7. frames' \in Seq(Frames) /\ Len(frames') <= FramesMax /\ frames' # <<>>
  BY <1>4, <1>5, <1>6, <1>1, FrameAtWork, VMAssumption
<1>8. UNCHANGED <<globals, stack, top, status, life>>
  BY DEF CallClosure, Goes
<1>. QED
  BY <1>7, <1>8 DEF TypeOK, Frames

(* A function of the native library leaves its result for its arguments.   *)
LEMMA CallCFuncTypes ==
  ASSUME TypeOK, CallCFunc
  PROVE  TypeOK'
<1>1. Running /\ HasBytes(F, IP, 1) /\ Peekable(Arg)
  BY DEF CallCFunc, Exec, SafeCall
<1>2. Arg \in Nat /\ IP + 2 \in Int
  <2>1. Arg \in 0 .. 255
    BY <1>1, ArgTypes
  <2>2. IP \in Int
    BY <1>1, FrameAtWork
  <2>. QED
    BY <2>1, <2>2
<1>3. top - Arg - 1 \in 0 .. StackMax - 1
  BY <1>1, <1>2, PeekedTypes
<1>4. PICK v \in Results(Peek(Arg).c, Arg) : PutAt(top - Arg - 1, v)
  BY DEF CallCFunc
<1>5. v \in Value
  <2>1. 0 \in Long /\ -1 \in Long
    BY VMAssumption DEF Long
  <2>. QED
    BY <1>4, <2>1, ValuesMade DEF Results
<1>6. stack' \in [0 .. StackMax - 1 -> Value] /\ top' \in 0 .. StackMax
  BY <1>3, <1>4, <1>5, PutKeepsTypes
<1>7. globals' \in [Names -> Value \cup {Absent}]
  BY DEF TypeOK, CallCFunc
<1>. QED
  BY <1>1, <1>2, <1>6, <1>7, WorkKeepsTypes DEF CallCFunc, Advance

(* A failed instruction stops the run.                                     *)
LEMMA ErrorTypes ==
  ASSUME TypeOK, Running, RuntimeErr, NEW i \in Int, Goto(i), UNCHANGED globals
  PROVE  TypeOK'
<1>1. /\ stack' \in [0 .. StackMax - 1 -> Value] /\ top' \in 0 .. StackMax
      /\ status' \in Statuses /\ life' = life
      /\ globals' \in [Names -> Value \cup {Absent}]
  BY StackThere DEF TypeOK, RuntimeErr, Statuses
<1>. QED
  BY <1>1, WorkKeepsTypes

LEMMA CallErrorTypes ==
  ASSUME TypeOK, CallError
  PROVE  TypeOK'
<1>1. Running /\ RuntimeErr /\ Goto(IP + 2) /\ UNCHANGED globals
  BY DEF CallError, Exec, Advance
<1>2. IP + 2 \in Int
  BY <1>1, FrameAtWork
<1>. QED
  BY <1>1, <1>2, ErrorTypes

(* What was inserted only to find out is gone when it is deleted.          *)
LEMMA InsertedDeleted ==
  ASSUME TypeOK, NEW n, NEW v, globals[n] = Absent
  PROVE  Deleted(Inserted(n, v), n) = globals
<1>1. globals \in [Names -> Value \cup {Absent}]
  BY DEF TypeOK
<1>. QED
  BY <1>1 DEF Deleted, Inserted

(* A global that is not found leaves the globals as they were.             *)
LEMMA UndefinedGlobalKeeps ==
  ASSUME TypeOK, UndefinedGlobal
  PROVE  globals' = globals
<1>1. CASE Op = "GET_GLOBAL"
  BY <1>1 DEF UndefinedGlobal
<1>2. CASE Op = "SET_GLOBAL"
  <2>1. /\ globals[NameAt(F, IP)] = Absent
        /\ globals' = Deleted(Inserted(NameAt(F, IP), Peek(0)), NameAt(F, IP))
    BY <1>2 DEF UndefinedGlobal
  <2>. QED
    BY <2>1, InsertedDeleted
<1>. QED
  BY <1>1, <1>2 DEF UndefinedGlobal

LEMMA UndefinedGlobalTypes ==
  ASSUME TypeOK, UndefinedGlobal
  PROVE  TypeOK'
<1>1. Running /\ RuntimeErr /\ Goto(IP + 2) /\ UNCHANGED globals
  BY UndefinedGlobalKeeps DEF UndefinedGlobal, Exec, Advance
<1>2. IP + 2 \in Int
  BY <1>1, FrameAtWork
<1>. QED
  BY <1>1, <1>2, ErrorTypes

(* A frame less; the result goes where the function was.                   *)
LEMMA ReturnTypes ==
  ASSUME TypeOK, Return
  PROVE  TypeOK'
<1>1. Running /\ frames' = SubSeq(frames, 1, Len(frames) - 1)
      /\ globals' = globals /\ life' = life
  BY DEF Return, Exec
<1>2. frames \in Seq(Frames) /\ Len(frames) \in 1 .. FramesMax
      /\ Frame.slots \in 0 .. StackMax - 1
  BY <1>1, FrameAtWork
<1>3. frames' \in Seq(Frames) /\ Len(frames') = Len(frames) - 1 /\ Len(frames') <= FramesMax
  BY <1>1, <1>2, FrontTyped, VMAssumption
<1>4. CASE Len(frames) = 1
  <2>1. Drop(2) /\ status' = "ok"
    BY <1>4 DEF Return
  <2>2. stack' \in [0 .. StackMax - 1 -> Value] /\ top' \in 0 .. StackMax
    BY <2>1, DropKeepsTypes
  <2>. QED
    BY <1>1, <1>3, <2>1, <2>2 DEF TypeOK, Frames, Statuses
<1>5. CASE Len(frames) # 1
  <2>1. PutAt(Frame.slots, Popped(top)) /\ status' = status
    BY <1>5 DEF Return
  <2>2. Popped(top) \in Value
    BY PoppedTypes DEF TypeOK
  <2>3. stack' \in [0 .. StackMax - 1 -> Value] /\ top' \in 0 .. StackMax
    BY <1>2, <2>1, <2>2, PutKeepsTypes
  <2>4. frames' # <<>>
    BY <1>2, <1>3, <1>5
  <2>. QED
    BY <1>1, <1>3, <2>1, <2>3, <2>4 DEF TypeOK, Frames
<1>. QED
  BY <1>4, <1>5

(* A value is pushed, whatever it comes from.                              *)
LEMMA PushKeepsTypes ==
  ASSUME TypeOK, Running, Pushable, NEW v \in Value, Push(v), NEW i \in Int, Goto(i),
         UNCHANGED globals, Goes
  PROVE  TypeOK'
<1>1. top \in 0 .. StackMax - 1
  BY StackThere DEF TypeOK, Pushable
<1>2. stack' \in [0 .. StackMax - 1 -> Value] /\ top' \in 0 .. StackMax
  BY <1>1, PutKeepsTypes DEF Push
<1>3. globals' \in [Names -> Value \cup {Absent}]
  BY DEF TypeOK
<1>. QED
  BY <1>2, <1>3, WorkKeepsTypes

LEMMA PushOpTypes ==
  ASSUME TypeOK, PushOp
  PROVE  TypeOK'
<1>1. Running /\ Pushable /\ UNCHANGED globals /\ Goes
  BY DEF PushOp, Exec
<1>2. IP + 1 \in Int /\ IP + 2 \in Int
  BY <1>1, FrameAtWork
<1>3. F \in Funcs
  BY <1>1, FrameAtWork
<1>4. HasBytes(F, IP, 1) => Arg \in Int
  BY <1>1, ArgTypes
<1>5. CASE Push(Nil) /\ Advance(1)
  BY <1>1, <1>2, <1>5, ValuesMade, PushKeepsTypes DEF Advance
<1>6. CASE HasConst /\ Push(ConstantAt(F, Arg)) /\ Advance(2)
  <2>1. ConstantAt(F, Arg) \in Value
    BY <1>3, <1>4, <1>6, ConstantsOfCode DEF HasConst
  <2>. QED
    BY <1>1, <1>2, <1>6, <2>1, PushKeepsTypes DEF Advance
<1>7. CASE HasLocal /\ Push(stack[SlotOf(F, IP)]) /\ Advance(2)
  <2>1. SlotOf(F, IP) \in 0 .. StackMax - 1
    BY <1>1, <1>7, LocalTypes
  <2>2. stack[SlotOf(F, IP)] \in Value
    BY <2>1 DEF TypeOK
  <2>. QED
    BY <1>1, <1>2, <1>7, <2>2, PushKeepsTypes DEF Advance
<1>8. CASE /\ HasConst
           /\ Push(IF IsFunc(ConstantAt(F, Arg)) THEN Closure(ConstantAt(F, Arg).func)
                                                 ELSE Wild("OBJ"))
           /\ Advance(2)
  <2>1. ConstantAt(F, Arg) \in Value
    BY <1>3, <1>4, <1>8, ConstantsOfCode DEF HasConst
  <2>2. Wild("OBJ") \in Value
    BY ValuesMade DEF Types
  <2>3. IsFunc(ConstantAt(F, Arg)) => Closure(ConstantAt(F, Arg).func) \in Value
    BY <2>1, ValueParts, ValuesMade
  <2>4. (IF IsFunc(ConstantAt(F, Arg)) THEN Closure(ConstantAt(F, Arg).func)
                                       ELSE Wild("OBJ")) \in Value
    BY <2>2, <2>3
  <2>. QED
    BY <1>1, <1>2, <1>8, <2>4, PushKeepsTypes DEF Advance
<1>9. CASE /\ HasName(F, IP) /\ globals[NameAt(F, IP)] # Absent
           /\ Push(globals[NameAt(F, IP)]) /\ Advance(2)
  <2>1. NameAt(F, IP) \in Names
    BY <1>9, NameTypes, <1>1
  <2>2. globals[NameAt(F, IP)] \in Value
    BY <1>9, <2>1 DEF TypeOK
  <2>. QED
    BY <1>1, <1>2, <1>9, <2>2, PushKeepsTypes DEF Advance
<1>. QED
  BY <1>5, <1>6, <1>7, <1>8, <1>9 DEF PushOp

LEMMA SetLocalTypes ==
  ASSUME TypeOK, SetLocal
  PROVE  TypeOK'
<1>1. Running /\ HasLocal /\ Peekable(0) /\ Goto(IP + 2) /\ UNCHANGED <<globals, top>> /\ Goes
  BY DEF SetLocal, Exec, Advance
<1>2. IP + 2 \in Int
  BY <1>1, FrameAtWork
<1>3. Peek(0) \in Value
  BY <1>1, PeekedTypes
<1>4. /\ stack' \in [0 .. StackMax - 1 -> Value]
  BY <1>3 DEF SetLocal, TypeOK
<1>5. top' \in 0 .. StackMax /\ globals' \in [Names -> Value \cup {Absent}]
  BY <1>1 DEF TypeOK
<1>. QED
  BY <1>1, <1>2, <1>4, <1>5, WorkKeepsTypes

(* A global given a value keeps the map a map.                             *)
LEMMA GlobalGiven ==
  ASSUME TypeOK, NEW n, NEW v \in Value, globals' = Inserted(n, v)
  PROVE  globals' \in [Names -> Value \cup {Absent}]
  BY DEF TypeOK, Inserted

LEMMA SetGlobalTypes ==
  ASSUME TypeOK, SetGlobal
  PROVE  TypeOK'
<1>1. Running /\ Peekable(0) /\ Goto(IP + 2) /\ UNCHANGED <<stack, top>> /\ Goes
  BY DEF SetGlobal, Exec, Advance
<1>2. IP + 2 \in Int
  BY <1>1, FrameAtWork
<1>3. Peek(0) \in Value
  BY <1>1, PeekedTypes
<1>4. globals' \in [Names -> Value \cup {Absent}]
  BY <1>3, GlobalGiven DEF SetGlobal
<1>5. top' \in 0 .. StackMax /\ stack' \in [0 .. StackMax - 1 -> Value]
  BY <1>1 DEF TypeOK
<1>. QED
  BY <1>1, <1>2, <1>4, <1>5, WorkKeepsTypes

LEMMA DefineGlobalTypes ==
  ASSUME TypeOK, DefineGlobal
  PROVE  TypeOK'
<1>1. Running /\ Peekable(0) /\ Goto(IP + 2) /\ Drop(1) /\ Goes
  BY DEF DefineGlobal, Exec, Advance
<1>2. IP + 2 \in Int
  BY <1>1, FrameAtWork
<1>3. Peek(0) \in Value
  BY <1>1, PeekedTypes
<1>4. globals' \in [Names -> Value \cup {Absent}]
  BY <1>3, GlobalGiven DEF DefineGlobal, Inserted
<1>5. top' \in 0 .. StackMax /\ stack' \in [0 .. StackMax - 1 -> Value]
  BY <1>1, DropKeepsTypes
<1>. QED
  BY <1>1, <1>2, <1>4, <1>5, WorkKeepsTypes

LEMMA PopTypes ==
  ASSUME TypeOK, Pop
  PROVE  TypeOK'
<1>1. Running /\ Goto(IP + 1) /\ Drop(1) /\ UNCHANGED globals /\ Goes
  BY DEF Pop, Exec, Advance
<1>2. IP + 1 \in Int
  BY <1>1, FrameAtWork
<1>3. top' \in 0 .. StackMax /\ stack' \in [0 .. StackMax - 1 -> Value]
  BY <1>1, DropKeepsTypes
<1>4. globals' \in [Names -> Value \cup {Absent}]
  BY <1>1 DEF TypeOK
<1>. QED
  BY <1>1, <1>2, <1>3, <1>4, WorkKeepsTypes

LEMMA JumpTypes ==
  ASSUME TypeOK, Jump
  PROVE  TypeOK'
<1>1. Running /\ HasBytes(F, IP, 2) /\ UNCHANGED <<globals, stack, top>> /\ Goes
  BY DEF Jump, Exec
<1>2. IP \in Int
  BY <1>1, FrameAtWork
<1>3. Short(F, IP) \in Nat
  BY <1>1, ShortTypes
<1>4. \E i \in Int : Goto(i)
  <2>1. CASE Goto(IP + 3 + Short(F, IP))
    BY <1>2, <1>3, <2>1
  <2>2. CASE Goto(IP + 3 - Short(F, IP))
    BY <1>2, <1>3, <2>2
  <2>3. CASE \E falsey \in Falsey(Peek(0)) :
               Goto(IP + 3 + IF falsey THEN Short(F, IP) ELSE 0)
    <3>1. PICK falsey \in Falsey(Peek(0)) : Goto(IP + 3 + IF falsey THEN Short(F, IP) ELSE 0)
      BY <2>3
    <3>2. (IP + 3 + IF falsey THEN Short(F, IP) ELSE 0) \in Int
      BY <1>2, <1>3
    <3>. QED
      BY <3>1, <3>2
  <2>. QED
    BY <2>1, <2>2, <2>3 DEF Jump
<1>5. /\ stack' \in [0 .. StackMax - 1 -> Value] /\ top' \in 0 .. StackMax
      /\ globals' \in [Names -> Value \cup {Absent}]
  BY <1>1 DEF TypeOK
<1>. QED
  BY <1>1, <1>4, <1>5, WorkKeepsTypes

(* Two values give one.                                                    *)
LEMMA Replace2Types ==
  ASSUME TypeOK, NEW v \in Value, Replace2(v)
  PROVE  stack' \in [0 .. StackMax - 1 -> Value] /\ top' \in 0 .. StackMax
<1>1. Below(top) \in 0 .. StackMax
  BY PoppedTypes DEF TypeOK
<1>2. Below(Below(top)) \in 0 .. StackMax - 1
  BY <1>1, PoppedTypes
<1>. QED
  BY <1>2, PutKeepsTypes DEF Replace2

LEMMA CompareTypes ==
  ASSUME TypeOK, Compare
  PROVE  TypeOK'
<1>1. Running /\ Goto(IP + 1) /\ UNCHANGED globals /\ Goes
  BY DEF Compare, Exec, Advance
<1>2. IP + 1 \in Int
  BY <1>1, FrameAtWork
<1>3. Replace2(Bool(FALSE)) \/ Drop(2)
  BY DEF Compare
<1>4. stack' \in [0 .. StackMax - 1 -> Value] /\ top' \in 0 .. StackMax
  <2>1. CASE Replace2(Bool(FALSE))
    BY <2>1, ValuesMade, Replace2Types
  <2>2. CASE Drop(2)
    BY <2>2, DropKeepsTypes
  <2>. QED
    BY <1>3, <2>1, <2>2
<1>5. globals' \in [Names -> Value \cup {Absent}]
  BY <1>1 DEF TypeOK
<1>. QED
  BY <1>1, <1>2, <1>4, <1>5, WorkKeepsTypes

(* What tr_vm_ipop reads of a value is a long.                             *)
LEMMA LongsRead == \A v \in Value : LongOf(v) \subseteq Long
<1>. SUFFICES ASSUME NEW v \in Value
              PROVE  LongOf(v) \subseteq Long
  OBVIOUS
<1>1. 0 \in Long /\ 1 \in Long
  BY VMAssumption DEF Long
<1>2. CASE v \in {Nil, NullPtr} \/ IsWild(v)
  BY <1>1, <1>2 DEF LongOf
<1>3. CASE ~(v \in {Nil, NullPtr} \/ IsWild(v)) /\ v.type = "LNG"
  BY <1>3, ValueParts DEF LongOf
<1>4. CASE ~(v \in {Nil, NullPtr} \/ IsWild(v)) /\ v.type = "BOOL"
  BY <1>1, <1>4 DEF LongOf
<1>5. CASE ~(v \in {Nil, NullPtr} \/ IsWild(v)) /\ v.type \notin {"LNG", "BOOL"}
  BY <1>5 DEF LongOf
<1>. QED
  BY <1>2, <1>3, <1>4, <1>5

(* Where the divide instruction does not trap, there is a result.          *)
LEMMA ArithResults ==
  ASSUME NEW op \in IBinaryOps, NEW a \in Int, NEW b \in Int, ~Traps(op, a, b)
  PROVE  Arith(op, a, b) \in Int
<1>1. CASE op # "IDIV"
  BY <1>1 DEF IBinaryOps, Arith
<1>2. CASE op = "IDIV"
  <2>1. b # 0
    BY <1>2 DEF Traps
  <2>2. Abs(a) \in Nat /\ Abs(b) \in Nat \ {0}
    BY <2>1 DEF Abs
  <2>3. Abs(a) \div Abs(b) \in Int
    BY <2>2
  <2>4. Quotient(a, b) \in Int
    BY <2>3 DEF Quotient
  <2>. QED
    BY <1>2, <2>4 DEF Arith
<1>. QED
  BY <1>1, <1>2

LEMMA IBinaryTypes ==
  ASSUME TypeOK, IBinary
  PROVE  TypeOK'
<1>1. Running /\ Op \in IBinaryOps /\ UNCHANGED <<globals, life>>
  BY DEF IBinary, Exec
<1>2. IP + 1 \in Int
  BY <1>1, FrameAtWork
<1>3. globals' \in [Names -> Value \cup {Absent}]
  BY <1>1 DEF TypeOK
<1>4. PICK a \in LongOf(Popped(top)), b \in LongOf(Popped(Below(top))) :
        IF Traps(Op, a, b)
        THEN status' = "trap" /\ UNCHANGED <<stack, top, frames>>
        ELSE Replace2(Lng(Wrap(Arith(Op, a, b)))) /\ Advance(1) /\ UNCHANGED status
  BY DEF IBinary
<1>5. CASE Traps(Op, a, b)
  BY <1>1, <1>3, <1>4, <1>5 DEF TypeOK, Statuses
<1>6. CASE ~Traps(Op, a, b)
  <2>1. Popped(top) \in Value
    BY PoppedTypes DEF TypeOK
  <2>2. Below(top) \in 0 .. StackMax
    BY PoppedTypes DEF TypeOK
  <2>3. Popped(Below(top)) \in Value
    BY <2>2, PoppedTypes
  <2>4. a \in Int /\ b \in Int
    BY <1>4, <2>1, <2>3, LongsRead, VMAssumption DEF Long
  <2>5. Lng(Wrap(Arith(Op, a, b))) \in Value
    <3>1. Wrap(Arith(Op, a, b)) \in Long
      BY <1>1, <1>6, <2>4, ArithResults, WrapsToLong
    <3>. QED
      BY <3>1, ValuesMade
  <2>6. Replace2(Lng(Wrap(Arith(Op, a, b)))) /\ Goto(IP + 1) /\ Goes
    BY <1>1, <1>4, <1>6 DEF Advance, Goes
  <2>7. stack' \in [0 .. StackMax - 1 -> Value] /\ top' \in 0 .. StackMax
    BY <2>5, <2>6, Replace2Types
  <2>. QED
    BY <1>1, <1>2, <1>3, <2>6, <2>7, WorkKeepsTypes
<1>. QED
  BY <1>5, <1>6

LEMMA FBinaryTypes ==
  ASSUME TypeOK, FBinary
  PROVE  TypeOK'
<1>1. Running /\ Goto(IP + 1) /\ UNCHANGED globals /\ Goes
  BY DEF FBinary, Exec, Advance
<1>2. IP + 1 \in Int
  BY <1>1, FrameAtWork
<1>3. PICK d \in {0, 1} : Replace2(Dbl(d))
  BY DEF FBinary
<1>4. stack' \in [0 .. StackMax - 1 -> Value] /\ top' \in 0 .. StackMax
  BY <1>3, ValuesMade, Replace2Types
<1>5. globals' \in [Names -> Value \cup {Absent}]
  BY <1>1 DEF TypeOK
<1>. QED
  BY <1>1, <1>2, <1>4, <1>5, WorkKeepsTypes

(* The slot above the top, or the name after the opcode, is written.       *)
LEMMA NegateTypesKept ==
  ASSUME TypeOK, Negate
  PROVE  TypeOK'
<1>1. Running /\ SafeNegate /\ IP \in Int
  BY FrameAtWork DEF Negate, Exec
<1>2. top \in 0 .. StackMax - 1 /\ stack[top] \in Value
  BY <1>1, StackThere DEF TypeOK, SafeNegate, Pushable
<1>3. PICK t \in NegateTypes :
       \/ /\ t \in Negatable
          /\ stack' = [stack EXCEPT ![top] = Negated(@)]
          /\ Advance(1)
          /\ UNCHANGED <<globals, top>> /\ Goes
       \/ /\ t \in Unnegatable
          /\ RuntimeErr /\ Advance(1)
          /\ UNCHANGED globals
       \/ /\ t \notin Negatable \cup Unnegatable
          /\ globals' = [globals EXCEPT ![NameAt(F, IP)] = Peek(0)]
          /\ Drop(1) /\ Advance(2) /\ Goes
  BY DEF Negate
<1>4. CASE /\ stack' = [stack EXCEPT ![top] = Negated(@)]
           /\ Advance(1) /\ UNCHANGED <<globals, top>> /\ Goes
  <2>1. Negated(stack[top]) \in Value
    BY <1>2, UnaryResults
  <2>2. /\ stack' \in [0 .. StackMax - 1 -> Value] /\ top' \in 0 .. StackMax
        /\ globals' \in [Names -> Value \cup {Absent}]
    BY <1>4, <2>1 DEF TypeOK
  <2>3. IP + 1 \in Int
    BY <1>1
  <2>. QED
    BY <1>1, <1>4, <2>2, <2>3, WorkKeepsTypes DEF Advance
<1>5. CASE RuntimeErr /\ Advance(1) /\ UNCHANGED globals
  <2>1. IP + 1 \in Int
    BY <1>1
  <2>. QED
    BY <1>1, <1>5, <2>1, ErrorTypes DEF Advance
<1>6. CASE /\ t \notin Negatable \cup Unnegatable
           /\ globals' = [globals EXCEPT ![NameAt(F, IP)] = Peek(0)]
           /\ Drop(1) /\ Advance(2) /\ Goes
  <2>1. Peekable(0)
    BY <1>1, <1>3, <1>6 DEF SafeNegate
  <2>2. Peek(0) \in Value
    BY <2>1, PeekedTypes
  <2>3. globals' \in [Names -> Value \cup {Absent}]
    BY <1>6, <2>2, GlobalGiven DEF Inserted
  <2>4. stack' \in [0 .. StackMax - 1 -> Value] /\ top' \in 0 .. StackMax
    BY <1>6, DropKeepsTypes
  <2>5. IP + 2 \in Int
    BY <1>1
  <2>. QED
    BY <1>1, <1>6, <2>3, <2>4, <2>5, WorkKeepsTypes DEF Advance
<1>. QED
  BY <1>3, <1>4, <1>5, <1>6

LEMMA NotTypes ==
  ASSUME TypeOK, Not
  PROVE  TypeOK'
<1>1. Running /\ SafeNot /\ Goto(IP + 1) /\ UNCHANGED <<globals, top>> /\ Goes
  BY DEF Not, Exec, Advance
<1>2. IP + 1 \in Int
  BY <1>1, FrameAtWork
<1>3. PICK t \in TypesOf(Peek(0)) :
        \/ t = "BOOL" /\ \E v \in BytesToggled(stack[top]) : stack' = [stack EXCEPT ![top] = v]
        \/ t = "LNG" /\ stack' = [stack EXCEPT ![top] = Toggled(@)]
        \/ t \notin {"BOOL", "LNG"} /\ UNCHANGED stack
  BY DEF Not
<1>4. stack' \in [0 .. StackMax - 1 -> Value]
  <2>1. CASE t \in {"BOOL", "LNG"}
    <3>1. top \in 0 .. StackMax - 1 /\ stack[top] \in Value
      BY <1>1, <1>3, <2>1, StackThere DEF TypeOK, SafeNot, Pushable
    <3>2. Toggled(stack[top]) \in Value /\ BytesToggled(stack[top]) \subseteq Value
      BY <3>1, UnaryResults
    <3>3. \E v \in Value : stack' = [stack EXCEPT ![top] = v]
      BY <1>3, <2>1, <3>2
    <3>. QED
      BY <3>3 DEF TypeOK
  <2>2. CASE t \notin {"BOOL", "LNG"}
    BY <1>3, <2>2 DEF TypeOK
  <2>. QED
    BY <2>1, <2>2
<1>5. top' \in 0 .. StackMax /\ globals' \in [Names -> Value \cup {Absent}]
  BY <1>1 DEF TypeOK
<1>. QED
  BY <1>1, <1>2, <1>4, <1>5, WorkKeepsTypes

LEMMA SkipTypes ==
  ASSUME TypeOK, Skip
  PROVE  TypeOK'
<1>1. Running /\ Goto(IP + 1) /\ UNCHANGED <<globals, stack, top>> /\ Goes
  BY DEF Skip, Exec, Advance
<1>2. IP + 1 \in Int
  BY <1>1, FrameAtWork
<1>3. /\ stack' \in [0 .. StackMax - 1 -> Value] /\ top' \in 0 .. StackMax
      /\ globals' \in [Names -> Value \cup {Absent}]
  BY <1>1 DEF TypeOK
<1>. QED
  BY <1>1, <1>2, <1>3, WorkKeepsTypes

LEMMA NextTypes == TypeOK /\ [Next]_vars => TypeOK'
<1>. SUFFICES ASSUME TypeOK, [Next]_vars
              PROVE  TypeOK'
  OBVIOUS
<1>1. CASE UNCHANGED vars
  BY <1>1 DEF TypeOK, vars
<1>2. CASE Undefined
  BY <1>2 DEF TypeOK, Undefined, Statuses
<1>3. CASE \E f \in Scripts : RunChunk(f)
  BY <1>3, RunChunkTypes
<1>4. CASE Step /\ ~Undefined
  BY <1>4, CallClosureTypes, CallCFuncTypes, CallErrorTypes, ReturnTypes, PushOpTypes,
     UndefinedGlobalTypes, SetLocalTypes, SetGlobalTypes, DefineGlobalTypes, PopTypes,
     JumpTypes, CompareTypes, IBinaryTypes, FBinaryTypes, NegateTypesKept, NotTypes,
     SkipTypes DEF Step
<1>. QED
  BY <1>1, <1>2, <1>3, <1>4 DEF Next

(* Whatever bytes it is given, the interpreter keeps its registers in      *)
(* their arrays: each access that would leave one is told by Safe.         *)
THEOREM TypesHold == Spec => []TypeOK
  BY InitTypes, NextTypes, PTL DEF Spec
-----------------------------------------------------------------------------
(* The globals.                                                            *)

(* A step leaves the globals alone, or gives a value to one that is there  *)
(* or that the instruction at work declares.                               *)
LEMMA StepsOfGlobals ==
  ASSUME TypeOK, [Next]_vars
  PROVE  \/ globals' = globals
         \/ \E n \in Names, v \in Value :
              /\ globals' = [globals EXCEPT ![n] = v]
              /\ globals[n] # Absent \/ Declared(n)
<1>1. ASSUME Running, HasName(F, IP), Op \in {"DEFINE_GLOBAL", "NEGATE"}
      PROVE  Declared(NameAt(F, IP))
  <2>1. F \in Funcs /\ IP \in Int
    BY <1>1, FrameAtWork
  <2>2. F.code \in Seq(0 .. 255)
    BY <2>1, VMAssumption
  <2>3. IP \in 0 .. Len(F.code) - 1
    BY <1>1, <2>1, <2>2 DEF HasName, HasBytes
  <2>. QED
    BY <1>1, <2>1, <2>3 DEF Declared, Op
<1>2. CASE SetGlobal \/ DefineGlobal
  <2>1. /\ Running /\ HasName(F, IP) /\ Peekable(0)
        /\ globals' = [globals EXCEPT ![NameAt(F, IP)] = Peek(0)]
        /\ globals[NameAt(F, IP)] # Absent \/ Op = "DEFINE_GLOBAL"
    BY <1>2 DEF SetGlobal, DefineGlobal, Exec, Inserted
  <2>2. NameAt(F, IP) \in Names
    BY <2>1, NameTypes
  <2>3. Peek(0) \in Value
    BY <2>1, PeekedTypes
  <2>. QED
    BY <1>1, <2>1, <2>2, <2>3
<1>3. CASE Negate
  <2>1. Running /\ SafeNegate /\ Op = "NEGATE"
    BY <1>3 DEF Negate, Exec
  <2>2. CASE globals' # globals
    <3>1. PICK t \in NegateTypes :
            /\ t \notin Negatable \cup Unnegatable
            /\ globals' = [globals EXCEPT ![NameAt(F, IP)] = Peek(0)]
      BY <1>3, <2>2 DEF Negate
    <3>2. HasName(F, IP) /\ Peekable(0)
      BY <2>1, <3>1 DEF SafeNegate
    <3>3. NameAt(F, IP) \in Names
      BY <2>1, <3>2, NameTypes
    <3>4. Peek(0) \in Value
      BY <3>2, PeekedTypes
    <3>. QED
      BY <1>1, <2>1, <3>1, <3>2, <3>3, <3>4
  <2>. QED
    BY <2>2
<1>4. CASE \E f \in Scripts : RunChunk(f)
  BY <1>4 DEF RunChunk
<1>5. CASE ~(SetGlobal \/ DefineGlobal \/ Negate \/ UndefinedGlobal) /\ Step
  BY <1>5 DEF Step, CallClosure, CallCFunc, CallError, Return, PushOp, SetLocal, Pop,
     Jump, Compare, IBinary, FBinary, Not, Skip, Undefined
<1>. QED
  BY <1>2, <1>3, <1>4, <1>5, UndefinedGlobalKeeps DEF Next, vars

(* No assignment makes a global: those that are there are the natives, and *)
(* what some code declares.                                                *)
THEOREM NoneUndeclared == Spec => []OnlyDeclared
<1>1. Init => OnlyDeclared
  BY DEF Init, OnlyDeclared
<1>2. TypeOK /\ OnlyDeclared /\ [Next]_vars => OnlyDeclared'
  <2>. SUFFICES ASSUME TypeOK, OnlyDeclared, [Next]_vars, NEW m \in Names, globals'[m] # Absent
                PROVE  m \in CFuncs \/ Declared(m)
    BY DEF OnlyDeclared, Declared
  <2>1. CASE globals' = globals
    BY <2>1 DEF OnlyDeclared
  <2>2. CASE globals' # globals
    <3>1. PICK n \in Names, v \in Value :
            /\ globals' = [globals EXCEPT ![n] = v]
            /\ globals[n] # Absent \/ Declared(n)
      BY <2>2, StepsOfGlobals
    <3>2. CASE m = n
      BY <3>1, <3>2 DEF OnlyDeclared
    <3>3. CASE m # n
      BY <3>1, <3>3 DEF TypeOK, OnlyDeclared
    <3>. QED
      BY <3>2, <3>3
  <2>. QED
    BY <2>1, <2>2
<1>. QED
  BY <1>1, <1>2, TypesHold, PTL DEF Spec
-----------------------------------------------------------------------------
(* Closures.                                                               *)

(* Code whose constants hold neither functions nor closures, such as that  *)
(* of a script that declares no function.                                  *)
ClosureFree ==
  \A f \in Funcs : \A i \in 1 .. Len(f.consts) :
    ~IsFunc(f.consts[i]) /\ ~IsClosure(f.consts[i])

(* No slot and no global holds a closure. *)
NoClosures ==
  /\ \A j \in 0 .. StackMax - 1 : ~IsClosure(stack[j])
  /\ \A n \in Names : ~IsClosure(globals[n])

(* Only OP_CLOSURE makes closures.                                         *)
LEMMA NoneMade ==
  /\ ~IsClosure(Nil) /\ ~IsClosure(NullPtr) /\ ~IsClosure(Absent)
  /\ \A n : /\ ~IsClosure(Lng(n)) /\ ~IsClosure(Dbl(n)) /\ ~IsClosure(Bool(n))
            /\ ~IsClosure(CFunc(n)) /\ ~IsClosure(Func(n)) /\ ~IsClosure(Wild(n))
  BY DEF IsClosure, Nil, NullPtr, Absent, Lng, Dbl, Bool, CFunc, Func, Wild

(* What NEGATE and NOT make of a value is no closure.                      *)
LEMMA NoneToggled ==
  ASSUME NEW v, ~IsClosure(v)
  PROVE  /\ ~IsClosure(Negated(v)) /\ ~IsClosure(Toggled(v))
         /\ \A u \in BytesToggled(v) : ~IsClosure(u)
<1>1. ~IsClosure(Negated(v))
  BY NoneMade DEF Negated
<1>2. ~IsClosure(Toggled(v))
  <2>1. Toggled(v) = v \/ \E n : Toggled(v) \in {Lng(n), Bool(n), Wild(n)}
    BY DEF Toggled
  <2>. QED
    BY <2>1, NoneMade
<1>3. ASSUME NEW u \in BytesToggled(v)
      PROVE  ~IsClosure(u)
  <2>1. u = v \/ \E n : u \in {Lng(n), Wild(n)}
    BY <1>3 DEF BytesToggled
  <2>. QED
    BY <2>1, NoneMade
<1>. QED
  BY <1>1, <1>2, <1>3

(* A slot given no closure leaves the stack without any, and so does a     *)
(* global.                                                                 *)
LEMMA NoneGiven ==
  ASSUME TypeOK, NoClosures, NEW k, NEW v, ~IsClosure(v)
  PROVE  /\ \A j \in 0 .. StackMax - 1 : ~IsClosure([stack EXCEPT ![k] = v][j])
         /\ \A n \in Names : ~IsClosure([globals EXCEPT ![k] = v][n])
<1>1. ASSUME NEW j \in 0 .. StackMax - 1
      PROVE  ~IsClosure([stack EXCEPT ![k] = v][j])
  BY DEF TypeOK, NoClosures
<1>2. ASSUME NEW n \in Names
      PROVE  ~IsClosure([globals EXCEPT ![k] = v][n])
  BY DEF TypeOK, NoClosures
<1>. QED
  BY <1>1, <1>2

(* An instruction writes one slot or none, with no closure.                *)
LEMMA StepsOfStack ==
  ASSUME ClosureFree, TypeOK, NoClosures, Step
  PROVE  \/ stack' = stack
         \/ \E k, v : ~IsClosure(v) /\ stack' = [stack EXCEPT ![k] = v]
<1>1. Running
  BY DEF Step, CallClosure, CallCFunc, CallError, Return, PushOp, UndefinedGlobal, SetLocal,
     SetGlobal, DefineGlobal, Pop, Jump, Compare, IBinary, FBinary, Negate, Not, Skip,
     Undefined, Exec
<1>2. top \in 0 .. StackMax
  BY DEF TypeOK
<1>3. ~IsClosure(Popped(top)) /\ (Peekable(0) => ~IsClosure(Peek(0)))
      /\ (top < StackMax => ~IsClosure(stack[top]))
  <2>1. top # 0 => top - 1 \in 0 .. StackMax - 1
    BY <1>2, StackThere
  <2>2. Peekable(0) => top - 0 - 1 \in 0 .. StackMax - 1
    BY <1>2, StackThere DEF Peekable
  <2>3. top < StackMax => top \in 0 .. StackMax - 1
    BY <1>2, StackThere
  <2>. QED
    BY <2>1, <2>2, <2>3, NoneMade DEF NoClosures, Popped, Peek
<1>4. CASE CallCFunc
  <2>1. PICK v \in Results(Peek(Arg).c, Arg) : PutAt(top - Arg - 1, v)
    BY <1>4 DEF CallCFunc
  <2>2. ~IsClosure(v)
    BY NoneMade DEF Results
  <2>. QED
    BY <2>1, <2>2 DEF PutAt
<1>5. CASE Return
  BY <1>3, <1>5 DEF Return, Drop, PutAt
<1>6. CASE PushOp
  <2>1. PICK v : Push(v) /\ ~IsClosure(v)
    <3>1. F \in Funcs
      BY <1>1, FrameAtWork
    <3>2. HasConst => ~IsFunc(ConstantAt(F, Arg)) /\ ~IsClosure(ConstantAt(F, Arg))
      <4>1. HasConst => Arg \in 0 .. 255
        BY <1>1, ArgTypes DEF HasConst
      <4>2. F.consts \in Seq(Value)
        BY <3>1, VMAssumption
      <4>3. HasConst => Arg + 1 \in 1 .. Len(F.consts)
        BY <4>1, <4>2 DEF HasConst, HasConstant
      <4>. QED
        BY <3>1, <4>3 DEF ClosureFree, ConstantAt
    <3>3. HasLocal => ~IsClosure(stack[SlotOf(F, IP)])
      BY <1>1, LocalTypes DEF NoClosures
    <3>4. HasName(F, IP) => ~IsClosure(globals[NameAt(F, IP)])
      BY <1>1, NameTypes DEF NoClosures
    <3>. QED
      BY <1>6, <3>2, <3>3, <3>4, NoneMade DEF PushOp
  <2>. QED
    BY <2>1 DEF Push, PutAt
<1>7. CASE SetLocal
  BY <1>3, <1>7 DEF SetLocal
<1>8. CASE Compare
  BY <1>8, NoneMade DEF Compare, Replace2, PutAt, Drop
<1>9. CASE IBinary \/ FBinary
  <2>1. stack' = stack \/ \E n : Replace2(Lng(n)) \/ Replace2(Dbl(n))
    BY <1>9 DEF IBinary, FBinary
  <2>. QED
    BY <2>1, NoneMade DEF Replace2, PutAt
<1>10. CASE Negate
  <2>1. ~IsClosure(stack[top])
    BY <1>3, <1>10 DEF Negate, SafeNegate, Pushable
  <2>2. stack' = stack \/ stack' = [stack EXCEPT ![top] = Negated(stack[top])]
    BY <1>10 DEF Negate, RuntimeErr, Drop
  <2>. QED
    BY <2>1, <2>2, NoneToggled
<1>11. CASE Not
  <2>1. PICK t \in TypesOf(Peek(0)) :
          \/ t = "BOOL" /\ \E v \in BytesToggled(stack[top]) : stack' = [stack EXCEPT ![top] = v]
          \/ t = "LNG" /\ stack' = [stack EXCEPT ![top] = Toggled(@)]
          \/ t \notin {"BOOL", "LNG"} /\ UNCHANGED stack
    BY <1>11 DEF Not
  <2>2. CASE t \in {"BOOL", "LNG"}
    <3>1. ~IsClosure(stack[top])
      BY <1>3, <1>11, <2>1, <2>2 DEF Not, SafeNot, Pushable
    <3>. QED
      BY <2>1, <2>2, <3>1, NoneToggled
  <2>3. CASE t \notin {"BOOL", "LNG"}
    BY <2>1, <2>3
  <2>. QED
    BY <2>2, <2>3
<1>12. CASE \/ CallClosure \/ CallError \/ UndefinedGlobal \/ SetGlobal \/ DefineGlobal \/ Pop
            \/ Jump \/ Skip \/ Undefined
  BY <1>12 DEF CallClosure, CallError, UndefinedGlobal, SetGlobal, DefineGlobal, Pop, Jump,
     Skip, Undefined, RuntimeErr, Drop
<1>. QED
  BY <1>4, <1>5, <1>6, <1>7, <1>8, <1>9, <1>10, <1>11, <1>12 DEF Step

LEMMA NoClosuresBegin == Init => NoClosures
  BY NoneMade DEF Init, NoClosures, Unset

LEMMA NoClosuresKept == ClosureFree /\ TypeOK /\ NoClosures /\ [Next]_vars => NoClosures'
<1>. SUFFICES ASSUME ClosureFree, TypeOK, NoClosures, [Next]_vars
              PROVE  NoClosures'
  OBVIOUS
<1>1. \A j \in 0 .. StackMax - 1 : ~IsClosure(stack'[j])
  <2>1. \/ stack' = stack
        \/ \E k, v : ~IsClosure(v) /\ stack' = [stack EXCEPT ![k] = v]
    <3>1. CASE \E f \in Scripts : RunChunk(f)
      BY <3>1, NoneMade DEF RunChunk
    <3>. QED
      BY <3>1, StepsOfStack DEF Next, vars
  <2>. QED
    BY <2>1, NoneGiven DEF NoClosures
<1>2. \A n \in Names : ~IsClosure(globals'[n])
  <2>1. CASE globals' = globals
    BY <2>1 DEF NoClosures
  <2>2. CASE globals' # globals
    <3>1. SetGlobal \/ DefineGlobal \/ Negate
      BY <2>2, UndefinedGlobalKeeps DEF Next, Step, RunChunk, CallClosure, CallCFunc,
         CallError, Return, PushOp, SetLocal, Pop, Jump, Compare, IBinary, FBinary, Not,
         Skip, Undefined, vars
    <3>2. /\ globals' = [globals EXCEPT ![NameAt(F, IP)] = Peek(0)]
          /\ Peekable(0)
      BY <2>2, <3>1 DEF SetGlobal, DefineGlobal, Negate, SafeNegate, Inserted
    <3>3. ~IsClosure(Peek(0))
      BY <3>2, StackThere DEF NoClosures, TypeOK, Peek, Peekable
    <3>. QED
      BY <3>2, <3>3, NoneGiven
  <2>. QED
    BY <2>1, <2>2
<1>. QED
  BY <1>1, <1>2 DEF NoClosures
=============================================================================
