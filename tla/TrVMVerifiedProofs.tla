------------------------- MODULE TrVMVerifiedProofs -------------------------
(***************************************************************************)
(* Proofs about the interpreter on certified code: on a machine no run has *)
(* failed on it makes no access out of range and uses no bytes that were   *)
(* never written, unless it prints a closure, and each frame has, at each  *)
(* offset, a height certified for it.  The windows of the frames are       *)
(* stacks of their own: the interpreter implements WindowStack.            *)
(***************************************************************************)
EXTENDS TrVMVerified, TrVMProofs

-----------------------------------------------------------------------------
(* The inductive invariant.  The heights alone do not say that a push has  *)
(* a slot to go to: for that, the windows of the frames below must be      *)
(* known to be within the slots STACK_MAX reckons with.  Nor do they say   *)
(* that a window is out of the way of all those of its callers.            *)

FramesFit ==
  Clean /\ Running =>
    \A i \in 1 .. Len(frames) : frames[i].slots <= (i - 1) * SlotsMax

FramesOrdered ==
  Clean /\ Running =>
    \A i, j \in 1 .. Len(frames) : i < j => frames[i].slots < frames[j].slots

Holds ==
  /\ UndefinedOnlyByPrint /\ HeightsHold /\ FramesFit /\ FramesOrdered
  /\ LeavesNothing /\ NothingWild

VInv == TypeOK /\ Holds

(* The height of the frame at work. *)
Height == top - Frame.slots
-----------------------------------------------------------------------------
(* The slots of n frames are in the stack.                                 *)
LEMMA SlotsOfFrames ==
  ASSUME NEW n \in 1 .. FramesMax
  PROVE  /\ (n - 1) * SlotsMax + SlotsMax = n * SlotsMax
         /\ n * SlotsMax <= StackMax
         /\ n * SlotsMax \in Int /\ (n - 1) * SlotsMax \in Int
<1>1. n \in Nat /\ FramesMax \in Nat /\ SlotsMax \in Nat
  BY VMAssumption, StackThere
<1>2. \A a, b, c \in Nat : a <= b => a * c <= b * c
  OBVIOUS
<1>3. \A a, c \in Int : (a - 1) * c + c = a * c /\ a * c \in Int /\ (a - 1) * c \in Int
  OBVIOUS
<1>. QED
  BY <1>1, <1>2, <1>3 DEF StackMax

(* What a certificate says of one of its pairs.                            *)
LEMMA CertifiedPair ==
  ASSUME NEW f \in Funcs, NEW i \in Int, NEW h \in Int, <<i, h>> \in Heights[f]
  PROVE  /\ h >= 1 /\ h <= SlotsMax
         /\ OpAt(f, i) \in {"NOT", "NEGATE"} => h < SlotsMax
         /\ Needs(f, i, h)
         /\ f \in Scripts /\ OpAt(f, i) = "RETURN" => h = 2
         /\ Follows(f, i, h) \subseteq Heights[f]
<1>1. Balances(Heights[f], f, f \in Scripts) /\ FitsSlots(Heights[f], f)
  BY CertifiedAssumption DEF Certifies
<1>2. <<i, h>>[1] = i /\ <<i, h>>[2] = h
  OBVIOUS
<1>3. /\ h >= 1 /\ Needs(f, i, h)
      /\ f \in Scripts /\ OpAt(f, i) = "RETURN" => h = 2
      /\ Follows(f, i, h) \subseteq Heights[f]
  BY <1>1, <1>2 DEF Balances
<1>4. IF OpAt(f, i) \in {"NOT", "NEGATE"} THEN h < SlotsMax ELSE h <= SlotsMax
  BY <1>1, <1>2 DEF FitsSlots
<1>. QED
  BY <1>3, <1>4, StackThere

(* What follows an instruction, by its opcode.                             *)
LEMMA FollowsOf ==
  ASSUME NEW f, NEW i, NEW h
  PROVE
    /\ OpAt(f, i) = "NIL" => Follows(f, i, h) = {<<i + 1, h + 1>>}
    /\ OpAt(f, i) \in {"CONSTANT", "CLOSURE", "GET_GLOBAL", "GET_LOCAL"} =>
         Follows(f, i, h) = {<<i + 2, h + 1>>}
    /\ OpAt(f, i) \in {"SET_LOCAL", "SET_GLOBAL"} => Follows(f, i, h) = {<<i + 2, h>>}
    /\ OpAt(f, i) = "DEFINE_GLOBAL" => Follows(f, i, h) = {<<i + 2, h - 1>>}
    /\ OpAt(f, i) = "CALL" => Follows(f, i, h) = {<<i + 2, h - Operand(f, i)>>}
    /\ OpAt(f, i) = "POP" => Follows(f, i, h) = {<<i + 1, h - 1>>}
    /\ OpAt(f, i) = "JMP" => Follows(f, i, h) = {<<i + 3 + Short(f, i), h>>}
    /\ OpAt(f, i) = "LOOP" => Follows(f, i, h) = {<<i + 3 - Short(f, i), h>>}
    /\ OpAt(f, i) = "JMP_FALSE" =>
         Follows(f, i, h) = {<<i + 3, h>>, <<i + 3 + Short(f, i), h>>}
    /\ OpAt(f, i) \in {"EQUAL", "NEQUAL"} =>
         Follows(f, i, h) = {<<i + 1, h - 2>>, <<i + 1, h - 1>>}
    /\ OpAt(f, i) \in IBinaryOps \cup FBinaryOps => Follows(f, i, h) = {<<i + 1, h - 1>>}
    /\ OpAt(f, i) = "NEGATE" => Follows(f, i, h) = {<<i + 1, h>>, <<i + 2, h - 1>>}
    /\ OpAt(f, i) \in Skipped \cup {"NOT"} => Follows(f, i, h) = {<<i + 1, h>>}
  BY DEF Follows, IBinaryOps, FBinaryOps, Skipped

(* Where a function begins.                                                *)
LEMMA CertifiedEntry ==
  ASSUME NEW f \in Funcs
  PROVE  <<0, f.arity + 1>> \in Heights[f]
  BY CertifiedAssumption DEF Certifies, Balances

(* The frame at work: its height is certified, and the stack has room for  *)
(* all the slots a frame can have.                                         *)
LEMMA AtWork ==
  ASSUME VInv, Clean, Running
  PROVE  /\ Height \in 1 .. SlotsMax /\ Height <= top
         /\ <<IP, Height>> \in Heights[F]
         /\ Op \in {"NOT", "NEGATE"} => Height < SlotsMax
         /\ Needs(F, IP, Height)
         /\ F \in Scripts /\ Op = "RETURN" => Height = 2
         /\ Follows(F, IP, Height) \subseteq Heights[F]
         /\ Height < SlotsMax => Pushable
         /\ Frame.slots <= (Len(frames) - 1) * SlotsMax
<1>. DEFINE n == Len(frames)
<1>1. /\ frames \in Seq(Frames) /\ n \in 1 .. FramesMax
      /\ F \in Funcs /\ IP \in Int /\ Frame.slots \in 0 .. StackMax - 1
      /\ top \in 0 .. StackMax
  BY FrameAtWork DEF VInv, TypeOK
<1>2. Height \in Int /\ Height <= top
  BY <1>1, StackThere DEF Height
<1>3. HeightOf(n) = Height
  BY <1>1 DEF HeightOf, EndOf, Height, Frame
<1>4. <<IP, Height>> \in Heights[F]
  <2>1. <<frames[n].ip, HeightOf(n)>> \in Heights[frames[n].func]
    BY <1>1 DEF VInv, Holds, HeightsHold
  <2>. QED
    BY <2>1, <1>3 DEF Frame, F, IP
<1>5. /\ Height >= 1 /\ Height <= SlotsMax
      /\ Op \in {"NOT", "NEGATE"} => Height < SlotsMax
      /\ Needs(F, IP, Height)
      /\ F \in Scripts /\ Op = "RETURN" => Height = 2
      /\ Follows(F, IP, Height) \subseteq Heights[F]
  BY <1>1, <1>2, <1>4, CertifiedPair DEF Op
<1>6. Frame.slots <= (n - 1) * SlotsMax
  BY <1>1 DEF VInv, Holds, FramesFit, Frame
<1>7. Height < SlotsMax => Pushable
  <2>1. /\ (n - 1) * SlotsMax + SlotsMax <= StackMax
        /\ (n - 1) * SlotsMax \in Int
    <3>1. /\ (n - 1) * SlotsMax + SlotsMax = n * SlotsMax /\ n * SlotsMax <= StackMax
          /\ (n - 1) * SlotsMax \in Int
      BY <1>1, SlotsOfFrames
    <3>. QED
      BY <3>1
  <2>. QED
    BY <1>1, <1>6, <2>1, StackThere DEF Height, Pushable
<1>. QED
  BY <1>2, <1>4, <1>5, <1>6, <1>7, StackThere

(* What is below the top is no wild value.                                 *)
LEMMA TameBelow ==
  ASSUME VInv, Clean, Running, NEW j \in 0 .. top - 1
  PROVE  ~IsWild(stack[j])
  BY DEF VInv, Holds, NothingWild
-----------------------------------------------------------------------------
(* Every access is in range.                                               *)

(* Pushing instructions: the height that follows has to fit.               *)
LEMMA RoomToPush ==
  ASSUME VInv, Clean, Running,
         Op \in {"NIL", "CONSTANT", "CLOSURE", "GET_GLOBAL", "GET_LOCAL"}
  PROVE  Pushable
<1>1. F \in Funcs /\ IP \in Int
  BY FrameAtWork DEF VInv
<1>2. Height \in Int /\ Follows(F, IP, Height) \subseteq Heights[F]
  BY AtWork
<1>3. \E i \in Int : <<i, Height + 1>> \in Heights[F]
  <2>1. CASE Op = "NIL"
    <3>1. <<IP + 1, Height + 1>> \in Heights[F]
      BY <1>2, <2>1, FollowsOf DEF Op
    <3>. QED
      BY <1>1, <3>1
  <2>2. CASE Op \in {"CONSTANT", "CLOSURE", "GET_GLOBAL", "GET_LOCAL"}
    <3>1. <<IP + 2, Height + 1>> \in Heights[F]
      BY <1>2, <2>2, FollowsOf DEF Op
    <3>. QED
      BY <1>1, <3>1
  <2>. QED
    BY <2>1, <2>2
<1>4. Height + 1 <= SlotsMax
  BY <1>1, <1>2, <1>3, CertifiedPair
<1>5. Height < SlotsMax
  BY <1>2, <1>4, StackThere
<1>. QED
  BY <1>5, AtWork

(* A call finds its callee and its arguments below the top, but what       *)
(* tr_print is given may be a closure.                                     *)
LEMMA CallsAreSafe ==
  ASSUME VInv, Clean, Running, Op = "CALL"
  PROVE  /\ SafeCall \/ PrintsClosure
         /\ Arg \in 0 .. 255 /\ Height >= Arg + 2
         /\ Peekable(Arg) /\ ~IsWild(Peek(Arg))
<1>1. Needs(F, IP, Height) /\ Height \in Int /\ Height <= top
  BY AtWork
<1>2. HasBytes(F, IP, 1) /\ Height >= Arg + 2
  BY <1>1 DEF Needs, Op, Arg
<1>3. Arg \in 0 .. 255
  BY <1>2, ArgTypes DEF VInv
<1>4. top \in Int
  BY DEF VInv, TypeOK
<1>5. top - Arg - 1 \in 0 .. top - 1 /\ top - 0 - 1 \in 0 .. top - 1
  BY <1>1, <1>2, <1>3, <1>4
<1>6. ~IsWild(Peek(Arg))
  BY <1>5, TameBelow DEF Peek
<1>7. ~IsWild(Peek(0))
  BY <1>5, TameBelow DEF Peek
<1>8. Peekable(Arg)
  BY <1>5 DEF Peekable
<1>9. frames # <<>>
  BY DEF VInv, TypeOK, Running
<1>10. CASE Peek(Arg) = CFunc("print") /\ Arg = 1 /\ IsClosure(Peek(0))
  <2>1. PrintsClosure
    BY <1>2, <1>8, <1>9, <1>10 DEF PrintsClosure
  <2>. QED
    BY <1>2, <1>3, <1>6, <1>8, <2>1
<1>11. CASE ~(Peek(Arg) = CFunc("print") /\ Arg = 1 /\ IsClosure(Peek(0)))
  <2>1. SafeCall
    BY <1>2, <1>6, <1>7, <1>8, <1>11 DEF SafeCall, Printable
  <2>. QED
    BY <1>2, <1>3, <1>6, <1>8, <2>1
<1>. QED
  BY <1>10, <1>11

(* An instruction that peeks has something to peek at.                     *)
LEMMA PeekThere ==
  ASSUME VInv, Clean, Running, Height >= 1
  PROVE  /\ Peekable(0) /\ ~IsWild(Peek(0)) /\ Peek(0) = stack[top - 1]
         /\ top - 1 \in 0 .. top - 1
<1>1. Height <= top /\ Height \in Int
  BY AtWork
<1>2. top \in Int
  BY DEF VInv, TypeOK
<1>3. top - 1 \in 0 .. top - 1 /\ top - 0 - 1 = top - 1
  BY <1>1, <1>2
<1>4. ~IsWild(stack[top - 1])
  BY <1>3, TameBelow
<1>. QED
  BY <1>3, <1>4 DEF Peekable, Peek

(* A local of the frame at work is below the top.                          *)
LEMMA LocalThere ==
  ASSUME VInv, Clean, Running, Op \in {"GET_LOCAL", "SET_LOCAL"}
  PROVE  /\ HasLocal /\ SlotOf(F, IP) \in 0 .. top - 1
         /\ SlotOf(F, IP) >= Frame.slots
<1>1. Needs(F, IP, Height)
  BY AtWork
<1>2. HasBytes(F, IP, 1) /\ Operand(F, IP) < Height
  BY <1>1 DEF Needs, Op
<1>3. Operand(F, IP) \in 0 .. 255
  BY <1>2, ArgTypes DEF VInv, Arg
<1>4. Frame.slots \in 0 .. StackMax - 1 /\ top \in 0 .. StackMax
  BY FrameAtWork DEF VInv, TypeOK
<1>. QED
  BY <1>2, <1>3, <1>4, StackThere DEF SlotOf, HasLocal, Height

(* No instruction of certified code reaches outside an array.              *)
LEMMA RunsAreSafe ==
  ASSUME VInv, Clean, Running
  PROVE  Safe \/ PrintsClosure
<1>1. Needs(F, IP, Height) /\ Height \in Int /\ Height >= 1
  BY AtWork
<1>2. Peekable(0)
  BY <1>1, PeekThere
<1>3. HasBytes(F, IP, 0)
  BY <1>1 DEF Needs
<1>4. CASE Op \in {"NIL", "CONSTANT", "CLOSURE", "GET_GLOBAL"}
  <2>1. Pushable
    BY <1>4, RoomToPush
  <2>. QED
    BY <1>1, <1>3, <1>4, <2>1 DEF Needs, Safe, HasConst, Op, Arg
<1>5. CASE Op = "GET_LOCAL"
  <2>1. Pushable
    BY <1>5, RoomToPush
  <2>2. HasLocal
    BY <1>5, LocalThere
  <2>. QED
    BY <1>3, <1>5, <2>1, <2>2 DEF Safe
<1>6. CASE Op = "SET_LOCAL"
  <2>1. HasLocal
    BY <1>6, LocalThere
  <2>. QED
    BY <1>2, <1>3, <1>6, <2>1 DEF Safe
<1>7. CASE Op = "CALL"
  <2>1. SafeCall \/ PrintsClosure
    BY <1>7, CallsAreSafe
  <2>. QED
    BY <1>3, <1>7, <2>1 DEF Safe
<1>8. CASE Op \in {"NOT", "NEGATE"}
  <2>1. Pushable
    BY <1>8, AtWork
  <2>2. Op = "NEGATE" => HasName(F, IP)
    BY <1>1 DEF Needs, Op
  <2>3. CASE Op = "NOT"
    BY <1>2, <1>3, <2>1, <2>3 DEF Safe, SafeNot
  <2>4. CASE Op = "NEGATE"
    BY <1>2, <1>3, <2>1, <2>2, <2>4 DEF Safe, SafeNegate
  <2>. QED
    BY <1>8, <2>3, <2>4
<1>9. CASE Op \in {"DEFINE_GLOBAL", "SET_GLOBAL", "JMP_FALSE", "JMP", "LOOP"}
  BY <1>1, <1>2, <1>3, <1>9 DEF Needs, Safe, Op
<1>10. CASE Op \notin {"NIL", "CONSTANT", "CLOSURE", "GET_GLOBAL", "GET_LOCAL", "SET_LOCAL",
                       "CALL", "NOT", "NEGATE", "DEFINE_GLOBAL", "SET_GLOBAL",
                       "JMP_FALSE", "JMP", "LOOP"}
  BY <1>3, <1>10 DEF Safe
<1>. QED
  BY <1>4, <1>5, <1>6, <1>7, <1>8, <1>9, <1>10
-----------------------------------------------------------------------------
(* What the small steps of an instruction do to the invariant.             *)

(* The parts of the frames after a jump in the one at work.                *)
LEMMA GotoParts ==
  ASSUME TypeOK, Running, NEW i \in Int, Goto(i)
  PROVE  /\ Len(frames') = Len(frames)
         /\ \A k \in 1 .. Len(frames) :
              /\ frames'[k].slots = frames[k].slots
              /\ frames'[k].func = frames[k].func
              /\ frames'[k].ip = IF k = Len(frames) THEN i ELSE frames[k].ip
<1>1. frames \in Seq(Frames) /\ Len(frames) \in 1 .. FramesMax /\ Frame \in Frames
  BY FrameAtWork
<1>2. frames' = [frames EXCEPT ![Len(frames)] = [frames[Len(frames)] EXCEPT !.ip = i]]
  BY DEF Goto
<1>3. \A k \in 1 .. Len(frames) : frames[k] \in Frames
  BY <1>1, ElementsTyped
<1>4. [frames[Len(frames)] EXCEPT !.ip = i].ip = i
  BY <1>1, <1>3 DEF Frames
<1>. QED
  BY <1>1, <1>2, <1>3, <1>4 DEF Frames

(* An instruction that goes on: the new height is to be certified for the  *)
(* new offset, and what is pushed or defined no wild value.                *)
LEMMA WorkHolds ==
  ASSUME VInv, Clean, Running, TypeOK', NEW i \in Int, Goto(i), Goes,
         <<i, top' - Frame.slots>> \in Heights[F],
         \A j \in 0 .. top' - 1 : ~IsWild(stack'[j]),
         \A m \in Names : ~IsWild(globals'[m])
  PROVE  Holds'
<1>. DEFINE n == Len(frames)
<1>1. /\ Len(frames') = n
      /\ \A k \in 1 .. n :
              /\ frames'[k].slots = frames[k].slots
              /\ frames'[k].func = frames[k].func
              /\ frames'[k].ip = IF k = n THEN i ELSE frames[k].ip
  BY GotoParts DEF VInv
<1>2. /\ frames \in Seq(Frames) /\ n \in 1 .. FramesMax /\ Frame = frames[n]
      /\ F = frames[n].func
  BY FrameAtWork DEF VInv, Frame, F
<1>3. Running' /\ Clean'
  BY DEF Goes, Running, Clean
<1>4. \A k \in 1 .. n : <<frames'[k].ip, HeightOf(k)'>> \in Heights[frames'[k].func]
  <2>. SUFFICES ASSUME NEW k \in 1 .. n
                PROVE  <<frames'[k].ip, HeightOf(k)'>> \in Heights[frames'[k].func]
    OBVIOUS
  <2>1. CASE k = n
    <3>1. HeightOf(n)' = top' - frames[n].slots + 0
      BY <1>1, <1>2 DEF HeightOf, EndOf
    <3>2. top' \in Int /\ frames[n].slots \in Int
      BY SMTT(30), <1>2, FrameAtWork, StackThere DEF VInv, TypeOK
    <3>3. HeightOf(n)' = top' - Frame.slots
      BY <1>2, <3>1, <3>2
    <3>. QED
      BY <1>1, <1>2, <2>1, <3>3
  <2>2. CASE k # n
    <3>1. k + 1 \in 1 .. n /\ k # n
      BY <1>2, <2>2
    <3>2. HeightOf(k)' = HeightOf(k)
      BY <1>1, <3>1 DEF HeightOf, EndOf
    <3>3. <<frames[k].ip, HeightOf(k)>> \in Heights[frames[k].func]
      BY DEF VInv, Holds, HeightsHold
    <3>. QED
      BY <1>1, <2>2, <3>2, <3>3
  <2>. QED
    BY <2>1, <2>2
<1>5. frames'[1].slots = 0 /\ frames'[1].func \in Scripts
  BY <1>1, <1>2 DEF VInv, Holds, HeightsHold
<1>6. HeightsHold'
  BY <1>1, <1>4, <1>5 DEF HeightsHold
<1>7. FramesFit'
  BY <1>1 DEF VInv, Holds, FramesFit
<1>8. FramesOrdered'
  BY <1>1 DEF VInv, Holds, FramesOrdered
<1>9. UndefinedOnlyByPrint' /\ LeavesNothing' /\ NothingWild'
  BY <1>3 DEF UndefinedOnlyByPrint, LeavesNothing, NothingWild, Running
<1>. QED
  BY <1>6, <1>7, <1>8, <1>9 DEF Holds

(* A run that fails leaves the globals, which are no wild values.          *)
LEMMA StopHolds ==
  ASSUME VInv, status' \in {"error", "trap"}, life' = life, UNCHANGED globals
  PROVE  Holds'
<1>1. ~Running' /\ status' # "undefined" /\ status' \notin {"idle", "ok"}
  BY DEF Running
<1>2. Clean' => Clean
  BY DEF Clean
<1>3. NothingWild'
  BY <1>1, <1>2 DEF VInv, Holds, NothingWild
<1>. QED
  BY <1>1, <1>3
  DEF Holds, UndefinedOnlyByPrint, HeightsHold, FramesFit, FramesOrdered, LeavesNothing

(* Nothing more happens once the machine has printed a closure.            *)
LEMMA UndefinedHolds ==
  ASSUME VInv, Clean, Undefined
  PROVE  Holds'
<1>1. /\ Running /\ ~Safe /\ status' = "undefined"
      /\ UNCHANGED <<globals, stack, top, frames, life>>
  BY DEF Undefined
<1>2. PrintsClosure
  BY <1>1, RunsAreSafe
<1>3. PrintsClosure'
  BY <1>1, <1>2 DEF PrintsClosure, F, IP, Frame, Op, Arg, Peekable, Peek
<1>4. ~Running' /\ status' \notin {"idle", "ok"}
  BY <1>1 DEF Running
<1>5. NothingWild'
  BY <1>1, <1>4 DEF VInv, Holds, NothingWild
<1>. QED
  BY <1>3, <1>4, <1>5
  DEF Holds, UndefinedOnlyByPrint, HeightsHold, FramesFit, FramesOrdered, LeavesNothing

(* The globals hold no wild values; nor the slots below a lower top.       *)
LEMMA TameGlobals ==
  ASSUME VInv, Clean, NEW m \in Names
  PROVE  ~IsWild(globals[m])
  BY DEF VInv, Holds, NothingWild

(* The values that instructions make are no wild ones.                     *)
LEMMA TameMade ==
  /\ ~IsWild(Nil) /\ ~IsWild(NullPtr)
  /\ \A n : ~IsWild(Lng(n)) /\ ~IsWild(Dbl(n)) /\ ~IsWild(Bool(n))
            /\ ~IsWild(Func(n)) /\ ~IsWild(Closure(n))
  BY DEF IsWild, Nil, NullPtr, Lng, Dbl, Bool, Func, Closure

(* A value is put in a slot that becomes the last.                         *)
LEMMA PutTame ==
  ASSUME VInv, Clean, Running, NEW i \in 0 .. top, i < StackMax,
         NEW v, ~IsWild(v), PutAt(i, v)
  PROVE  top' = i + 1 /\ \A j \in 0 .. top' - 1 : ~IsWild(stack'[j])
<1>1. top' = i + 1 /\ stack' = [stack EXCEPT ![i] = v]
  BY DEF PutAt
<1>2. top \in 0 .. StackMax /\ stack \in [0 .. StackMax - 1 -> Value] /\ StackMax \in Nat
  BY StackThere DEF VInv, TypeOK
<1>. SUFFICES ASSUME NEW j \in 0 .. top' - 1
              PROVE  ~IsWild(stack'[j])
  BY <1>1
<1>3. CASE j = i
  BY <1>1, <1>2, <1>3
<1>4. CASE j # i
  <2>1. j \in 0 .. top - 1 /\ j \in 0 .. StackMax - 1
    BY <1>1, <1>2, <1>4
  <2>2. stack'[j] = stack[j]
    BY <1>1, <1>2, <1>4, <2>1
  <2>. QED
    BY <2>1, <2>2, TameBelow
<1>. QED
  BY <1>3, <1>4

(* Slots are popped.                                                       *)
LEMMA DropTame ==
  ASSUME VInv, Clean, Running, NEW n \in 0 .. top, Drop(n)
  PROVE  top' = top - n /\ \A j \in 0 .. top' - 1 : ~IsWild(stack'[j])
<1>1. top \in 0 .. StackMax /\ StackMax \in Nat
  BY StackThere DEF VInv, TypeOK
<1>2. top' = top - n /\ stack' = stack
  BY <1>1 DEF Drop
<1>. SUFFICES ASSUME NEW j \in 0 .. top' - 1
              PROVE  ~IsWild(stack'[j])
  BY <1>2
<1>3. j \in 0 .. top - 1
  BY <1>1, <1>2
<1>. QED
  BY <1>2, <1>3, TameBelow
-----------------------------------------------------------------------------
(* The invariant, action by action, while the machine is clean.            *)

(* A pushed value takes the next slot.                                     *)
LEMMA PushHolds ==
  ASSUME VInv, Clean, Running, TypeOK', Pushable, NEW v, ~IsWild(v), Push(v),
         NEW i \in Int, Goto(i), Goes, UNCHANGED globals,
         <<i, Height + 1>> \in Heights[F]
  PROVE  Holds'
<1>1. top \in 0 .. StackMax /\ Frame.slots \in 0 .. StackMax - 1 /\ StackMax \in Nat
  BY FrameAtWork, StackThere DEF VInv, TypeOK
<1>2. top \in 0 .. top /\ top < StackMax
  BY <1>1 DEF Pushable
<1>3. top' = top + 1 /\ \A j \in 0 .. top' - 1 : ~IsWild(stack'[j])
  BY <1>2, PutTame DEF Push
<1>4. top' - Frame.slots = Height + 1
  BY <1>1, <1>3 DEF Height
<1>5. \A m \in Names : ~IsWild(globals'[m])
  BY TameGlobals
<1>. QED
  BY <1>3, <1>4, <1>5, WorkHolds

LEMMA PushOpHolds ==
  ASSUME VInv, Clean, PushOp, TypeOK'
  PROVE  Holds'
<1>1. Running /\ Pushable /\ UNCHANGED globals /\ Goes
  BY DEF PushOp, Exec
<1>2. IP \in Int /\ F \in Funcs
  BY <1>1, FrameAtWork DEF VInv
<1>3. IP + 1 \in Int /\ IP + 2 \in Int
  BY <1>2
<1>4. Follows(F, IP, Height) \subseteq Heights[F] /\ Needs(F, IP, Height)
  BY <1>1, AtWork
<1>5. CASE Exec({"NIL"}) /\ Push(Nil) /\ Advance(1)
  <2>1. <<IP + 1, Height + 1>> \in Heights[F]
    BY <1>4, <1>5, FollowsOf DEF Exec, Op
  <2>. QED
    BY <1>1, <1>3, <1>5, <2>1, TameMade, PushHolds DEF Advance
<1>6. CASE Op \in {"CONSTANT", "CLOSURE", "GET_GLOBAL", "GET_LOCAL"} /\ Advance(2)
  <2>1. <<IP + 2, Height + 1>> \in Heights[F]
    BY <1>4, <1>6, FollowsOf DEF Op
  <2>2. PICK v : Push(v) /\ ~IsWild(v)
    <3>1. CASE Op = "CONSTANT"
      <4>1. HasConst /\ Push(ConstantAt(F, Arg))
        BY <3>1 DEF PushOp, Exec
      <4>2. Arg + 1 \in 1 .. Len(F.consts)
        BY <1>1, <4>1, ArgTypes DEF HasConst, HasConstant, VInv
      <4>3. ~IsWild(ConstantAt(F, Arg))
        BY <1>2, <4>2, CertifiedAssumption DEF ConstantAt
      <4>. QED
        BY <4>1, <4>3
    <3>2. CASE Op = "CLOSURE"
      <4>1. HasConst
            /\ Push(IF IsFunc(ConstantAt(F, Arg)) THEN Closure(ConstantAt(F, Arg).func)
                                                  ELSE Wild("OBJ"))
        BY <3>2 DEF PushOp, Exec
      <4>2. IsFunc(ConstantAt(F, Arg))
        BY <1>4, <3>2 DEF Needs, Op, Arg
      <4>. QED
        BY <4>1, <4>2, TameMade
    <3>3. CASE Op = "GET_LOCAL"
      <4>1. Push(stack[SlotOf(F, IP)])
        BY <3>3 DEF PushOp, Exec
      <4>2. SlotOf(F, IP) \in 0 .. top - 1
        BY <1>1, <3>3, LocalThere
      <4>. QED
        BY <1>1, <4>1, <4>2, TameBelow
    <3>4. CASE Op = "GET_GLOBAL"
      <4>1. HasName(F, IP) /\ Push(globals[NameAt(F, IP)])
        BY <3>4 DEF PushOp, Exec
      <4>2. NameAt(F, IP) \in Names
        BY <1>1, <4>1, NameTypes DEF VInv
      <4>. QED
        BY <4>1, <4>2, TameGlobals
    <3>. QED
      BY <1>6, <3>1, <3>2, <3>3, <3>4
  <2>. QED
    BY <1>1, <1>3, <1>6, <2>1, <2>2, PushHolds DEF Advance
<1>. QED
  BY <1>5, <1>6 DEF PushOp, Exec

LEMMA SetLocalHolds ==
  ASSUME VInv, Clean, SetLocal, TypeOK'
  PROVE  Holds'
<1>1. /\ Running /\ Goto(IP + 2) /\ top' = top /\ globals' = globals /\ Goes
      /\ Op = "SET_LOCAL" /\ stack' = [stack EXCEPT ![SlotOf(F, IP)] = Peek(0)]
  BY DEF SetLocal, Exec, Advance
<1>2. IP + 2 \in Int
  BY <1>1, FrameAtWork DEF VInv
<1>3. Follows(F, IP, Height) \subseteq Heights[F] /\ Height >= 1
  BY <1>1, AtWork
<1>4. <<IP + 2, top' - Frame.slots>> \in Heights[F]
  BY <1>1, <1>3, FollowsOf DEF Op, Height
<1>5. ~IsWild(Peek(0))
  BY <1>1, <1>3, PeekThere
<1>6. top \in 0 .. StackMax /\ stack \in [0 .. StackMax - 1 -> Value] /\ StackMax \in Nat
  BY StackThere DEF VInv, TypeOK
<1>7. \A j \in 0 .. top' - 1 : ~IsWild(stack'[j])
  <2>. SUFFICES ASSUME NEW j \in 0 .. top - 1
                PROVE  ~IsWild(stack'[j])
    BY <1>1
  <2>1. ~IsWild(stack[j])
    BY <1>1, TameBelow
  <2>2. stack'[j] = Peek(0) \/ stack'[j] = stack[j]
    BY <1>1, <1>6
  <2>. QED
    BY <1>5, <2>1, <2>2
<1>8. \A m \in Names : ~IsWild(globals'[m])
  BY <1>1, TameGlobals
<1>. QED
  BY <1>1, <1>2, <1>4, <1>7, <1>8, WorkHolds

(* A global is given a value that is no wild one.                          *)
LEMMA GivenTame ==
  ASSUME VInv, Clean, NEW n, NEW v, ~IsWild(v), globals' = [globals EXCEPT ![n] = v]
  PROVE  \A m \in Names : ~IsWild(globals'[m])
<1>. SUFFICES ASSUME NEW m \in Names
              PROVE  ~IsWild(globals'[m])
  OBVIOUS
<1>1. globals \in [Names -> Value \cup {Absent}]
  BY DEF VInv, TypeOK
<1>2. globals'[m] = v \/ globals'[m] = globals[m]
  BY <1>1
<1>. QED
  BY <1>2, TameGlobals

(* The last value stays, or goes when it was defined as a global.          *)
LEMMA SetGlobalHolds ==
  ASSUME VInv, Clean, SetGlobal, TypeOK'
  PROVE  Holds'
<1>1. /\ Running /\ Goto(IP + 2) /\ top' = top /\ stack' = stack /\ Goes
      /\ Op = "SET_GLOBAL" /\ globals' = [globals EXCEPT ![NameAt(F, IP)] = Peek(0)]
  BY DEF SetGlobal, Exec, Advance, Inserted
<1>2. IP + 2 \in Int
  BY <1>1, FrameAtWork DEF VInv
<1>3. Follows(F, IP, Height) \subseteq Heights[F] /\ Height >= 1
  BY <1>1, AtWork
<1>4. <<IP + 2, top' - Frame.slots>> \in Heights[F]
  BY <1>1, <1>3, FollowsOf DEF Op, Height
<1>5. ~IsWild(Peek(0))
  BY <1>1, <1>3, PeekThere
<1>6. \A m \in Names : ~IsWild(globals'[m])
  BY <1>1, <1>5, GivenTame
<1>7. \A j \in 0 .. top' - 1 : ~IsWild(stack'[j])
  BY <1>1, TameBelow
<1>. QED
  BY <1>1, <1>2, <1>4, <1>6, <1>7, WorkHolds

(* What takes one value off and goes on.                                   *)
LEMMA DropOneHolds ==
  ASSUME VInv, Clean, Running, TypeOK', Drop(1), NEW i \in Int, Goto(i), Goes,
         <<i, Height - 1>> \in Heights[F],
         \A m \in Names : ~IsWild(globals'[m])
  PROVE  Holds'
<1>1. top \in 0 .. StackMax /\ Frame.slots \in 0 .. StackMax - 1 /\ StackMax \in Nat
  BY FrameAtWork, StackThere DEF VInv, TypeOK
<1>2. Height \in Int /\ Height >= 1 /\ Height <= top
  BY AtWork
<1>3. 1 \in 0 .. top
  BY <1>1, <1>2
<1>4. top' = top - 1 /\ \A j \in 0 .. top' - 1 : ~IsWild(stack'[j])
  BY <1>3, DropTame
<1>5. top' - Frame.slots = Height - 1
  BY <1>1, <1>4 DEF Height
<1>. QED
  BY <1>4, <1>5, WorkHolds

LEMMA DefineGlobalHolds ==
  ASSUME VInv, Clean, DefineGlobal, TypeOK'
  PROVE  Holds'
<1>1. /\ Running /\ Goto(IP + 2) /\ Drop(1) /\ Goes
      /\ Op = "DEFINE_GLOBAL" /\ globals' = [globals EXCEPT ![NameAt(F, IP)] = Peek(0)]
  BY DEF DefineGlobal, Exec, Advance
<1>2. IP + 2 \in Int
  BY <1>1, FrameAtWork DEF VInv
<1>3. Follows(F, IP, Height) \subseteq Heights[F] /\ Height >= 1
  BY <1>1, AtWork
<1>4. <<IP + 2, Height - 1>> \in Heights[F]
  BY <1>1, <1>3, FollowsOf DEF Op
<1>5. ~IsWild(Peek(0))
  BY <1>1, <1>3, PeekThere
<1>6. \A m \in Names : ~IsWild(globals'[m])
  BY <1>1, <1>5, GivenTame
<1>. QED
  BY <1>1, <1>2, <1>4, <1>6, DropOneHolds

LEMMA PopHolds ==
  ASSUME VInv, Clean, Pop, TypeOK'
  PROVE  Holds'
<1>1. Running /\ Goto(IP + 1) /\ Drop(1) /\ Goes /\ Op = "POP" /\ globals' = globals
  BY DEF Pop, Exec, Advance
<1>2. IP + 1 \in Int
  BY <1>1, FrameAtWork DEF VInv
<1>3. Follows(F, IP, Height) \subseteq Heights[F]
  BY <1>1, AtWork
<1>4. <<IP + 1, Height - 1>> \in Heights[F]
  BY <1>1, <1>3, FollowsOf DEF Op
<1>5. \A m \in Names : ~IsWild(globals'[m])
  BY <1>1, TameGlobals
<1>. QED
  BY <1>1, <1>2, <1>4, <1>5, DropOneHolds

(* What moves ip and leaves the values as they are.                        *)
LEMMA MoveHolds ==
  ASSUME VInv, Clean, Running, TypeOK', UNCHANGED <<globals, top>>,
         \A j \in 0 .. top - 1 : stack'[j] = stack[j],
         NEW i \in Int, Goto(i), Goes, <<i, Height>> \in Heights[F]
  PROVE  Holds'
<1>1. \A m \in Names : ~IsWild(globals'[m])
  BY TameGlobals
<1>2. \A j \in 0 .. top' - 1 : ~IsWild(stack'[j])
  BY TameBelow
<1>3. <<i, top' - Frame.slots>> \in Heights[F]
  BY DEF Height
<1>. QED
  BY <1>1, <1>2, <1>3, WorkHolds

LEMMA JumpHolds ==
  ASSUME VInv, Clean, Jump, TypeOK'
  PROVE  Holds'
<1>1. Running /\ HasBytes(F, IP, 2) /\ UNCHANGED <<globals, stack, top>> /\ Goes
  BY DEF Jump, Exec
<1>2. IP \in Int /\ Short(F, IP) \in Nat
  <2>1. IP \in Int
    BY <1>1, FrameAtWork DEF VInv
  <2>2. Short(F, IP) \in Nat
    BY <1>1, ShortTypes DEF VInv
  <2>. QED
    BY <2>1, <2>2
<1>3. Follows(F, IP, Height) \subseteq Heights[F]
  BY <1>1, AtWork
<1>4. PICK i \in Int : Goto(i) /\ <<i, Height>> \in Heights[F]
  <2>1. CASE Op = "JMP"
    <3>1. Goto(IP + 3 + Short(F, IP))
      BY <2>1 DEF Jump
    <3>2. <<IP + 3 + Short(F, IP), Height>> \in Heights[F]
      BY <1>3, <2>1, FollowsOf DEF Op
    <3>. QED
      BY <1>2, <3>1, <3>2
  <2>2. CASE Op = "LOOP"
    <3>1. Goto(IP + 3 - Short(F, IP))
      BY <2>2 DEF Jump
    <3>2. <<IP + 3 - Short(F, IP), Height>> \in Heights[F]
      BY <1>3, <2>2, FollowsOf DEF Op
    <3>. QED
      BY <1>2, <3>1, <3>2
  <2>3. CASE Op = "JMP_FALSE"
    <3>1. PICK falsey \in Falsey(Peek(0)) :
            Goto(IP + 3 + IF falsey THEN Short(F, IP) ELSE 0)
      BY <2>3 DEF Jump
    <3>2. <<IP + 3 + Short(F, IP), Height>> \in Heights[F]
          /\ <<IP + 3, Height>> \in Heights[F]
      BY <1>3, <2>3, FollowsOf DEF Op
    <3>3. CASE falsey
      BY <1>2, <3>1, <3>2, <3>3
    <3>4. CASE ~falsey
      <4>1. Goto(IP + 3 + 0) /\ IP + 3 + 0 = IP + 3
        BY <1>2, <3>1, <3>4
      <4>. QED
        BY <1>2, <3>2, <4>1
    <3>. QED
      BY <3>3, <3>4
  <2>. QED
    BY <2>1, <2>2, <2>3 DEF Jump, Exec
<1>. QED
  BY <1>1, <1>4, MoveHolds

(* The operators of two operands leave one in their place.                 *)
LEMMA Replace2Holds ==
  ASSUME VInv, Clean, Running, TypeOK', Height >= 3, NEW v, ~IsWild(v), Replace2(v),
         NEW i \in Int, Goto(i), Goes, UNCHANGED globals,
         <<i, Height - 1>> \in Heights[F]
  PROVE  Holds'
<1>1. top \in 0 .. StackMax /\ Frame.slots \in 0 .. StackMax - 1 /\ StackMax \in Nat
  BY FrameAtWork, StackThere DEF VInv, TypeOK
<1>2. Height \in Int /\ Height <= top
  BY AtWork
<1>3. Below(Below(top)) = top - 2
  BY <1>1, <1>2 DEF Below
<1>4. top - 2 \in 0 .. top /\ top - 2 < StackMax
  BY <1>1, <1>2
<1>5. top' = top - 2 + 1 /\ \A j \in 0 .. top' - 1 : ~IsWild(stack'[j])
  BY <1>3, <1>4, PutTame DEF Replace2
<1>6. top' - Frame.slots = Height - 1
  BY <1>1, <1>5 DEF Height
<1>7. \A m \in Names : ~IsWild(globals'[m])
  BY TameGlobals
<1>. QED
  BY <1>5, <1>6, <1>7, WorkHolds

LEMMA CompareHolds ==
  ASSUME VInv, Clean, Compare, TypeOK'
  PROVE  Holds'
<1>1. Running /\ Goto(IP + 1) /\ UNCHANGED globals /\ Goes /\ Op \in {"EQUAL", "NEQUAL"}
  BY DEF Compare, Exec, Advance
<1>2. IP + 1 \in Int
  BY <1>1, FrameAtWork DEF VInv
<1>3. /\ Follows(F, IP, Height) \subseteq Heights[F] /\ Height \in Int
      /\ Height <= top /\ Needs(F, IP, Height)
  BY <1>1, AtWork
<1>4. <<IP + 1, Height - 2>> \in Heights[F] /\ <<IP + 1, Height - 1>> \in Heights[F]
  BY <1>1, <1>3, FollowsOf DEF Op
<1>5. Height >= 3
  BY <1>1, <1>3 DEF Needs, Op
<1>6. CASE Replace2(Bool(FALSE))
  BY <1>1, <1>2, <1>4, <1>5, <1>6, TameMade, Replace2Holds
<1>7. CASE Drop(2)
  <2>1. top \in 0 .. StackMax /\ Frame.slots \in 0 .. StackMax - 1 /\ StackMax \in Nat
    BY <1>1, FrameAtWork, StackThere DEF VInv, TypeOK
  <2>2. 2 \in 0 .. top
    BY <1>3, <1>5, <2>1
  <2>3. top' = top - 2 /\ \A j \in 0 .. top' - 1 : ~IsWild(stack'[j])
    BY <1>1, <1>7, <2>2, DropTame
  <2>4. top' - Frame.slots = Height - 2
    BY <2>1, <2>3 DEF Height
  <2>5. \A m \in Names : ~IsWild(globals'[m])
    BY <1>1, TameGlobals
  <2>. QED
    BY <1>1, <1>2, <1>4, <2>3, <2>4, <2>5, WorkHolds
<1>. QED
  BY <1>6, <1>7 DEF Compare

LEMMA BinaryHolds ==
  ASSUME VInv, Clean, IBinary \/ FBinary, TypeOK'
  PROVE  Holds'
<1>1. Running /\ UNCHANGED <<globals, life>> /\ Op \in IBinaryOps \cup FBinaryOps
  BY DEF IBinary, FBinary, Exec, Goes
<1>2. IP + 1 \in Int
  BY <1>1, FrameAtWork DEF VInv
<1>3. Follows(F, IP, Height) \subseteq Heights[F] /\ Needs(F, IP, Height)
  BY <1>1, AtWork
<1>4. <<IP + 1, Height - 1>> \in Heights[F]
  BY <1>1, <1>3, FollowsOf DEF Op
<1>5. Height >= 3
  BY <1>1, <1>3 DEF Needs, Op
<1>6. \/ status' = "trap"
      \/ /\ \E n : Replace2(Lng(n)) \/ Replace2(Dbl(n))
         /\ Goto(IP + 1) /\ Goes
  BY <1>1 DEF IBinary, FBinary, Advance, Goes
<1>7. CASE status' = "trap"
  BY <1>1, <1>7, StopHolds
<1>8. CASE (\E n : Replace2(Lng(n)) \/ Replace2(Dbl(n))) /\ Goto(IP + 1) /\ Goes
  <2>1. PICK n : Replace2(Lng(n)) \/ Replace2(Dbl(n))
    BY <1>8
  <2>2. PICK v : Replace2(v) /\ ~IsWild(v)
    BY <2>1, TameMade
  <2>. QED
    BY <1>1, <1>2, <1>4, <1>5, <1>8, <2>2, Replace2Holds
<1>. QED
  BY <1>6, <1>7, <1>8

(* The operators that write above the top leave what is below it.          *)
LEMMA AboveTop ==
  ASSUME VInv, NEW v, stack' = [stack EXCEPT ![top] = v]
  PROVE  \A j \in 0 .. top - 1 : stack'[j] = stack[j]
<1>1. top \in 0 .. StackMax /\ stack \in [0 .. StackMax - 1 -> Value] /\ StackMax \in Nat
  BY StackThere DEF VInv, TypeOK
<1>. QED
  BY <1>1

LEMMA NegateHolds ==
  ASSUME VInv, Clean, Negate, TypeOK'
  PROVE  Holds'
<1>1. Running /\ Op = "NEGATE"
  BY DEF Negate, Exec
<1>2. IP + 1 \in Int /\ IP + 2 \in Int
  BY <1>1, FrameAtWork DEF VInv
<1>3. Follows(F, IP, Height) \subseteq Heights[F] /\ Height >= 1
  BY <1>1, AtWork
<1>4. <<IP + 1, Height>> \in Heights[F] /\ <<IP + 2, Height - 1>> \in Heights[F]
  BY <1>1, <1>3, FollowsOf DEF Op
<1>5. PICK t \in NegateTypes :
       \/ /\ stack' = [stack EXCEPT ![top] = Negated(@)]
          /\ Advance(1)
          /\ UNCHANGED <<globals, top>> /\ Goes
       \/ /\ RuntimeErr /\ Advance(1)
          /\ UNCHANGED globals
       \/ /\ globals' = [globals EXCEPT ![NameAt(F, IP)] = Peek(0)]
          /\ Drop(1) /\ Advance(2) /\ Goes
  BY DEF Negate
<1>6. CASE /\ stack' = [stack EXCEPT ![top] = Negated(@)]
           /\ Advance(1) /\ UNCHANGED <<globals, top>> /\ Goes
  <2>1. \A j \in 0 .. top - 1 : stack'[j] = stack[j]
    BY <1>6, AboveTop
  <2>. QED
    BY <1>1, <1>2, <1>4, <1>6, <2>1, MoveHolds DEF Advance
<1>7. CASE RuntimeErr /\ UNCHANGED globals
  BY <1>7, StopHolds DEF RuntimeErr
<1>8. CASE /\ globals' = [globals EXCEPT ![NameAt(F, IP)] = Peek(0)]
           /\ Drop(1) /\ Advance(2) /\ Goes
  <2>1. ~IsWild(Peek(0))
    BY <1>1, <1>3, PeekThere
  <2>2. \A m \in Names : ~IsWild(globals'[m])
    BY <1>8, <2>1, GivenTame
  <2>. QED
    BY <1>1, <1>2, <1>4, <1>8, <2>2, DropOneHolds DEF Advance
<1>. QED
  BY <1>5, <1>6, <1>7, <1>8

LEMMA NotHolds ==
  ASSUME VInv, Clean, Not, TypeOK'
  PROVE  Holds'
<1>1. Running /\ Op = "NOT" /\ Goto(IP + 1) /\ UNCHANGED <<globals, top>> /\ Goes
  BY DEF Not, Exec, Advance
<1>2. IP + 1 \in Int
  BY <1>1, FrameAtWork DEF VInv
<1>3. Follows(F, IP, Height) \subseteq Heights[F]
  BY <1>1, AtWork
<1>4. <<IP + 1, Height>> \in Heights[F]
  BY <1>1, <1>3, FollowsOf DEF Op, Skipped
<1>5. PICK t \in TypesOf(Peek(0)) :
        \/ t = "BOOL" /\ \E v \in BytesToggled(stack[top]) : stack' = [stack EXCEPT ![top] = v]
        \/ t = "LNG" /\ stack' = [stack EXCEPT ![top] = Toggled(@)]
        \/ t \notin {"BOOL", "LNG"} /\ UNCHANGED stack
  BY DEF Not
<1>6. (\E v : stack' = [stack EXCEPT ![top] = v]) \/ stack' = stack
  BY <1>5
<1>7. \A j \in 0 .. top - 1 : stack'[j] = stack[j]
  BY <1>6, AboveTop
<1>. QED
  BY <1>1, <1>2, <1>4, <1>7, MoveHolds

LEMMA SkipHolds ==
  ASSUME VInv, Clean, Skip, TypeOK'
  PROVE  Holds'
<1>1. Running /\ Op \in Skipped /\ Goto(IP + 1) /\ UNCHANGED <<globals, stack, top>> /\ Goes
  BY DEF Skip, Exec, Advance
<1>2. IP + 1 \in Int
  BY <1>1, FrameAtWork DEF VInv
<1>3. Follows(F, IP, Height) \subseteq Heights[F]
  BY <1>1, AtWork
<1>4. <<IP + 1, Height>> \in Heights[F]
  BY <1>1, <1>3, FollowsOf DEF Op
<1>. QED
  BY <1>1, <1>2, <1>4, MoveHolds
-----------------------------------------------------------------------------
(* The calls.                                                              *)

(* The caller's height becomes the one its offset past the call has after  *)
(* the return; the callee begins with itself and its arguments.            *)
LEMMA CallClosureHolds ==
  ASSUME VInv, Clean, CallClosure, TypeOK'
  PROVE  Holds'
<1>. DEFINE n == Len(frames)
            f == Peek(Arg).closure
            new == [func |-> f, ip |-> 0, slots |-> top - Arg - 1]
            moved == [frames EXCEPT ![n].ip = IP + 2]
<1>1. /\ Running /\ Op = "CALL" /\ IsClosure(Peek(Arg)) /\ ~CallFails(f, Arg)
      /\ frames' = Append(moved, new)
      /\ UNCHANGED <<globals, stack, top>> /\ Goes
  BY DEF CallClosure, Exec
<1>2. Arg \in 0 .. 255 /\ Height >= Arg + 2 /\ Peekable(Arg)
  BY <1>1, CallsAreSafe
<1>3. f \in Funcs /\ f.arity = Arg
  <2>1. Peek(Arg) \in Value
    BY <1>2, PeekedTypes DEF VInv
  <2>. QED
    BY <1>1, <2>1, ValueParts DEF CallFails
<1>4. /\ frames \in Seq(Frames) /\ n \in 1 .. FramesMax /\ Frame = frames[n]
      /\ F = frames[n].func /\ IP \in Int /\ Frame.slots \in 0 .. StackMax - 1
      /\ top \in 0 .. StackMax
  BY <1>1, FrameAtWork DEF VInv, TypeOK, Frame, F
<1>5. /\ Height \in 1 .. SlotsMax /\ Follows(F, IP, Height) \subseteq Heights[F]
      /\ Frame.slots <= (n - 1) * SlotsMax
  BY <1>1, AtWork
<1>6. <<IP + 2, Height - Arg>> \in Heights[F]
  BY <1>1, <1>5, FollowsOf DEF Op, Arg
<1>7. Len(moved) = n /\ moved \in Seq(Frames)
      /\ \A k \in 1 .. n :
           /\ moved[k].slots = frames[k].slots
           /\ moved[k].func = frames[k].func
           /\ moved[k].ip = IF k = n THEN IP + 2 ELSE frames[k].ip
  <2>1. moved = [frames EXCEPT ![n] = [frames[n] EXCEPT !.ip = IP + 2]]
    OBVIOUS
  <2>2. \A k \in 1 .. n : frames[k] \in Frames
    BY <1>4, ElementsTyped
  <2>3. frames[n] \in Frames
    BY <1>4, <2>2
  <2>4. [frames[n] EXCEPT !.ip = IP + 2] \in Frames
    <3>1. IP + 2 \in Int
      BY <1>4
    <3>. QED
      BY <2>3, <3>1 DEF Frames
  <2>5. [frames[n] EXCEPT !.ip = IP + 2].ip = IP + 2
    BY <2>3 DEF Frames
  <2>6. Len(moved) = n /\ moved \in Seq(Frames)
    BY <1>4, <2>1, <2>4
  <2>. QED
    BY SMTT(30), <1>4, <2>1, <2>2, <2>3, <2>5, <2>6 DEF Frames
<1>8. /\ Len(frames') = n + 1
      /\ \A k \in 1 .. n :
           /\ frames'[k].slots = frames[k].slots
           /\ frames'[k].func = frames[k].func
           /\ frames'[k].ip = IF k = n THEN IP + 2 ELSE frames[k].ip
      /\ frames'[n + 1].slots = top - Arg - 1
      /\ frames'[n + 1].func = f /\ frames'[n + 1].ip = 0
  <2>1. Len(frames') = n + 1 /\ frames'[n + 1] = new /\ \A k \in 1 .. n : frames'[k] = moved[k]
    <3>. HIDE DEF new, moved
    <3>. QED
      BY <1>1, <1>4, <1>7
  <2>2. new.slots = top - Arg - 1 /\ new.func = f /\ new.ip = 0
    OBVIOUS
  <2>. HIDE DEF new, moved, f
  <2>. QED
    BY <1>7, <2>1, <2>2
<1>. HIDE DEF f, new, moved
<1>9. top' = top /\ Running' /\ Clean'
  BY <1>1 DEF Goes, Running, Clean
<1>10. \A k \in 1 .. n + 1 : <<frames'[k].ip, HeightOf(k)'>> \in Heights[frames'[k].func]
  <2>. SUFFICES ASSUME NEW k \in 1 .. n + 1
                PROVE  <<frames'[k].ip, HeightOf(k)'>> \in Heights[frames'[k].func]
    OBVIOUS
  <2>1. CASE k = n + 1
    <3>1. HeightOf(k)' = Arg + 1
      <4>1. HeightOf(k)' = top' - frames'[k].slots + 0
        BY <1>8, <2>1 DEF HeightOf, EndOf
      <4>2. HeightOf(k)' = top - (top - Arg - 1) + 0
        BY <1>8, <1>9, <2>1, <4>1
      <4>. QED
        BY <1>2, <1>4, <4>2, StackThere
    <3>2. <<0, Arg + 1>> \in Heights[f]
      BY <1>3, CertifiedEntry
    <3>. QED
      BY <1>8, <2>1, <3>1, <3>2
  <2>2. CASE k = n
    <3>1. HeightOf(k)' = Height - Arg
      <4>1. k # n + 1 /\ k \in 1 .. n
        BY <1>4, <2>2
      <4>2. HeightOf(k)' = frames'[k + 1].slots - frames'[k].slots + 1
        BY <1>8, <4>1 DEF HeightOf, EndOf
      <4>3. HeightOf(k)' = (top - Arg - 1) - frames[n].slots + 1
        BY <1>8, <2>2, <4>1, <4>2
      <4>. QED
        BY <1>2, <1>4, <4>3, StackThere DEF Height
    <3>2. frames'[n].ip = IP + 2 /\ frames'[n].func = F
      BY <1>4, <1>8
    <3>. QED
      BY <1>6, <2>2, <3>1, <3>2
  <2>3. CASE k \in 1 .. n - 1
    <3>1. k + 1 \in 1 .. n /\ k \in 1 .. n /\ k # n /\ k # n + 1
      BY <1>4, <2>3
    <3>2. HeightOf(k)' = HeightOf(k)
      BY <1>8, <3>1 DEF HeightOf, EndOf
    <3>3. <<frames[k].ip, HeightOf(k)>> \in Heights[frames[k].func]
      BY <1>1, <3>1 DEF VInv, Holds, HeightsHold
    <3>. QED
      BY <1>8, <3>1, <3>2, <3>3
  <2>. QED
    BY <1>4, <2>1, <2>2, <2>3
<1>11. frames'[1].slots = 0 /\ frames'[1].func \in Scripts
  BY <1>1, <1>4, <1>8 DEF VInv, Holds, HeightsHold
<1>12. HeightsHold'
  BY <1>8, <1>10, <1>11 DEF HeightsHold
<1>13. \A k \in 1 .. n + 1 : frames'[k].slots <= (k - 1) * SlotsMax
  <2>. SUFFICES ASSUME NEW k \in 1 .. n + 1
                PROVE  frames'[k].slots <= (k - 1) * SlotsMax
    OBVIOUS
  <2>1. CASE k = n + 1
    <3>1. (n - 1) * SlotsMax + SlotsMax = n * SlotsMax /\ n * SlotsMax \in Int
          /\ (n - 1) * SlotsMax \in Int /\ SlotsMax \in Int /\ StackMax \in Int
      BY <1>4, SlotsOfFrames, StackThere
    <3>2. top - Arg - 1 <= n * SlotsMax
      BY SMTT(30), <1>2, <1>4, <1>5, <3>1 DEF Height
    <3>3. (n + 1) - 1 = n
      BY <1>4
    <3>. QED
      BY <1>8, <2>1, <3>2, <3>3
  <2>2. CASE k # n + 1
    <3>1. k \in 1 .. n
      BY <1>4, <2>2
    <3>. QED
      BY <1>1, <1>8, <3>1 DEF VInv, Holds, FramesFit
  <2>. QED
    BY <2>1, <2>2
<1>14. FramesFit'
  BY <1>8, <1>13 DEF FramesFit
<1>15. FramesOrdered'
  <2>1. \A k \in 1 .. n : frames[k].slots < top - Arg - 1
    <3>1. Frame.slots < top - Arg - 1
      BY <1>2, <1>4, StackThere DEF Height
    <3>2. \A k \in 1 .. n : frames[k] \in Frames
      BY <1>4, ElementsTyped
    <3>3. \A k \in 1 .. n : k = n \/ k < n
      BY <1>4
    <3>4. \A k \in 1 .. n : k < n => frames[k].slots < frames[n].slots
      BY <1>1, <1>4 DEF VInv, Holds, FramesOrdered
    <3>5. top - Arg - 1 \in Int /\ \A k \in 1 .. n : frames[k].slots \in Int
      BY <1>2, <1>4, <3>2, StackThere DEF Frames
    <3>6. \A a, b, c \in Int : a < b /\ b < c => a < c
      OBVIOUS
    <3>. SUFFICES ASSUME NEW k \in 1 .. n
                  PROVE  frames[k].slots < top - Arg - 1
      OBVIOUS
    <3>7. n \in 1 .. n
      BY <1>4
    <3>8. CASE k = n
      BY <1>4, <3>1, <3>8
    <3>9. CASE k < n
      BY <1>4, <3>1, <3>4, <3>5, <3>6, <3>7, <3>9
    <3>. QED
      BY <3>3, <3>8, <3>9
  <2>. SUFFICES ASSUME NEW i \in 1 .. n + 1, NEW j \in 1 .. n + 1, i < j
                PROVE  frames'[i].slots < frames'[j].slots
    BY <1>8 DEF FramesOrdered
  <2>2. i \in 1 .. n /\ (j = n + 1 \/ j \in 1 .. n)
    BY <1>4
  <2>3. CASE j = n + 1
    BY <1>8, <2>1, <2>2, <2>3
  <2>4. CASE j \in 1 .. n
    BY <1>1, <1>8, <2>2, <2>4 DEF VInv, Holds, FramesOrdered
  <2>. QED
    BY <2>2, <2>3, <2>4
<1>16. UndefinedOnlyByPrint' /\ LeavesNothing' /\ NothingWild'
  <2>1. (\A m \in Names : ~IsWild(globals'[m])) /\ \A j \in 0 .. top' - 1 : ~IsWild(stack'[j])
    BY <1>1, TameGlobals, TameBelow
  <2>. QED
    BY <1>9, <2>1 DEF UndefinedOnlyByPrint, LeavesNothing, NothingWild, Running
<1>. QED
  BY <1>12, <1>14, <1>15, <1>16 DEF Holds

LEMMA CallCFuncHolds ==
  ASSUME VInv, Clean, CallCFunc, TypeOK'
  PROVE  Holds'
<1>1. Running /\ Op = "CALL" /\ Goto(IP + 2) /\ UNCHANGED globals /\ Goes
  BY DEF CallCFunc, Exec, Advance
<1>2. PICK v : ~IsWild(v) /\ PutAt(top - Arg - 1, v)
  BY TameMade DEF CallCFunc, Results
<1>3. Arg \in 0 .. 255 /\ Height >= Arg + 2
  BY <1>1, CallsAreSafe
<1>4. top \in 0 .. StackMax /\ Frame.slots \in 0 .. StackMax - 1 /\ StackMax \in Nat
      /\ IP \in Int
  BY <1>1, FrameAtWork, StackThere DEF VInv, TypeOK
<1>5. Height \in Int /\ Height <= top /\ Follows(F, IP, Height) \subseteq Heights[F]
  BY <1>1, AtWork
<1>6. <<IP + 2, Height - Arg>> \in Heights[F]
  BY <1>1, <1>5, FollowsOf DEF Op, Arg
<1>7. top - Arg - 1 \in 0 .. top /\ top - Arg - 1 < StackMax
  BY <1>3, <1>4, <1>5
<1>8. top' = top - Arg - 1 + 1 /\ \A j \in 0 .. top' - 1 : ~IsWild(stack'[j])
  BY <1>1, <1>2, <1>7, PutTame
<1>9. top' - Frame.slots = Height - Arg
  BY <1>3, <1>4, <1>8 DEF Height
<1>10. (\A m \in Names : ~IsWild(globals'[m])) /\ IP + 2 \in Int
  BY <1>1, <1>4, TameGlobals
<1>. QED
  BY <1>1, <1>6, <1>8, <1>9, <1>10, WorkHolds

(* The caller finds its height as the call's result makes it, and the      *)
(* last frame leaves nothing.                                              *)
LEMMA ReturnHolds ==
  ASSUME VInv, Clean, Return, TypeOK'
  PROVE  Holds'
<1>. DEFINE n == Len(frames)
<1>1. /\ Running /\ Op = "RETURN" /\ frames' = SubSeq(frames, 1, n - 1)
      /\ UNCHANGED <<globals, life>>
  BY DEF Return, Exec
<1>2. /\ frames \in Seq(Frames) /\ n \in 1 .. FramesMax /\ Frame = frames[n]
      /\ F = frames[n].func /\ Frame.slots \in 0 .. StackMax - 1
      /\ top \in 0 .. StackMax /\ StackMax \in Nat
  BY <1>1, FrameAtWork, StackThere DEF VInv, TypeOK, Frame, F
<1>3. Height \in 1 .. SlotsMax /\ Height <= top /\ (F \in Scripts => Height = 2)
  BY <1>1, AtWork
<1>4. /\ Len(frames') = n - 1 /\ frames' \in Seq(Frames)
      /\ \A k \in 1 .. n - 1 : frames'[k] = frames[k]
  BY <1>1, <1>2, FrontTyped
<1>5. (\A m \in Names : ~IsWild(globals'[m])) /\ Clean'
  BY <1>1, TameGlobals DEF Clean
<1>6. CASE n = 1
  <2>1. Drop(2) /\ status' = "ok"
    BY <1>6 DEF Return
  <2>2. Height = 2 /\ Frame.slots = 0
    BY <1>1, <1>2, <1>3, <1>6 DEF VInv, Holds, HeightsHold
  <2>3. top = 2
    BY <1>2, <2>2 DEF Height
  <2>4. top' = 0
    BY <2>1, <2>3 DEF Drop
  <2>5. frames' = <<>>
    BY <1>4, <1>6
  <2>. QED
    BY <1>5, <2>1, <2>4, <2>5
    DEF Holds, UndefinedOnlyByPrint, HeightsHold, FramesFit, FramesOrdered, LeavesNothing,
      NothingWild, Running
<1>7. CASE n # 1
  <2>1. PutAt(Frame.slots, Popped(top)) /\ status' = status
    BY <1>7 DEF Return
  <2>2. Running'
    BY <1>1, <2>1 DEF Running
  <2>3. ~IsWild(Popped(top))
    <3>1. top # 0 /\ top - 1 \in 0 .. top - 1
      BY <1>2, <1>3
    <3>. QED
      BY <1>1, <3>1, TameBelow DEF Popped
  <2>4. Frame.slots \in 0 .. top /\ Frame.slots < StackMax
    BY <1>2, <1>3 DEF Height
  <2>5. top' = Frame.slots + 1 /\ \A j \in 0 .. top' - 1 : ~IsWild(stack'[j])
    BY <1>1, <2>1, <2>3, <2>4, PutTame
  <2>6. \A k \in 1 .. n - 1 : HeightOf(k)' = HeightOf(k)
    <3>. SUFFICES ASSUME NEW k \in 1 .. n - 1
                  PROVE  HeightOf(k)' = HeightOf(k)
      OBVIOUS
    <3>1. \A j \in 1 .. n : frames[j].slots \in Int
      <4>1. \A j \in 1 .. n : frames[j] \in Frames
        BY <1>2, ElementsTyped
      <4>. QED
        BY <1>2, <4>1 DEF Frames
    <3>2. CASE k = n - 1
      <4>1. HeightOf(k)' = top' - frames[k].slots + 0
        BY <1>2, <1>4, <3>2 DEF HeightOf, EndOf
      <4>2. HeightOf(k) = frames[n].slots - frames[k].slots + 1
        <5>1. k # n /\ k + 1 = n
          BY <1>2, <3>2
        <5>. QED
          BY <5>1 DEF HeightOf, EndOf
      <4>3. frames[k].slots \in Int /\ frames[n].slots \in Int
        BY <1>2, <3>1
      <4>4. \A a, b \in Int : (a + 1) - b + 0 = a - b + 1
        OBVIOUS
      <4>. QED
        BY <1>2, <2>5, <4>1, <4>2, <4>3, <4>4
    <3>3. CASE k # n - 1
      <4>1. k + 1 \in 1 .. n - 1 /\ k # n
        BY <1>2, <3>3
      <4>. QED
        BY <1>4, <4>1, <3>3 DEF HeightOf, EndOf
    <3>. QED
      BY <3>2, <3>3
  <2>7. HeightsHold'
    <3>1. \A k \in 1 .. n - 1 : <<frames[k].ip, HeightOf(k)>> \in Heights[frames[k].func]
      <4>1. \A k \in 1 .. n : <<frames[k].ip, HeightOf(k)>> \in Heights[frames[k].func]
        BY <1>1, <1>5, <2>1 DEF VInv, Holds, HeightsHold, Clean
      <4>2. \A k \in 1 .. n - 1 : k \in 1 .. n
        BY <1>2
      <4>. QED
        BY <4>1, <4>2
    <3>2. frames[1].slots = 0 /\ frames[1].func \in Scripts
      BY <1>1 DEF VInv, Holds, HeightsHold
    <3>3. 1 \in 1 .. n - 1
      <4>1. \A a \in Int : a >= 1 /\ a # 1 => 1 \in 1 .. a - 1
        OBVIOUS
      <4>2. n \in Int /\ n >= 1
        BY <1>2
      <4>. QED
        BY <1>7, <4>1, <4>2
    <3>. QED
      BY <1>4, <2>6, <3>1, <3>2, <3>3 DEF HeightsHold
  <2>8. FramesFit'
    <3>1. \A k \in 1 .. n - 1 : frames[k].slots <= (k - 1) * SlotsMax
      BY <1>1, <1>2 DEF VInv, Holds, FramesFit
    <3>. QED
      BY <1>4, <3>1 DEF FramesFit
  <2>9. FramesOrdered'
    <3>1. \A k \in 1 .. n - 1 : k \in 1 .. n
      BY <1>2
    <3>2. \A i, j \in 1 .. n : i < j => frames[i].slots < frames[j].slots
      BY <1>1 DEF VInv, Holds, FramesOrdered
    <3>. QED
      BY <1>4, <3>1, <3>2 DEF FramesOrdered
  <2>. QED
    BY <1>5, <2>2, <2>5, <2>7, <2>8, <2>9
    DEF Holds, UndefinedOnlyByPrint, LeavesNothing, NothingWild, Running
<1>. QED
  BY <1>6, <1>7

(* A chunk is run on an empty machine.                                     *)
LEMMA RunChunkHolds ==
  ASSUME VInv, Clean', NEW f \in Scripts, RunChunk(f), TypeOK'
  PROVE  Holds'
<1>1. status \in {"idle", "ok"} /\ Clean /\ globals' = globals
  BY DEF RunChunk, Clean
<1>2. top = 0 /\ frames = <<>>
  BY <1>1 DEF VInv, Holds, LeavesNothing
<1>3. f \in Funcs /\ f.arity = 0
  BY VMAssumption, CertifiedAssumption
<1>4. Pushable
  BY <1>2, StackThere DEF Pushable
<1>5. Len(frames) = 0 /\ ~CallFails(f, 0)
  BY <1>2, <1>3, VMAssumption DEF CallFails
<1>6. stack' = [stack EXCEPT ![top] = Func(f)] /\ top' = 1 /\ status' = "running"
      /\ frames' = <<[func |-> f, ip |-> 0, slots |-> 0]>>
  BY <1>2, <1>4, <1>5 DEF RunChunk, Enter
<1>7. Len(frames') = 1 /\ frames'[1].func = f /\ frames'[1].ip = 0 /\ frames'[1].slots = 0
  BY <1>6
<1>8. HeightOf(1)' = 1
  BY <1>6, <1>7 DEF HeightOf, EndOf
<1>9. <<0, 1>> \in Heights[f]
  BY <1>3, CertifiedEntry
<1>10. HeightsHold'
  BY <1>7, <1>8, <1>9 DEF HeightsHold
<1>11. FramesFit'
  <2>1. (1 - 1) * SlotsMax = 0
    BY StackThere
  <2>. QED
    BY <1>7, <2>1 DEF FramesFit
<1>12. FramesOrdered'
  BY <1>7 DEF FramesOrdered
<1>13. NothingWild'
  <2>1. ~IsWild(stack'[0])
    BY <1>2, <1>6, TameMade, StackThere DEF VInv, TypeOK
  <2>2. \A j \in 0 .. top' - 1 : ~IsWild(stack'[j])
    BY <1>6, <2>1
  <2>3. \A m \in Names : ~IsWild(globals'[m])
    BY <1>1, TameGlobals
  <2>. QED
    BY <2>2, <2>3 DEF NothingWild
<1>14. UndefinedOnlyByPrint' /\ LeavesNothing'
  BY <1>6 DEF UndefinedOnlyByPrint, LeavesNothing
<1>. QED
  BY <1>10, <1>11, <1>12, <1>13, <1>14 DEF Holds
-----------------------------------------------------------------------------
LEMMA InitHolds == Init => VInv
<1>. SUFFICES ASSUME Init
              PROVE  VInv
  OBVIOUS
<1>1. \A m \in Names : ~IsWild(globals[m])
  BY DEF Init, IsWild, CFunc, Absent
<1>2. top = 0 /\ frames = <<>> /\ status = "idle"
  BY DEF Init
<1>. QED
  BY <1>1, <1>2, InitTypes
  DEF VInv, Holds, UndefinedOnlyByPrint, HeightsHold, FramesFit, FramesOrdered, LeavesNothing,
    NothingWild, Running

LEMMA NextHolds == VInv /\ [Next]_vars => VInv'
<1>. SUFFICES ASSUME VInv, [Next]_vars
              PROVE  VInv'
  OBVIOUS
<1>1. TypeOK'
  BY NextTypes DEF VInv
<1>2. Holds'
  <2>1. CASE ~Clean'
    BY <2>1 DEF Holds, UndefinedOnlyByPrint, HeightsHold, FramesFit, FramesOrdered,
       LeavesNothing, NothingWild
  <2>2. CASE Clean' /\ UNCHANGED vars
    <3>1. UNCHANGED <<globals, stack, top, frames, status, life>>
      BY <2>2 DEF vars
    <3>2. PrintsClosure' = PrintsClosure
      BY <3>1 DEF PrintsClosure, F, IP, Frame, Op, Arg, Peekable, Peek
    <3>. QED
      BY <3>1, <3>2 DEF VInv, Holds, UndefinedOnlyByPrint, HeightsHold, FramesFit,
         FramesOrdered, LeavesNothing, NothingWild, Clean, Running, HeightOf, EndOf
  <2>3. CASE Clean' /\ \E f \in Scripts : RunChunk(f)
    BY <1>1, <2>3, RunChunkHolds
  <2>4. CASE Clean' /\ Step
    <3>1. Clean
      BY <2>4 DEF Clean, Step, CallClosure, CallCFunc, CallError, Return, PushOp,
         UndefinedGlobal, SetLocal, SetGlobal, DefineGlobal, Pop, Jump, Compare, IBinary,
         FBinary, Negate, Not, Skip, Undefined, Goes, RuntimeErr
    <3>2. CASE Undefined
      BY <3>1, <3>2, UndefinedHolds
    <3>3. CASE CallError \/ UndefinedGlobal
      <4>1. globals' = globals
        BY <3>3, UndefinedGlobalKeeps DEF CallError, VInv
      <4>. QED
        BY <3>3, <4>1, StopHolds DEF CallError, UndefinedGlobal, RuntimeErr
    <3>. QED
      BY <1>1, <2>4, <3>1, <3>2, <3>3, CallClosureHolds, CallCFuncHolds, ReturnHolds,
         PushOpHolds, SetLocalHolds, SetGlobalHolds, DefineGlobalHolds, PopHolds,
         JumpHolds, CompareHolds, BinaryHolds, NegateHolds, NotHolds, SkipHolds DEF Step
  <2>. QED
    BY <2>1, <2>2, <2>3, <2>4 DEF Next
<1>. QED
  BY <1>1, <1>2 DEF VInv

(* The invariant of every run of certified code.                           *)
THEOREM Certified == Spec => []VInv
  BY InitHolds, NextHolds, PTL DEF Spec

(* Certified code makes tr_vm_do_call_frame access what is there and has   *)
(* been written, with one exception, the argument of print: tr_vm_push,    *)
(* tr_vm_peek, tr_vm_pop and the operands need no check.                   *)
THEOREM UndefinedByPrint == Spec => []UndefinedOnlyByPrint
<1>1. VInv => UndefinedOnlyByPrint
  BY DEF VInv, Holds
<1>. QED
  BY <1>1, Certified, PTL

(* A run on a machine that is clean, and has no closure, is defined.       *)
LEMMA ClosurelessDefined ==
  ASSUME VInv, NoClosures, Clean
  PROVE  status # "undefined"
<1>. SUFFICES ASSUME PrintsClosure
              PROVE  FALSE
  BY DEF VInv, Holds, UndefinedOnlyByPrint
<1>1. top - 0 - 1 \in 0 .. StackMax - 1
  BY StackThere DEF PrintsClosure, Peekable, VInv, TypeOK
<1>. QED
  BY <1>1 DEF PrintsClosure, Peek, NoClosures

(* Certified code without closures, whatever it prints, is defined: the    *)
(* exception is the only one.                                              *)
THEOREM RunsAreDefined ==
  ASSUME ClosureFree
  PROVE  Spec => [](Clean => status # "undefined")
<1>1. TypeOK /\ NoClosures /\ [Next]_vars => NoClosures'
  BY NoClosuresKept
<1>2. Spec => []NoClosures
  BY <1>1, NoClosuresBegin, TypesHold, PTL DEF Spec
<1>3. VInv /\ NoClosures => (Clean => status # "undefined")
  BY ClosurelessDefined
<1>. QED
  BY <1>2, <1>3, Certified, PTL

(* Each frame has at its offset a height that is certified, the callers    *)
(* one that their call's result will make.                                 *)
THEOREM HeightsAreKept == Spec => []HeightsHold
<1>1. VInv => HeightsHold
  BY DEF VInv, Holds
<1>. QED
  BY <1>1, Certified, PTL

(* A successful run leaves the stack and the frames as it found them.      *)
THEOREM RunsLeaveNothing == Spec => []LeavesNothing
<1>1. VInv => LeavesNothing
  BY DEF VInv, Holds
<1>. QED
  BY <1>1, Certified, PTL

(* What the operators leave above the top is never taken for a value.      *)
THEOREM NothingIsWild == Spec => []NothingWild
<1>1. VInv => NothingWild
  BY DEF VInv, Holds
<1>. QED
  BY <1>1, Certified, PTL

-----------------------------------------------------------------------------
(* The windows of the frames are stacks of their own: the interpreter      *)
(* implements WindowStack.                                                 *)

(* Sequences of sequences.  W stands for the windows before a step, V for  *)
(* those after it.                                                         *)

(* All but the last window are the same.                                   *)
LEMMA SameCallers ==
  ASSUME NEW S, NEW W \in Seq(S), NEW V \in Seq(S), Len(V) = Len(W), Len(W) >= 1,
         \A k \in 1 .. Len(W) - 1 : V[k] = W[k]
  PROVE  SubSeq(V, 1, Len(V) - 1) = SubSeq(W, 1, Len(W) - 1)
<1>. DEFINE v == SubSeq(V, 1, Len(V) - 1)
            w == SubSeq(W, 1, Len(W) - 1)
<1>1. /\ v \in Seq(S) /\ Len(v) = Len(W) - 1
      /\ \A k \in 1 .. Len(W) - 1 : v[k] = V[k]
  BY FrontTyped
<1>2. /\ w \in Seq(S) /\ Len(w) = Len(W) - 1
      /\ \A k \in 1 .. Len(W) - 1 : w[k] = W[k]
  BY FrontTyped
<1>. HIDE DEF v, w
<1>3. Len(v) = Len(w) /\ \A k \in 1 .. Len(v) : v[k] = w[k]
  BY <1>1, <1>2
<1>4. v = w
  BY <1>1, <1>2, <1>3, SeqEqual
<1>. QED
  BY <1>4 DEF v, w

(* A beginning and an end of a window are what their slots say.            *)
LEMMA PartOf ==
  ASSUME NEW S, NEW w \in Seq(S), NEW m \in 1 .. Len(w), NEW n \in m - 1 .. Len(w),
         NEW p \in Seq(S), Len(p) = n - m + 1,
         \A j \in 1 .. Len(p) : p[j] = w[m + j - 1]
  PROVE  p = SubSeq(w, m, n)
<1>. DEFINE q == SubSeq(w, m, n)
<1>1. m \in Int /\ n \in Int /\ \A j \in m .. n : w[j] \in S
  BY ElementsTyped
<1>2. /\ q \in Seq(S) /\ Len(q) = IF m <= n THEN n - m + 1 ELSE 0
      /\ \A j \in 1 .. n - m + 1 : q[j] = w[m + j - 1]
  BY <1>1, SubSeqProperties
<1>3. Len(q) = n - m + 1
  BY <1>1, <1>2
<1>. HIDE DEF q
<1>4. \A j \in 1 .. Len(p) : p[j] = q[j]
  BY <1>2, <1>3
<1>5. p = q
  BY <1>2, <1>3, <1>4, SeqEqual
<1>. QED
  BY <1>5 DEF q

(* The last window gives way to two.                                       *)
LEMMA TwoForLast ==
  ASSUME NEW T, NEW W \in Seq(T), NEW V \in Seq(T), Len(W) >= 1, Len(V) = Len(W) + 1,
         \A k \in 1 .. Len(W) - 1 : V[k] = W[k]
  PROVE  V = SubSeq(W, 1, Len(W) - 1) \o << V[Len(W)], V[Len(W) + 1] >>
<1>. DEFINE n == Len(W)
            c == SubSeq(W, 1, n - 1)
            u == << V[n], V[n + 1] >>
<1>1. c \in Seq(T) /\ Len(c) = n - 1 /\ \A k \in 1 .. n - 1 : c[k] = W[k]
  BY FrontTyped
<1>2. V[n] \in T /\ V[n + 1] \in T
  BY ElementsTyped
<1>3. \A x, y \in T : /\ << x, y >> \in Seq(T) /\ Len(<< x, y >>) = 2
                      /\ << x, y >>[1] = x /\ << x, y >>[2] = y
  OBVIOUS
<1>4. u \in Seq(T) /\ Len(u) = 2 /\ u[1] = V[n] /\ u[2] = V[n + 1]
  BY <1>2, <1>3
<1>5. n \in Nat /\ n >= 1 /\ Len(V) = n + 1 /\ \A k \in 1 .. n - 1 : V[k] = W[k]
  OBVIOUS
<1>. HIDE DEF c, u, n
<1>6. /\ c \o u \in Seq(T) /\ Len(c \o u) = Len(c) + Len(u)
      /\ \A k \in 1 .. Len(c) + Len(u) :
           (c \o u)[k] = IF k <= Len(c) THEN c[k] ELSE u[k - Len(c)]
  <2>1. c \in Seq(T) /\ u \in Seq(T)
    BY <1>1, <1>4
  <2>2. c \o u \in Seq(T)
    BY <2>1, ConcatProperties
  <2>3. Len(c \o u) = Len(c) + Len(u)
    BY <2>1, ConcatProperties
  <2>. QED
    BY <2>1, <2>2, <2>3, ConcatProperties
<1>7. Len(c) + Len(u) = n + 1
  BY <1>1, <1>4, <1>5
<1>. DEFINE b == c \o u
<1>. HIDE DEF b
<1>8. /\ b \in Seq(T) /\ Len(b) = n + 1
      /\ \A k \in 1 .. n + 1 : b[k] = IF k <= n - 1 THEN c[k] ELSE u[k - (n - 1)]
  BY <1>1, <1>6, <1>7 DEF b
<1>9. \A k \in 1 .. n + 1 : V[k] = b[k]
  <2>. SUFFICES ASSUME NEW k \in 1 .. n + 1
                PROVE  V[k] = b[k]
    OBVIOUS
  <2>1. CASE k \in 1 .. n - 1
    BY SMTT(30), <1>1, <1>5, <1>8, <2>1
  <2>2. CASE k = n
    <3>1. k - (n - 1) = 1 /\ ~(k <= n - 1)
      BY <1>5, <2>2
    <3>. QED
      BY <1>4, <1>8, <2>2, <3>1
  <2>3. CASE k = n + 1
    <3>1. k - (n - 1) = 2 /\ ~(k <= n - 1)
      BY <1>5, <2>3
    <3>. QED
      BY <1>4, <1>8, <2>3, <3>1
  <2>. QED
    BY <1>5, <2>1, <2>2, <2>3
<1>10. V = b
  BY <1>5, <1>8, <1>9, SeqEqual
<1>. QED
  BY <1>10 DEF b, c, u, n

(* A call splits the last window.                                          *)
LEMMA FirstPart ==
  ASSUME NEW S, NEW w \in Seq(S), NEW x \in Seq(S), NEW m \in 1 .. Len(w),
         Len(x) = m, \A j \in 1 .. m : x[j] = w[j]
  PROVE  x = SubSeq(w, 1, m)
<1>1. 1 \in 1 .. Len(w) /\ m \in 1 - 1 .. Len(w)
  OBVIOUS
<1>2. Len(x) = m - 1 + 1 /\ \A j \in 1 .. Len(x) : x[j] = w[1 + j - 1]
  OBVIOUS
<1>. QED
  BY <1>1, <1>2, PartOf

LEMMA LastPart ==
  ASSUME NEW S, NEW w \in Seq(S), NEW y \in Seq(S), NEW m \in 1 .. Len(w),
         Len(y) = Len(w) - m + 1, \A j \in 1 .. Len(y) : y[j] = w[m + j - 1]
  PROVE  y = SubSeq(w, m, Len(w))
<1>1. Len(w) \in m - 1 .. Len(w)
  OBVIOUS
<1>. QED
  BY <1>1, PartOf

(* A return gives the window below the last value of the last one.         *)
LEMMA Appended ==
  ASSUME NEW S, NEW w \in Seq(S), NEW x \in Seq(S), NEW v \in S,
         Len(x) = Len(w) + 1, \A j \in 1 .. Len(w) : x[j] = w[j], x[Len(w) + 1] = v
  PROVE  x = Append(w, v)
<1>. DEFINE u == Append(w, v)
<1>1. /\ u \in Seq(S) /\ Len(u) = Len(w) + 1
      /\ \A j \in 1 .. Len(w) : u[j] = w[j]
      /\ u[Len(w) + 1] = v
  BY AppendProperties
<1>. HIDE DEF u
<1>2. \A j \in 1 .. Len(x) : x[j] = u[j]
  <2>. TAKE j \in 1 .. Len(x)
  <2>1. Len(w) \in Nat
    OBVIOUS
  <2>2. j = Len(w) + 1 \/ j \in 1 .. Len(w)
    BY <2>1
  <2>. QED
    BY <1>1, <2>2
<1>3. x = u
  BY <1>1, <1>2, SeqEqual
<1>. QED
  BY <1>3 DEF u

LEMMA LastReplaced ==
  ASSUME NEW T, NEW W \in Seq(T), NEW V \in Seq(T), Len(W) >= 2, Len(V) = Len(W) - 1,
         \A k \in 1 .. Len(W) - 2 : V[k] = W[k]
  PROVE  V = [SubSeq(W, 1, Len(W) - 1) EXCEPT ![Len(W) - 1] = V[Len(W) - 1]]
<1>. DEFINE n == Len(W)
            c == SubSeq(W, 1, n - 1)
            u == V[n - 1]
<1>1. c \in Seq(T) /\ Len(c) = n - 1 /\ \A k \in 1 .. n - 1 : c[k] = W[k]
  BY FrontTyped
<1>2. n \in Nat /\ n >= 2 /\ Len(V) = n - 1 /\ \A k \in 1 .. n - 2 : V[k] = W[k]
  OBVIOUS
<1>3. u \in T
  BY ElementsTyped
<1>4. n - 1 \in 1 .. Len(c)
  BY <1>1, <1>2
<1>. DEFINE r == [c EXCEPT ![n - 1] = u]
<1>. HIDE DEF c, n, u
<1>5. r \in Seq(T) /\ Len(r) = Len(c)
      /\ \A k \in 1 .. Len(c) : r[k] = IF k = n - 1 THEN u ELSE c[k]
  BY <1>1, <1>3, <1>4, ExceptSeq
<1>. HIDE DEF r
<1>6. \A k \in 1 .. n - 1 : V[k] = r[k]
  <2>. TAKE k \in 1 .. n - 1
  <2>1. CASE k = n - 1
    BY <1>1, <1>5, <2>1 DEF u
  <2>2. CASE k # n - 1
    <3>1. k \in 1 .. n - 2
      BY <1>2, <2>2
    <3>. QED
      BY <1>1, <1>2, <1>5, <2>2, <3>1
  <2>. QED
    BY <2>1, <2>2
<1>7. V = r
  BY <1>1, <1>2, <1>5, <1>6, SeqEqual
<1>. QED
  BY <1>7 DEF r, c, u, n
-----------------------------------------------------------------------------
(* The windows of a run.                                                   *)

WindowsAre ==
  Clean /\ Running =>
    /\ WindowsOfRun \in Seq(Seq(Value)) /\ Len(WindowsOfRun) = Len(frames)
    /\ \A k \in 1 .. Len(frames) :
         /\ WindowsOfRun[k] \in Seq(Value)
         /\ Len(WindowsOfRun[k]) = EndOf(k) - frames[k].slots
         /\ \A j \in 1 .. EndOf(k) - frames[k].slots :
              WindowsOfRun[k][j] = stack[frames[k].slots + j - 1]

(* Windows end where the next begins, the last one at the top.             *)
LEMMA WindowEnds ==
  ASSUME VInv, Clean, Running, NEW k \in 1 .. Len(frames)
  PROVE  /\ frames[k].slots \in 0 .. StackMax - 1
         /\ EndOf(k) \in frames[k].slots + 1 .. StackMax
<1>1. /\ frames \in Seq(Frames) /\ Len(frames) \in 1 .. FramesMax /\ Frame = frames[Len(frames)]
      /\ top \in 0 .. StackMax /\ StackMax \in Nat
  BY FrameAtWork, StackThere DEF VInv, TypeOK, Frame
<1>2. \A j \in 1 .. Len(frames) : frames[j].slots \in 0 .. StackMax - 1
  <2>1. \A j \in 1 .. Len(frames) : frames[j] \in Frames
    BY <1>1, ElementsTyped
  <2>. QED
    BY <2>1 DEF Frames
<1>3. CASE k = Len(frames)
  <2>1. top - frames[k].slots >= 1
    BY <1>1, <1>3, AtWork DEF Height
  <2>. QED
    BY <1>1, <1>2, <1>3, <2>1 DEF EndOf
<1>4. CASE k # Len(frames)
  <2>1. k + 1 \in 1 .. Len(frames) /\ k < k + 1
    BY <1>1, <1>4
  <2>2. frames[k].slots < frames[k + 1].slots
    BY <2>1 DEF VInv, Holds, FramesOrdered
  <2>3. EndOf(k) = frames[k + 1].slots
    BY <1>4 DEF EndOf
  <2>4. frames[k].slots \in 0 .. StackMax - 1 /\ frames[k + 1].slots \in 0 .. StackMax - 1
    BY <1>2, <2>1
  <2>. QED
    BY SMTT(30), <1>1, <2>2, <2>3, <2>4
<1>. QED
  BY <1>3, <1>4

LEMMA WindowsSeen == VInv => WindowsAre
<1>. SUFFICES ASSUME VInv, Clean, Running
              PROVE  /\ WindowsOfRun \in Seq(Seq(Value)) /\ Len(WindowsOfRun) = Len(frames)
                     /\ \A k \in 1 .. Len(frames) :
                          /\ WindowsOfRun[k] \in Seq(Value)
                          /\ Len(WindowsOfRun[k]) = EndOf(k) - frames[k].slots
                          /\ \A j \in 1 .. EndOf(k) - frames[k].slots :
                               WindowsOfRun[k][j] = stack[frames[k].slots + j - 1]
  BY DEF WindowsAre
<1>1. WindowsOfRun = [k \in 1 .. Len(frames) |-> Window(k)] /\ Len(frames) \in Nat
  <2>1. Len(frames) \in 1 .. FramesMax
    BY FrameAtWork DEF VInv
  <2>. QED
    BY <2>1 DEF WindowsOfRun
<1>2. \A k \in 1 .. Len(frames) :
        /\ Window(k) \in Seq(Value)
        /\ Len(Window(k)) = EndOf(k) - frames[k].slots
        /\ \A j \in 1 .. EndOf(k) - frames[k].slots :
             Window(k)[j] = stack[frames[k].slots + j - 1]
  <2>. TAKE k \in 1 .. Len(frames)
  <2>. DEFINE m == EndOf(k) - frames[k].slots
              b == frames[k].slots
  <2>1. m \in Nat /\ b \in 0 .. StackMax - 1 /\ b + m <= StackMax /\ StackMax \in Nat
    BY WindowEnds, StackThere
  <2>2. Window(k) = [j \in 1 .. m |-> stack[b + j - 1]]
    BY DEF Window
  <2>. HIDE DEF m, b
  <2>3. \A j \in 1 .. m : stack[b + j - 1] \in Value
    BY <2>1 DEF VInv, TypeOK
  <2>4. Window(k) \in Seq(Value) /\ Len(Window(k)) = m
    BY <2>1, <2>2, <2>3
  <2>5. \A j \in 1 .. m : Window(k)[j] = stack[b + j - 1]
    BY <2>2
  <2>. QED
    BY <2>4, <2>5 DEF m, b
<1>3. WindowsOfRun \in Seq(Seq(Value)) /\ Len(WindowsOfRun) = Len(frames)
  <2>1. \A k \in 1 .. Len(frames) : Window(k) \in Seq(Value)
    BY <1>2
  <2>. QED
    BY <1>1, <2>1
<1>4. \A k \in 1 .. Len(frames) : WindowsOfRun[k] = Window(k)
  BY <1>1
<1>. QED
  BY <1>2, <1>3, <1>4

(* While the machine does not run, or has failed before, there are none.   *)
LEMMA NoWindows == ~(Clean /\ Running) => WindowsOfRun = <<>>
  BY DEF WindowsOfRun
-----------------------------------------------------------------------------
(* Every step is a step of WindowStack, or none.                           *)

(* An instruction that calls nothing and does not return moves ip and      *)
(* writes no slot of a caller.                                             *)
Works ==
  /\ \E i \in Int : Goto(i)
  /\ \/ stack' = stack
     \/ \E p \in Int : \E v : p >= Frame.slots /\ stack' = [stack EXCEPT ![p] = v]

LEMMA WorkParts ==
  ASSUME VInv, Clean, Step, Running', ~CallClosure, ~Return
  PROVE  Works
<1>1. Running
  BY DEF Step, CallClosure, CallCFunc, CallError, Return, PushOp,
     UndefinedGlobal, SetLocal, SetGlobal, DefineGlobal, Pop, Jump, Compare, IBinary,
     FBinary, Negate, Not, Skip, Undefined, Exec
<1>2. ~(CallError \/ UndefinedGlobal \/ Undefined)
  BY DEF CallError, UndefinedGlobal, Undefined, RuntimeErr, Running
<1>3. /\ IP + 1 \in Int /\ IP + 2 \in Int /\ Frame.slots \in 0 .. StackMax - 1
      /\ top \in 0 .. StackMax /\ StackMax \in Nat
  BY <1>1, FrameAtWork, StackThere DEF VInv, TypeOK
<1>4. /\ Height \in 1 .. SlotsMax /\ Height <= top /\ Needs(F, IP, Height)
  BY <1>1, AtWork
<1>5. top \in Int /\ top >= Frame.slots
  BY <1>3, <1>4, StackThere DEF Height
<1>6. CASE PushOp
  <2>1. \E v : Push(v)
    BY <1>6 DEF PushOp
  <2>2. stack' = stack \/ \E v : stack' = [stack EXCEPT ![top] = v]
    BY <2>1 DEF Push, PutAt
  <2>3. \E i \in Int : Goto(i)
    BY <1>3, <1>6 DEF PushOp, Advance
  <2>. QED
    BY <1>5, <2>2, <2>3 DEF Works
<1>7. CASE SetGlobal \/ DefineGlobal \/ Pop \/ Skip
  <2>1. stack' = stack
    BY <1>7 DEF SetGlobal, DefineGlobal, Pop, Skip, Drop
  <2>2. \E i \in Int : Goto(i)
    BY <1>3, <1>7 DEF SetGlobal, DefineGlobal, Pop, Skip, Advance
  <2>. QED
    BY <2>1, <2>2 DEF Works
<1>8. CASE SetLocal
  <2>1. SlotOf(F, IP) \in 0 .. top - 1 /\ SlotOf(F, IP) >= Frame.slots
    BY <1>1, <1>8, LocalThere DEF SetLocal, Exec
  <2>2. stack' = [stack EXCEPT ![SlotOf(F, IP)] = Peek(0)] /\ Goto(IP + 2)
    BY <1>8 DEF SetLocal, Advance
  <2>3. SlotOf(F, IP) \in Int /\ SlotOf(F, IP) >= Frame.slots
    BY <1>5, <2>1
  <2>4. \E p \in Int : \E v : p >= Frame.slots /\ stack' = [stack EXCEPT ![p] = v]
    BY <2>2, <2>3
  <2>. QED
    BY <1>3, <2>2, <2>4 DEF Works
<1>9. CASE Jump
  <2>1. HasBytes(F, IP, 2) /\ stack' = stack
    BY <1>9 DEF Jump
  <2>2. Short(F, IP) \in Nat
    BY <1>1, <2>1, ShortTypes DEF VInv
  <2>3. IP \in Int
    BY <1>1, FrameAtWork DEF VInv
  <2>4. /\ IP + 3 + Short(F, IP) \in Int /\ IP + 3 - Short(F, IP) \in Int
        /\ \A b : (IP + 3 + IF b THEN Short(F, IP) ELSE 0) \in Int
    BY <2>2, <2>3
  <2>5. \E i \in Int : Goto(i)
    BY <1>9, <2>4 DEF Jump
  <2>. QED
    BY <2>1, <2>5 DEF Works
<1>10. CASE Compare \/ IBinary \/ FBinary
  <2>1. Height >= 3
    BY <1>4, <1>10 DEF Compare, IBinary, FBinary, Exec, Needs, Op
  <2>2. Below(Below(top)) \in Int /\ Below(Below(top)) >= Frame.slots
    BY <1>3, <1>4, <2>1 DEF Below, Height
  <2>3. Goto(IP + 1)
    BY <1>1, <1>10 DEF Compare, IBinary, FBinary, Advance, Running
  <2>4. stack' = stack \/ \E v : Replace2(v)
    BY <1>10 DEF Compare, IBinary, FBinary, Drop
  <2>5. stack' = stack \/ \E v : stack' = [stack EXCEPT ![Below(Below(top))] = v]
    BY <2>4 DEF Replace2, PutAt
  <2>. QED
    BY <1>3, <2>2, <2>3, <2>5 DEF Works
<1>11. CASE Negate \/ Not
  <2>1. stack' = stack \/ \E v : stack' = [stack EXCEPT ![top] = v]
    <3>1. CASE Negate
      BY <3>1 DEF Negate, Drop, RuntimeErr
    <3>2. CASE Not
      <4>1. PICK t \in TypesOf(Peek(0)) :
              \/ \E v \in BytesToggled(stack[top]) : stack' = [stack EXCEPT ![top] = v]
              \/ stack' = [stack EXCEPT ![top] = Toggled(@)]
              \/ UNCHANGED stack
        BY <3>2 DEF Not
      <4>. QED
        BY <4>1
    <3>. QED
      BY <1>11, <3>1, <3>2
  <2>2. \E i \in Int : Goto(i)
    BY <1>3, <1>11 DEF Negate, Not, Advance
  <2>. QED
    BY <1>5, <2>1, <2>2 DEF Works
<1>12. CASE CallCFunc
  <2>1. Op = "CALL" /\ Goto(IP + 2)
    BY <1>12 DEF CallCFunc, Exec, Advance
  <2>2. Arg \in 0 .. 255 /\ Height >= Arg + 2
    BY <1>1, <2>1, CallsAreSafe
  <2>3. \E v : stack' = [stack EXCEPT ![top - Arg - 1] = v]
    BY <1>12 DEF CallCFunc, PutAt
  <2>4. top - Arg - 1 \in Int /\ top - Arg - 1 >= Frame.slots
    BY <1>3, <1>4, <2>2 DEF Height
  <2>. QED
    BY <1>3, <2>1, <2>3, <2>4 DEF Works
<1>. QED
  BY <1>2, <1>6, <1>7, <1>8, <1>9, <1>10, <1>11, <1>12 DEF Step

(* ... which is work in the last window.                                   *)
LEMMA WorkIsWork ==
  ASSUME VInv, Clean, Running, VInv', Clean', Running', Works,
         WindowsAre, WindowsAre'
  PROVE  Windows!Work
<1>. DEFINE n == Len(frames)
            W == WindowsOfRun
<1>1. PICK i \in Int : Goto(i)
  BY DEF Works
<1>2. /\ frames \in Seq(Frames) /\ n \in 1 .. FramesMax /\ Frame = frames[n]
      /\ Frame.slots \in 0 .. StackMax - 1
  BY FrameAtWork DEF VInv, Frame
<1>3. /\ Len(frames') = n
      /\ \A k \in 1 .. n : frames'[k].slots = frames[k].slots
  BY <1>1, GotoParts DEF VInv
<1>4. /\ W \in Seq(Seq(Value)) /\ W' \in Seq(Seq(Value)) /\ Len(W) = n /\ Len(W') = n
  BY <1>3 DEF WindowsAre
<1>5. \A k \in 1 .. n - 1 : W'[k] = W[k]
  <2>. SUFFICES ASSUME NEW k \in 1 .. n - 1
                PROVE  W'[k] = W[k]
    OBVIOUS
  <2>. DEFINE b == frames[k].slots
              m == EndOf(k) - b
  <2>1. k \in 1 .. n /\ k + 1 \in 1 .. n /\ k # n /\ n \in 1 .. n /\ (k + 1 = n \/ k + 1 < n)
    BY <1>2
  <2>2. EndOf(k) = frames[k + 1].slots /\ EndOf(k)' = EndOf(k) /\ frames'[k].slots = b
    BY <1>3, <2>1 DEF EndOf
  <2>3. EndOf(k) <= Frame.slots
    <3>1. CASE k + 1 = n
      BY <1>2, <2>2, <3>1
    <3>2. CASE k + 1 < n
      <4>1. frames[k + 1].slots < frames[n].slots
        BY <2>1, <3>2 DEF VInv, Holds, FramesOrdered
      <4>2. frames[k + 1].slots \in 0 .. StackMax - 1
        BY <2>1, WindowEnds
      <4>. QED
        BY <1>2, <2>2, <4>1, <4>2, StackThere
    <3>. QED
      BY <2>1, <3>1, <3>2
  <2>4. b \in 0 .. StackMax - 1 /\ m \in Nat /\ b + m = EndOf(k) /\ StackMax \in Nat
    BY SMTT(30), <2>1, WindowEnds, StackThere
  <2>5. /\ W[k] \in Seq(Value) /\ Len(W[k]) = m
        /\ \A j \in 1 .. m : W[k][j] = stack[b + j - 1]
    BY <2>1 DEF WindowsAre
  <2>6. /\ W'[k] \in Seq(Value) /\ Len(W'[k]) = m
        /\ \A j \in 1 .. m : W'[k][j] = stack'[b + j - 1]
    <3>1. EndOf(k)' - frames'[k].slots = m
      BY <2>2
    <3>2. /\ W'[k] \in Seq(Value) /\ Len(W'[k]) = EndOf(k)' - frames'[k].slots
          /\ \A j \in 1 .. EndOf(k)' - frames'[k].slots :
               W'[k][j] = stack'[frames'[k].slots + j - 1]
      BY <1>3, <2>1 DEF WindowsAre
    <3>. QED
      BY <2>2, <3>1, <3>2
  <2>. HIDE DEF b, m, W
  <2>7. \A j \in 1 .. m : stack'[b + j - 1] = stack[b + j - 1]
    <3>. SUFFICES ASSUME NEW j \in 1 .. m
                  PROVE  stack'[b + j - 1] = stack[b + j - 1]
      OBVIOUS
    <3>1. b + j - 1 \in 0 .. StackMax - 1 /\ b + j - 1 < Frame.slots
      BY <1>2, <2>3, <2>4
    <3>2. stack \in [0 .. StackMax - 1 -> Value]
      BY DEF VInv, TypeOK
    <3>3. CASE stack' = stack
      BY <3>3
    <3>4. CASE \E p \in Int : \E v : p >= Frame.slots /\ stack' = [stack EXCEPT ![p] = v]
      <4>1. PICK p \in Int : \E v : p >= Frame.slots /\ stack' = [stack EXCEPT ![p] = v]
        BY <3>4
      <4>2. b + j - 1 # p
        BY <1>2, <3>1, <4>1
      <4>. QED
        BY <3>1, <3>2, <4>1, <4>2
    <3>. QED
      BY <3>3, <3>4 DEF Works
  <2>8. \A j \in 1 .. Len(W'[k]) : W'[k][j] = W[k][j]
    BY <2>5, <2>6, <2>7
  <2>. QED
    BY <2>5, <2>6, <2>8, SeqEqual
<1>. HIDE DEF W
<1>6. SubSeq(W', 1, Len(W') - 1) = SubSeq(W, 1, Len(W) - 1)
  BY <1>2, <1>4, <1>5, SameCallers
<1>7. Len(W) > 0 /\ Len(W') = Len(W) /\ SubSeq(W', 1, Len(W) - 1) = SubSeq(W, 1, Len(W) - 1)
  BY <1>2, <1>4, <1>6
<1>. QED
  BY <1>7 DEF W, Windows!Work, Windows!Depth, Windows!Callers

(* A call shares its callee and arguments out to the new window.           *)
LEMMA CallIsCall ==
  ASSUME VInv, Clean, Running, VInv', Clean', Running', CallClosure,
         WindowsAre, WindowsAre'
  PROVE  Windows!Call
<1>. DEFINE n == Len(frames)
            W == WindowsOfRun
            b == Frame.slots
            moved == [frames EXCEPT ![n].ip = IP + 2]
            new == [func |-> Peek(Arg).closure, ip |-> 0, slots |-> top - Arg - 1]
<1>1. /\ Op = "CALL" /\ frames' = Append(moved, new) /\ top' = top /\ stack' = stack
  BY DEF CallClosure, Exec
<1>2. Arg \in 0 .. 255 /\ Height >= Arg + 2
  BY <1>1, CallsAreSafe
<1>3. /\ frames \in Seq(Frames) /\ n \in 1 .. FramesMax /\ Frame = frames[n]
      /\ b \in 0 .. StackMax - 1 /\ IP \in Int /\ frames[n] \in Frames
      /\ top \in 0 .. StackMax /\ StackMax \in Nat
  BY FrameAtWork, StackThere DEF VInv, TypeOK, Frame
<1>4. /\ Len(frames') = n + 1 /\ frames'[n + 1].slots = top - Arg - 1
      /\ \A k \in 1 .. n : frames'[k].slots = frames[k].slots
  <2>1. moved \in Seq(Frames) /\ Len(moved) = n /\ \A k \in 1 .. n : moved[k].slots = frames[k].slots
    <3>1. moved = [frames EXCEPT ![n] = [frames[n] EXCEPT !.ip = IP + 2]]
      OBVIOUS
    <3>2. IP + 2 \in Int
      BY <1>3
    <3>3. [frames[n] EXCEPT !.ip = IP + 2] \in Frames
      BY <1>3, <3>2 DEF Frames
    <3>4. [frames[n] EXCEPT !.ip = IP + 2].slots = frames[n].slots
      BY <1>3 DEF Frames
    <3>5. moved \in Seq(Frames) /\ Len(moved) = n
      BY <1>3, <3>1, <3>3
    <3>. QED
      BY <1>3, <3>1, <3>4, <3>5
  <2>2. new.slots = top - Arg - 1
    OBVIOUS
  <2>. HIDE DEF moved, new
  <2>. QED
    BY <1>1, <1>3, <2>1, <2>2
<1>. HIDE DEF moved, new
<1>5. /\ W \in Seq(Seq(Value)) /\ W' \in Seq(Seq(Value)) /\ Len(W) = n /\ Len(W') = n + 1
  BY <1>4 DEF WindowsAre
<1>6. Height \in Nat /\ Height = top - b /\ Height >= 1
  <2>1. Height \in 1 .. SlotsMax
    BY AtWork
  <2>. QED
    BY <2>1, StackThere DEF Height
<1>7. EndOf(n) = top
  BY DEF EndOf
<1>8. /\ W[n] \in Seq(Value) /\ Len(W[n]) = Height
      /\ \A j \in 1 .. Height : W[n][j] = stack[b + j - 1]
  <2>1. n \in 1 .. n
    BY <1>3
  <2>. QED
    BY <1>3, <1>6, <1>7, <2>1 DEF WindowsAre
<1>9. \A k \in 1 .. n - 1 : W'[k] = W[k]
  <2>. SUFFICES ASSUME NEW k \in 1 .. n - 1
                PROVE  W'[k] = W[k]
    OBVIOUS
  <2>. DEFINE c == frames[k].slots
              m == EndOf(k) - c
  <2>1. k \in 1 .. n /\ k + 1 \in 1 .. n /\ k # n /\ k # n + 1 /\ k \in 1 .. n + 1
    BY <1>3
  <2>2. EndOf(k)' = EndOf(k) /\ frames'[k].slots = c
    BY <1>4, <2>1 DEF EndOf
  <2>3. /\ W[k] \in Seq(Value) /\ Len(W[k]) = m
        /\ \A j \in 1 .. m : W[k][j] = stack[c + j - 1]
    BY <2>1 DEF WindowsAre
  <2>4. /\ W'[k] \in Seq(Value) /\ Len(W'[k]) = m
        /\ \A j \in 1 .. m : W'[k][j] = stack'[c + j - 1]
    <3>1. EndOf(k)' - frames'[k].slots = m
      BY <2>2
    <3>2. /\ W'[k] \in Seq(Value) /\ Len(W'[k]) = EndOf(k)' - frames'[k].slots
          /\ \A j \in 1 .. EndOf(k)' - frames'[k].slots :
               W'[k][j] = stack'[frames'[k].slots + j - 1]
      BY <1>4, <2>1 DEF WindowsAre
    <3>. QED
      BY <2>2, <3>1, <3>2
  <2>. HIDE DEF c, m, W
  <2>5. \A j \in 1 .. Len(W'[k]) : W'[k][j] = W[k][j]
    BY <1>1, <2>3, <2>4
  <2>. QED
    BY <2>3, <2>4, <2>5, SeqEqual
<1>10. /\ W'[n] \in Seq(Value) /\ Len(W'[n]) = Height - Arg - 1
       /\ \A j \in 1 .. Height - Arg - 1 : W'[n][j] = W[n][j]
  <2>1. n \in 1 .. n + 1 /\ n # n + 1 /\ n \in 1 .. n
    BY <1>3
  <2>. DEFINE k == n
  <2>2. \A l \in 1 .. n + 1 : l = n => EndOf(l)' = frames'[l + 1].slots /\ frames'[l].slots = b
    <3>. TAKE l \in 1 .. n + 1
    <3>1. CASE l = n
      <4>1. l # Len(frames')
        BY <1>4, <2>1, <3>1
      <4>2. EndOf(l)' = frames'[l + 1].slots
        BY <4>1 DEF EndOf
      <4>3. frames'[l].slots = b
        BY <1>3, <1>4, <2>1, <3>1
      <4>. QED
        BY <4>2, <4>3
    <3>. QED
      BY <3>1
  <2>3. \A l \in 1 .. n + 1 : l = n =>
          /\ W'[l] \in Seq(Value) /\ Len(W'[l]) = Height - Arg - 1
          /\ \A j \in 1 .. Height - Arg - 1 : W'[l][j] = stack[b + j - 1]
    <3>. SUFFICES ASSUME NEW l \in 1 .. n + 1, l = n
                  PROVE  /\ W'[l] \in Seq(Value) /\ Len(W'[l]) = Height - Arg - 1
                         /\ \A j \in 1 .. Height - Arg - 1 : W'[l][j] = stack[b + j - 1]
      OBVIOUS
    <3>1. EndOf(l)' = top - Arg - 1 /\ frames'[l].slots = b
      BY <1>4, <2>2
    <3>2. EndOf(l)' - frames'[l].slots = Height - Arg - 1
      BY SMTT(30), <1>2, <1>3, <1>6, <3>1
    <3>3. /\ W'[l] \in Seq(Value) /\ Len(W'[l]) = EndOf(l)' - frames'[l].slots
          /\ \A j \in 1 .. EndOf(l)' - frames'[l].slots :
               W'[l][j] = stack'[frames'[l].slots + j - 1]
      BY <1>4 DEF WindowsAre
    <3>. QED
      BY <1>1, <3>1, <3>2, <3>3
  <2>4. \A j \in 1 .. Height - Arg - 1 : j \in 1 .. Height
    BY <1>2, <1>6
  <2>. QED
    BY <1>8, <2>1, <2>3, <2>4
<1>11. /\ W'[n + 1] \in Seq(Value) /\ Len(W'[n + 1]) = Arg + 1
       /\ \A j \in 1 .. Arg + 1 : W'[n + 1][j] = W[n][Height - Arg + j - 1]
  <2>1. \A l \in 1 .. n + 1 : l = n + 1 =>
          /\ W'[l] \in Seq(Value) /\ Len(W'[l]) = Arg + 1
          /\ \A j \in 1 .. Arg + 1 : W'[l][j] = stack[top - Arg - 1 + j - 1]
    <3>. SUFFICES ASSUME NEW l \in 1 .. n + 1, l = n + 1
                  PROVE  /\ W'[l] \in Seq(Value) /\ Len(W'[l]) = Arg + 1
                         /\ \A j \in 1 .. Arg + 1 : W'[l][j] = stack[top - Arg - 1 + j - 1]
      OBVIOUS
    <3>1. EndOf(l)' = top /\ frames'[l].slots = top - Arg - 1
      BY <1>1, <1>4 DEF EndOf
    <3>2. EndOf(l)' - frames'[l].slots = Arg + 1
      BY <1>2, <1>3, <3>1
    <3>3. /\ W'[l] \in Seq(Value) /\ Len(W'[l]) = EndOf(l)' - frames'[l].slots
          /\ \A j \in 1 .. EndOf(l)' - frames'[l].slots :
               W'[l][j] = stack'[frames'[l].slots + j - 1]
      BY <1>4 DEF WindowsAre
    <3>. QED
      BY <1>1, <3>1, <3>2, <3>3
  <2>2. \A j \in 1 .. Arg + 1 :
          /\ Height - Arg + j - 1 \in 1 .. Height
          /\ b + (Height - Arg + j - 1) - 1 = top - Arg - 1 + j - 1
    <3>1. \A h, a, t, c \in Int : a >= 0 /\ h >= a + 2 /\ h = t - c =>
            \A j \in 1 .. a + 1 : /\ h - a + j - 1 \in 1 .. h
                                 /\ c + (h - a + j - 1) - 1 = t - a - 1 + j - 1
      OBVIOUS
    <3>2. Arg \in Int /\ Arg >= 0
      BY <1>2
    <3>3. Height \in Int /\ top \in Int /\ b \in Int
      BY <1>3, <1>6
    <3>4. Height >= Arg + 2 /\ Height = top - b
      BY <1>2, <1>6
    <3>. HIDE DEF b
    <3>. QED
      BY <3>1, <3>2, <3>3, <3>4
  <2>3. n + 1 \in 1 .. n + 1
    BY <1>3
  <2>4. \A j \in 1 .. Arg + 1 : W[n][Height - Arg + j - 1] = stack[top - Arg - 1 + j - 1]
    BY <1>8, <2>2
  <2>. QED
    BY <2>1, <2>3, <2>4
<1>. DEFINE x == W'[n]
            y == W'[n + 1]
            w == W[n]
<1>12. W' = SubSeq(W, 1, n - 1) \o << x, y >>
  <2>. HIDE DEF W
  <2>1. Len(W) >= 1 /\ Len(W') = Len(W) + 1 /\ \A k \in 1 .. Len(W) - 1 : W'[k] = W[k]
    BY <1>3, <1>5, <1>9
  <2>2. W' = SubSeq(W, 1, Len(W) - 1) \o << W'[Len(W)], W'[Len(W) + 1] >>
    BY <1>5, <2>1, TwoForLast
  <2>. QED
    BY <1>5, <2>2
<1>13. x = SubSeq(w, 1, Height - Arg - 1) /\ y = SubSeq(w, Height - Arg, Height)
  <2>1. Arg \in Nat /\ Arg <= Height - 2
    BY <1>2, <1>6
  <2>2. /\ x \in Seq(Value) /\ y \in Seq(Value) /\ w \in Seq(Value) /\ Height = Len(w)
        /\ Len(x) = Height - Arg - 1 /\ \A j \in 1 .. Height - Arg - 1 : x[j] = w[j]
        /\ Len(y) = Arg + 1 /\ \A j \in 1 .. Arg + 1 : y[j] = w[Height - Arg + j - 1]
    BY <1>8, <1>10, <1>11
  <2>. DEFINE h == Height
              a == Arg
  <2>3. a \in Nat /\ h \in Nat /\ a <= h - 2
    BY <1>6, <2>1
  <2>. HIDE DEF x, y, w, h, a
  <2>4. x \in Seq(Value) /\ y \in Seq(Value) /\ w \in Seq(Value) /\ h = Len(w)
    BY <2>2 DEF h
  <2>5. Len(x) = h - a - 1 /\ \A j \in 1 .. h - a - 1 : x[j] = w[j]
    BY <2>2 DEF h, a
  <2>6. Len(y) = a + 1 /\ \A j \in 1 .. a + 1 : y[j] = w[h - a + j - 1]
    BY <2>2 DEF h, a
  <2>. DEFINE m == h - a - 1
              l == h - a
  <2>7. m \in 1 .. Len(w) /\ l \in 1 .. Len(w) /\ Len(y) = Len(w) - l + 1
    BY <2>3, <2>4, <2>6
  <2>8. \A j \in 1 .. Len(y) : y[j] = w[l + j - 1]
    BY <2>6
  <2>9. Len(x) = m /\ \A j \in 1 .. m : x[j] = w[j]
    BY <2>5
  <2>. HIDE DEF m, l
  <2>10. x = SubSeq(w, 1, m)
    BY <2>4, <2>7, <2>9, FirstPart
  <2>11. y = SubSeq(w, l, h)
    BY <2>4, <2>7, <2>8, LastPart
  <2>. QED
    BY <2>10, <2>11 DEF m, l, h, a
<1>14. /\ Arg \in 0 .. Len(W[n]) - 2
       /\ W' = SubSeq(W, 1, n - 1)
                 \o << SubSeq(W[n], 1, Len(W[n]) - Arg - 1),
                       SubSeq(W[n], Len(W[n]) - Arg, Len(W[n])) >>
  <2>1. Arg \in 0 .. Height - 2
    BY <1>2, <1>6
  <2>. QED
    BY <1>8, <1>12, <1>13, <2>1
<1>. HIDE DEF W, b, x, y, w, n
<1>15. Len(W) > 0 /\ Len(W) = n
  BY <1>3, <1>5
<1>. QED
  BY <1>14, <1>15 DEF W, Windows!Call, Windows!Depth, Windows!Callers, Windows!Current

(* A return adds the result to the caller's window.                        *)
LEMMA ReturnIsReturn ==
  ASSUME VInv, Clean, Running, VInv', Clean', Running', Return,
         WindowsAre, WindowsAre'
  PROVE  Windows!Return
<1>. DEFINE n == Len(frames)
            W == WindowsOfRun
            b == Frame.slots
            v == stack[top - 1]
<1>1. /\ n # 1 /\ frames' = SubSeq(frames, 1, n - 1) /\ PutAt(b, Popped(top))
  BY DEF Return, Running
<1>2. /\ frames \in Seq(Frames) /\ n \in 1 .. FramesMax /\ Frame = frames[n]
      /\ b \in 0 .. StackMax - 1 /\ frames[n] \in Frames
      /\ top \in 0 .. StackMax /\ StackMax \in Nat
      /\ stack \in [0 .. StackMax - 1 -> Value]
  BY FrameAtWork, StackThere DEF VInv, TypeOK, Frame
<1>3. n \in Nat /\ n >= 2 /\ n - 1 \in 1 .. n - 1 /\ n - 1 \in 1 .. n
  <2>1. \A a \in Int : a >= 1 /\ a # 1 => a \in Nat /\ a >= 2 /\ a - 1 \in 1 .. a - 1 /\ a - 1 \in 1 .. a
    OBVIOUS
  <2>2. n \in Int /\ n >= 1
    BY <1>2
  <2>. QED
    BY <1>1, <2>1, <2>2
<1>4. Len(frames') = n - 1 /\ \A k \in 1 .. n - 1 : frames'[k] = frames[k]
  BY <1>1, <1>2, FrontTyped
<1>5. /\ W \in Seq(Seq(Value)) /\ W' \in Seq(Seq(Value)) /\ Len(W) = n /\ Len(W') = n - 1
  BY <1>4 DEF WindowsAre
<1>6. Height \in Nat /\ Height = top - b /\ Height >= 1 /\ Height <= top
  <2>1. Height \in 1 .. SlotsMax /\ Height <= top
    BY AtWork
  <2>. QED
    BY <2>1, StackThere DEF Height
<1>7. /\ top' = b + 1 /\ stack' = [stack EXCEPT ![b] = v]
      /\ v \in Value /\ top - 1 \in 0 .. StackMax - 1
  <2>1. top # 0 /\ top - 1 \in 0 .. StackMax - 1
    BY <1>2, <1>6
  <2>. QED
    BY <1>1, <1>2, <2>1 DEF PutAt, Popped
<1>8. W[n][Height] = v /\ Len(W[n]) = Height
  <2>1. EndOf(n) = top /\ n \in 1 .. n
    BY <1>3 DEF EndOf
  <2>2. /\ Len(W[n]) = Height
        /\ \A j \in 1 .. Height : W[n][j] = stack[b + j - 1]
    BY <1>2, <1>6, <2>1 DEF WindowsAre
  <2>3. Height \in 1 .. Height /\ b + Height - 1 = top - 1
    BY <1>2, <1>6
  <2>. QED
    BY <2>2, <2>3
<1>9. \A k \in 1 .. n - 2 : W'[k] = W[k]
  <2>. SUFFICES ASSUME NEW k \in 1 .. n - 2
                PROVE  W'[k] = W[k]
    OBVIOUS
  <2>. DEFINE c == frames[k].slots
              m == EndOf(k) - c
  <2>1. k \in 1 .. n /\ k + 1 \in 1 .. n - 1 /\ k # n /\ k # n - 1 /\ k \in 1 .. n - 1
        /\ k + 1 \in 1 .. n /\ k + 1 < n /\ n \in 1 .. n
    BY <1>3
  <2>2. EndOf(k)' = EndOf(k) /\ frames'[k].slots = c /\ EndOf(k) = frames[k + 1].slots
    BY <1>4, <2>1 DEF EndOf
  <2>3. /\ W[k] \in Seq(Value) /\ Len(W[k]) = m
        /\ \A j \in 1 .. m : W[k][j] = stack[c + j - 1]
    BY <2>1 DEF WindowsAre
  <2>4. /\ W'[k] \in Seq(Value) /\ Len(W'[k]) = m
        /\ \A j \in 1 .. m : W'[k][j] = stack'[c + j - 1]
    <3>1. EndOf(k)' - frames'[k].slots = m
      BY <2>2
    <3>2. /\ W'[k] \in Seq(Value) /\ Len(W'[k]) = EndOf(k)' - frames'[k].slots
          /\ \A j \in 1 .. EndOf(k)' - frames'[k].slots :
               W'[k][j] = stack'[frames'[k].slots + j - 1]
      BY <1>4, <2>1 DEF WindowsAre
    <3>. QED
      BY <2>2, <3>1, <3>2
  <2>5. c + m < b /\ m \in Nat /\ c \in Nat
    <3>1. frames[k + 1].slots < frames[n].slots
      BY <2>1 DEF VInv, Holds, FramesOrdered
    <3>2. c \in 0 .. StackMax - 1 /\ EndOf(k) \in c + 1 .. StackMax
      BY <2>1, WindowEnds
    <3>3. ASSUME NEW x \in Int, NEW e \in Int, NEW y \in Int, 0 <= x, x + 1 <= e, e < y
          PROVE  x + (e - x) < y /\ e - x \in Nat /\ x \in Nat
      BY <3>3
    <3>4. EndOf(k) < b /\ b \in Int
      BY <1>2, <2>2, <3>1
    <3>5. c \in Int /\ EndOf(k) \in Int /\ 0 <= c /\ c + 1 <= EndOf(k)
      BY <1>2, <3>2, StackThere
    <3>. HIDE DEF c, b
    <3>. QED
      BY <3>3, <3>4, <3>5
  <2>. HIDE DEF c, m, W
  <2>6. \A j \in 1 .. m : stack'[c + j - 1] = stack[c + j - 1]
    BY <1>2, <1>7, <2>5
  <2>7. \A j \in 1 .. Len(W'[k]) : W'[k][j] = W[k][j]
    BY <2>3, <2>4, <2>6
  <2>. QED
    BY <2>3, <2>4, <2>7, SeqEqual
<1>10. W'[n - 1] = Append(W[n - 1], v)
  <2>. SUFFICES ASSUME NEW k \in 1 .. n - 1, k = n - 1
                PROVE  W'[k] = Append(W[k], v)
    BY <1>3
  <2>. DEFINE c == frames[k].slots
              m == b - c
  <2>1. k \in 1 .. n /\ k # n /\ k + 1 = n
    BY <1>3
  <2>2. EndOf(k) = b /\ EndOf(k)' = b + 1 /\ frames'[k].slots = c
    BY <1>2, <1>4, <1>7, <2>1 DEF EndOf
  <2>3. c \in 0 .. StackMax - 1 /\ b \in c + 1 .. StackMax
    BY <2>1, <2>2, WindowEnds
  <2>4. m \in Nat /\ c \in Nat /\ c + m = b /\ (b + 1) - c = m + 1
    <3>1. ASSUME NEW x \in 0 .. StackMax - 1, NEW e \in x + 1 .. StackMax
          PROVE  e - x \in Nat /\ x \in Nat /\ x + (e - x) = e /\ (e + 1) - x = (e - x) + 1
      BY <1>2
    <3>. QED
      BY <2>3, <3>1
  <2>5. /\ W[k] \in Seq(Value) /\ Len(W[k]) = m
        /\ \A j \in 1 .. m : W[k][j] = stack[c + j - 1]
    BY <2>1, <2>2 DEF WindowsAre
  <2>6. /\ W'[k] \in Seq(Value) /\ Len(W'[k]) = m + 1
        /\ \A j \in 1 .. m + 1 : W'[k][j] = stack'[c + j - 1]
    <3>1. EndOf(k)' - frames'[k].slots = m + 1
      BY <2>2, <2>4
    <3>2. /\ W'[k] \in Seq(Value) /\ Len(W'[k]) = EndOf(k)' - frames'[k].slots
          /\ \A j \in 1 .. EndOf(k)' - frames'[k].slots :
               W'[k][j] = stack'[frames'[k].slots + j - 1]
      BY <1>4 DEF WindowsAre
    <3>. QED
      BY <2>2, <3>1, <3>2
  <2>. HIDE DEF c, m, W
  <2>7. \A j \in 1 .. m : stack'[c + j - 1] = stack[c + j - 1]
    BY <1>2, <1>7, <2>4
  <2>8. stack'[c + (m + 1) - 1] = v
    BY <1>2, <1>7, <2>4
  <2>9. (\A j \in 1 .. m : W'[k][j] = W[k][j]) /\ W'[k][m + 1] = v
    <3>1. m + 1 \in 1 .. m + 1 /\ \A j \in 1 .. m : j \in 1 .. m + 1
      BY <2>4
    <3>2. \A j \in 1 .. m : W'[k][j] = W[k][j]
      BY <2>5, <2>6, <2>7, <3>1
    <3>3. W'[k][m + 1] = v
      BY <2>6, <2>8, <3>1
    <3>. QED
      BY <3>2, <3>3
  <2>. HIDE DEF v
  <2>. QED
    BY SMTT(30), <1>7, <2>5, <2>6, <2>9, Appended
<1>. DEFINE u == W[n][Len(W[n])]
<1>. HIDE DEF W, b, n
<1>11. W' = [SubSeq(W, 1, n - 1) EXCEPT ![n - 1] = W'[n - 1]]
  <2>1. Len(W) >= 2 /\ Len(W') = Len(W) - 1 /\ \A k \in 1 .. Len(W) - 2 : W'[k] = W[k]
    BY <1>3, <1>5, <1>9
  <2>2. W' = [SubSeq(W, 1, Len(W) - 1) EXCEPT ![Len(W) - 1] = W'[Len(W) - 1]]
    BY <1>5, <2>1, LastReplaced
  <2>. QED
    BY <1>5, <2>2
<1>12. SubSeq(W, 1, n - 1)[n - 1] = W[n - 1]
  BY <1>3, <1>5, FrontTyped
<1>13. W' = [SubSeq(W, 1, n - 1) EXCEPT ![n - 1] = Append(@, u)]
  BY <1>8, <1>10, <1>11, <1>12
<1>14. Len(W) > 1 /\ Len(W) = n
  BY <1>3, <1>5
<1>. QED
  BY <1>13, <1>14 DEF u, W, Windows!Return, Windows!Depth, Windows!Callers, Windows!Current

(* A chunk begins with one window, that holds its function.                *)
LEMMA RunIsStart ==
  ASSUME VInv, VInv', Clean', Running', ~(Clean /\ Running), [Next]_vars,
         WindowsAre'
  PROVE  Windows!Start
<1>1. PICK f \in Scripts : RunChunk(f)
  <2>1. Clean
    BY DEF Next, vars, RunChunk, Clean, Step, CallClosure, CallCFunc, CallError, Return,
       PushOp, UndefinedGlobal, SetLocal, SetGlobal, DefineGlobal, Pop, Jump, Compare,
       IBinary, FBinary, Negate, Not, Skip, Undefined, Goes, RuntimeErr
  <2>2. ~Running
    BY <2>1
  <2>3. ~Step /\ ~UNCHANGED vars
    BY <2>2 DEF vars, Step, CallClosure, CallCFunc, CallError, Return,
       PushOp, UndefinedGlobal, SetLocal, SetGlobal, DefineGlobal, Pop, Jump, Compare,
       IBinary, FBinary, Negate, Not, Skip, Undefined, Exec, Running
  <2>. QED
    BY <2>3 DEF Next
<1>2. status \in {"idle", "ok"} /\ Clean
  BY <1>1 DEF RunChunk, Clean
<1>3. top = 0 /\ frames = <<>>
  BY <1>2 DEF VInv, Holds, LeavesNothing
<1>4. f \in Funcs /\ f.arity = 0
  BY VMAssumption, CertifiedAssumption
<1>5. Pushable
  BY <1>3, StackThere DEF Pushable
<1>6. ~CallFails(f, 0)
  BY <1>3, <1>4, VMAssumption DEF CallFails
<1>7. top' = 1 /\ frames' = <<[func |-> f, ip |-> 0, slots |-> 0]>>
  BY <1>1, <1>3, <1>5, <1>6 DEF RunChunk, Enter
<1>8. Len(frames') = 1 /\ frames'[1].slots = 0
  BY <1>7
<1>9. EndOf(1)' = 1
  BY <1>7, <1>8 DEF EndOf
<1>10. Len(WindowsOfRun') = 1 /\ Len(WindowsOfRun'[1]) = 1
  BY <1>8, <1>9 DEF WindowsAre
<1>11. WindowsOfRun = <<>>
  BY NoWindows
<1>. QED
  BY <1>10, <1>11 DEF Windows!Start

LEMMA StepIsStep ==
  ASSUME VInv, VInv', [Next]_vars, WindowsAre, WindowsAre', 
         (~(Clean /\ Running) => WindowsOfRun = <<>>)'
  PROVE  Windows!WindowNext \/ UNCHANGED WindowsOfRun
<1>1. CASE UNCHANGED vars
  <2>1. UNCHANGED <<stack, top, frames, status, life>>
    BY <1>1 DEF vars
  <2>2. UNCHANGED WindowsOfRun
    BY <2>1 DEF WindowsOfRun, Window, EndOf, Clean, Running
  <2>. QED
    BY <2>2
<1>2. CASE ~(Clean /\ Running) /\ ~(Clean' /\ Running')
  BY <1>2, NoWindows
<1>3. CASE ~(Clean /\ Running) /\ Clean' /\ Running'
  BY <1>3, RunIsStart DEF Windows!WindowNext
<1>4. CASE Clean /\ Running /\ ~(Clean' /\ Running')
  <2>1. WindowsOfRun' = <<>>
    BY <1>4
  <2>2. Len(WindowsOfRun) > 0
    <3>1. Len(frames) \in 1 .. FramesMax
      BY <1>4, FrameAtWork DEF VInv
    <3>2. Len(WindowsOfRun) = Len(frames)
      BY <1>4 DEF WindowsAre
    <3>. QED
      BY <3>1, <3>2
  <2>. QED
    BY <2>1, <2>2 DEF Windows!WindowNext, Windows!Stop, Windows!Depth
<1>5. CASE ~UNCHANGED vars /\ Clean /\ Running /\ Clean' /\ Running'
  <2>1. Step
    BY <1>5 DEF Next, RunChunk, Running
  <2>2. CASE CallClosure
    BY <1>5, <2>2, CallIsCall DEF Windows!WindowNext
  <2>3. CASE Return
    BY <1>5, <2>3, ReturnIsReturn DEF Windows!WindowNext
  <2>4. CASE ~CallClosure /\ ~Return
    <3>1. Works
      BY <1>5, <2>1, <2>4, WorkParts
    <3>. QED
      BY <1>5, <3>1, WorkIsWork DEF Windows!WindowNext
  <2>. QED
    BY <2>2, <2>3, <2>4
<1>. QED
  BY <1>1, <1>2, <1>3, <1>4, <1>5

(* The calls of certified code keep to windows of their own: whatever a    *)
(* function does, its callers find theirs as they left them.               *)
THEOREM WindowsAreKept == Spec => ImplementsWindows
<1>1. Init => Windows!WindowInit
  <2>1. Init => ~Running
    BY DEF Init, Running
  <2>. QED
    BY <2>1, NoWindows DEF Windows!WindowInit
<1>2. VInv /\ WindowsAre /\ (~(Clean /\ Running) => WindowsOfRun = <<>>)
      /\ VInv' /\ WindowsAre' /\ (~(Clean /\ Running) => WindowsOfRun = <<>>)'
      /\ [Next]_vars => [Windows!WindowNext]_WindowsOfRun
  BY StepIsStep
<1>. QED
  BY <1>1, <1>2, Certified, WindowsSeen, NoWindows, PTL
  DEF Spec, ImplementsWindows, Windows!WindowSpec
=============================================================================
