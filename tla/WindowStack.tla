---------------------------- MODULE WindowStack ----------------------------
(***************************************************************************)
(* What function calls of the interpreter are to be: a stack of windows,   *)
(* one for each call in progress, each a stack of values of its own.  The  *)
(* last window is the one at work and nothing else touches another.        *)
(* TrVMVerified shows that the windows into the one array vm->stack, with  *)
(* callee and arguments shared at a call, behave like this.                *)
(***************************************************************************)
EXTENDS Integers, Sequences

VARIABLE windows

Depth == Len(windows)
Current == windows[Depth]
Callers == SubSeq(windows, 1, Depth - 1)

WindowInit == windows = <<>>

(* a chunk is run: one window, that holds the chunk's function *)
Start == windows = <<>> /\ Len(windows') = 1 /\ Len(windows'[1]) = 1

(* an instruction: the current window changes, and no other *)
Work ==
  /\ Depth > 0 /\ Len(windows') = Depth
  /\ SubSeq(windows', 1, Depth - 1) = Callers

(* a call: callee and n arguments leave the caller and are the new window *)
Call ==
  /\ Depth > 0
  /\ \E n \in 0 .. Len(Current) - 2 :
       windows' = Callers \o
         << SubSeq(Current, 1, Len(Current) - n - 1),
            SubSeq(Current, Len(Current) - n, Len(Current)) >>

(* a return: the window goes, its last value is added to the caller's *)
Return ==
  /\ Depth > 1
  /\ windows' = [Callers EXCEPT ![Depth - 1] = Append(@, Current[Len(Current)])]

(* the chunk ends or fails *)
Stop == Depth > 0 /\ windows' = <<>>

WindowNext == Start \/ Work \/ Call \/ Return \/ Stop

WindowSpec == WindowInit /\ [][WindowNext]_windows
=============================================================================
