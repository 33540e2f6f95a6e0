-------------------------- MODULE TrCompilerProofs --------------------------
(***************************************************************************)
(* Invariants of the compiler, for every text and every limit: CompilerInv *)
(* is inductive, and TypeOK and JumpsHeld follow from it.                  *)
(* First, what the helpers of tr_parser.c do to struct tr_parser: which of *)
(* them emit, patch, read tokens, or touch the scopes of the function      *)
(* being compiled. Then the actions. A parse function touches the call on  *)
(* top, the calls it makes and the function being compiled. StepKeeps says *)
(* once what that leaves alone, and a lemma for each action says that it   *)
(* is such a step; function() and its end, which begin and end a function, *)
(* go by FunctionStep.                                                     *)
(***************************************************************************)
EXTENDS TrCompiler, FiniteSetTheorems, SequenceTheorems, WellFoundedInduction, TLAPS

-----------------------------------------------------------------------------
(* The helpers.                                                            *)

Bytes == 0 .. 255

NamesRead == {t.text : t \in Tokens}
LocalSet == [name : NamesRead, depth : Int]

(* Functions and parsers whose constants are in S.                         *)
FnSet(S) ==
  [type : {"SCRIPT", "FUNC"}, arity : Nat, code : Seq(Bytes), consts : Seq(S), depth : Nat,
   locals : Seq(LocalSet)]

ParserSet(S) ==
  [pos : Nat, preprevious : Tokens, previous : Tokens, current : Tokens,
   error : BOOLEAN, panicking : BOOLEAN, fns : Seq(FnSet(S))]

Emitted ==
  {"RETURN", "CONSTANT", "DEFINE_GLOBAL", "SET_LOCAL", "GET_LOCAL", "SET_GLOBAL",
   "GET_GLOBAL", "POP", "NEGATE", "NOT", "NIL", "TRUE", "FALSE", "CLOSURE", "CALL", "LOOP",
   "JMP_FALSE", "JMP", "EQUAL", "NEQUAL", "LT", "LTEQ", "GT", "GTEQ", "IADD", "ISUB", "IDIV",
   "IMUL", "FADD", "FSUB", "FDIV", "FMUL"}

(* The instructions that the compiler emits are in the table of them, at a *)
(* byte.                                                                   *)
LEMMA OpcodeIsByte == \A op \in Emitted : Opcode[op] \in Bytes
<1>1. Len(OPS) = 36
  BY DEF OPS
<1>2. \A op \in Emitted : \E i \in 1 .. 36 : OPS[i] = op
  BY DEF OPS, Emitted
<1>. SUFFICES ASSUME NEW op \in Emitted
              PROVE  Opcode[op] \in Bytes
  OBVIOUS
<1>. DEFINE i == CHOOSE j \in 1 .. Len(OPS) : OPS[j] = op
<1>3. i \in 1 .. 36
  BY <1>1, <1>2
<1>4. op \in {OPS[j] : j \in 1 .. Len(OPS)}
  BY <1>1, <1>2
<1>5. Opcode[op] = i - 1
  BY <1>4 DEF Opcode
<1>. QED
  BY SMTT(30), <1>3, <1>5 DEF Bytes

(* The function being compiled is replaced, all else stays.                *)
LEMMA WithFnIs ==
  ASSUME NEW S, NEW p \in ParserSet(S), Len(p.fns) >= 1, NEW f \in FnSet(S)
  PROVE  /\ WithFn(p, f) \in ParserSet(S)
         /\ WithFn(p, f) = [p EXCEPT !.fns = WithFn(p, f).fns]
         /\ Len(WithFn(p, f).fns) = Len(p.fns)
         /\ Fn(WithFn(p, f)) = f
         /\ \A n \in 1 .. Len(p.fns) - 1 : WithFn(p, f).fns[n] = p.fns[n]
<1>. DEFINE g == [p.fns EXCEPT ![Len(p.fns)] = f]
<1>1. p.fns \in Seq(FnSet(S)) /\ Len(p.fns) \in Nat /\ Len(p.fns) \in 1 .. Len(p.fns)
  BY DEF ParserSet
<1>2. g \in Seq(FnSet(S)) /\ Len(g) = Len(p.fns) /\ g[Len(p.fns)] = f
      /\ \A n \in 1 .. Len(p.fns) - 1 : g[n] = p.fns[n]
  BY <1>1, ExceptSeq
<1>3. WithFn(p, f) = [p EXCEPT !.fns = g]
  BY DEF WithFn
<1>. HIDE DEF g
<1>4. [p EXCEPT !.fns = g] \in ParserSet(S) /\ [p EXCEPT !.fns = g].fns = g
  BY <1>2 DEF ParserSet
<1>. QED
  BY <1>2, <1>3, <1>4 DEF Fn
-----------------------------------------------------------------------------
(* What the helpers keep.                                                  *)

(* The registers of a parser, but for the scopes of its functions.         *)
Sound(p, S) ==
  p \in ParserSet(S) /\ p.pos <= Len(text) /\ (p.panicking => p.error) /\ Len(p.fns) >= 1

(* No byte of the code of p's functions is other in q, but for the jumps J  *)
(* of the function being compiled.                                         *)
KeepsCode(p, q, J) ==
  /\ Len(q.fns) = Len(p.fns)
  /\ \A n \in 1 .. Len(p.fns) :
       /\ Len(p.fns[n].code) <= Len(q.fns[n].code)
       /\ \A i \in 1 .. Len(p.fns[n].code) :
            q.fns[n].code[i] = p.fns[n].code[i] \/ (n = Len(p.fns) /\ (i - 1 \in J \/ i - 2 \in J))

KeepsScopes(p, q) ==
  /\ Len(q.fns) = Len(p.fns)
  /\ \A n \in 1 .. Len(p.fns) :
       q.fns[n].depth = p.fns[n].depth /\ q.fns[n].locals = p.fns[n].locals

(* q is p with more code, constants or tokens read.                        *)
Grows(p, q, S) == Sound(q, S) /\ KeepsCode(p, q, {}) /\ KeepsScopes(p, q)

(* A parser's functions are typed, and the one compiled is the last.       *)
LEMMA FnIs ==
  ASSUME NEW S, NEW p, Sound(p, S)
  PROVE  /\ p.fns \in Seq(FnSet(S)) /\ Len(p.fns) \in Nat /\ Len(p.fns) \in 1 .. Len(p.fns)
         /\ Fn(p) = p.fns[Len(p.fns)] /\ Fn(p) \in FnSet(S)
         /\ Fn(p).code \in Seq(Bytes) /\ Count(p) \in Nat /\ Count(p) = Len(Fn(p).code)
         /\ Len(Fn(p).consts) \in Nat /\ Len(Fn(p).locals) \in Nat
         /\ \A n \in 1 .. Len(p.fns) :
              /\ p.fns[n] \in FnSet(S) /\ Len(p.fns[n].code) \in Nat
              /\ p.fns[n].code \in Seq(Bytes)
<1>1. p.fns \in Seq(FnSet(S)) /\ Len(p.fns) \in Nat /\ Len(p.fns) \in 1 .. Len(p.fns)
  BY DEF Sound, ParserSet
<1>2. \A n \in 1 .. Len(p.fns) : p.fns[n] \in FnSet(S)
  BY <1>1
<1>3. \A f \in FnSet(S) : /\ f.code \in Seq(Bytes) /\ Len(f.code) \in Nat
                          /\ Len(f.consts) \in Nat /\ Len(f.locals) \in Nat
  BY DEF FnSet
<1>4. Fn(p) = p.fns[Len(p.fns)] /\ Fn(p) \in FnSet(S)
  BY <1>1, <1>2 DEF Fn
<1>5. Count(p) = Len(Fn(p).code)
  BY DEF Count
<1>. QED
  BY <1>1, <1>2, <1>3, <1>4, <1>5

(* Soundness needs no more than the constants there are.                   *)
LEMMA SoundMore ==
  ASSUME NEW S, NEW T, S \subseteq T, NEW p, Sound(p, S)
  PROVE  Sound(p, T)
<1>1. ASSUME NEW f \in FnSet(S)
      PROVE  f \in FnSet(T)
  <2>1. f.consts \in Seq(S)
    BY DEF FnSet
  <2>2. f.consts \in Seq(T)
    BY <2>1, SeqMonotonic
  <2>. QED
    BY <2>2 DEF FnSet
<1>2. FnSet(S) \subseteq FnSet(T) /\ p.fns \in Seq(FnSet(S))
  BY <1>1 DEF Sound, ParserSet
<1>3. p.fns \in Seq(FnSet(T))
  BY <1>2, SeqMonotonic
<1>. QED
  BY <1>3 DEF Sound, ParserSet

(* A parser with the same functions has the same code and scopes.          *)
LEMMA KeepsSelf ==
  ASSUME NEW S, NEW p, Sound(p, S), NEW q, q.fns = p.fns
  PROVE  /\ \A J : KeepsCode(p, q, J)
         /\ KeepsScopes(p, q)
<1>1. \A n \in 1 .. Len(p.fns) : Len(p.fns[n].code) <= Len(p.fns[n].code)
  <2>1. \A n \in 1 .. Len(p.fns) : Len(p.fns[n].code) \in Nat
    BY FnIs
  <2>. QED
    BY <2>1
<1>. QED
  BY <1>1 DEF KeepsCode, KeepsScopes

(* What keeps the code twice keeps it.                                     *)
LEMMA KeepsCodeTrans ==
  ASSUME NEW S, NEW p, NEW R, NEW q, NEW T, NEW r, NEW J,
         Sound(p, S), Sound(q, R), Sound(r, T),
         KeepsCode(p, q, J), KeepsCode(q, r, J)
  PROVE  KeepsCode(p, r, J)
<1>1. Len(r.fns) = Len(p.fns) /\ Len(q.fns) = Len(p.fns)
  BY DEF KeepsCode
<1>. SUFFICES ASSUME NEW n \in 1 .. Len(p.fns)
              PROVE  /\ Len(p.fns[n].code) <= Len(r.fns[n].code)
                     /\ \A i \in 1 .. Len(p.fns[n].code) :
                          \/ r.fns[n].code[i] = p.fns[n].code[i]
                          \/ n = Len(p.fns) /\ (i - 1 \in J \/ i - 2 \in J)
  BY <1>1 DEF KeepsCode
<1>2. n \in 1 .. Len(q.fns) /\ n \in 1 .. Len(r.fns)
  BY <1>1
<1>3. Len(p.fns[n].code) \in Nat /\ Len(q.fns[n].code) \in Nat /\ Len(r.fns[n].code) \in Nat
  BY <1>2, FnIs
<1>4. Len(p.fns[n].code) <= Len(q.fns[n].code) /\ Len(q.fns[n].code) <= Len(r.fns[n].code)
  BY <1>2 DEF KeepsCode
<1>5. \A i \in 1 .. Len(p.fns[n].code) :
        q.fns[n].code[i] = p.fns[n].code[i] \/ (n = Len(p.fns) /\ (i - 1 \in J \/ i - 2 \in J))
  BY DEF KeepsCode
<1>6. \A i \in 1 .. Len(q.fns[n].code) :
        r.fns[n].code[i] = q.fns[n].code[i] \/ (n = Len(q.fns) /\ (i - 1 \in J \/ i - 2 \in J))
  BY <1>2 DEF KeepsCode
<1>7. /\ Len(p.fns[n].code) <= Len(r.fns[n].code)
      /\ \A i \in 1 .. Len(p.fns[n].code) : i \in 1 .. Len(q.fns[n].code)
  <2>. DEFINE a == Len(p.fns[n].code)  b == Len(q.fns[n].code)  c == Len(r.fns[n].code)
  <2>1. a \in Nat /\ b \in Nat /\ c \in Nat
    BY <1>3
  <2>2. a <= b /\ b <= c
    BY <1>4
  <2>. HIDE DEF a, b, c
  <2>3. a <= c /\ \A i \in 1 .. a : i \in 1 .. b
    BY <2>1, <2>2
  <2>. QED
    BY <2>3 DEF a, b, c
<1>. QED
  BY <1>1, <1>5, <1>6, <1>7

(* Less patched is less changed.                                           *)
LEMMA KeepsMore ==
  ASSUME NEW p, NEW q, NEW J, NEW K, J \subseteq K, KeepsCode(p, q, J)
  PROVE  KeepsCode(p, q, K)
BY DEF KeepsCode

(* Nothing done.                                                           *)
LEMMA GrowsSelf ==
  ASSUME NEW S, NEW p, Sound(p, S)
  PROVE  Grows(p, p, S)
BY KeepsSelf DEF Grows

(* One thing done after another.                                           *)
LEMMA GrowsTrans ==
  ASSUME NEW S, NEW p, NEW R, NEW q, NEW T, NEW r, Sound(p, S), Grows(p, q, R), Grows(q, r, T)
  PROVE  Grows(p, r, T)
<1>1. Sound(q, R) /\ Sound(r, T)
  BY DEF Grows
<1>2. KeepsCode(p, r, {})
  BY <1>1, KeepsCodeTrans DEF Grows
<1>3. KeepsScopes(p, r)
  BY DEF Grows, KeepsScopes
<1>. QED
  BY <1>1, <1>2, <1>3 DEF Grows

(* A sound parser with the function being compiled replaced by a typed     *)
(* one.                                                                    *)
LEMMA SoundWith ==
  ASSUME NEW S, NEW p, Sound(p, S), NEW f \in FnSet(S)
  PROVE  /\ Sound(WithFn(p, f), S) /\ Fn(WithFn(p, f)) = f
         /\ Len(WithFn(p, f).fns) = Len(p.fns)
         /\ \A n \in 1 .. Len(p.fns) - 1 : WithFn(p, f).fns[n] = p.fns[n]
         /\ WithFn(p, f).fns[Len(p.fns)] = f
         /\ WithFn(p, f).previous = p.previous /\ WithFn(p, f).current = p.current
<1>. DEFINE q == WithFn(p, f)
<1>1. /\ q \in ParserSet(S) /\ q = [p EXCEPT !.fns = q.fns] /\ Len(q.fns) = Len(p.fns)
      /\ Fn(q) = f /\ \A n \in 1 .. Len(p.fns) - 1 : q.fns[n] = p.fns[n]
  BY WithFnIs DEF Sound
<1>. HIDE DEF q
<1>2. /\ q.pos = p.pos /\ q.panicking = p.panicking /\ q.error = p.error
      /\ q.previous = p.previous /\ q.current = p.current
  BY <1>1 DEF Sound, ParserSet
<1>3. Sound(q, S) /\ q.fns[Len(p.fns)] = f
  BY <1>1, <1>2 DEF Sound, Fn
<1>. QED
  BY <1>1, <1>2, <1>3 DEF q

(* A function's record is replaced by one with the same scopes and more    *)
(* code.                                                                   *)
LEMMA SteadyWith ==
  ASSUME NEW S, NEW p, Sound(p, S), NEW f \in FnSet(S),
         f.depth = Fn(p).depth, f.locals = Fn(p).locals,
         Count(p) <= Len(f.code), \A i \in 1 .. Count(p) : f.code[i] = Fn(p).code[i]
  PROVE  Grows(p, WithFn(p, f), S)
<1>. DEFINE q == WithFn(p, f)
<1>0. Sound(q, S)
  BY SoundWith
<1>1. /\ Len(q.fns) = Len(p.fns) /\ q.fns[Len(p.fns)] = f
      /\ \A n \in 1 .. Len(p.fns) - 1 : q.fns[n] = p.fns[n]
  BY SoundWith
<1>. HIDE DEF q
<1>. SUFFICES ASSUME NEW n \in 1 .. Len(p.fns)
              PROVE  /\ Len(p.fns[n].code) <= Len(q.fns[n].code)
                     /\ \A i \in 1 .. Len(p.fns[n].code) : q.fns[n].code[i] = p.fns[n].code[i]
                     /\ q.fns[n].depth = p.fns[n].depth /\ q.fns[n].locals = p.fns[n].locals
  BY <1>0, <1>1 DEF Grows, KeepsCode, KeepsScopes, q
<1>2. CASE n = Len(p.fns)
  BY ZenonT(60), <1>1, <1>2, FnIs
<1>3. CASE n # Len(p.fns)
  <2>1. n \in 1 .. Len(p.fns) - 1 /\ Len(p.fns[n].code) \in Nat
    BY <1>3, FnIs
  <2>. QED
    BY <1>1, <2>1
<1>. QED
  BY <1>2, <1>3
-----------------------------------------------------------------------------
(* Extremes.                                                               *)

(* A set of naturals has a least one: Advance chooses the next token so.   *)
LEMMA LeastOf ==
  ASSUME NEW T \in SUBSET Nat, T # {}
  PROVE  \E x \in T : \A y \in T : x <= y
<1>. DEFINE R == OpToRel(<, Nat)
<1>1. \E x \in T : \A y \in T : <<y, x>> \notin R
  <2>1. IsWellFoundedOn(R, Nat)
    BY NatLessThanWellFounded
  <2>. HIDE DEF R
  <2>. QED
    BY <2>1, WFMin
<1>2. \A x, y \in Nat : y < x => <<y, x>> \in R
  BY DEF OpToRel
<1>. HIDE DEF R
<1>3. \A x, y \in Nat : ~(y < x) => x <= y
  OBVIOUS
<1>. QED
  BY <1>1, <1>2, <1>3

(* A bounded set of naturals has a greatest one: resolve_local takes the   *)
(* last.                                                                   *)
LEMMA GreatestOf ==
  ASSUME NEW n \in Nat, NEW T \in SUBSET (0 .. n), T # {}
  PROVE  \E x \in T : \A y \in T : y <= x
<1>. DEFINE U == {k \in Nat : n - k \in T}
<1>1. U # {}
  <2>1. PICK x \in T : TRUE
    OBVIOUS
  <2>2. n - x \in Nat /\ n - (n - x) = x
    OBVIOUS
  <2>3. n - x \in U
    BY <2>2
  <2>. QED
    BY <2>3
<1>2. PICK k \in U : \A j \in U : k <= j
  BY <1>1, LeastOf
<1>3. n - k \in T /\ k \in Nat
  OBVIOUS
<1>4. ASSUME NEW y \in T
      PROVE  y <= n - k
  <2>1. n - y \in Nat /\ n - (n - y) = y /\ y \in Int
    OBVIOUS
  <2>2. n - y \in U
    BY <2>1
  <2>3. k <= n - y
    BY <1>2, <2>2
  <2>. QED
    BY <1>3, <2>1, <2>3
<1>. QED
  BY <1>3, <1>4
-----------------------------------------------------------------------------
(* The helpers that read tokens, report errors and write code.             *)

(* A text is a sequence of tokens.                                         *)
LEMMA TextIs ==
  ASSUME text \in Texts
  PROVE  text \in Seq(Tokens) /\ Len(text) \in Nat
BY CompilerAssumption

(* error_at touches the flags alone, and panic mode implies the error.     *)
LEMMA ErrorAtGrows ==
  ASSUME NEW S, NEW p, Sound(p, S)
  PROVE  /\ Grows(p, ErrorAt(p), S) /\ ErrorAt(p).fns = p.fns
         /\ ErrorAt(p).previous = p.previous /\ ErrorAt(p).current = p.current
<1>1. /\ Sound(ErrorAt(p), S) /\ ErrorAt(p).fns = p.fns
      /\ ErrorAt(p).previous = p.previous /\ ErrorAt(p).current = p.current
  BY DEF Sound, ParserSet, ErrorAt
<1>. QED
  BY <1>1, KeepsSelf DEF Grows

(* Advance reads a token of the text, or TOKEN_EOF again and again at its  *)
(* end.                                                                    *)
LEMMA AdvanceGrows ==
  ASSUME NEW S, NEW p, Sound(p, S), text \in Texts
  PROVE  /\ Grows(p, Advance(p), S) /\ Advance(p).fns = p.fns
         /\ Advance(p).previous = p.current
<1>1. text \in Seq(Tokens) /\ Len(text) \in Nat /\ p.pos \in Nat /\ p.pos <= Len(text)
  BY TextIs DEF Sound, ParserSet
<1>2. Unread(p) \subseteq p.pos + 1 .. Len(text)
  BY DEF Unread
<1>3. NextPos(p) \in 0 .. Len(text) /\ (Unread(p) # {} => NextPos(p) \in 1 .. Len(text))
  <2>1. CASE Unread(p) = {}
    BY <1>1, <2>1 DEF NextPos
  <2>2. CASE Unread(p) # {}
    <3>1. Unread(p) \in SUBSET Nat
      BY <1>1, <1>2
    <3>2. \E i \in Unread(p) : \A j \in Unread(p) : i <= j
      BY <2>2, <3>1, LeastOf
    <3>3. NextPos(p) \in Unread(p)
      BY <2>2, <3>2 DEF NextPos
    <3>. QED
      BY <1>1, <1>2, <3>3
  <2>. QED
    BY <2>1, <2>2
<1>4. (IF Unread(p) = {} THEN EOF ELSE text[NextPos(p)]) \in Tokens
  <2>1. EOF \in Tokens
    BY DEF Tokens
  <2>2. \A i \in 1 .. Len(text) : text[i] \in Tokens
    BY <1>1
  <2>. QED
    BY <1>3, <2>1, <2>2
<1>. DEFINE i == NextPos(p)
            t == IF Unread(p) = {} THEN EOF ELSE text[NextPos(p)]
<1>5. Advance(p) = [p EXCEPT !.pos = i, !.preprevious = p.previous,
                             !.previous = p.current, !.current = t]
  BY DEF Advance
<1>6. i \in Nat /\ i <= Len(text) /\ t \in Tokens
  BY <1>1, <1>3, <1>4
<1>. HIDE DEF i, t
<1>7. Sound(Advance(p), S) /\ Advance(p).fns = p.fns /\ Advance(p).previous = p.current
  BY <1>5, <1>6 DEF Sound, ParserSet
<1>. QED
  BY <1>7, KeepsSelf DEF Grows

(* Consume reads a token or reports an error, and emits nothing.           *)
LEMMA ConsumeGrows ==
  ASSUME NEW S, NEW p, Sound(p, S), text \in Texts, NEW type
  PROVE  Grows(p, Consume(p, type), S) /\ Consume(p, type).fns = p.fns
BY AdvanceGrows, ErrorAtGrows DEF Consume

(* Bytes are emitted at the end of the chunk and nowhere else.             *)
LEMMA EmitGrows ==
  ASSUME NEW S, NEW p, Sound(p, S), NEW bytes \in Seq(Bytes)
  PROVE  /\ Grows(p, Emit(p, bytes), S)
         /\ Emit(p, bytes).previous = p.previous /\ Emit(p, bytes).current = p.current
         /\ Count(Emit(p, bytes)) = Count(p) + Len(bytes)
         /\ \A i \in 1 .. Len(bytes) : Fn(Emit(p, bytes)).code[Count(p) + i] = bytes[i]
<1>. DEFINE c == Fn(p).code \o bytes
            f == [Fn(p) EXCEPT !.code = c]
<1>1. Fn(p) \in FnSet(S) /\ Fn(p).code \in Seq(Bytes) /\ Count(p) = Len(Fn(p).code)
      /\ Count(p) \in Nat
  BY FnIs
<1>2. /\ c \in Seq(Bytes) /\ Len(c) = Len(Fn(p).code) + Len(bytes) /\ Len(bytes) \in Nat
      /\ \A i \in 1 .. Len(Fn(p).code) + Len(bytes) :
           c[i] = IF i <= Len(Fn(p).code) THEN Fn(p).code[i] ELSE bytes[i - Len(Fn(p).code)]
  BY <1>1, ConcatProperties
<1>3. \A i \in 1 .. Count(p) : c[i] = Fn(p).code[i]
  BY <1>1, <1>2
<1>4. \A i \in 1 .. Len(bytes) : c[Count(p) + i] = bytes[i]
  <2>. SUFFICES ASSUME NEW i \in 1 .. Len(bytes)
                PROVE  c[Count(p) + i] = bytes[i]
    OBVIOUS
  <2>. DEFINE a == Len(Fn(p).code)  b == Len(bytes)
  <2>1. a \in Nat /\ b \in Nat /\ i \in 1 .. b
    BY <1>1, <1>2
  <2>2. \A k \in 1 .. a + b : c[k] = IF k <= a THEN Fn(p).code[k] ELSE bytes[k - a]
    BY <1>2
  <2>. HIDE DEF a, b, c
  <2>. DEFINE k == a + i
  <2>3. k \in 1 .. a + b /\ ~(k <= a) /\ k - a = i
    BY <2>1
  <2>. HIDE DEF k
  <2>4. c[k] = bytes[i]
    BY <2>2, <2>3
  <2>. QED
    BY <1>1, <2>4 DEF a, k
<1>5. Count(p) <= Len(c) /\ Len(c) = Count(p) + Len(bytes)
  BY <1>1, <1>2
<1>6. Emit(p, bytes) = WithFn(p, f)
  BY DEF Emit
<1>. HIDE DEF c
<1>7. f \in FnSet(S) /\ f.code = c /\ f.depth = Fn(p).depth /\ f.locals = Fn(p).locals
  BY <1>1, <1>2 DEF FnSet
<1>. HIDE DEF f
<1>8. Grows(p, WithFn(p, f), S)
  BY <1>3, <1>5, <1>7, SteadyWith
<1>9. /\ Fn(WithFn(p, f)) = f /\ WithFn(p, f).previous = p.previous
      /\ WithFn(p, f).current = p.current
  BY <1>7, SoundWith
<1>. QED
  BY <1>4, <1>5, <1>6, <1>7, <1>8, <1>9 DEF Count

(* One instruction byte.                                                   *)
LEMMA EmitOpGrows ==
  ASSUME NEW S, NEW p, Sound(p, S), NEW op \in Emitted
  PROVE  /\ Grows(p, EmitOp(p, op), S) /\ Count(EmitOp(p, op)) = Count(p) + 1
         /\ EmitOp(p, op).previous = p.previous /\ EmitOp(p, op).current = p.current
<1>1. <<Opcode[op]>> \in Seq(Bytes) /\ Len(<<Opcode[op]>>) = 1
  BY OpcodeIsByte
<1>. QED
  BY <1>1, EmitGrows DEF EmitOp

(* The index of a constant fits in a byte even when there are too many.    *)
LEMMA ConstantIdIsByte ==
  ASSUME NEW S, NEW p, Sound(p, S)
  PROVE  ConstantId(p) \in 0 .. ByteMax /\ ConstantId(p) \in Bytes
<1>. DEFINE n == Len(Fn(p).consts)
<1>1. n \in Nat /\ ByteMax \in 0 .. 255
  BY FnIs, ByteAssumption
<1>2. ConstantId(p) = IF n > ByteMax THEN 0 ELSE n
  BY DEF ConstantId, TooMany
<1>. HIDE DEF n
<1>. QED
  BY <1>1, <1>2 DEF Bytes

(* A constant is added, with an error when it is one too many.             *)
LEMMA AddConstantGrows ==
  ASSUME NEW S, NEW p, Sound(p, S), NEW v
  PROVE  /\ Grows(p, AddConstant(p, v), S \cup {v})
         /\ AddConstant(p, v).previous = p.previous /\ AddConstant(p, v).current = p.current
<1>. DEFINE T == S \cup {v}
            c == Append(Fn(p).consts, v)
            f == [Fn(p) EXCEPT !.consts = c]
<1>1. Sound(p, T)
  BY SoundMore
<1>2. Fn(p) \in FnSet(T) /\ Count(p) = Len(Fn(p).code) /\ Count(p) \in Nat
  BY <1>1, FnIs
<1>3. Fn(p).consts \in Seq(T)
  BY <1>2 DEF FnSet
<1>4. c \in Seq(T)
  BY <1>3, AppendProperties
<1>. HIDE DEF c
<1>5. f \in FnSet(T) /\ f.code = Fn(p).code /\ f.depth = Fn(p).depth /\ f.locals = Fn(p).locals
  BY <1>2, <1>4 DEF FnSet
<1>. HIDE DEF f, T
<1>6. Grows(p, WithFn(p, f), T)
  BY <1>1, <1>2, <1>5, SteadyWith
<1>7. WithFn(p, f).previous = p.previous /\ WithFn(p, f).current = p.current
  BY <1>1, <1>5, SoundWith
<1>8. AddConstant(p, v) = IF TooMany(p) THEN ErrorAt(WithFn(p, f)) ELSE WithFn(p, f)
  BY DEF AddConstant, f, c
<1>9. Sound(WithFn(p, f), T)
  BY <1>6 DEF Grows
<1>10. /\ Grows(p, ErrorAt(WithFn(p, f)), T)
       /\ ErrorAt(WithFn(p, f)).previous = p.previous
       /\ ErrorAt(WithFn(p, f)).current = p.current
  <2>1. /\ Grows(WithFn(p, f), ErrorAt(WithFn(p, f)), T)
        /\ ErrorAt(WithFn(p, f)).previous = p.previous
        /\ ErrorAt(WithFn(p, f)).current = p.current
    BY <1>7, <1>9, ErrorAtGrows
  <2>. QED
    BY <1>1, <1>6, <2>1, GrowsTrans
<1>. QED
  BY <1>6, <1>7, <1>8, <1>10 DEF T

(* OP_CONSTANT and its index.                                              *)
LEMMA EmitConstantGrows ==
  ASSUME NEW S, NEW p, Sound(p, S), NEW v
  PROVE  Grows(p, EmitConstant(p, v), S \cup {v})
<1>. DEFINE q == AddConstant(p, v)
            b == <<Opcode["CONSTANT"], ConstantId(p)>>
<1>1. Grows(p, q, S \cup {v})
  BY AddConstantGrows
<1>2. "CONSTANT" \in Emitted
  BY DEF Emitted
<1>3. b \in Seq(Bytes)
  BY <1>2, OpcodeIsByte, ConstantIdIsByte
<1>4. Sound(q, S \cup {v})
  BY <1>1 DEF Grows
<1>. HIDE DEF q, b
<1>5. Grows(q, Emit(q, b), S \cup {v})
  BY <1>3, <1>4, EmitGrows
<1>6. Grows(p, Emit(q, b), S \cup {v})
  BY <1>1, <1>5, GrowsTrans
<1>. QED
  BY <1>6 DEF EmitConstant, q, b
-----------------------------------------------------------------------------
(* Jumps.                                                                  *)

(* A jump that waits for its target is as emit_jump wrote it.              *)
Open(f, j) == j \in Nat /\ j + 2 <= Len(f.code) /\ f.code[j + 1] = 255 /\ f.code[j + 2] = 255

(* The two bytes of a jump are bytes, whatever the distance.               *)
LEMMA TwoBytesAreBytes ==
  ASSUME NEW n \in Int
  PROVE  TwoBytes(n)[1] \in Bytes /\ TwoBytes(n)[2] \in Bytes /\ TwoBytes(n) \in Seq(Bytes)
<1>. DEFINE m == n % (JumpMax + 1)
<1>1. JumpMax \in Nat /\ JumpMax <= 65535
  BY CompilerAssumption
<1>2. m \in 0 .. JumpMax
  BY <1>1
<1>3. TwoBytes(n) = <<m \div 256, m % 256>>
  BY DEF TwoBytes
<1>. HIDE DEF m
<1>4. m \in Int /\ m >= 0 /\ m <= 65535
  BY <1>1, <1>2
<1>5. m \div 256 \in Bytes /\ m % 256 \in Bytes
  <2>1. ASSUME NEW k \in Int, k = m \div 256
        PROVE  k >= 0 /\ k <= 255
    BY <1>4, <2>1
  <2>2. m \div 256 \in Int
    BY <1>4
  <2>3. m \div 256 \in Bytes
    BY <2>1, <2>2 DEF Bytes
  <2>4. m % 256 \in 0 .. 255
    BY <1>4
  <2>. QED
    BY <2>3, <2>4 DEF Bytes
<1>. QED
  BY <1>3, <1>5

(* emit_jump leaves a jump open at the index that it returns.              *)
LEMMA EmitJumpGrows ==
  ASSUME NEW S, NEW p, Sound(p, S), NEW op \in {"JMP", "JMP_FALSE"}
  PROVE  /\ Grows(p, EmitJump(p, op), S)
         /\ EmitJump(p, op).previous = p.previous /\ EmitJump(p, op).current = p.current
         /\ Count(EmitJump(p, op)) = Count(p) + 3
         /\ JumpOf(EmitJump(p, op)) = Count(p) + 1
         /\ Open(Fn(EmitJump(p, op)), JumpOf(EmitJump(p, op)))
<1>. DEFINE b == <<Opcode[op], 255, 255>>
            q == Emit(p, b)
            n == Count(p)
<1>1. b \in Seq(Bytes) /\ Len(b) = 3 /\ b[2] = 255 /\ b[3] = 255
  BY SMTT(30), OpcodeIsByte DEF Emitted, Bytes
<1>2. n \in Nat
  BY FnIs
<1>. HIDE DEF b
<1>3. /\ Grows(p, q, S) /\ q.previous = p.previous /\ q.current = p.current
      /\ Count(q) = n + 3 /\ \A i \in 1 .. 3 : Fn(q).code[n + i] = b[i]
  BY <1>1, EmitGrows
<1>4. EmitJump(p, op) = q
  BY DEF EmitJump, b
<1>. HIDE DEF q, n
<1>5. JumpOf(q) = n + 1
  BY <1>2, <1>3 DEF JumpOf
<1>6. Fn(q).code[n + 2] = 255 /\ Fn(q).code[n + 3] = 255
  BY <1>1, <1>3
<1>7. Len(Fn(q).code) = n + 3
  BY <1>3 DEF Count
<1>8. Open(Fn(q), n + 1)
  <2>1. n + 1 \in Nat /\ n + 1 + 2 <= n + 3 /\ n + 1 + 1 = n + 2 /\ n + 1 + 2 = n + 3
    BY <1>2
  <2>. QED
    BY <1>6, <1>7, <2>1 DEF Open
<1>. QED
  BY <1>3, <1>4, <1>5, <1>8 DEF n

(* A jump stays open where nothing near it is patched.                     *)
LEMMA OpenKept ==
  ASSUME NEW S, NEW p, NEW T, NEW q, NEW J, Sound(p, S), Sound(q, T), KeepsCode(p, q, J),
         NEW n \in 1 .. Len(p.fns), NEW j, Open(p.fns[n], j),
         n = Len(p.fns) => \A i \in J : i \in Int /\ (i > j + 1 \/ j > i + 1)
  PROVE  Open(q.fns[n], j)
<1>. DEFINE a == Len(p.fns[n].code)  b == Len(q.fns[n].code)
<1>1. a \in Nat /\ b \in Nat /\ a <= b
  <2>1. n \in 1 .. Len(q.fns)
    BY DEF KeepsCode
  <2>. QED
    BY <2>1, FnIs DEF KeepsCode
<1>2. j \in Nat /\ j + 2 <= a /\ p.fns[n].code[j + 1] = 255 /\ p.fns[n].code[j + 2] = 255
  BY DEF Open
<1>3. \A i \in 1 .. a :
        q.fns[n].code[i] = p.fns[n].code[i] \/ (n = Len(p.fns) /\ (i - 1 \in J \/ i - 2 \in J))
  BY DEF KeepsCode
<1>. HIDE DEF a, b
<1>4. j + 2 <= b /\ j + 1 \in 1 .. a /\ j + 2 \in 1 .. a
  BY <1>1, <1>2
<1>5. \A i \in {j + 1, j + 2} : n = Len(p.fns) => i - 1 \notin J /\ i - 2 \notin J
  <2>. SUFFICES ASSUME n = Len(p.fns), NEW k \in J, NEW i \in {j + 1, j + 2}
                PROVE  k # i - 1 /\ k # i - 2
    OBVIOUS
  <2>1. k \in Int /\ (k > j + 1 \/ j > k + 1)
    OBVIOUS
  <2>. QED
    BY <1>2, <2>1
<1>6. \A i \in {j + 1, j + 2} : q.fns[n].code[i] = p.fns[n].code[i]
  BY <1>3, <1>4, <1>5
<1>. QED
  BY <1>2, <1>4, <1>6 DEF Open, b

(* patch_jump writes the two bytes of its jump and no other.               *)
LEMMA PatchJumpKeeps ==
  ASSUME NEW S, NEW p, Sound(p, S), NEW j \in Nat, j + 2 <= Count(p)
  PROVE  /\ Sound(PatchJump(p, j), S) /\ KeepsCode(p, PatchJump(p, j), {j})
         /\ KeepsScopes(p, PatchJump(p, j)) /\ Count(PatchJump(p, j)) = Count(p)
         /\ PatchJump(p, j).previous = p.previous /\ PatchJump(p, j).current = p.current
<1>. DEFINE d == Count(p) - j - 2
            b == TwoBytes(d)
            q == IF d > JumpMax THEN ErrorAt(p) ELSE p
            c == [Fn(p).code EXCEPT ![j + 1] = b[1]]
            e == [c EXCEPT ![j + 2] = b[2]]
            f == [Fn(p) EXCEPT !.code = e]
<1>1. /\ Fn(p) \in FnSet(S) /\ Fn(p).code \in Seq(Bytes) /\ Count(p) = Len(Fn(p).code)
      /\ Count(p) \in Nat
  BY FnIs
<1>2. b[1] \in Bytes /\ b[2] \in Bytes
  <2>1. d \in Int
    BY <1>1
  <2>. QED
    BY <2>1, TwoBytesAreBytes
<1>3. Sound(q, S) /\ q.fns = p.fns /\ q.previous = p.previous /\ q.current = p.current
  BY ErrorAtGrows DEF Grows
<1>. HIDE DEF b
<1>4. j + 1 \in 1 .. Len(Fn(p).code) /\ j + 2 \in 1 .. Len(Fn(p).code)
  BY <1>1
<1>5. /\ c \in Seq(Bytes) /\ Len(c) = Len(Fn(p).code)
      /\ \A i \in 1 .. Len(Fn(p).code) : c[i] = IF i = j + 1 THEN b[1] ELSE Fn(p).code[i]
  BY <1>1, <1>2, <1>4, ExceptSeq
<1>. HIDE DEF c
<1>6. /\ e \in Seq(Bytes) /\ Len(e) = Len(Fn(p).code)
      /\ \A i \in 1 .. Len(Fn(p).code) : e[i] = IF i = j + 2 THEN b[2] ELSE c[i]
  BY <1>2, <1>4, <1>5, ExceptSeq
<1>7. Fn(q) = Fn(p)
  BY <1>3 DEF Fn
<1>8. PatchJump(p, j) = WithFn(q, f)
  <2>1. PatchJump(p, j) =
          WithFn(q, [Fn(q) EXCEPT !.code[j + 1] = b[1], !.code[j + 2] = b[2]])
    BY DEF PatchJump, b
  <2>2. [Fn(p) EXCEPT !.code[j + 1] = b[1], !.code[j + 2] = b[2]] = f
    BY <1>1 DEF c, FnSet
  <2>. QED
    BY <1>7, <2>1, <2>2
<1>. HIDE DEF e, d
<1>9. f \in FnSet(S) /\ f.code = e /\ f.depth = Fn(p).depth /\ f.locals = Fn(p).locals
  BY <1>1, <1>6 DEF FnSet
<1>. HIDE DEF f, q
<1>. DEFINE r == WithFn(q, f)
<1>10. /\ Sound(r, S) /\ Fn(r) = f /\ Len(r.fns) = Len(p.fns)
       /\ \A n \in 1 .. Len(p.fns) - 1 : r.fns[n] = p.fns[n]
       /\ r.fns[Len(p.fns)] = f
       /\ r.previous = p.previous /\ r.current = p.current
  BY <1>3, <1>9, SoundWith
<1>11. \A i \in 1 .. Len(Fn(p).code) : e[i] = Fn(p).code[i] \/ i - 1 = j \/ i - 2 = j
  BY SMTT(30), <1>5, <1>6
<1>. HIDE DEF r
<1>12. KeepsCode(p, r, {j}) /\ KeepsScopes(p, r)
  <2>. SUFFICES ASSUME NEW n \in 1 .. Len(p.fns)
                PROVE  /\ Len(p.fns[n].code) <= Len(r.fns[n].code)
                       /\ \A i \in 1 .. Len(p.fns[n].code) :
                            \/ r.fns[n].code[i] = p.fns[n].code[i]
                            \/ n = Len(p.fns) /\ (i - 1 \in {j} \/ i - 2 \in {j})
                       /\ r.fns[n].depth = p.fns[n].depth /\ r.fns[n].locals = p.fns[n].locals
    BY <1>10 DEF KeepsCode, KeepsScopes
  <2>1. CASE n = Len(p.fns)
    <3>1. p.fns[n] = Fn(p) /\ r.fns[n] = f
      BY <1>10, <2>1 DEF Fn
    <3>2. Len(Fn(p).code) <= Len(f.code)
      BY <1>1, <1>6, <1>9
    <3>3. \A i \in 1 .. Len(Fn(p).code) : f.code[i] = Fn(p).code[i] \/ i - 1 = j \/ i - 2 = j
      BY <1>9, <1>11
    <3>. QED
      BY <1>9, <2>1, <3>1, <3>2, <3>3
  <2>2. CASE n # Len(p.fns)
    <3>1. n \in 1 .. Len(p.fns) - 1 /\ Len(p.fns[n].code) \in Nat
      BY <2>2, FnIs
    <3>. QED
      BY <1>10, <3>1
  <2>. QED
    BY <2>1, <2>2
<1>. QED
  BY <1>1, <1>6, <1>8, <1>9, <1>10, <1>12 DEF Count, r

(* emit_loop emits, and reports a jump too far.                            *)
LEMMA EmitLoopGrows ==
  ASSUME NEW S, NEW p, Sound(p, S), NEW start \in Nat
  PROVE  Grows(p, EmitLoop(p, start), S)
<1>. DEFINE q == EmitOp(p, "LOOP")
            d == Count(q) - start + 2
            b == TwoBytes(d)
            r == IF d > JumpMax THEN ErrorAt(q) ELSE q
<1>1. Grows(p, q, S) /\ Sound(q, S)
  BY EmitOpGrows DEF Grows, Emitted
<1>2. b \in Seq(Bytes)
  BY <1>1, FnIs, TwoBytesAreBytes
<1>3. Grows(q, r, S) /\ Sound(r, S)
  BY <1>1, ErrorAtGrows, GrowsSelf DEF Grows
<1>4. EmitLoop(p, start) = Emit(r, b)
  BY DEF EmitLoop
<1>. HIDE DEF q, b, r
<1>5. Grows(r, Emit(r, b), S)
  BY <1>2, <1>3, EmitGrows
<1>6. Grows(p, r, S)
  BY <1>1, <1>3, GrowsTrans
<1>. QED
  BY <1>4, <1>5, <1>6, GrowsTrans
-----------------------------------------------------------------------------
(* The same without the constants: q is p with tokens read, errors, code   *)
(* and constants, and the jumps J patched.                                 *)
Fine(p) == \E S : Sound(p, S)
Same(p, q, J) == Fine(q) /\ KeepsCode(p, q, J) /\ KeepsScopes(p, q)

(* What is typed of the function being compiled, for any constants.        *)
LEMMA FineFn ==
  ASSUME NEW p, Fine(p)
  PROVE  /\ Len(p.fns) \in Nat /\ Len(p.fns) \in 1 .. Len(p.fns) /\ Fn(p) = p.fns[Len(p.fns)]
         /\ Count(p) \in Nat /\ Count(p) = Len(Fn(p).code) /\ Len(Fn(p).locals) \in Nat
         /\ Fn(p).depth \in Nat /\ Fn(p).arity \in Nat /\ Fn(p).code \in Seq(Bytes)
         /\ Fn(p).locals \in Seq(LocalSet)
         /\ p.previous \in Tokens /\ p.current \in Tokens
<1>1. PICK S : Sound(p, S)
  BY DEF Fine
<1>2. /\ Len(p.fns) \in Nat /\ Len(p.fns) \in 1 .. Len(p.fns) /\ Fn(p) = p.fns[Len(p.fns)]
      /\ Count(p) \in Nat /\ Count(p) = Len(Fn(p).code) /\ Len(Fn(p).locals) \in Nat
      /\ Fn(p) \in FnSet(S)
  BY <1>1, FnIs
<1>3. p.previous \in Tokens /\ p.current \in Tokens
  BY <1>1 DEF Sound, ParserSet
<1>. QED
  BY <1>2, <1>3 DEF FnSet

(* Done twice, with the same jumps patched.                                *)
LEMMA SameTrans ==
  ASSUME NEW p, NEW q, NEW r, NEW J, Fine(p), Same(p, q, J), Same(q, r, J)
  PROVE  Same(p, r, J)
<1>1. KeepsCode(p, r, J)
  BY KeepsCodeTrans DEF Same, Fine
<1>2. KeepsScopes(p, r)
  BY DEF Same, KeepsScopes
<1>. QED
  BY <1>1, <1>2 DEF Same

(* Nothing patched is at most J patched.                                   *)
LEMMA SameMore ==
  ASSUME NEW p, NEW q, NEW J, Same(p, q, {})
  PROVE  Same(p, q, J)
BY KeepsMore DEF Same

(* Nothing done.                                                           *)
LEMMA SameSelf ==
  ASSUME NEW p, Fine(p)
  PROVE  \A J : Same(p, p, J)
BY KeepsSelf DEF Same, Fine

(* Growth is the case of no jump patched.                                  *)
LEMMA GrowsIsSame ==
  ASSUME NEW S, NEW p, NEW q, Grows(p, q, S)
  PROVE  Same(p, q, {})
BY DEF Grows, Same, Fine

(* The helpers that touch no scope, all in one place for the actions to    *)
(* cite.                                                                   *)
LEMMA HelpersKeep ==
  ASSUME NEW p, Fine(p), text \in Texts
  PROVE  /\ Same(p, Advance(p), {}) /\ Advance(p).fns = p.fns
         /\ Advance(p).previous = p.current
         /\ Same(p, ErrorAt(p), {}) /\ ErrorAt(p).fns = p.fns
         /\ ErrorAt(p).previous = p.previous /\ ErrorAt(p).current = p.current
         /\ \A type : Same(p, Consume(p, type), {}) /\ Consume(p, type).fns = p.fns
         /\ \A bytes \in Seq(Bytes) : Same(p, Emit(p, bytes), {})
         /\ \A op \in Emitted : Same(p, EmitOp(p, op), {}) /\ Count(EmitOp(p, op)) = Count(p) + 1
         /\ \A v : Same(p, AddConstant(p, v), {})
         /\ \A v : Same(p, EmitConstant(p, v), {})
         /\ \A start \in Nat : Same(p, EmitLoop(p, start), {})
         /\ ConstantId(p) \in 0 .. ByteMax /\ ConstantId(p) \in Bytes
<1>1. PICK S : Sound(p, S)
  BY DEF Fine
<1>2. /\ Same(p, Advance(p), {}) /\ Advance(p).fns = p.fns
      /\ Advance(p).previous = p.current
  BY <1>1, AdvanceGrows, GrowsIsSame
<1>3. /\ Same(p, ErrorAt(p), {}) /\ ErrorAt(p).fns = p.fns
      /\ ErrorAt(p).previous = p.previous /\ ErrorAt(p).current = p.current
  BY <1>1, ErrorAtGrows, GrowsIsSame
<1>4. \A type : Same(p, Consume(p, type), {}) /\ Consume(p, type).fns = p.fns
  BY <1>1, ConsumeGrows, GrowsIsSame
<1>5. \A bytes \in Seq(Bytes) : Same(p, Emit(p, bytes), {})
  BY <1>1, EmitGrows, GrowsIsSame
<1>6. \A op \in Emitted : Same(p, EmitOp(p, op), {}) /\ Count(EmitOp(p, op)) = Count(p) + 1
  BY <1>1, EmitOpGrows, GrowsIsSame
<1>7. \A v : Same(p, AddConstant(p, v), {})
  BY <1>1, AddConstantGrows, GrowsIsSame
<1>8. \A v : Same(p, EmitConstant(p, v), {})
  BY <1>1, EmitConstantGrows, GrowsIsSame
<1>9. \A start \in Nat : Same(p, EmitLoop(p, start), {})
  BY <1>1, EmitLoopGrows, GrowsIsSame
<1>10. ConstantId(p) \in 0 .. ByteMax /\ ConstantId(p) \in Bytes
  BY <1>1, ConstantIdIsByte
<1>. QED
  BY <1>2, <1>3, <1>4, <1>5, <1>6, <1>7, <1>8, <1>9, <1>10

(* The same of emit_jump.                                                  *)
LEMMA JumpsKeep ==
  ASSUME NEW p, Fine(p), NEW op \in {"JMP", "JMP_FALSE"}
  PROVE  /\ Same(p, EmitJump(p, op), {}) /\ Count(EmitJump(p, op)) = Count(p) + 3
         /\ JumpOf(EmitJump(p, op)) = Count(p) + 1
         /\ Open(Fn(EmitJump(p, op)), JumpOf(EmitJump(p, op)))
BY EmitJumpGrows, GrowsIsSame DEF Fine

(* The same of patch_jump, for a jump that is open.                        *)
LEMMA PatchKeeps ==
  ASSUME NEW p, Fine(p), NEW j, Open(Fn(p), j)
  PROVE  Same(p, PatchJump(p, j), {j})
BY PatchJumpKeeps DEF Fine, Same, Open, Count

(* A jump of the function being compiled stays open while nothing near it  *)
(* is patched.                                                             *)
LEMMA OpenStays ==
  ASSUME NEW p, NEW q, NEW J, Fine(p), Same(p, q, J), NEW j, Open(Fn(p), j),
         \A i \in J : i \in Int /\ (i > j + 1 \/ j > i + 1)
  PROVE  Open(Fn(q), j)
<1>1. Len(q.fns) = Len(p.fns) /\ Len(p.fns) \in 1 .. Len(p.fns)
  BY FineFn DEF Same, KeepsCode
<1>2. Fn(p) = p.fns[Len(p.fns)] /\ Fn(q) = q.fns[Len(p.fns)]
  BY <1>1 DEF Fn
<1>3. PICK S : Sound(p, S)
  BY DEF Fine
<1>4. PICK T : Sound(q, T)
  BY DEF Same, Fine
<1>5. KeepsCode(p, q, J) /\ Open(p.fns[Len(p.fns)], j)
  BY <1>2 DEF Same
<1>6. Open(q.fns[Len(p.fns)], j)
  BY <1>1, <1>3, <1>4, <1>5, OpenKept
<1>. QED
  BY <1>2, <1>6
-----------------------------------------------------------------------------
(* Scopes.                                                                 *)

Settled(f) == \A i \in 1 .. Len(f.locals) : f.locals[i].depth # -1

(* Locals are in the order of their scopes; only the last may wait for its *)
(* initializer, and only inside a scope.                                   *)
ScopesOK(f) ==
  /\ Len(f.locals) \in 1 .. SlotsMax /\ f.locals[1].depth = 0
  /\ \A i \in 1 .. Len(f.locals) : f.locals[i].depth \in -1 .. f.depth
  /\ \A i \in 1 .. Len(f.locals) : \A j \in i + 1 .. Len(f.locals) :
       /\ f.locals[i].depth # -1
       /\ f.locals[j].depth # -1 => f.locals[i].depth <= f.locals[j].depth
  /\ Settled(f) \/ (Joined /\ f.depth > 0)

(* q is p but for the scopes of the function being compiled, and new code. *)
Within(p, q) ==
  /\ Fine(q) /\ KeepsCode(p, q, {})
  /\ \A n \in 1 .. Len(p.fns) - 1 :
       q.fns[n].depth = p.fns[n].depth /\ q.fns[n].locals = p.fns[n].locals

(* What touches no scope keeps the order of the locals.                    *)
LEMMA SameIsWithin ==
  ASSUME NEW p, NEW q, Fine(p), Same(p, q, {})
  PROVE  /\ Within(p, q) /\ Fn(q).depth = Fn(p).depth /\ Fn(q).locals = Fn(p).locals
         /\ (ScopesOK(Fn(p)) => ScopesOK(Fn(q))) /\ (Settled(Fn(p)) => Settled(Fn(q)))
<1>1. Len(p.fns) \in Nat /\ Len(p.fns) \in 1 .. Len(p.fns) /\ Len(q.fns) = Len(p.fns)
  BY FineFn DEF Same, KeepsCode
<1>2. Fn(q).depth = Fn(p).depth /\ Fn(q).locals = Fn(p).locals
  BY <1>1 DEF Same, KeepsScopes, Fn
<1>3. Within(p, q)
  BY <1>1 DEF Same, KeepsScopes, Within
<1>. QED
  BY <1>2, <1>3 DEF ScopesOK, Settled

(* One change of the scopes after another.                                 *)
LEMMA WithinTrans ==
  ASSUME NEW p, NEW q, NEW r, Fine(p), Within(p, q), Within(q, r)
  PROVE  Within(p, r)
<1>1. KeepsCode(p, r, {})
  BY KeepsCodeTrans DEF Within, Fine
<1>2. Len(q.fns) = Len(p.fns)
  BY DEF Within, KeepsCode
<1>. QED
  BY <1>1, <1>2 DEF Within

(* A function replaced by one of the same code.                            *)
LEMMA WithinWith ==
  ASSUME NEW S, NEW p, Sound(p, S), NEW f \in FnSet(S), f.code = Fn(p).code
  PROVE  Within(p, WithFn(p, f)) /\ Fn(WithFn(p, f)) = f
         /\ WithFn(p, f).previous = p.previous /\ WithFn(p, f).current = p.current
<1>. DEFINE q == WithFn(p, f)
<1>1. /\ Sound(q, S) /\ Fn(q) = f /\ Len(q.fns) = Len(p.fns)
      /\ \A n \in 1 .. Len(p.fns) - 1 : q.fns[n] = p.fns[n]
      /\ q.fns[Len(p.fns)] = f
      /\ q.previous = p.previous /\ q.current = p.current
  BY SoundWith
<1>. HIDE DEF q
<1>2. KeepsCode(p, q, {})
  <2>. SUFFICES ASSUME NEW n \in 1 .. Len(p.fns)
                PROVE  q.fns[n].code = p.fns[n].code /\ Len(p.fns[n].code) <= Len(p.fns[n].code)
    BY <1>1 DEF KeepsCode
  <2>1. Len(p.fns[n].code) \in Nat /\ Len(p.fns) \in Nat /\ Fn(p) = p.fns[Len(p.fns)]
    BY FnIs
  <2>2. CASE n = Len(p.fns)
    BY <1>1, <2>1, <2>2
  <2>3. CASE n # Len(p.fns)
    <3>1. n \in 1 .. Len(p.fns) - 1
      BY <2>1, <2>3
    <3>. QED
      BY <1>1, <2>1, <3>1
  <2>. QED
    BY <2>2, <2>3
<1>. QED
  BY <1>1, <1>2 DEF Within, Fine, q

(* A scope begins: one deeper, with the locals there were.                 *)
LEMMA BeginScopeKeeps ==
  ASSUME NEW p, Fine(p), ScopesOK(Fn(p)), Settled(Fn(p))
  PROVE  /\ Within(p, BeginScope(p)) /\ ScopesOK(Fn(BeginScope(p))) /\ Settled(Fn(BeginScope(p)))
         /\ Fn(BeginScope(p)).depth = Fn(p).depth + 1
         /\ BeginScope(p).previous = p.previous /\ BeginScope(p).current = p.current
<1>1. PICK S : Sound(p, S)
  BY DEF Fine
<1>. DEFINE f == [Fn(p) EXCEPT !.depth = @ + 1]
<1>2. Fn(p) \in FnSet(S) /\ Fn(p).depth \in Nat
  BY <1>1, FnIs, FineFn
<1>3. f \in FnSet(S) /\ f.code = Fn(p).code /\ f.depth = Fn(p).depth + 1
      /\ f.locals = Fn(p).locals
  BY <1>2 DEF FnSet
<1>. HIDE DEF f
<1>4. BeginScope(p) = WithFn(p, f)
  BY DEF BeginScope, f
<1>5. \A d \in Nat : \A x \in -1 .. d : x \in -1 .. d + 1
  OBVIOUS
<1>6. ScopesOK(f) /\ Settled(f)
  BY <1>2, <1>3, <1>5 DEF ScopesOK, Settled
<1>. QED
  BY <1>1, <1>3, <1>4, <1>6, WithinWith

(* The locals of the function being compiled, one by one.                  *)
LEMMA LocalsTyped ==
  ASSUME NEW p, Fine(p)
  PROVE  /\ Fn(p).locals \in Seq(LocalSet)
         /\ \A i \in 1 .. Len(Fn(p).locals) : Fn(p).locals[i] \in LocalSet
                                              /\ Fn(p).locals[i].depth \in Int
<1>1. Fn(p).locals \in Seq(LocalSet)
  BY FineFn
<1>2. \A i \in 1 .. Len(Fn(p).locals) : Fn(p).locals[i] \in LocalSet
  BY <1>1
<1>. QED
  BY <1>1, <1>2 DEF LocalSet

(* A scope ends: its locals are the last ones and go, slot 0 stays.        *)
LEMMA EndScopeKeeps ==
  ASSUME NEW p, Fine(p), ScopesOK(Fn(p)), Settled(Fn(p)), Fn(p).depth >= 1, text \in Texts
  PROVE  /\ Within(p, EndScope(p)) /\ ScopesOK(Fn(EndScope(p))) /\ Settled(Fn(EndScope(p)))
         /\ Fn(EndScope(p)).depth = Fn(p).depth - 1
<1>1. PICK S : Sound(p, S)
  BY DEF Fine
<1>. DEFINE l == Fn(p).locals
            n == Len(l)
            d == Fn(p).depth - 1
            kept == CHOOSE m \in DOMAIN l :
                      /\ l[m].depth <= d /\ \A i \in m + 1 .. n : l[i].depth > d
<1>2. /\ Fn(p) \in FnSet(S) /\ Fn(p).depth \in Nat /\ d \in Nat /\ Fn(p).depth = d + 1
      /\ n \in Nat /\ l \in Seq(LocalSet)
  BY <1>1, FnIs, FineFn
<1>3. \A i \in 1 .. n : l[i] \in LocalSet /\ l[i].depth \in Int
  BY LocalsTyped
<1>4. n \in 1 .. SlotsMax /\ l[1].depth = 0 /\ n >= 1
  BY <1>2 DEF ScopesOK
<1>5. \A i \in 1 .. n : l[i].depth \in -1 .. d + 1 /\ l[i].depth # -1
  BY <1>2 DEF ScopesOK, Settled
<1>6. \A i \in 1 .. n : \A j \in i + 1 .. n : l[i].depth <= l[j].depth
  BY <1>2, <1>5 DEF ScopesOK
<1>7. DOMAIN l = 1 .. n
  BY <1>2
<1>. HIDE DEF n, d, l
<1>8. /\ kept \in 1 .. n /\ l[kept].depth <= d /\ \A i \in kept + 1 .. n : l[i].depth > d
  <2>. DEFINE T == {m \in 1 .. n : l[m].depth <= d}
  <2>1. 1 \in T /\ T \in SUBSET (0 .. n)
    BY <1>2, <1>4
  <2>2. PICK m \in T : \A i \in T : i <= m
    BY <1>2, <2>1, GreatestOf
  <2>3. \A i \in m + 1 .. n : l[i].depth > d
    <3>. SUFFICES ASSUME NEW i \in m + 1 .. n
                  PROVE  l[i].depth > d
      OBVIOUS
    <3>1. i \in 1 .. n /\ ~(i <= m)
      BY <1>2
    <3>2. i \notin T
      BY <2>2, <3>1
    <3>3. l[i].depth \in Int /\ ~(l[i].depth <= d)
      BY <1>3, <3>1, <3>2
    <3>. QED
      BY <1>2, <3>3
  <2>4. m \in DOMAIN l /\ l[m].depth <= d
    BY <1>7
  <2>5. kept \in DOMAIN l /\ l[kept].depth <= d /\ \A i \in kept + 1 .. n : l[i].depth > d
    BY <2>3, <2>4
  <2>. QED
    BY <1>7, <2>5
<1>. HIDE DEF kept
<1>. DEFINE m == SubSeq(l, 1, kept)
            f == [Fn(p) EXCEPT !.depth = d, !.locals = m]
            b == [i \in 1 .. n - kept |-> Opcode["POP"]]
<1>9. /\ m \in Seq(LocalSet) /\ Len(m) = kept /\ \A i \in 1 .. kept : m[i] = l[i]
  <2>1. \A i \in 1 .. kept : l[i] \in LocalSet
    BY <1>2, <1>3, <1>8
  <2>2. /\ SubSeq(l, 1, kept) \in Seq(LocalSet)
        /\ Len(SubSeq(l, 1, kept)) = IF 1 <= kept THEN kept - 1 + 1 ELSE 0
        /\ \A i \in 1 .. kept - 1 + 1 : SubSeq(l, 1, kept)[i] = l[1 + i - 1]
    BY <1>8, <2>1, SubSeqProperties
  <2>3. kept \in Nat /\ 1 <= kept /\ kept - 1 + 1 = kept /\ \A i \in 1 .. kept : 1 + i - 1 = i
    BY <1>8
  <2>. QED
    BY <2>2, <2>3
<1>. HIDE DEF m
<1>10. f \in FnSet(S) /\ f.code = Fn(p).code /\ f.depth = d /\ f.locals = m
  BY <1>2, <1>9 DEF FnSet
<1>11. b \in Seq(Bytes)
  <2>1. n - kept \in Nat
    BY <1>2, <1>8
  <2>2. Opcode["POP"] \in Bytes
    BY OpcodeIsByte DEF Emitted
  <2>. QED
    BY <2>1, <2>2
<1>. HIDE DEF f, b
<1>12. ScopesOK(f) /\ Settled(f)
  <2>1. \A i \in 1 .. kept : i \in 1 .. n /\ (i = kept \/ kept \in i + 1 .. n)
    BY <1>2, <1>8
  <2>2. ASSUME NEW i \in 1 .. kept
        PROVE  l[i].depth \in -1 .. d /\ l[i].depth # -1
    <3>1. i \in 1 .. n /\ l[i].depth \in Int /\ l[kept].depth \in Int
      BY <1>3, <1>8, <2>1
    <3>2. l[i].depth <= l[kept].depth
      BY <1>6, <2>1, <3>1
    <3>. QED
      BY <1>2, <1>5, <1>8, <3>1, <3>2
  <2>3. ASSUME NEW i \in 1 .. kept, NEW j \in i + 1 .. kept
        PROVE  l[i].depth # -1 /\ l[i].depth <= l[j].depth
    <3>1. i \in 1 .. n /\ j \in i + 1 .. n
      BY <1>2, <1>8
    <3>. QED
      BY <1>6, <2>2, <3>1
  <2>4. Settled(f)
    BY <1>9, <1>10, <2>2 DEF Settled
  <2>5. /\ kept \in 1 .. SlotsMax /\ l[1].depth = 0 /\ 1 \in 1 .. kept
    BY <1>2, <1>4, <1>8, ByteAssumption DEF SlotsMax
  <2>6. \A i \in 1 .. kept : \A j \in i + 1 .. kept : i \in 1 .. kept /\ j \in 1 .. kept
    BY <1>8
  <2>. QED
    BY <1>9, <1>10, <2>2, <2>3, <2>4, <2>5, <2>6 DEF ScopesOK
<1>. DEFINE q == WithFn(p, f)
<1>13. Within(p, q) /\ Fn(q) = f
  BY <1>1, <1>10, WithinWith
<1>14. EndScope(p) = Emit(q, b)
  BY DEF EndScope, b, f, m, kept, d, n, l
<1>. HIDE DEF q
<1>15. Same(q, Emit(q, b), {}) /\ Fine(q)
  BY <1>11, <1>13, HelpersKeep DEF Within
<1>. DEFINE r == Emit(q, b)
<1>. HIDE DEF r
<1>16. Same(q, r, {})
  BY <1>15 DEF r
<1>17. Within(q, r) /\ Fn(r).depth = d /\ ScopesOK(Fn(r)) /\ Settled(Fn(r))
  BY <1>10, <1>12, <1>13, <1>15, <1>16, SameIsWithin
<1>18. Within(p, r)
  BY <1>13, <1>17, WithinTrans
<1>. QED
  BY <1>14, <1>17, <1>18 DEF r, d

(* A scope in which a local is declared has one, besides slot 0.           *)
Roomy(p) == ScopeDepth(p) # 0 => Len(Fn(p).locals) >= 2

(* The local that waits, if any, is now of the depth of its scope.         *)
LEMMA MarkInitializedKeeps ==
  ASSUME NEW p, Fine(p), ScopesOK(Fn(p)), Roomy(p)
  PROVE  /\ Within(p, MarkInitialized(p)) /\ Fn(MarkInitialized(p)).depth = Fn(p).depth
         /\ ScopesOK(Fn(MarkInitialized(p))) /\ Settled(Fn(MarkInitialized(p)))
         /\ Len(Fn(MarkInitialized(p)).locals) = Len(Fn(p).locals)
<1>1. CASE ScopeDepth(p) = 0
  <2>1. MarkInitialized(p) = p
    BY <1>1 DEF MarkInitialized
  <2>2. ~Joined \/ ~(Fn(p).depth > 0)
    BY <1>1, FineFn DEF ScopeDepth
  <2>3. Settled(Fn(p))
    BY <2>2 DEF ScopesOK
  <2>. QED
    BY <2>1, <2>3, SameSelf, SameIsWithin
<1>2. CASE ScopeDepth(p) # 0
  <2>1. PICK S : Sound(p, S)
    BY DEF Fine
  <2>. DEFINE l == Fn(p).locals
              n == Len(l)
              d == Fn(p).depth
              x == [l[n] EXCEPT !.depth = d]
              m == [l EXCEPT ![n] = x]
              f == [Fn(p) EXCEPT !.locals = m]
  <2>2. /\ Fn(p) \in FnSet(S) /\ d \in Nat /\ l \in Seq(LocalSet) /\ n \in 1 .. n /\ n >= 2
        /\ n \in 1 .. SlotsMax /\ l[1].depth = 0 /\ n \in Nat
    BY <1>2, <2>1, FnIs, FineFn DEF ScopesOK, Roomy
  <2>3. /\ \A i \in 1 .. n : l[i] \in LocalSet /\ l[i].depth \in Int
        /\ \A i \in 1 .. n : l[i].depth \in -1 .. d
        /\ \A i \in 1 .. n : \A j \in i + 1 .. n :
             l[i].depth # -1 /\ (l[j].depth # -1 => l[i].depth <= l[j].depth)
    BY LocalsTyped DEF ScopesOK
  <2>. HIDE DEF d, l
  <2>4. x \in LocalSet /\ x.depth = d
    <3>1. l[n] \in LocalSet /\ d \in Int
      BY <2>2, <2>3
    <3>. HIDE DEF n
    <3>. QED
      BY <3>1 DEF LocalSet
  <2>5. MarkInitialized(p) = WithFn(p, f)
    <3>1. [Fn(p) EXCEPT !.locals[Len(Fn(p).locals)].depth = Fn(p).depth] = f
      BY <2>2 DEF FnSet, d, l
    <3>. QED
      BY <1>2, <3>1 DEF MarkInitialized
  <2>. HIDE DEF x
  <2>6. /\ m \in Seq(LocalSet) /\ Len(m) = n
        /\ \A i \in 1 .. n : m[i] = IF i = n THEN x ELSE l[i]
    BY <2>2, <2>4, ExceptSeq
  <2>. HIDE DEF m
  <2>7. f \in FnSet(S) /\ f.code = Fn(p).code /\ f.depth = d /\ f.locals = m
    BY <2>2, <2>6 DEF FnSet, d
  <2>. HIDE DEF f, n
  <2>8. \A i \in 1 .. n : m[i].depth \in 0 .. d
    <3>. SUFFICES ASSUME NEW i \in 1 .. n
                  PROVE  m[i].depth \in 0 .. d
      OBVIOUS
    <3>1. CASE i = n
      BY <2>2, <2>4, <2>6, <3>1
    <3>2. CASE i # n
      <4>1. n \in i + 1 .. n
        BY <2>2, <3>2
      <4>2. l[i].depth # -1 /\ l[i].depth \in -1 .. d
        BY <2>3, <4>1
      <4>. QED
        BY <2>2, <2>6, <3>2, <4>2
    <3>. QED
      BY <3>1, <3>2
  <2>9. \A i \in 1 .. n : \A j \in i + 1 .. n : m[i].depth <= m[j].depth
    <3>. SUFFICES ASSUME NEW i \in 1 .. n, NEW j \in i + 1 .. n
                  PROVE  m[i].depth <= m[j].depth
      OBVIOUS
    <3>1. i # n /\ j \in 1 .. n /\ n \in i + 1 .. n
      BY <2>2
    <3>2. m[i] = l[i] /\ m[i].depth \in 0 .. d
      BY <2>6, <2>8, <3>1
    <3>3. CASE j = n
      BY <2>2, <2>4, <2>6, <3>2, <3>3
    <3>4. CASE j # n
      <4>1. m[j] = l[j] /\ m[j].depth \in 0 .. d
        BY <2>6, <2>8, <3>1, <3>4
      <4>2. l[j].depth # -1
        BY <2>2, <4>1
      <4>. QED
        BY <2>3, <3>2, <4>1, <4>2
    <3>. QED
      BY <3>3, <3>4
  <2>10. m[1].depth = 0
    <3>1. 1 # n /\ 1 \in 1 .. n
      BY <2>2
    <3>. QED
      BY <2>2, <2>6, <3>1
  <2>11. /\ \A i \in 1 .. n : m[i].depth # -1 /\ m[i].depth \in -1 .. d
    BY <2>2, <2>8
  <2>12. Settled(f)
    BY <2>6, <2>7, <2>11 DEF Settled
  <2>13. ScopesOK(f)
    BY <2>2, <2>6, <2>7, <2>9, <2>10, <2>11, <2>12 DEF ScopesOK
  <2>14. Within(p, WithFn(p, f)) /\ Fn(WithFn(p, f)) = f
    BY <2>1, <2>7, WithinWith
  <2>15. Len(f.locals) = Len(Fn(p).locals)
    BY <2>6, <2>7 DEF n, l
  <2>. QED
    BY <2>5, <2>7, <2>12, <2>13, <2>14, <2>15 DEF d
<1>. QED
  BY <1>1, <1>2

(* A local is added that waits for its initializer, if a slot is left.     *)
LEMMA AddLocalKeeps ==
  ASSUME NEW p, Fine(p), ScopesOK(Fn(p)), Settled(Fn(p)), ScopeDepth(p) # 0,
         NEW name \in NamesRead, text \in Texts
  PROVE  /\ Within(p, AddLocal(p, name)) /\ Fn(AddLocal(p, name)).depth = Fn(p).depth
         /\ ScopesOK(Fn(AddLocal(p, name))) /\ Len(Fn(AddLocal(p, name)).locals) >= 2
<1>1. PICK S : Sound(p, S)
  BY DEF Fine
<1>. DEFINE l == Fn(p).locals
            n == Len(l)
            d == Fn(p).depth
            x == Local(name, -1)
            m == Append(l, x)
            f == [Fn(p) EXCEPT !.locals = m]
<1>2. Locals(p) = l /\ Joined /\ d > 0
  <2>1. d \in Nat
    BY FineFn
  <2>. QED
    BY <2>1 DEF Locals, ScopeDepth
<1>3. /\ Fn(p) \in FnSet(S) /\ d \in Nat /\ l \in Seq(LocalSet) /\ n \in Nat
      /\ n \in 1 .. SlotsMax /\ l[1].depth = 0 /\ SlotsMax >= 2 /\ SlotsMax \in Nat
  <2>1. Fn(p) \in FnSet(S) /\ d \in Nat /\ l \in Seq(LocalSet) /\ n \in Nat
    BY <1>1, FnIs, FineFn
  <2>2. n \in 1 .. SlotsMax /\ l[1].depth = 0
    BY DEF ScopesOK
  <2>3. ByteMax \in 0 .. 255 /\ ByteMax # 0
    BY ByteAssumption, CompilerAssumption
  <2>4. SlotsMax >= 2 /\ SlotsMax \in Nat
    BY <2>3 DEF SlotsMax
  <2>. QED
    BY <2>1, <2>2, <2>4
<1>4. /\ \A i \in 1 .. n : l[i].depth \in -1 .. d /\ l[i].depth # -1
      /\ \A i \in 1 .. n : \A j \in i + 1 .. n : l[i].depth <= l[j].depth
  <2>1. \A i \in 1 .. n : l[i].depth \in -1 .. d /\ l[i].depth # -1
    BY DEF ScopesOK, Settled
  <2>2. \A i \in 1 .. n : \A j \in i + 1 .. n : j \in 1 .. n
    BY <1>3
  <2>. QED
    BY <2>1, <2>2 DEF ScopesOK
<1>5. x \in LocalSet /\ x.depth = -1
  BY DEF Local, LocalSet
<1>. HIDE DEF l, d, x
<1>6. /\ m \in Seq(LocalSet) /\ Len(m) = n + 1 /\ m[n + 1] = x
      /\ \A i \in 1 .. n : m[i] = l[i]
  BY <1>3, <1>5, AppendProperties
<1>. HIDE DEF m
<1>7. f \in FnSet(S) /\ f.code = Fn(p).code /\ f.depth = d /\ f.locals = m
  BY <1>3, <1>6 DEF FnSet, d
<1>. HIDE DEF f, n
<1>8. CASE n = SlotsMax
  <2>1. AddLocal(p, name) = ErrorAt(p)
    BY <1>2, <1>8 DEF AddLocal, n
  <2>2. Same(p, ErrorAt(p), {})
    BY HelpersKeep
  <2>3. /\ Within(p, ErrorAt(p)) /\ Fn(ErrorAt(p)).depth = Fn(p).depth
        /\ Fn(ErrorAt(p)).locals = Fn(p).locals /\ ScopesOK(Fn(ErrorAt(p)))
    BY <2>2, SameIsWithin
  <2>. QED
    BY <1>3, <1>8, <2>1, <2>3 DEF n, l
<1>9. CASE n # SlotsMax
  <2>1. AddLocal(p, name) = WithFn(p, f)
    BY <1>2, <1>9 DEF AddLocal, f, m, x, l, n
  <2>2. Within(p, WithFn(p, f)) /\ Fn(WithFn(p, f)) = f
    BY <1>1, <1>7, WithinWith
  <2>3. \A i \in 1 .. n + 1 : i \in 1 .. n \/ i = n + 1
    BY <1>3
  <2>4. \A i \in 1 .. n + 1 : m[i].depth \in -1 .. d
    <3>1. -1 \in -1 .. d
      BY <1>3
    <3>. QED
      BY <1>4, <1>5, <1>6, <2>3, <3>1
  <2>5. \A i \in 1 .. n + 1 : \A j \in i + 1 .. n + 1 :
          m[i].depth # -1 /\ (m[j].depth # -1 => m[i].depth <= m[j].depth)
    <3>. SUFFICES ASSUME NEW i \in 1 .. n + 1, NEW j \in i + 1 .. n + 1
                  PROVE  m[i].depth # -1 /\ (m[j].depth # -1 => m[i].depth <= m[j].depth)
      OBVIOUS
    <3>1. i \in 1 .. n /\ (j = n + 1 \/ (j \in i + 1 .. n /\ j \in 1 .. n))
      BY <1>3
    <3>. QED
      BY <1>4, <1>5, <1>6, <3>1
  <2>6. n + 1 \in 1 .. SlotsMax /\ n + 1 >= 2 /\ 1 \in 1 .. n
    BY <1>3, <1>9
  <2>7. ScopesOK(f)
    BY <1>2, <1>3, <1>6, <1>7, <2>4, <2>5, <2>6 DEF ScopesOK
  <2>. QED
    BY <1>6, <1>7, <2>1, <2>2, <2>6, <2>7 DEF d
<1>. QED
  BY <1>8, <1>9

(* The scope asked is that of the function being compiled, or none.        *)
LEMMA ScopeDepthSame ==
  ASSUME NEW p, NEW q, Fn(q).depth = Fn(p).depth
  PROVE  ScopeDepth(q) = ScopeDepth(p)
BY DEF ScopeDepth

(* parse_variable declares a local in a scope, a constant elsewhere.       *)
LEMMA ParseVariableKeeps ==
  ASSUME NEW p, Fine(p), ScopesOK(Fn(p)), Settled(Fn(p)), text \in Texts
  PROVE  /\ Within(p, ParseVariable(p)) /\ Fn(ParseVariable(p)).depth = Fn(p).depth
         /\ ScopesOK(Fn(ParseVariable(p))) /\ Roomy(ParseVariable(p))
<1>. DEFINE q == Consume(p, "IDENT")
            r == DeclareVariable(q)
            s == ParseVariable(p)
<1>1. Same(p, q, {})
  BY HelpersKeep
<1>2. /\ Within(p, q) /\ Fn(q).depth = Fn(p).depth /\ ScopesOK(Fn(q)) /\ Settled(Fn(q)) /\ Fine(q)
  BY <1>1, SameIsWithin DEF Same
<1>. HIDE DEF q
<1>3. /\ Within(q, r) /\ Fn(r).depth = Fn(q).depth /\ ScopesOK(Fn(r)) /\ Roomy(r)
  <2>1. CASE ScopeDepth(q) = 0
    <3>1. r = q
      BY <2>1 DEF DeclareVariable
    <3>. QED
      BY <1>2, <2>1, <3>1, SameSelf, SameIsWithin DEF Roomy
  <2>2. CASE ScopeDepth(q) # 0
    <3>. DEFINE e == IF Redeclares(q, q.previous.text) THEN ErrorAt(q) ELSE q
    <3>1. Same(q, e, {}) /\ e.previous = q.previous
      BY <1>2, HelpersKeep, SameSelf
    <3>2. r = AddLocal(e, q.previous.text)
      BY <2>2 DEF DeclareVariable
    <3>. HIDE DEF e, r
    <3>3. /\ Within(q, e) /\ Fn(e).depth = Fn(q).depth /\ ScopesOK(Fn(e)) /\ Settled(Fn(e))
          /\ Fine(e)
      BY <1>2, <3>1, SameIsWithin DEF Same
    <3>4. ScopeDepth(e) # 0
      BY <2>2, <3>3, ScopeDepthSame
    <3>5. q.previous.text \in NamesRead
      BY <1>2, FineFn DEF NamesRead
    <3>6. Within(e, r) /\ Fn(r).depth = Fn(e).depth /\ ScopesOK(Fn(r)) /\ Len(Fn(r).locals) >= 2
      BY <3>2, <3>3, <3>4, <3>5, AddLocalKeeps
    <3>7. Within(q, r)
      BY <1>2, <3>3, <3>6, WithinTrans
    <3>. QED
      BY <3>3, <3>6, <3>7 DEF Roomy
  <2>. QED
    BY <2>1, <2>2
<1>. HIDE DEF r
<1>4. Fine(r)
  BY <1>3 DEF Within
<1>5. Same(r, s, {})
  <2>1. s = r \/ s = AddConstant(r, Str(r.previous.text))
    BY DEF ParseVariable, r, q
  <2>. QED
    BY <1>4, <2>1, HelpersKeep, SameSelf
<1>. HIDE DEF s
<1>6. Within(r, s) /\ Fn(s).depth = Fn(r).depth /\ Fn(s).locals = Fn(r).locals /\ ScopesOK(Fn(s))
  BY <1>3, <1>4, <1>5, SameIsWithin
<1>7. ScopeDepth(s) = ScopeDepth(r)
  BY <1>6, ScopeDepthSame
<1>8. Roomy(s)
  BY <1>3, <1>6, <1>7 DEF Roomy
<1>9. Within(p, s)
  BY <1>2, <1>3, <1>6, WithinTrans
<1>. QED
  BY <1>2, <1>3, <1>6, <1>8, <1>9 DEF s

(* What parse_variable returns is a byte.                                  *)
LEMMA VariableIdIsByte ==
  ASSUME NEW p, Fine(p), text \in Texts
  PROVE  VariableId(p) \in Bytes
<1>1. 0 \in Bytes /\ ConstantId(p) \in Bytes
  BY HelpersKeep DEF Bytes
<1>. QED
  BY <1>1 DEF VariableId

(* define_variable ends the wait of a local or emits the definition.       *)
LEMMA DefineGlobalKeeps ==
  ASSUME NEW p, Fine(p), ScopesOK(Fn(p)), Roomy(p), NEW global \in Bytes, text \in Texts
  PROVE  /\ Within(p, DefineGlobal(p, global))
         /\ Fn(DefineGlobal(p, global)).depth = Fn(p).depth
         /\ ScopesOK(Fn(DefineGlobal(p, global))) /\ Settled(Fn(DefineGlobal(p, global)))
<1>1. CASE ScopeDepth(p) > 0
  BY <1>1, MarkInitializedKeeps DEF DefineGlobal
<1>2. CASE ~(ScopeDepth(p) > 0)
  <2>1. DefineGlobal(p, global) = Emit(p, <<Opcode["DEFINE_GLOBAL"], global>>)
    BY <1>2 DEF DefineGlobal
  <2>2. <<Opcode["DEFINE_GLOBAL"], global>> \in Seq(Bytes)
    BY OpcodeIsByte DEF Emitted
  <2>3. Same(p, DefineGlobal(p, global), {})
    BY <2>1, <2>2, HelpersKeep
  <2>4. ~Joined \/ ~(Fn(p).depth > 0)
    BY <1>2, FineFn DEF ScopeDepth
  <2>5. Settled(Fn(p))
    BY <2>4 DEF ScopesOK
  <2>. QED
    BY <2>3, <2>5, SameIsWithin
<1>. QED
  BY <1>1, <1>2

(* The local a name means has a slot.                                      *)
LEMMA ResolveIsSlot ==
  ASSUME NEW p, Fine(p), NEW name, Named(p, name) # {}
  PROVE  Resolve(p, name) \in Nat /\ (Resolve(p, name) - 1) % (ByteMax + 1) \in Bytes
<1>1. Locals(p) \in Seq(LocalSet)
  <2>1. None \in NamesRead
    <3>1. EOF \in Tokens
      BY DEF Tokens
    <3>2. EOF.text = None
      BY DEF EOF, Token
    <3>. QED
      BY <3>1, <3>2 DEF NamesRead
  <2>2. Local(None, 0) \in LocalSet
    BY <2>1 DEF Local, LocalSet
  <2>. QED
    BY <2>2, FineFn DEF Locals
<1>2. Len(Locals(p)) \in Nat /\ DOMAIN Locals(p) = 1 .. Len(Locals(p))
  BY <1>1
<1>3. Named(p, name) \in SUBSET (0 .. Len(Locals(p)))
  BY <1>2 DEF Named
<1>4. \E i \in Named(p, name) : \A j \in Named(p, name) : j <= i
  BY <1>2, <1>3, GreatestOf
<1>5. Resolve(p, name) \in Named(p, name)
  BY <1>4 DEF Resolve
<1>. DEFINE i == Resolve(p, name)
<1>6. i \in Nat
  BY <1>2, <1>3, <1>5
<1>. HIDE DEF i
<1>7. ByteMax \in Nat /\ ByteMax <= 255 /\ i - 1 \in Int
  BY <1>6, ByteAssumption
<1>8. (i - 1) % (ByteMax + 1) \in 0 .. ByteMax
  BY <1>7
<1>. DEFINE m == (i - 1) % (ByteMax + 1)
<1>9. m \in 0 .. ByteMax
  BY <1>8
<1>. HIDE DEF m
<1>10. m \in Bytes
  BY <1>7, <1>9 DEF Bytes
<1>. QED
  BY <1>6, <1>10 DEF i, m

-----------------------------------------------------------------------------
(* The actions.                                                            *)

(* The calls in progress, each with its locals.                            *)
BinaryTypes == {"MINUS", "PLUS", "SLASH", "STAR", "NE", "EQ", "GT", "GTEQ", "LT", "LTEQ"}
PrefixCalls == {"grouping", "unary", "variable", "string", "number", "literal"}
PlainCalls == {"compile", "script", "declaration", "declared", "synchronize", "statement",
  "expression_statement", "block", "end_scope", "var_declaration", "if_statement", "if_then",
  "while_statement", "for_statement", "for_condition", "func_declaration",
  "return_statement", "binary", "call"}

Calls ==
  [at : PlainCalls] \cup [at : {"precedence", "infix"}, prec : Nat]
  \cup [at : PrefixCalls, canAssign : BOOLEAN]
  \cup [at : {"finish"}, token : {None, "SEMICOLON", "R_PAREN"}, code : Seq(Bytes)]
  \cup [at : {"var_defined"} \cup InFunction, global : Bytes]
  \cup [at : {"if_else", "if_end"}, jump : Nat]
  \cup [at : {"while_body", "for_exit"}, start : Nat]
  \cup [at : {"loop_end", "for_increment"}, start : Nat, exit : Nat \cup {-1}]
  \cup [at : {"for_step"}, start : Nat, exit : Nat \cup {-1}, increment : Nat, jump : Nat]
  \cup [at : {"binary_end"}, type : BinaryTypes, left : {t.type : t \in Tokens}]
  \cup [at : {"arguments"}, count : 0 .. ByteMax]

(* the calls that end a scope when they return *)
Scoped == {"end_scope", "for_condition", "for_exit", "for_increment", "for_step"}

(* the calls of an expression, and those that run at once when made *)
Immediate == PrefixCalls \cup {"binary", "call"}
ExprCalls == Immediate \cup {"precedence", "infix", "finish", "binary_end", "arguments"}

(* An expression calls nothing else, nor does an initializer.              *)
TodoOK ==
  /\ todo \in Seq(Calls)
  /\ \A h \in 1 .. Len(todo) - 1 : CallAt(h).at \notin Immediate
  /\ \A h \in 1 .. Len(todo) : CallAt(h).at \in ExprCalls \cup {"var_defined"} =>
       \A g \in h + 1 .. Len(todo) : CallAt(g).at \in ExprCalls
  /\ At("literal") => parser.previous.type \in {"TRUE", "FALSE"}
  /\ At("binary") => parser.previous.type \in BinaryTypes

(* A function's depth is the number of the calls that will end a scope of  *)
(* it, and the scope of its parameters.                                    *)
Scopes(n) == {h \in 1 .. Len(todo) : CallAt(h).at \in Scoped /\ Owner(h) = n}

DepthsOK ==
  /\ Len(parser.fns) = 1 + Cardinality(FunctionCalls)
  /\ \A n \in 1 .. Len(parser.fns) :
       parser.fns[n].depth = Cardinality(Scopes(n)) + IF n = 1 THEN 0 ELSE 1

(* A local waits only while its initializer is compiled, and a function    *)
(* declared in a scope has its local there.                                *)
Pending == \E h \in 1 .. Len(todo) : CallAt(h).at = "var_defined"
LocalsOK ==
  /\ \A n \in 1 .. Len(parser.fns) : ScopesOK(parser.fns[n])
  /\ \A n \in 1 .. Len(parser.fns) - 1 :
       /\ Settled(parser.fns[n])
       /\ Joined /\ parser.fns[n].depth > 0 => Len(parser.fns[n].locals) >= 2
  /\ Settled(Fn(parser)) \/ Pending
  /\ Pending => Roomy(parser)

(* The exit of a for with an increment is before the jump over it.         *)
Ordered(c) == c.at = "for_step" /\ c.exit # -1 => c.exit + 1 < c.jump
JumpsOK ==
  \A h \in 1 .. Len(todo) :
    /\ Ordered(CallAt(h))
    /\ \A j \in Holds(CallAt(h)) :
         /\ Open(parser.fns[Owner(h)], j)
         /\ \A g \in h + 1 .. Len(todo) : Owner(g) = Owner(h) =>
              \A i \in Holds(CallAt(g)) : i > j + 1

CompilerInv ==
  /\ text \in Texts
  /\ Fine(parser)
  /\ TodoOK /\ DepthsOK /\ LocalsOK /\ JumpsOK
-----------------------------------------------------------------------------
(* What each call holds.                                                   *)

(* Most calls hold no jump.                                                *)
LEMMA HoldsNothing ==
  ASSUME NEW c \in Calls,
         c.at \notin {"if_else", "if_end", "loop_end", "for_increment", "for_step"}
  PROVE  Holds(c) = {}
<1>1. DOMAIN c \cap {"jump", "exit"} = {}
  <2>1. CASE c \in [at : PlainCalls]
    BY <2>1
  <2>2. CASE c \in [at : {"precedence", "infix"}, prec : Nat]
    BY <2>2
  <2>3. CASE c \in [at : PrefixCalls, canAssign : BOOLEAN]
    BY <2>3
  <2>4. CASE c \in [at : {"finish"}, token : {None, "SEMICOLON", "R_PAREN"}, code : Seq(Bytes)]
    BY <2>4
  <2>5. CASE c \in [at : {"var_defined"} \cup InFunction, global : Bytes]
    BY <2>5
  <2>6. CASE c \in [at : {"while_body", "for_exit"}, start : Nat]
    BY <2>6
  <2>7. CASE c \in [at : {"binary_end"}, type : BinaryTypes, left : {t.type : t \in Tokens}]
    BY <2>7
  <2>8. CASE c \in [at : {"arguments"}, count : 0 .. ByteMax]
    BY <2>8
  <2>. QED
    BY <2>1, <2>2, <2>3, <2>4, <2>5, <2>6, <2>7, <2>8 DEF Calls
<1>. QED
  BY <1>1 DEF Holds

(* if holds the jump over its branch.                                      *)
LEMMA HoldsJump ==
  ASSUME NEW c \in Calls, c.at \in {"if_else", "if_end"}
  PROVE  Holds(c) = {c.jump} /\ c.jump \in Nat
<1>1. c \in [at : {"if_else", "if_end"}, jump : Nat]
  BY DEF Calls, PlainCalls, PrefixCalls, InFunction
<1>2. {"jump", "exit"} \cap DOMAIN c = {"jump"} /\ c.jump \in Nat
  BY <1>1
<1>3. {c[r] : r \in {"jump", "exit"} \cap DOMAIN c} = {c["jump"]}
  BY <1>2
<1>. QED
  BY <1>2, <1>3 DEF Holds

(* A loop holds its exit, unless it is a for without a condition.          *)
LEMMA HoldsExit ==
  ASSUME NEW c \in Calls, c.at \in {"loop_end", "for_increment"}
  PROVE  Holds(c) = {c.exit} \ {-1} /\ c.exit \in Nat \cup {-1} /\ c.start \in Nat
<1>1. c \in [at : {"loop_end", "for_increment"}, start : Nat, exit : Nat \cup {-1}]
  BY DEF Calls, PlainCalls, PrefixCalls, InFunction
<1>2. /\ {"jump", "exit"} \cap DOMAIN c = {"exit"} /\ c.exit \in Nat \cup {-1}
      /\ c.start \in Nat
  BY <1>1
<1>3. {c[r] : r \in {"jump", "exit"} \cap DOMAIN c} = {c["exit"]}
  BY <1>2
<1>. QED
  BY <1>2, <1>3 DEF Holds

(* The increment of a for holds the exit and the jump over itself.         *)
LEMMA HoldsStep ==
  ASSUME NEW c \in Calls, c.at = "for_step"
  PROVE  /\ Holds(c) = {c.exit, c.jump} \ {-1} /\ c.exit \in Nat \cup {-1} /\ c.jump \in Nat
         /\ c.start \in Nat /\ c.increment \in Nat
<1>1. c \in [at : {"for_step"}, start : Nat, exit : Nat \cup {-1}, increment : Nat, jump : Nat]
  BY DEF Calls, PlainCalls, PrefixCalls, InFunction
<1>2. /\ {"jump", "exit"} \cap DOMAIN c = {"jump", "exit"} /\ c.exit \in Nat \cup {-1}
      /\ c.jump \in Nat /\ c.start \in Nat /\ c.increment \in Nat
  BY <1>1
<1>3. {c[r] : r \in {"jump", "exit"} \cap DOMAIN c} = {c["exit"], c["jump"]}
  BY <1>2
<1>. QED
  BY <1>2, <1>3 DEF Holds

(* Every jump held is an index of code.                                    *)
LEMMA HeldAreInts ==
  ASSUME NEW c \in Calls
  PROVE  \A j \in Holds(c) : j \in Nat
BY HoldsNothing, HoldsJump, HoldsExit, HoldsStep
-----------------------------------------------------------------------------
(* The stack of calls.                                                     *)

(* The call on top, and what is left of it below its new calls.            *)
LEMMA ThenCalls ==
  ASSUME todo \in Seq(Calls), todo # << >>, NEW q, NEW calls \in Seq(Calls), Then(q, calls)
  PROVE  /\ Len(todo) \in Nat /\ Len(todo) >= 1 /\ Len(calls) \in Nat
         /\ todo' \in Seq(Calls) /\ Len(todo') = Len(todo) - 1 + Len(calls)
         /\ Top = CallAt(Len(todo)) /\ Top \in Calls
         /\ \A h \in 1 .. Len(todo) - 1 : CallAt(h)' = CallAt(h)
         /\ \A k \in 1 .. Len(calls) : \A h : h = Len(todo) - 1 + k =>
              CallAt(h)' = calls[Len(calls) + 1 - k]
         /\ \A h \in 1 .. Len(todo) : CallAt(h) \in Calls
         /\ \A h \in 1 .. Len(todo') : CallAt(h)' \in Calls
         /\ parser' = q /\ text' = text
<1>. DEFINE L == Len(todo)  K == Len(calls)  T == Tail(todo)  M == Len(todo')
<1>1. L \in Nat /\ L >= 1 /\ K \in Nat
  BY EmptySeq, LenProperties
<1>2. /\ Head(todo) \in Calls /\ T \in Seq(Calls) /\ Len(T) = L - 1
      /\ \A i \in 1 .. L - 1 : T[i] = todo[i + 1]
  BY HeadTailProperties
<1>3. Head(todo) = todo[1]
  OBVIOUS
<1>4. todo' = calls \o T /\ parser' = q /\ text' = text
  BY DEF Then
<1>5. /\ todo' \in Seq(Calls) /\ M = K + (L - 1)
      /\ \A i \in 1 .. K + (L - 1) : todo'[i] = IF i <= K THEN calls[i] ELSE T[i - K]
  BY <1>2, <1>4, ConcatProperties
<1>. HIDE DEF L, K, T, M
<1>6. \A h \in 1 .. L - 1 : todo'[M + 1 - h] = todo[L + 1 - h]
  <2>. SUFFICES ASSUME NEW h \in 1 .. L - 1
                PROVE  todo'[M + 1 - h] = todo[L + 1 - h]
    OBVIOUS
  <2>. DEFINE i == M + 1 - h  e == L - h
  <2>1. /\ i \in 1 .. K + (L - 1) /\ ~(i <= K) /\ i - K = e /\ e \in 1 .. L - 1
        /\ e + 1 = L + 1 - h
    BY <1>1, <1>5
  <2>. HIDE DEF i, e
  <2>2. todo'[i] = T[e] /\ T[e] = todo[e + 1]
    BY <1>2, <1>5, <2>1
  <2>. QED
    BY <2>1, <2>2 DEF i
<1>7. \A k \in 1 .. K : \A h : h = L - 1 + k => todo'[M + 1 - h] = calls[K + 1 - k]
  <2>. SUFFICES ASSUME NEW k \in 1 .. K, NEW h, h = L - 1 + k
                PROVE  todo'[M + 1 - h] = calls[K + 1 - k]
    OBVIOUS
  <2>. DEFINE i == M + 1 - h
  <2>1. i \in 1 .. K + (L - 1) /\ i <= K /\ i = K + 1 - k
    BY <1>1, <1>5
  <2>. HIDE DEF i
  <2>2. todo'[i] = calls[i]
    BY <1>5, <2>1
  <2>. QED
    BY <2>1, <2>2 DEF i
<1>8. Top = CallAt(L)
  <2>1. L + 1 - L = 1
    BY <1>1
  <2>. QED
    BY <1>3, <2>1 DEF Top, CallAt, L
<1>9. \A h \in 1 .. L : todo[L + 1 - h] \in Calls
  <2>1. \A h \in 1 .. L : L + 1 - h \in 1 .. L
    BY <1>1
  <2>2. \A i \in 1 .. L : todo[i] \in Calls
    BY DEF L
  <2>. QED
    BY <2>1, <2>2
<1>10. \A h \in 1 .. M : todo'[M + 1 - h] \in Calls
  <2>1. \A h \in 1 .. M : M + 1 - h \in 1 .. M
    BY <1>1, <1>5
  <2>2. \A i \in 1 .. M : todo'[i] \in Calls
    BY <1>5 DEF M
  <2>. QED
    BY <2>1, <2>2
<1>11. M = L - 1 + K
  BY <1>1, <1>5
<1>12. \A h : CallAt(h) = todo[L + 1 - h] /\ CallAt(h)' = todo'[M + 1 - h]
  BY DEF CallAt, L, M
<1>13. \A h \in 1 .. L - 1 : CallAt(h)' = CallAt(h)
  BY <1>6, <1>12
<1>14. \A k \in 1 .. K : \A h : h = L - 1 + k => CallAt(h)' = calls[K + 1 - k]
  BY <1>7, <1>12
<1>15. \A h \in 1 .. L : CallAt(h) \in Calls
  BY <1>9, <1>12
<1>16. \A h \in 1 .. M : CallAt(h)' \in Calls
  BY <1>10, <1>12
<1>17. Top \in Calls
  BY <1>2 DEF Top
<1>. QED
  BY <1>1, <1>4, <1>5, <1>8, <1>11, <1>13, <1>14, <1>15, <1>16, <1>17 DEF L, K, M

EndsIn(calls, set) == calls # << >> /\ calls[Len(calls)].at \in set

(* The heights after the step: those below the top, and the new calls.     *)
LEMMA NewHeights ==
  ASSUME todo \in Seq(Calls), todo # << >>, NEW q, NEW calls \in Seq(Calls), Then(q, calls),
         NEW h \in 1 .. Len(todo')
  PROVE  \/ h \in 1 .. Len(todo) - 1 /\ CallAt(h)' = CallAt(h)
         \/ /\ h >= Len(todo)
            /\ \E m \in 1 .. Len(calls) : /\ CallAt(h)' = calls[m]
                                          /\ h + m = Len(todo) + Len(calls)
<1>. DEFINE L == Len(todo)  K == Len(calls)
<1>1. /\ L \in Nat /\ L >= 1 /\ K \in Nat /\ h \in 1 .. L - 1 + K
      /\ \A g \in 1 .. L - 1 : CallAt(g)' = CallAt(g)
      /\ \A k \in 1 .. K : \A g : g = L - 1 + k => CallAt(g)' = calls[K + 1 - k]
  BY ThenCalls
<1>. HIDE DEF L, K
<1>2. CASE h \in 1 .. L - 1
  BY <1>1, <1>2 DEF L
<1>3. CASE ~(h \in 1 .. L - 1)
  <2>. DEFINE k == h - L + 1  m == K + 1 - k
  <2>1. k \in 1 .. K /\ h = L - 1 + k /\ m \in 1 .. K /\ h + m = L + K /\ h >= L
    BY <1>1, <1>3
  <2>2. CallAt(h)' = calls[m]
    BY <1>1, <2>1
  <2>. HIDE DEF k, m
  <2>. QED
    BY <2>1, <2>2 DEF L, K
<1>. QED
  BY <1>2, <1>3

(* The sets of calls are finite, so that their elements can be counted.    *)
LEMMA CallsFinite ==
  ASSUME todo \in Seq(Calls)
  PROVE  /\ IsFiniteSet(FunctionCalls) /\ Cardinality(FunctionCalls) \in Nat
         /\ FunctionCalls \subseteq 1 .. Len(todo) /\ Len(todo) \in Nat
         /\ \A h : Owner(h) \in 1 .. 1 + Cardinality(FunctionCalls)
         /\ \A n : IsFiniteSet(Scopes(n)) /\ Cardinality(Scopes(n)) \in Nat
<1>1. Len(todo) \in Nat
  OBVIOUS
<1>2. IsFiniteSet(1 .. Len(todo))
  BY <1>1, FS_Interval
<1>3. FunctionCalls \in SUBSET (1 .. Len(todo))
  BY DEF FunctionCalls
<1>4. IsFiniteSet(FunctionCalls)
  BY <1>2, <1>3, FS_Subset
<1>5. Cardinality(FunctionCalls) \in Nat
  BY <1>4, FS_CardinalityType
<1>6. ASSUME NEW h
      PROVE  Owner(h) \in 1 .. 1 + Cardinality(FunctionCalls)
  <2>. DEFINE T == {g \in FunctionCalls : g < h}
  <2>1. T \in SUBSET FunctionCalls
    OBVIOUS
  <2>. HIDE DEF T
  <2>2. IsFiniteSet(T) /\ Cardinality(T) <= Cardinality(FunctionCalls)
    BY <1>4, <2>1, FS_Subset
  <2>3. Cardinality(T) \in Nat
    BY <2>2, FS_CardinalityType
  <2>4. Owner(h) = 1 + Cardinality(T)
    BY DEF Owner, T
  <2>. QED
    BY <1>5, <2>2, <2>3, <2>4
<1>7. ASSUME NEW n
      PROVE  IsFiniteSet(Scopes(n)) /\ Cardinality(Scopes(n)) \in Nat
  <2>1. Scopes(n) \in SUBSET (1 .. Len(todo))
    BY DEF Scopes
  <2>. QED
    BY <1>2, <2>1, FS_Subset, FS_CardinalityType
<1>. QED
  BY <1>1, <1>3, <1>4, <1>5, <1>6, <1>7

(* A call below another one that compiles for a function, and the call on  *)
(* top.                                                                    *)
LEMMA OwnerBelow ==
  ASSUME todo \in Seq(Calls), NEW h \in Int, NEW g \in FunctionCalls, h <= g
  PROVE  Owner(h) <= Cardinality(FunctionCalls)
<1>. DEFINE T == {f \in FunctionCalls : f < h}
<1>1. IsFiniteSet(FunctionCalls) /\ Cardinality(FunctionCalls) \in Nat /\ g \in Int
  BY CallsFinite
<1>2. T \in SUBSET (FunctionCalls \ {g})
  BY <1>1
<1>. HIDE DEF T
<1>3. /\ IsFiniteSet(FunctionCalls \ {g})
      /\ Cardinality(FunctionCalls \ {g}) = Cardinality(FunctionCalls) - 1
  BY <1>1, FS_RemoveElement
<1>4. IsFiniteSet(T) /\ Cardinality(T) <= Cardinality(FunctionCalls \ {g})
  BY <1>2, <1>3, FS_Subset
<1>5. Cardinality(T) \in Nat
  BY <1>4, FS_CardinalityType
<1>6. Owner(h) = 1 + Cardinality(T)
  BY DEF Owner, T
<1>. QED
  BY <1>1, <1>3, <1>4, <1>5, <1>6

(* What is above every call of function() compiles for the last function.  *)
LEMMA OwnerOnTop ==
  ASSUME todo \in Seq(Calls), NEW h \in Int, \A g \in FunctionCalls : g < h
  PROVE  Owner(h) = 1 + Cardinality(FunctionCalls)
<1>1. {g \in FunctionCalls : g < h} = FunctionCalls
  OBVIOUS
<1>. QED
  BY <1>1 DEF Owner

(* A step within a function begins and ends none.                          *)
LEMMA SameFunctions ==
  ASSUME todo \in Seq(Calls), todo # << >>, NEW q, NEW calls \in Seq(Calls), Then(q, calls),
         \A k \in 1 .. Len(calls) - 1 : calls[k].at \notin InFunction,
         Top.at \in InFunction <=> EndsIn(calls, InFunction)
  PROVE  FunctionCalls' = FunctionCalls /\ \A h : Owner(h)' = Owner(h)
<1>. DEFINE L == Len(todo)  K == Len(calls)
<1>1. /\ L \in Nat /\ L >= 1 /\ K \in Nat /\ Len(todo') = L - 1 + K /\ Top = CallAt(L)
      /\ \A h \in 1 .. L - 1 : CallAt(h)' = CallAt(h)
  BY ThenCalls
<1>2. \A h \in 1 .. Len(todo') :
        \/ h \in 1 .. L - 1 /\ CallAt(h)' = CallAt(h)
        \/ h >= L /\ \E m \in 1 .. K : CallAt(h)' = calls[m] /\ h + m = L + K
  BY NewHeights
<1>. HIDE DEF L, K
<1>3. ASSUME NEW h
      PROVE  h \in FunctionCalls' <=> h \in FunctionCalls
  <2>1. FunctionCalls' = {g \in 1 .. Len(todo') : CallAt(g)'.at \in InFunction}
    BY DEF FunctionCalls
  <2>2. FunctionCalls = {g \in 1 .. L : CallAt(g).at \in InFunction}
    BY DEF FunctionCalls, L
  <2>3. CASE h \in 1 .. L - 1
    BY <1>1, <2>1, <2>2, <2>3
  <2>4. CASE h = L
    <3>1. L \in FunctionCalls <=> Top.at \in InFunction
      BY <1>1, <2>2
    <3>2. h \in FunctionCalls' <=> EndsIn(calls, InFunction)
      <4>1. CASE K = 0
        <5>1. calls = << >>
          BY <4>1 DEF K
        <5>2. ~(h \in 1 .. Len(todo'))
          BY <1>1, <2>4, <4>1
        <5>. QED
          BY <2>1, <5>1, <5>2 DEF EndsIn
      <4>2. CASE K # 0
        <5>1. h \in 1 .. Len(todo') /\ calls # << >> /\ ~(h \in 1 .. L - 1)
          BY <1>1, <2>4, <4>2 DEF K
        <5>2. PICK m \in 1 .. K : CallAt(h)' = calls[m] /\ h + m = L + K
          BY <1>2, <5>1
        <5>3. m = K
          BY <1>1, <2>4, <5>2
        <5>4. h \in FunctionCalls' <=> CallAt(h)'.at \in InFunction
          BY <2>1, <5>1
        <5>. QED
          BY <5>1, <5>2, <5>3, <5>4 DEF EndsIn, K
      <4>. QED
        BY <4>1, <4>2
    <3>. QED
      BY <2>4, <3>1, <3>2
  <2>5. CASE ~(h \in 1 .. L)
    <3>1. h \notin FunctionCalls
      BY <2>2, <2>5
    <3>2. ASSUME h \in FunctionCalls'
          PROVE  FALSE
      <4>1. h \in 1 .. Len(todo') /\ CallAt(h)'.at \in InFunction
        BY <2>1, <3>2
      <4>2. h # L /\ ~(h \in 1 .. L - 1)
        BY <1>1, <2>5
      <4>3. PICK m \in 1 .. K : CallAt(h)' = calls[m] /\ h + m = L + K /\ h >= L
        BY <1>2, <4>1, <4>2
      <4>4. m \in 1 .. K - 1
        BY <1>1, <4>1, <4>2, <4>3
      <4>. QED
        BY <4>1, <4>3, <4>4 DEF K
    <3>. QED
      BY <3>1, <3>2
  <2>. QED
    BY <1>1, <2>3, <2>4, <2>5
<1>4. FunctionCalls' = FunctionCalls
  BY <1>3
<1>5. \A h : Owner(h)' = 1 + Cardinality({g \in FunctionCalls' : g < h})
  BY DEF Owner
<1>. QED
  BY <1>4, <1>5 DEF Owner

(* The scopes of a function change on top of the stack only.               *)
LEMMA ScopesThen ==
  ASSUME todo \in Seq(Calls), todo # << >>, NEW q, NEW calls \in Seq(Calls), Then(q, calls),
         \A k \in 1 .. Len(calls) - 1 : calls[k].at \notin Scoped,
         \A h : Owner(h)' = Owner(h), NEW n
  PROVE  Cardinality(Scopes(n)') =
           Cardinality(Scopes(n))
             + (IF EndsIn(calls, Scoped) /\ Owner(Len(todo)) = n THEN 1 ELSE 0)
             - (IF Top.at \in Scoped /\ Owner(Len(todo)) = n THEN 1 ELSE 0)
<1>. DEFINE L == Len(todo)  K == Len(calls)
            Base == Scopes(n) \ {L}
<1>1. /\ L \in Nat /\ L >= 1 /\ K \in Nat /\ Len(todo') = L - 1 + K /\ Top = CallAt(L)
      /\ \A h \in 1 .. L - 1 : CallAt(h)' = CallAt(h)
  BY ThenCalls
<1>2. \A h \in 1 .. Len(todo') :
        \/ h \in 1 .. L - 1 /\ CallAt(h)' = CallAt(h)
        \/ h >= L /\ \E m \in 1 .. K : CallAt(h)' = calls[m] /\ h + m = L + K
  BY NewHeights
<1>3. Scopes(n)' = {h \in 1 .. Len(todo') : CallAt(h)'.at \in Scoped /\ Owner(h) = n}
  BY DEF Scopes
<1>4. Scopes(n) = {h \in 1 .. L : CallAt(h).at \in Scoped /\ Owner(h) = n}
  BY DEF Scopes
<1>5. L \in Scopes(n) <=> Top.at \in Scoped /\ Owner(L) = n
  BY <1>1, <1>4
<1>6. \A h : h \in Base <=> h \in 1 .. L - 1 /\ CallAt(h).at \in Scoped /\ Owner(h) = n
  <2>1. \A h : h \in 1 .. L /\ h # L <=> h \in 1 .. L - 1
    BY <1>1
  <2>. QED
    BY <1>4, <2>1
<1>. HIDE DEF L, K
<1>7. ASSUME NEW h
      PROVE  h \in Scopes(n)' <=>
               h \in Base \/ (h = L /\ EndsIn(calls, Scoped) /\ Owner(L) = n)
  <2>3. CASE h \in 1 .. L - 1
    <3>1. h \in 1 .. Len(todo') /\ h # L /\ CallAt(h)' = CallAt(h)
      BY <1>1, <2>3
    <3>. QED
      BY <1>3, <1>6, <2>3, <3>1
  <2>4. CASE h = L
    <3>1. h \notin Base
      BY <2>4
    <3>2. h \in Scopes(n)' <=> EndsIn(calls, Scoped) /\ Owner(L) = n
      <4>1. CASE K = 0
        <5>1. calls = << >>
          BY <4>1 DEF K
        <5>2. ~(h \in 1 .. Len(todo'))
          BY <1>1, <2>4, <4>1
        <5>. QED
          BY <1>3, <5>1, <5>2 DEF EndsIn
      <4>2. CASE K # 0
        <5>1. h \in 1 .. Len(todo') /\ calls # << >> /\ ~(h \in 1 .. L - 1)
          BY <1>1, <2>4, <4>2 DEF K
        <5>2. PICK m \in 1 .. K : CallAt(h)' = calls[m] /\ h + m = L + K
          BY <1>2, <5>1
        <5>3. m = K
          BY <1>1, <2>4, <5>2
        <5>4. h \in Scopes(n)' <=> CallAt(h)'.at \in Scoped /\ Owner(L) = n
          BY <1>3, <2>4, <5>1
        <5>. QED
          BY <5>1, <5>2, <5>3, <5>4 DEF EndsIn, K
      <4>. QED
        BY <4>1, <4>2
    <3>. QED
      BY <2>4, <3>1, <3>2
  <2>5. CASE ~(h \in 1 .. L)
    <3>1. h \notin Base /\ h # L
      BY <1>1, <1>6, <2>5
    <3>2. ASSUME h \in Scopes(n)'
          PROVE  FALSE
      <4>1. h \in 1 .. Len(todo') /\ CallAt(h)'.at \in Scoped
        BY <1>3, <3>2
      <4>2. h # L /\ ~(h \in 1 .. L - 1)
        BY <1>1, <2>5
      <4>3. PICK m \in 1 .. K : CallAt(h)' = calls[m] /\ h + m = L + K /\ h >= L
        BY <1>2, <4>1, <4>2
      <4>4. m \in 1 .. K - 1
        BY <1>1, <4>1, <4>2, <4>3
      <4>. QED
        BY <4>1, <4>3, <4>4 DEF K
    <3>. QED
      BY <3>1, <3>2
  <2>. QED
    BY <1>1, <2>3, <2>4, <2>5
<1>8. /\ IsFiniteSet(Scopes(n)) /\ Cardinality(Scopes(n)) \in Nat
      /\ IsFiniteSet(Base) /\ L \notin Base
      /\ Cardinality(Base) = Cardinality(Scopes(n))
                               - (IF Top.at \in Scoped /\ Owner(L) = n THEN 1 ELSE 0)
  <2>1. IsFiniteSet(Scopes(n)) /\ Cardinality(Scopes(n)) \in Nat
    BY CallsFinite
  <2>. DEFINE c == Cardinality(Scopes(n))
  <2>2. /\ IsFiniteSet(Base)
        /\ Cardinality(Base) = IF L \in Scopes(n) THEN c - 1 ELSE c
    BY <2>1, FS_RemoveElement
  <2>. HIDE DEF Base
  <2>3. c = c - 0
    BY <2>1
  <2>. QED
    BY <1>5, <2>1, <2>2, <2>3 DEF Base
<1>. DEFINE e == IF Top.at \in Scoped /\ Owner(L) = n THEN 1 ELSE 0
            c == Cardinality(Scopes(n))
            b == Cardinality(Base)
<1>9. c \in Nat /\ b = c - e /\ e \in {0, 1}
  BY <1>8
<1>10. CASE EndsIn(calls, Scoped) /\ Owner(L) = n
  <2>1. Scopes(n)' = Base \cup {L}
    BY <1>7, <1>10
  <2>. HIDE DEF Base
  <2>2. Cardinality(Scopes(n)') = b + 1
    BY <1>8, <2>1, FS_AddElement
  <2>. HIDE DEF e, c, b
  <2>3. Cardinality(Scopes(n)') = c + 1 - e
    BY <1>9, <2>2
  <2>. QED
    BY <1>10, <2>3 DEF e, c, L
<1>11. CASE ~(EndsIn(calls, Scoped) /\ Owner(L) = n)
  <2>1. Scopes(n)' = Base
    BY <1>7, <1>11
  <2>. HIDE DEF e, c, Base
  <2>3. Cardinality(Scopes(n)') = c + 0 - e
    BY <1>9, <2>1
  <2>. QED
    BY <1>11, <2>3 DEF e, c, L
<1>. QED
  BY <1>10, <1>11
-----------------------------------------------------------------------------
(* A step within the function being compiled: the call on top goes on to   *)
(* calls with the parser as q, having patched the jumps J.                 *)

CallsFit(q, calls) ==
  /\ calls \in Seq(Calls)
  /\ \A k \in 2 .. Len(calls) : calls[k].at \notin Immediate
  /\ \A k \in 1 .. Len(calls) : calls[k].at \in ExprCalls \cup {"var_defined"} =>
       \A i \in 1 .. k - 1 : calls[i].at \in ExprCalls
  /\ \A k \in 1 .. Len(calls) - 1 : calls[k].at \notin Scoped \cup InFunction
  /\ Top.at \in ExprCalls => \A k \in 1 .. Len(calls) : calls[k].at \in ExprCalls
  /\ calls # << >> /\ calls[1].at = "literal" => q.previous.type \in {"TRUE", "FALSE"}
  /\ calls # << >> /\ calls[1].at = "binary" => q.previous.type \in BinaryTypes

CallsStep(q, calls) ==
  CallsFit(q, calls) /\ (Top.at \in InFunction <=> EndsIn(calls, InFunction))

Initializes(calls) == \E k \in 1 .. Len(calls) : calls[k].at = "var_defined"

ScopeStep(q, calls) ==
  /\ \A n \in 1 .. Len(parser.fns) - 1 :
       q.fns[n].depth = parser.fns[n].depth /\ q.fns[n].locals = parser.fns[n].locals
  /\ ScopesOK(Fn(q))
  /\ Fn(q).depth = Fn(parser).depth + (IF EndsIn(calls, Scoped) THEN 1 ELSE 0)
                                    - (IF Top.at \in Scoped THEN 1 ELSE 0)
  /\ Top.at \in ExprCalls => Fn(q).locals = Fn(parser).locals
  /\ Top.at \notin ExprCalls => /\ Settled(Fn(q)) \/ Initializes(calls)
                                /\ Initializes(calls) => Roomy(q)

JumpStep(q, calls, J) ==
  /\ Top.at \in InFunction => \A k \in 1 .. Len(calls) : Holds(calls[k]) = {}
  /\ \A k \in 1 .. Len(calls) :
       /\ Ordered(calls[k])
       /\ \A j \in Holds(calls[k]) : Open(Fn(q), j) /\ (j \in Holds(Top) \/ j >= Count(parser))
       /\ \A i \in 1 .. Len(calls) : i # k => Holds(calls[i]) = {} \/ Holds(calls[k]) = {}

Step(q, calls, J) ==
  /\ Fine(q) /\ KeepsCode(parser, q, J) /\ J \subseteq Holds(Top)
  /\ CallsStep(q, calls) /\ ScopeStep(q, calls) /\ JumpStep(q, calls, J)

(* A step keeps the order of the calls.                                    *)
LEMMA StepTodo ==
  ASSUME CompilerInv, todo # << >>, NEW q, NEW calls, Then(q, calls), CallsFit(q, calls)
  PROVE  TodoOK'
<1>. DEFINE L == Len(todo)  K == Len(calls)
<1>0. todo \in Seq(Calls) /\ calls \in Seq(Calls)
  BY DEF CompilerInv, TodoOK, CallsFit
<1>1. /\ L \in Nat /\ L >= 1 /\ K \in Nat /\ Len(todo') = L - 1 + K /\ Top = CallAt(L)
      /\ todo' \in Seq(Calls) /\ parser' = q
      /\ \A h \in 1 .. L - 1 : CallAt(h)' = CallAt(h)
  BY <1>0, ThenCalls
<1>2. \A h \in 1 .. Len(todo') :
        \/ h \in 1 .. L - 1 /\ CallAt(h)' = CallAt(h)
        \/ h >= L /\ \E m \in 1 .. K : CallAt(h)' = calls[m] /\ h + m = L + K
  BY <1>0, NewHeights
<1>3. /\ \A h \in 1 .. L - 1 : CallAt(h).at \notin Immediate
      /\ \A h \in 1 .. L : CallAt(h).at \in ExprCalls \cup {"var_defined"} =>
           \A g \in h + 1 .. L : CallAt(g).at \in ExprCalls
  BY DEF CompilerInv, TodoOK
<1>4. CallsFit(q, calls)
  OBVIOUS
<1>. HIDE DEF L
<1>5. ASSUME NEW h \in 1 .. Len(todo') - 1
      PROVE  CallAt(h)'.at \notin Immediate
  <2>1. h \in 1 .. Len(todo')
    BY <1>1
  <2>2. CASE h \in 1 .. L - 1
    BY <1>1, <1>3, <2>2
  <2>3. CASE ~(h \in 1 .. L - 1)
    <3>1. PICK m \in 1 .. K : CallAt(h)' = calls[m] /\ h + m = L + K /\ h >= L
      BY <1>2, <2>1, <2>3
    <3>2. m \in 2 .. K
      BY <1>1, <3>1
    <3>. QED
      BY <1>4, <3>1, <3>2 DEF CallsFit
  <2>. QED
    BY <2>2, <2>3
<1>6. ASSUME NEW h \in 1 .. Len(todo'), CallAt(h)'.at \in ExprCalls \cup {"var_defined"},
             NEW g \in h + 1 .. Len(todo')
      PROVE  CallAt(g)'.at \in ExprCalls
  <2>1. g \in 1 .. Len(todo') /\ h \in Int /\ g \in Int /\ h < g
    BY <1>1
  <2>2. CASE h \in 1 .. L - 1 /\ g \in 1 .. L - 1
    <3>1. h \in 1 .. L /\ g \in h + 1 .. L
      BY <1>1, <2>1, <2>2
    <3>2. CallAt(h)' = CallAt(h) /\ CallAt(g)' = CallAt(g)
      BY <1>1, <2>2
    <3>. QED
      BY <1>3, <1>6, <3>1, <3>2
  <2>3. CASE h \in 1 .. L - 1 /\ ~(g \in 1 .. L - 1)
    <3>1. h \in 1 .. L /\ L \in h + 1 .. L
      BY <1>1, <2>3
    <3>2. CallAt(h)' = CallAt(h)
      BY <1>1, <2>3
    <3>3. Top.at \in ExprCalls
      BY <1>1, <1>3, <1>6, <3>1, <3>2
    <3>4. PICK m \in 1 .. K : CallAt(g)' = calls[m]
      BY <1>2, <2>1, <2>3
    <3>. QED
      BY <1>4, <3>3, <3>4 DEF CallsFit
  <2>4. CASE ~(h \in 1 .. L - 1)
    <3>1. PICK m \in 1 .. K : CallAt(h)' = calls[m] /\ h + m = L + K /\ h >= L
      BY <1>2, <2>4
    <3>2. ~(g \in 1 .. L - 1)
      BY <1>1, <2>1, <3>1
    <3>3. PICK e \in 1 .. K : CallAt(g)' = calls[e] /\ g + e = L + K
      BY <1>2, <2>1, <3>2
    <3>4. e \in 1 .. m - 1
      BY <1>1, <2>1, <3>1, <3>3
    <3>. QED
      BY <1>4, <1>6, <3>1, <3>3, <3>4 DEF CallsFit
  <2>. QED
    BY <2>2, <2>3, <2>4
<1>7. ASSUME todo' # << >>
      PROVE  \/ calls # << >> /\ Top' = calls[1]
             \/ Top'.at \notin Immediate
  <2>. SUFFICES ASSUME NEW h, h = Len(todo')
                PROVE  \/ calls # << >> /\ Top' = calls[1]
                       \/ Top'.at \notin Immediate
    OBVIOUS
  <2>1. h \in 1 .. Len(todo') /\ Top' = CallAt(h)'
    <3>1. Len(todo') \in Nat /\ Len(todo') # 0
      BY <1>1, <1>7, EmptySeq, LenProperties
    <3>2. CallAt(h)' = todo'[Len(todo') + 1 - h] /\ Len(todo') + 1 - h = 1
      BY <3>1 DEF CallAt
    <3>3. Top' = todo'[1]
      BY DEF Top
    <3>. QED
      BY <3>1, <3>2, <3>3
  <2>2. CASE h \in 1 .. L - 1
    BY <1>1, <1>3, <2>1, <2>2
  <2>3. CASE ~(h \in 1 .. L - 1)
    <3>1. PICK m \in 1 .. K : CallAt(h)' = calls[m] /\ h + m = L + K
      BY <1>2, <2>1, <2>3
    <3>2. m = 1 /\ K # 0
      BY <1>1, <2>1, <3>1
    <3>. QED
      BY <2>1, <3>1, <3>2
  <2>. QED
    BY <2>2, <2>3
<1>8. At("literal")' => parser'.previous.type \in {"TRUE", "FALSE"}
  BY <1>1, <1>4, <1>7 DEF At, CallsFit, Immediate, PrefixCalls
<1>9. At("binary")' => parser'.previous.type \in BinaryTypes
  BY <1>1, <1>4, <1>7 DEF At, CallsFit, Immediate, PrefixCalls
<1>. QED
  BY <1>1, <1>5, <1>6, <1>8, <1>9 DEF TodoOK

(* A step within the function leaves every call with the function it had.  *)
LEMMA StepFunctions ==
  ASSUME CompilerInv, todo # << >>, NEW q, NEW calls, NEW J, Then(q, calls), Step(q, calls, J)
  PROVE  /\ FunctionCalls' = FunctionCalls /\ \A h : Owner(h)' = Owner(h)
         /\ parser' = q /\ text' = text /\ Fine(parser) /\ Fine(q) /\ calls \in Seq(Calls)
         /\ todo \in Seq(Calls)
         /\ Len(q.fns) = Len(parser.fns) /\ Len(parser.fns) \in Nat /\ Len(parser.fns) >= 1
         /\ Fn(parser) = parser.fns[Len(parser.fns)] /\ Fn(q) = q.fns[Len(parser.fns)]
         /\ Len(parser.fns) = 1 + Cardinality(FunctionCalls)
         /\ (Top.at \notin InFunction => Owner(Len(todo)) = Len(parser.fns))
<1>1. todo \in Seq(Calls) /\ calls \in Seq(Calls) /\ Fine(parser) /\ Fine(q)
  BY DEF CompilerInv, TodoOK, Step, CallsStep, CallsFit
<1>2. FunctionCalls' = FunctionCalls /\ \A h : Owner(h)' = Owner(h)
  BY <1>1, SameFunctions DEF Step, CallsStep, CallsFit
<1>3. parser' = q /\ text' = text
  BY DEF Then
<1>4. /\ Len(q.fns) = Len(parser.fns) /\ Len(parser.fns) \in Nat
      /\ Len(parser.fns) \in 1 .. Len(parser.fns)
      /\ Fn(parser) = parser.fns[Len(parser.fns)] /\ Fn(q) = q.fns[Len(parser.fns)]
  BY <1>1, FineFn DEF Step, KeepsCode, Fn
<1>5. Len(parser.fns) = 1 + Cardinality(FunctionCalls)
  BY DEF CompilerInv, DepthsOK
<1>6. ASSUME Top.at \notin InFunction
      PROVE  Owner(Len(todo)) = Len(parser.fns)
  <2>1. Len(todo) \in Nat /\ Top = CallAt(Len(todo))
    BY <1>1, ThenCalls
  <2>2. \A g \in FunctionCalls : g < Len(todo)
    BY <1>6, <2>1 DEF FunctionCalls
  <2>. QED
    BY <1>1, <1>5, <2>1, <2>2, OwnerOnTop
<1>. QED
  BY <1>1, <1>2, <1>3, <1>4, <1>5, <1>6

(* A step keeps the count of the scopes: one more or less on both sides.   *)
LEMMA StepDepths ==
  ASSUME CompilerInv, todo # << >>, NEW q, NEW calls, NEW J, Then(q, calls), Step(q, calls, J)
  PROVE  DepthsOK'
<1>. DEFINE N == Len(parser.fns)
<1>1. /\ FunctionCalls' = FunctionCalls /\ \A h : Owner(h)' = Owner(h)
      /\ parser' = q /\ Fine(parser) /\ Fine(q) /\ calls \in Seq(Calls) /\ todo \in Seq(Calls)
      /\ Len(q.fns) = N /\ N \in Nat /\ N >= 1
      /\ Fn(parser) = parser.fns[N] /\ Fn(q) = q.fns[N] /\ N = 1 + Cardinality(FunctionCalls)
      /\ (Top.at \notin InFunction => Owner(Len(todo)) = N)
  BY StepFunctions
<1>2. Len(parser'.fns) = 1 + Cardinality(FunctionCalls')
  BY <1>1
<1>3. \A n \in 1 .. N : parser.fns[n].depth = Cardinality(Scopes(n)) + IF n = 1 THEN 0 ELSE 1
  BY DEF CompilerInv, DepthsOK
<1>4. /\ Fn(q).depth = Fn(parser).depth + (IF EndsIn(calls, Scoped) THEN 1 ELSE 0)
                                        - (IF Top.at \in Scoped THEN 1 ELSE 0)
      /\ \A n \in 1 .. N - 1 : q.fns[n].depth = parser.fns[n].depth
  BY DEF Step, ScopeStep
<1>5. /\ \A k \in 1 .. Len(calls) - 1 : calls[k].at \notin Scoped
      /\ Top.at \in InFunction <=> EndsIn(calls, InFunction)
  BY DEF Step, CallsStep, CallsFit
<1>6. \A n : Cardinality(Scopes(n)') =
               Cardinality(Scopes(n))
                 + (IF EndsIn(calls, Scoped) /\ Owner(Len(todo)) = n THEN 1 ELSE 0)
                 - (IF Top.at \in Scoped /\ Owner(Len(todo)) = n THEN 1 ELSE 0)
  BY <1>1, <1>5, ScopesThen
<1>7. \A n : Cardinality(Scopes(n)) \in Nat
  BY <1>1, CallsFinite
<1>8. Top.at \in InFunction => ~EndsIn(calls, Scoped) /\ Top.at \notin Scoped
  BY <1>5 DEF EndsIn, InFunction, Scoped
<1>. HIDE DEF N
<1>9. ASSUME NEW n \in 1 .. N
      PROVE  q.fns[n].depth = Cardinality(Scopes(n)') + IF n = 1 THEN 0 ELSE 1
  <2>. DEFINE c == Cardinality(Scopes(n))  d == Cardinality(Scopes(n)')
              e == IF n = 1 THEN 0 ELSE 1
              x == IF EndsIn(calls, Scoped) THEN 1 ELSE 0
              y == IF Top.at \in Scoped THEN 1 ELSE 0
  <2>1. c \in Nat /\ e \in {0, 1} /\ x \in {0, 1} /\ y \in {0, 1} /\ parser.fns[n].depth = c + e
    BY <1>3, <1>7
  <2>2. CASE Top.at \in InFunction
    <3>1. d = c + 0 - 0 /\ x = 0 /\ y = 0
      BY <1>6, <1>8, <2>2
    <3>2. q.fns[n].depth = parser.fns[n].depth
      <4>1. CASE n = N
        <5>1. q.fns[n].depth = parser.fns[n].depth + 0 - 0
          BY <1>1, <1>4, <3>1, <4>1
        <5>. HIDE DEF c, e
        <5>. QED
          BY <2>1, <5>1
      <4>2. CASE n # N
        <5>1. n \in 1 .. N - 1
          BY <1>1, <4>2
        <5>. QED
          BY <1>4, <5>1
      <4>. QED
        BY <4>1, <4>2
    <3>. HIDE DEF c, d
    <3>3. d = c
      BY <2>1, <3>1
    <3>. QED
      BY <2>1, <3>2, <3>3 DEF d
  <2>3. CASE Top.at \notin InFunction /\ n = N
    <3>1. d = c + x - y
      BY <1>1, <1>6, <2>3
    <3>2. q.fns[n].depth = parser.fns[n].depth + x - y
      BY <1>1, <1>4, <2>3
    <3>. HIDE DEF c, d, e, x, y
    <3>3. q.fns[n].depth = d + e
      BY <2>1, <3>1, <3>2
    <3>. QED
      BY <3>3 DEF d, e
  <2>4. CASE Top.at \notin InFunction /\ n # N
    <3>1. d = c + 0 - 0
      BY <1>1, <1>6, <2>4
    <3>2. q.fns[n].depth = parser.fns[n].depth
      <4>1. n \in 1 .. N - 1
        BY <1>1, <2>4
      <4>. QED
        BY <1>4, <4>1
    <3>. HIDE DEF c, d
    <3>3. d = c
      BY <2>1, <3>1
    <3>. QED
      BY <2>1, <3>2, <3>3 DEF d
  <2>. QED
    BY <2>2, <2>3, <2>4
<1>. QED
  BY <1>1, <1>2, <1>9 DEF DepthsOK

(* A step keeps the order of the locals, and the wait of the last of them. *)
LEMMA StepLocals ==
  ASSUME CompilerInv, todo # << >>, NEW q, NEW calls, NEW J, Then(q, calls), Step(q, calls, J)
  PROVE  LocalsOK'
<1>. DEFINE N == Len(parser.fns)  L == Len(todo)  K == Len(calls)
<1>1. /\ parser' = q /\ Fine(parser) /\ Fine(q) /\ calls \in Seq(Calls) /\ todo \in Seq(Calls)
      /\ Len(q.fns) = N /\ N \in Nat /\ N >= 1
      /\ Fn(parser) = parser.fns[N] /\ Fn(q) = q.fns[N]
  BY StepFunctions
<1>2. /\ \A n \in 1 .. N : ScopesOK(parser.fns[n])
      /\ \A n \in 1 .. N - 1 :
           /\ Settled(parser.fns[n])
           /\ Joined /\ parser.fns[n].depth > 0 => Len(parser.fns[n].locals) >= 2
      /\ Settled(Fn(parser)) \/ Pending
      /\ Pending => Roomy(parser)
  BY DEF CompilerInv, LocalsOK
<1>3. ScopeStep(q, calls) /\ CallsStep(q, calls)
  BY DEF Step
<1>4. \A n \in 1 .. N - 1 :
        q.fns[n].depth = parser.fns[n].depth /\ q.fns[n].locals = parser.fns[n].locals
  BY <1>3 DEF ScopeStep
<1>5. \A n \in 1 .. N : ScopesOK(q.fns[n])
  <2>. SUFFICES ASSUME NEW n \in 1 .. N
                PROVE  ScopesOK(q.fns[n])
    OBVIOUS
  <2>1. CASE n = N
    BY <1>1, <1>3, <2>1 DEF ScopeStep
  <2>2. CASE n # N
    <3>1. n \in 1 .. N - 1
      BY <1>1, <2>2
    <3>2. ScopesOK(parser.fns[n])
      BY <1>2
    <3>. HIDE DEF N
    <3>. QED
      BY <1>4, <3>1, <3>2 DEF ScopesOK, Settled
  <2>. QED
    BY <2>1, <2>2
<1>6. \A n \in 1 .. N - 1 :
        /\ Settled(q.fns[n])
        /\ Joined /\ q.fns[n].depth > 0 => Len(q.fns[n].locals) >= 2
  BY <1>2, <1>4 DEF Settled
<1>7. /\ L \in Nat /\ L >= 1 /\ K \in Nat /\ Len(todo') = L - 1 + K /\ Top = CallAt(L)
      /\ \A h \in 1 .. L - 1 : CallAt(h)' = CallAt(h)
      /\ \A k \in 1 .. K : \A h : h = L - 1 + k => CallAt(h)' = calls[K + 1 - k]
  BY <1>1, ThenCalls
<1>8. \A h \in 1 .. Len(todo') :
        \/ h \in 1 .. L - 1 /\ CallAt(h)' = CallAt(h)
        \/ h >= L /\ \E m \in 1 .. K : CallAt(h)' = calls[m] /\ h + m = L + K
  BY <1>1, NewHeights
<1>9. \A h \in 1 .. L : CallAt(h).at \in ExprCalls \cup {"var_defined"} =>
        \A g \in h + 1 .. L : CallAt(g).at \in ExprCalls
  BY DEF CompilerInv, TodoOK
<1>10. Pending' <=> \E h \in 1 .. Len(todo') : CallAt(h)'.at = "var_defined"
  BY DEF Pending
<1>11. Pending <=> \E h \in 1 .. L : CallAt(h).at = "var_defined"
  BY DEF Pending
<1>. HIDE DEF L, K
<1>12. CASE Top.at \in ExprCalls
  <2>1. Fn(q).locals = Fn(parser).locals /\ Fn(q).depth = Fn(parser).depth
    <3>1. ~EndsIn(calls, Scoped) /\ Top.at \notin Scoped
      <4>1. \A n \in ExprCalls : n \notin Scoped
        BY DEF ExprCalls, Immediate, PrefixCalls, Scoped
      <4>2. \A k \in 1 .. K : calls[k].at \in ExprCalls
        BY <1>3, <1>12 DEF CallsStep, CallsFit, K
      <4>3. calls # << >> => K \in 1 .. K
        BY <1>1, <1>7, EmptySeq, LenProperties DEF K
      <4>. QED
        BY <1>12, <4>1, <4>2, <4>3 DEF EndsIn, K
    <3>2. Fn(q).depth = Fn(parser).depth + 0 - 0 /\ Fn(parser).depth \in Nat
      BY <1>1, <1>3, <3>1, FineFn DEF ScopeStep
    <3>. QED
      BY <1>3, <1>12, <3>2 DEF ScopeStep
  <2>2. \A k \in 1 .. K : calls[k].at \in ExprCalls /\ calls[k].at # "var_defined"
    BY <1>3, <1>12 DEF CallsStep, CallsFit, K, ExprCalls, Immediate, PrefixCalls
  <2>3. Top.at # "var_defined"
    BY <1>12 DEF ExprCalls, Immediate, PrefixCalls
  <2>4. Pending => Pending'
    <3>. SUFFICES ASSUME NEW h \in 1 .. L, CallAt(h).at = "var_defined"
                  PROVE  Pending'
      BY <1>11
    <3>1. h \in 1 .. L - 1
      BY <1>7, <2>3
    <3>2. h \in 1 .. Len(todo')
      BY <1>7, <3>1
    <3>. QED
      BY <1>7, <1>10, <3>1, <3>2
  <2>5. Pending' => Pending
    <3>. SUFFICES ASSUME NEW h \in 1 .. Len(todo'), CallAt(h)'.at = "var_defined"
                  PROVE  Pending
      BY <1>10
    <3>1. h \in 1 .. L - 1
      BY <1>8, <2>2
    <3>2. h \in 1 .. L
      BY <1>7, <3>1
    <3>. QED
      BY <1>7, <1>11, <3>1, <3>2
  <2>6. Settled(Fn(q)) \/ Pending'
    BY <1>2, <2>1, <2>4 DEF Settled
  <2>7. Pending' => Roomy(q)
    BY <1>2, <2>1, <2>5 DEF Roomy, ScopeDepth
  <2>8. LocalsOK' <=> /\ \A n \in 1 .. N : ScopesOK(q.fns[n])
                      /\ \A n \in 1 .. N - 1 :
                           /\ Settled(q.fns[n])
                           /\ Joined /\ q.fns[n].depth > 0 => Len(q.fns[n].locals) >= 2
                      /\ Settled(Fn(q)) \/ Pending'
                      /\ Pending' => Roomy(q)
    BY <1>1 DEF LocalsOK
  <2>. QED
    BY <1>5, <1>6, <2>6, <2>7, <2>8
<1>13. CASE Top.at \notin ExprCalls
  <2>1. \A h \in 1 .. L - 1 : CallAt(h).at # "var_defined"
    <3>. SUFFICES ASSUME NEW h \in 1 .. L - 1, CallAt(h).at = "var_defined"
                  PROVE  FALSE
      OBVIOUS
    <3>1. h \in 1 .. L /\ L \in h + 1 .. L
      BY <1>7
    <3>. QED
      BY <1>7, <1>9, <1>13, <3>1
  <2>2. Pending' => Initializes(calls)
    <3>. SUFFICES ASSUME NEW h \in 1 .. Len(todo'), CallAt(h)'.at = "var_defined"
                  PROVE  Initializes(calls)
      BY <1>10
    <3>1. ~(h \in 1 .. L - 1)
      BY <1>7, <2>1
    <3>. QED
      BY <1>8, <3>1 DEF Initializes, K
  <2>3. Initializes(calls) => Pending'
    <3>. SUFFICES ASSUME NEW m \in 1 .. K, calls[m].at = "var_defined"
                  PROVE  Pending'
      BY DEF Initializes, K
    <3>. DEFINE k == K + 1 - m  h == L - 1 + k
    <3>1. k \in 1 .. K /\ K + 1 - k = m /\ h \in 1 .. Len(todo')
      BY <1>7
    <3>. HIDE DEF k
    <3>. SUFFICES ASSUME NEW g, g = h
                  PROVE  Pending'
      OBVIOUS
    <3>2. CallAt(g)' = calls[m] /\ g \in 1 .. Len(todo')
      BY <1>7, <3>1
    <3>. QED
      BY <1>10, <3>2
  <2>4. Settled(Fn(q)) \/ Pending'
    BY <1>3, <1>13, <2>3 DEF ScopeStep
  <2>5. Pending' => Roomy(q)
    BY <1>3, <1>13, <2>2 DEF ScopeStep
  <2>6. LocalsOK' <=> /\ \A n \in 1 .. N : ScopesOK(q.fns[n])
                      /\ \A n \in 1 .. N - 1 :
                           /\ Settled(q.fns[n])
                           /\ Joined /\ q.fns[n].depth > 0 => Len(q.fns[n].locals) >= 2
                      /\ Settled(Fn(q)) \/ Pending'
                      /\ Pending' => Roomy(q)
    BY <1>1 DEF LocalsOK
  <2>. QED
    BY <1>5, <1>6, <2>4, <2>5, <2>6
<1>. QED
  BY <1>12, <1>13

(* A step keeps open every jump held below the top, and those its calls    *)
(* hold.                                                                   *)
LEMMA StepJumps ==
  ASSUME CompilerInv, todo # << >>, NEW q, NEW calls, NEW J, Then(q, calls), Step(q, calls, J)
  PROVE  JumpsOK'
<1>. DEFINE N == Len(parser.fns)  L == Len(todo)  K == Len(calls)
<1>1. /\ parser' = q /\ Fine(parser) /\ Fine(q) /\ calls \in Seq(Calls) /\ todo \in Seq(Calls)
      /\ Len(q.fns) = N /\ N \in Nat /\ N >= 1 /\ \A h : Owner(h)' = Owner(h)
      /\ Fn(parser) = parser.fns[N] /\ Fn(q) = q.fns[N]
      /\ N = 1 + Cardinality(FunctionCalls)
      /\ FunctionCalls' = FunctionCalls
      /\ (Top.at \notin InFunction => Owner(L) = N)
  BY StepFunctions
<1>2. /\ \A h \in 1 .. L : Ordered(CallAt(h))
      /\ \A h \in 1 .. L : \A j \in Holds(CallAt(h)) :
           /\ Open(parser.fns[Owner(h)], j)
           /\ \A g \in h + 1 .. L : Owner(g) = Owner(h) =>
                \A i \in Holds(CallAt(g)) : i > j + 1
  BY DEF CompilerInv, JumpsOK
<1>3. JumpStep(q, calls, J) /\ CallsStep(q, calls) /\ KeepsCode(parser, q, J) /\ J \subseteq Holds(Top)
  BY DEF Step
<1>4. /\ L \in Nat /\ L >= 1 /\ K \in Nat /\ Len(todo') = L - 1 + K /\ Top = CallAt(L)
      /\ \A h \in 1 .. L - 1 : CallAt(h)' = CallAt(h)
      /\ Top \in Calls /\ \A h \in 1 .. L : CallAt(h) \in Calls
  BY <1>1, ThenCalls
<1>5. \A h \in 1 .. Len(todo') :
        \/ h \in 1 .. L - 1 /\ CallAt(h)' = CallAt(h)
        \/ h >= L /\ \E m \in 1 .. K : CallAt(h)' = calls[m] /\ h + m = L + K
  BY <1>1, NewHeights
<1>6. \A h : Owner(h) \in 1 .. N
  BY <1>1, CallsFinite
<1>7. \A j \in Holds(Top) : j \in Nat
  BY <1>4, HeldAreInts
<1>8. ASSUME NEW m \in 1 .. K, Holds(calls[m]) # {}
      PROVE  /\ Top.at \notin InFunction
             /\ \A h \in 1 .. Len(todo') : h >= L => Owner(h) = N
  <2>1. Top.at \notin InFunction
    BY <1>3, <1>8 DEF JumpStep, K
  <2>2. \A g \in FunctionCalls : g \in 1 .. L /\ g # L
    BY <1>4, <2>1 DEF FunctionCalls, L
  <2>3. ASSUME NEW h \in 1 .. Len(todo'), h >= L
        PROVE  Owner(h) = N
    <3>1. \A g \in FunctionCalls : g < h
      BY <1>4, <2>2, <2>3
    <3>2. h \in Int
      BY <1>4
    <3>. QED
      BY <1>1, <3>1, <3>2, OwnerOnTop
  <2>. QED
    BY <2>1, <2>3
<1>. HIDE DEF L, K, N
<1>9. ASSUME NEW h \in 1 .. L - 1, Owner(h) = N, J # {}
      PROVE  Top.at \notin InFunction /\ L \in h + 1 .. L /\ h \in 1 .. L
  <2>1. L \in h + 1 .. L /\ h \in 1 .. L
    BY <1>4
  <2>2. PICK i \in J : TRUE
    BY <1>9
  <2>3. Holds(Top) # {}
    BY <1>3, <2>2
  <2>4. Top.at \notin InFunction
    BY <1>4, <2>3, HoldsNothing DEF InFunction
  <2>. QED
    BY <2>1, <2>4
<1>10. ASSUME NEW h \in 1 .. L - 1, NEW j \in Holds(CallAt(h))
       PROVE  Open(q.fns[Owner(h)], j)
  <2>1. h \in 1 .. L
    BY <1>4
  <2>2. Open(parser.fns[Owner(h)], j) /\ Owner(h) \in 1 .. N /\ j \in Nat
    BY <1>2, <1>6, <2>1 DEF Open
  <2>3. ASSUME Owner(h) = N
        PROVE  \A i \in J : i \in Int /\ (i > j + 1 \/ j > i + 1)
    <3>. SUFFICES ASSUME NEW i \in J
                  PROVE  i \in Int /\ i > j + 1
      OBVIOUS
    <3>1. Top.at \notin InFunction /\ L \in h + 1 .. L
      BY <1>9, <2>3
    <3>2. Owner(L) = Owner(h) /\ i \in Holds(CallAt(L))
      BY <1>1, <1>3, <1>4, <2>3, <3>1
    <3>3. i > j + 1
      BY <1>2, <2>1, <3>1, <3>2
    <3>. QED
      BY <1>3, <1>7, <3>3
  <2>4. PICK S : Sound(parser, S)
    BY <1>1 DEF Fine
  <2>5. PICK T : Sound(q, T)
    BY <1>1 DEF Fine
  <2>. SUFFICES ASSUME NEW n, n = Owner(h)
                PROVE  Open(q.fns[n], j)
    OBVIOUS
  <2>6. n \in 1 .. Len(parser.fns) /\ Open(parser.fns[n], j)
    BY <2>2 DEF N
  <2>7. n = Len(parser.fns) => \A i \in J : i \in Int /\ (i > j + 1 \/ j > i + 1)
    BY <2>3 DEF N
  <2>8. KeepsCode(parser, q, J)
    BY <1>3
  <2>. QED
    BY <2>4, <2>5, <2>6, <2>7, <2>8, OpenKept
<1>11. ASSUME NEW h \in 1 .. Len(todo'), NEW j \in Holds(CallAt(h)')
       PROVE  Open(q.fns[Owner(h)], j)
  <2>1. CASE h \in 1 .. L - 1
    <3>1. j \in Holds(CallAt(h))
      BY <1>4, <2>1
    <3>. QED
      BY <1>10, <2>1, <3>1
  <2>2. CASE ~(h \in 1 .. L - 1)
    <3>1. PICK m \in 1 .. K : CallAt(h)' = calls[m] /\ h >= L
      BY <1>5, <2>2
    <3>2. j \in Holds(calls[m]) /\ Holds(calls[m]) # {}
      BY <3>1
    <3>3. Owner(h) = N
      BY <1>8, <3>1, <3>2
    <3>4. Open(Fn(q), j)
      BY <1>3, <3>2 DEF JumpStep, K
    <3>. QED
      BY <1>1, <3>3, <3>4
  <2>. QED
    BY <2>1, <2>2
<1>12. ASSUME NEW h \in 1 .. Len(todo')
       PROVE  Ordered(CallAt(h)')
  <2>1. CASE h \in 1 .. L - 1
    <3>1. h \in 1 .. L
      BY <1>4, <2>1
    <3>. QED
      BY <1>2, <1>4, <2>1, <3>1
  <2>2. CASE ~(h \in 1 .. L - 1)
    <3>1. PICK m \in 1 .. K : CallAt(h)' = calls[m]
      BY <1>5, <2>2
    <3>. QED
      BY <1>3, <3>1 DEF JumpStep, K
  <2>. QED
    BY <2>1, <2>2
<1>13. ASSUME NEW h \in 1 .. Len(todo'), NEW j \in Holds(CallAt(h)'),
              NEW g \in h + 1 .. Len(todo'), Owner(g) = Owner(h),
              NEW i \in Holds(CallAt(g)')
       PROVE  i > j + 1
  <2>1. g \in 1 .. Len(todo') /\ h \in Int /\ g \in Int /\ h < g
    BY <1>4
  <2>2. CASE g \in 1 .. L - 1
    <3>1. h \in 1 .. L - 1 /\ h \in 1 .. L /\ g \in h + 1 .. L
      BY <1>4, <2>1, <2>2
    <3>2. j \in Holds(CallAt(h)) /\ i \in Holds(CallAt(g))
      BY <1>4, <2>2, <3>1
    <3>. QED
      BY <1>2, <1>13, <3>1, <3>2
  <2>3. CASE ~(g \in 1 .. L - 1)
    <3>1. PICK m \in 1 .. K : CallAt(g)' = calls[m] /\ g + m = L + K /\ g >= L
      BY <1>5, <2>1, <2>3
    <3>2. i \in Holds(calls[m]) /\ Holds(calls[m]) # {}
      BY <3>1
    <3>3. Top.at \notin InFunction /\ Owner(g) = N
      BY <1>8, <2>1, <3>1, <3>2
    <3>4. CASE h \in 1 .. L - 1
      <4>1. h \in 1 .. L /\ L \in h + 1 .. L
        BY <1>4, <3>4
      <4>2. j \in Holds(CallAt(h))
        BY <1>4, <3>4
      <4>3. Open(parser.fns[N], j) /\ Owner(L) = Owner(h)
        BY <1>1, <1>2, <1>13, <3>3, <4>1, <4>2
      <4>4. i \in Holds(Top) \/ i >= Count(parser)
        BY <1>3, <3>2 DEF JumpStep, K
      <4>5. CASE i \in Holds(Top)
        BY <1>2, <1>4, <4>1, <4>2, <4>3, <4>5
      <4>6. CASE i >= Count(parser)
        <5>1. j \in Nat /\ j + 2 <= Count(parser) /\ Count(parser) \in Nat
          BY SMTT(30), <1>1, <4>3, FineFn DEF Open
        <5>2. i \in Nat
          <6>1. Open(Fn(q), i)
            BY <1>3, <3>2 DEF JumpStep, K
          <6>. QED
            BY <6>1 DEF Open
        <5>. QED
          BY <4>6, <5>1, <5>2
      <4>. QED
        BY <4>4, <4>5, <4>6
    <3>5. CASE ~(h \in 1 .. L - 1)
      <4>1. PICK e \in 1 .. K : CallAt(h)' = calls[e] /\ h + e = L + K
        BY <1>5, <3>5
      <4>2. m # e
        BY <1>4, <2>1, <3>1, <4>1
      <4>3. Holds(calls[m]) = {} \/ Holds(calls[e]) = {}
        BY <1>3, <4>2 DEF JumpStep, K
      <4>. QED
        BY <3>2, <4>1, <4>3
    <3>. QED
      BY <3>4, <3>5
  <2>. QED
    BY <2>2, <2>3
<1>14. JumpsOK' <=>
         \A h \in 1 .. Len(todo') :
           /\ Ordered(CallAt(h)')
           /\ \A j \in Holds(CallAt(h)') :
                /\ Open(parser'.fns[Owner(h)'], j)
                /\ \A g \in h + 1 .. Len(todo') : Owner(g)' = Owner(h)' =>
                     \A i \in Holds(CallAt(g)') : i > j + 1
  BY DEF JumpsOK
<1>15. ASSUME NEW h \in 1 .. Len(todo')
       PROVE  /\ Ordered(CallAt(h)')
              /\ \A j \in Holds(CallAt(h)') :
                   /\ Open(q.fns[Owner(h)], j)
                   /\ \A g \in h + 1 .. Len(todo') : Owner(g) = Owner(h) =>
                        \A i \in Holds(CallAt(g)') : i > j + 1
  BY <1>11, <1>12, <1>13
<1>. QED
  BY <1>1, <1>14, <1>15

(* A step keeps the invariant, and the code but for the jumps it patches.  *)
LEMMA StepKeeps ==
  ASSUME CompilerInv, todo # << >>, NEW q, NEW calls, NEW J, Then(q, calls), Step(q, calls, J)
  PROVE  CompilerInv' /\ KeepsCode(parser, parser', Holds(Top))
<1>1. text \in Texts /\ text' = text /\ parser' = q
  BY DEF CompilerInv, Then
<1>2. Fine(q) /\ KeepsCode(parser, q, Holds(Top))
  BY KeepsMore DEF Step
<1>3. Fine(q)'
  BY <1>1, <1>2 DEF Fine, Sound
<1>4. CallsFit(q, calls)
  BY DEF Step, CallsStep
<1>. QED
  BY <1>1, <1>2, <1>4, StepTodo, StepDepths, StepLocals, StepJumps DEF CompilerInv, Fine, Sound
-----------------------------------------------------------------------------
(* What an action may rely on, and the forms of its steps.                 *)

Holders == {"if_else", "if_end", "loop_end", "for_increment", "for_step"}

(* what a step within the function has to keep *)
Kept == CompilerInv' /\ KeepsCode(parser, parser', Holds(Top))

(* The call on top: its locals are typed, no local waits but for the       *)
(* declaration that ends now, and its jumps are open.                      *)
LEMMA TopIs ==
  ASSUME CompilerInv, todo # << >>
  PROVE  /\ Top \in Calls /\ text \in Texts /\ Fine(parser) /\ ScopesOK(Fn(parser))
         /\ Top.at \notin ExprCalls \cup {"var_defined"} => Settled(Fn(parser))
         /\ Top.at = "var_defined" => Roomy(parser)
         /\ Ordered(Top)
         /\ Top.at \notin InFunction => \A j \in Holds(Top) : Open(Fn(parser), j)
         /\ Top.at \in Scoped => Fn(parser).depth >= 1
<1>. DEFINE L == Len(todo)  N == Len(parser.fns)
<1>1. text \in Texts /\ Fine(parser) /\ todo \in Seq(Calls)
  BY DEF CompilerInv, TodoOK
<1>2. /\ L \in Nat /\ L >= 1 /\ Top = CallAt(L) /\ Top \in Calls
      /\ \A h \in 1 .. L : CallAt(h) \in Calls
  <2>2. L \in Nat /\ L >= 1
    BY <1>1, EmptySeq, LenProperties
  <2>3. Head(todo) \in Calls /\ Head(todo) = todo[1]
    BY <1>1, HeadTailProperties
  <2>4. L + 1 - L = 1
    BY <2>2
  <2>5. \A h : CallAt(h) = todo[L + 1 - h]
    BY DEF CallAt
  <2>6. Top = CallAt(L)
    BY <2>3, <2>4, <2>5 DEF Top
  <2>7. ASSUME NEW h \in 1 .. L
        PROVE  CallAt(h) \in Calls
    <3>1. L + 1 - h \in 1 .. L
      BY <2>2
    <3>. QED
      BY <1>1, <2>5, <3>1
  <2>. QED
    BY <2>2, <2>3, <2>6, <2>7 DEF Top
<1>3. /\ N \in Nat /\ N \in 1 .. N /\ Fn(parser) = parser.fns[N] /\ Fn(parser).depth \in Nat
  BY <1>1, FineFn
<1>4. ScopesOK(Fn(parser))
  BY <1>3 DEF CompilerInv, LocalsOK
<1>5. /\ Settled(Fn(parser)) \/ \E h \in 1 .. L : CallAt(h).at = "var_defined"
      /\ (\E h \in 1 .. L : CallAt(h).at = "var_defined") => Roomy(parser)
  BY DEF CompilerInv, LocalsOK, Pending
<1>6. \A h \in 1 .. L : CallAt(h).at \in ExprCalls \cup {"var_defined"} =>
        \A g \in h + 1 .. L : CallAt(g).at \in ExprCalls
  BY DEF CompilerInv, TodoOK
<1>7. N = 1 + Cardinality(FunctionCalls)
  BY DEF CompilerInv, DepthsOK
<1>8. Top.at \notin InFunction => Owner(L) = N
  <2>1. Top.at \notin InFunction => \A g \in FunctionCalls : g < L
    BY <1>2 DEF FunctionCalls
  <2>. QED
    BY <1>1, <1>2, <1>7, <2>1, OwnerOnTop
<1>9. Ordered(Top) /\ \A j \in Holds(Top) : Open(parser.fns[Owner(L)], j)
  <2>1. L \in 1 .. L
    BY <1>2
  <2>. QED
    BY <1>2, <2>1 DEF CompilerInv, JumpsOK
<1>10. ASSUME Top.at \in Scoped
       PROVE  Fn(parser).depth >= 1
  <2>1. Top.at \notin InFunction
    BY <1>10 DEF Scoped, InFunction
  <2>2. L \in Scopes(N)
    BY <1>2, <1>8, <1>10, <2>1 DEF Scopes
  <2>3. IsFiniteSet(Scopes(N)) /\ Cardinality(Scopes(N)) \in Nat
    BY <1>1, CallsFinite
  <2>4. Cardinality(Scopes(N)) # 0
    BY <2>2, <2>3, FS_EmptySet
  <2>5. Fn(parser).depth = Cardinality(Scopes(N)) + IF N = 1 THEN 0 ELSE 1
    BY <1>3 DEF CompilerInv, DepthsOK
  <2>. DEFINE c == Cardinality(Scopes(N))
  <2>. HIDE DEF c
  <2>6. c \in Nat /\ c # 0 /\ Fn(parser).depth = c + IF N = 1 THEN 0 ELSE 1
    BY <2>3, <2>4, <2>5 DEF c
  <2>. QED
    BY <2>6
<1>. HIDE DEF L, N
<1>11. ASSUME Top.at \notin ExprCalls \cup {"var_defined"}
       PROVE  Settled(Fn(parser))
  <2>. SUFFICES ASSUME NEW h \in 1 .. L, CallAt(h).at = "var_defined"
                PROVE  FALSE
    BY <1>5
  <2>1. h # L
    BY <1>2, <1>11
  <2>2. L \in h + 1 .. L
    BY <1>2, <2>1
  <2>. QED
    BY <1>2, <1>6, <1>11, <2>2
<1>12. Top.at = "var_defined" => Roomy(parser)
  <2>1. L \in 1 .. L
    BY <1>2
  <2>. QED
    BY <1>2, <1>5, <2>1
<1>. QED
  BY <1>1, <1>2, <1>3, <1>4, <1>8, <1>9, <1>10, <1>11, <1>12

(* The forms of the calls.                                                 *)
LEMMA CallForms ==
  /\ \A name \in PlainCalls : Do(name) \in Calls /\ Do(name).at = name
  /\ \A prec \in Nat : Precedence(prec) \in Calls /\ Precedence(prec).at = "precedence"
  /\ Expression \in Calls /\ Expression.at = "precedence"
  /\ \A token \in {None, "SEMICOLON", "R_PAREN"}, code \in Seq(Bytes) :
       Finish(token, code) \in Calls /\ Finish(token, code).at = "finish"
<1>1. ASSUME NEW name \in PlainCalls
      PROVE  Do(name) \in Calls /\ Do(name).at = name
  <2>1. Do(name) \in [at : PlainCalls]
    BY DEF Do
  <2>. QED
    BY <2>1 DEF Do, Calls
<1>2. ASSUME NEW prec \in Nat
      PROVE  Precedence(prec) \in Calls /\ Precedence(prec).at = "precedence"
  <2>1. Precedence(prec) \in [at : {"precedence", "infix"}, prec : Nat]
    BY DEF Precedence
  <2>. QED
    BY <2>1 DEF Precedence, Calls
<1>3. PREC_ASSIGN \in Nat
  BY DEF PREC_ASSIGN
<1>4. ASSUME NEW token \in {None, "SEMICOLON", "R_PAREN"}, NEW code \in Seq(Bytes)
      PROVE  Finish(token, code) \in Calls /\ Finish(token, code).at = "finish"
  <2>1. Finish(token, code) \in [at : {"finish"}, token : {None, "SEMICOLON", "R_PAREN"},
                                 code : Seq(Bytes)]
    BY DEF Finish
  <2>. QED
    BY <2>1 DEF Finish, Calls
<1>. QED
  BY <1>1, <1>2, <1>3, <1>4 DEF Expression

(* the jumps a new call holds are open, and its caller's or new *)
Fresh(q, c) ==
  c.at \in Holders =>
    /\ Ordered(c)
    /\ \A j \in Holds(c) : Open(Fn(q), j) /\ (j \in Holds(Top) \/ j >= Count(parser))

(* The jumps of a new call are those of the call it follows, or emitted    *)
(* since.                                                                  *)
LEMMA FreshHolds ==
  ASSUME NEW q, NEW c \in Calls, Fresh(q, c)
  PROVE  /\ Ordered(c) /\ (c.at \notin Holders => Holds(c) = {})
         /\ \A j \in Holds(c) : Open(Fn(q), j) /\ (j \in Holds(Top) \/ j >= Count(parser))
<1>1. CASE c.at \in Holders
  BY <1>1 DEF Fresh
<1>2. CASE c.at \notin Holders
  BY <1>2, HoldsNothing DEF Holders, Ordered
<1>. QED
  BY <1>1, <1>2

(* The call on top goes on with the function's scopes as they were.        *)
LEMMA GoesOn ==
  ASSUME CompilerInv, todo # << >>, NEW q, NEW calls, NEW J, Then(q, calls),
         Same(parser, q, J), J \subseteq Holds(Top), CallsStep(q, calls), JumpStep(q, calls, J),
         Top.at # "var_defined", ~Initializes(calls),
         EndsIn(calls, Scoped) <=> Top.at \in Scoped
  PROVE  Kept
<1>1. Fine(parser) /\ ScopesOK(Fn(parser))
      /\ (Top.at \notin ExprCalls => Settled(Fn(parser)))
  BY TopIs
<1>2. /\ Len(parser.fns) \in Nat /\ Len(parser.fns) \in 1 .. Len(parser.fns)
      /\ Fn(parser) = parser.fns[Len(parser.fns)] /\ Fn(parser).depth \in Nat
  BY <1>1, FineFn
<1>3. /\ Fine(q) /\ KeepsCode(parser, q, J) /\ Len(q.fns) = Len(parser.fns)
      /\ \A n \in 1 .. Len(parser.fns) :
           q.fns[n].depth = parser.fns[n].depth /\ q.fns[n].locals = parser.fns[n].locals
  BY DEF Same, KeepsScopes
<1>4. Fn(q).depth = Fn(parser).depth /\ Fn(q).locals = Fn(parser).locals
  BY <1>2, <1>3 DEF Fn
<1>5. ScopesOK(Fn(q)) /\ (Top.at \notin ExprCalls => Settled(Fn(q)))
  BY <1>1, <1>4 DEF ScopesOK, Settled
<1>6. ScopeStep(q, calls)
  <2>1. Fn(q).depth = Fn(parser).depth + (IF EndsIn(calls, Scoped) THEN 1 ELSE 0)
                                       - (IF Top.at \in Scoped THEN 1 ELSE 0)
    BY <1>2, <1>4
  <2>2. \A n \in 1 .. Len(parser.fns) - 1 : n \in 1 .. Len(parser.fns)
    BY <1>2
  <2>. QED
    BY <1>3, <1>4, <1>5, <2>1, <2>2 DEF ScopeStep
<1>. QED
  BY <1>3, <1>6, StepKeeps DEF Step, Kept

(* A call returns.                                                         *)
LEMMA NoCalls ==
  ASSUME NEW q, NEW J, Top.at \notin InFunction
  PROVE  /\ CallsStep(q, << >>) /\ JumpStep(q, << >>, J) /\ ~Initializes(<< >>)
         /\ \A S : ~EndsIn(<< >>, S)
<1>1. << >> \in Seq(Calls) /\ Len(<< >>) = 0
  BY EmptySeq
<1>2. \A i, k : k \in i .. 0 => k \in Int /\ k <= 0
  OBVIOUS
<1>. QED
  BY <1>1 DEF CallsStep, CallsFit, JumpStep, Initializes, EndsIn

(* A call goes on to one call.                                             *)
LEMMA OneCall ==
  ASSUME NEW q, NEW J, NEW a \in Calls, a.at \notin Immediate, Fresh(q, a),
         Top.at \in ExprCalls => a.at \in ExprCalls,
         Top.at \in InFunction <=> a.at \in InFunction
  PROVE  /\ CallsStep(q, <<a>>) /\ JumpStep(q, <<a>>, J)
         /\ Initializes(<<a>>) <=> a.at = "var_defined"
         /\ \A S : EndsIn(<<a>>, S) <=> a.at \in S
<1>1. <<a>> \in Seq(Calls) /\ Len(<<a>>) = 1 /\ <<a>>[1] = a /\ <<a>> # << >>
  OBVIOUS
<1>. DEFINE calls == <<a>>
<1>. HIDE DEF calls
<1>2. calls \in Seq(Calls) /\ Len(calls) = 1 /\ calls[1] = a /\ calls # << >>
  BY <1>1 DEF calls
<1>3. a.at \in InFunction => Holds(a) = {}
  BY HoldsNothing DEF InFunction
<1>4. Ordered(a) /\ \A j \in Holds(a) : Open(Fn(q), j) /\ (j \in Holds(Top) \/ j >= Count(parser))
  BY FreshHolds
<1>5. \A k : k \in 1 .. 1 <=> k = 1
  OBVIOUS
<1>6. CallsStep(q, calls)
  <2>1. \A k \in 2 .. Len(calls) : FALSE
    BY <1>2
  <2>2. \A k \in 1 .. Len(calls) - 1 : FALSE
    BY <1>2
  <2>3. \A k \in 1 .. Len(calls) : k = 1 /\ \A i \in 1 .. k - 1 : FALSE
    BY <1>2
  <2>4. a.at # "literal" /\ a.at # "binary"
    BY DEF Immediate, PrefixCalls
  <2>5. EndsIn(calls, InFunction) <=> a.at \in InFunction
    BY <1>2 DEF EndsIn
  <2>. QED
    BY <1>2, <2>1, <2>2, <2>3, <2>4, <2>5 DEF CallsStep, CallsFit
<1>7. JumpStep(q, calls, J)
  BY <1>2, <1>3, <1>4, <1>5 DEF JumpStep
<1>8. Initializes(calls) <=> a.at = "var_defined"
  BY <1>2, <1>5 DEF Initializes
<1>9. \A S : EndsIn(calls, S) <=> a.at \in S
  BY <1>2 DEF EndsIn
<1>. QED
  BY <1>6, <1>7, <1>8, <1>9 DEF calls

(* A call goes on to two.                                                  *)
LEMMA TwoCalls ==
  ASSUME NEW q, NEW J, NEW a \in Calls, NEW b \in Calls, b.at \notin Immediate, Fresh(q, b),
         a.at \notin Scoped \cup InFunction \cup Holders \cup {"var_defined"},
         a.at = "literal" => q.previous.type \in {"TRUE", "FALSE"},
         a.at = "binary" => q.previous.type \in BinaryTypes,
         b.at \in ExprCalls \cup {"var_defined"} => a.at \in ExprCalls,
         Top.at \in ExprCalls => b.at \in ExprCalls,
         Top.at \in InFunction <=> b.at \in InFunction
  PROVE  /\ CallsStep(q, <<a, b>>) /\ JumpStep(q, <<a, b>>, J)
         /\ Initializes(<<a, b>>) <=> b.at = "var_defined"
         /\ \A S : EndsIn(<<a, b>>, S) <=> b.at \in S
<1>1. /\ <<a, b>> \in Seq(Calls) /\ Len(<<a, b>>) = 2 /\ <<a, b>>[1] = a /\ <<a, b>>[2] = b
      /\ <<a, b>> # << >>
  OBVIOUS
<1>. DEFINE calls == <<a, b>>
<1>. HIDE DEF calls
<1>2. calls \in Seq(Calls) /\ Len(calls) = 2 /\ calls[1] = a /\ calls[2] = b /\ calls # << >>
  BY <1>1 DEF calls
<1>3. Holds(a) = {} /\ Ordered(a) /\ (b.at \in InFunction => Holds(b) = {})
  BY HoldsNothing DEF Holders, InFunction, Ordered
<1>4. Ordered(b) /\ \A j \in Holds(b) : Open(Fn(q), j) /\ (j \in Holds(Top) \/ j >= Count(parser))
  BY FreshHolds
<1>5. \A k : k \in 1 .. 2 <=> k = 1 \/ k = 2
  OBVIOUS
<1>6. CallsStep(q, calls)
  <2>1. \A k \in 2 .. Len(calls) : k = 2
    BY <1>2
  <2>2. \A k \in 1 .. Len(calls) - 1 : k = 1
    BY <1>2
  <2>3. \A k \in 1 .. Len(calls) :
          \/ k = 1 /\ \A i \in 1 .. k - 1 : FALSE
          \/ k = 2 /\ \A i \in 1 .. k - 1 : i = 1
    BY <1>2
  <2>4. EndsIn(calls, InFunction) <=> b.at \in InFunction
    BY <1>2 DEF EndsIn
  <2>5. \A k \in 1 .. Len(calls) : k = 1 \/ k = 2
    BY <2>3
  <2>. QED
    BY <1>2, <2>1, <2>2, <2>3, <2>4, <2>5 DEF CallsStep, CallsFit
<1>7. JumpStep(q, calls, J)
  BY <1>2, <1>3, <1>4, <1>5 DEF JumpStep
<1>8. Initializes(calls) <=> b.at = "var_defined"
  BY <1>2, <1>5 DEF Initializes
<1>9. \A S : EndsIn(calls, S) <=> b.at \in S
  BY <1>2 DEF EndsIn
<1>. QED
  BY <1>6, <1>7, <1>8, <1>9 DEF calls

(* A call goes on to three, the second of which may hold a jump.           *)
LEMMA ThreeCalls ==
  ASSUME NEW q, NEW J, NEW a \in Calls, NEW b \in Calls, NEW c \in Calls, Fresh(q, b),
         a.at \notin Scoped \cup InFunction \cup Holders \cup Immediate \cup {"var_defined"},
         b.at \notin Scoped \cup InFunction \cup ExprCalls \cup {"var_defined"},
         c.at \notin InFunction \cup Holders \cup ExprCalls \cup {"var_defined"},
         Top.at \notin ExprCalls \cup InFunction
  PROVE  /\ CallsStep(q, <<a, b, c>>) /\ JumpStep(q, <<a, b, c>>, J)
         /\ ~Initializes(<<a, b, c>>)
         /\ \A S : EndsIn(<<a, b, c>>, S) <=> c.at \in S
<1>1. /\ <<a, b, c>> \in Seq(Calls) /\ Len(<<a, b, c>>) = 3 /\ <<a, b, c>>[1] = a
      /\ <<a, b, c>>[2] = b /\ <<a, b, c>>[3] = c /\ <<a, b, c>> # << >>
  OBVIOUS
<1>. DEFINE calls == <<a, b, c>>
<1>. HIDE DEF calls
<1>2. /\ calls \in Seq(Calls) /\ Len(calls) = 3 /\ calls[1] = a /\ calls[2] = b /\ calls[3] = c
      /\ calls # << >>
  BY <1>1 DEF calls
<1>3. Holds(a) = {} /\ Ordered(a) /\ Holds(c) = {} /\ Ordered(c)
  BY HoldsNothing DEF Holders, Ordered
<1>4. Ordered(b) /\ \A j \in Holds(b) : Open(Fn(q), j) /\ (j \in Holds(Top) \/ j >= Count(parser))
  BY FreshHolds
<1>5. \A k : k \in 1 .. 3 <=> k = 1 \/ k = 2 \/ k = 3
  OBVIOUS
<1>6. CallsStep(q, calls)
  <2>1. \A k \in 2 .. Len(calls) : k = 2 \/ k = 3
    BY <1>2
  <2>2. \A k \in 1 .. Len(calls) - 1 : k = 1 \/ k = 2
    BY <1>2
  <2>3. \A k \in 1 .. Len(calls) : (k = 1 /\ \A i \in 1 .. k - 1 : FALSE) \/ k = 2 \/ k = 3
    BY <1>2
  <2>4. ~EndsIn(calls, InFunction)
    BY <1>2 DEF EndsIn
  <2>5. b.at \notin Immediate /\ c.at \notin Immediate /\ a.at # "literal" /\ a.at # "binary"
    BY DEF ExprCalls, Immediate, PrefixCalls
  <2>. QED
    BY <1>2, <2>1, <2>2, <2>3, <2>4, <2>5 DEF CallsStep, CallsFit
<1>7. JumpStep(q, calls, J)
  BY <1>2, <1>3, <1>4, <1>5 DEF JumpStep
<1>8. ~Initializes(calls)
  BY <1>2, <1>5 DEF Initializes
<1>9. \A S : EndsIn(calls, S) <=> c.at \in S
  BY <1>2 DEF EndsIn
<1>. QED
  BY <1>6, <1>7, <1>8, <1>9 DEF calls

(* The steps that leave the scopes alone: to no call, to one, to two.      *)
LEMMA Returns ==
  ASSUME CompilerInv, todo # << >>, NEW q, NEW J, Return(q), Same(parser, q, J),
         J \subseteq Holds(Top), Top.at \notin InFunction \cup Scoped \cup {"var_defined"}
  PROVE  Kept
<1>1. /\ CallsStep(q, << >>) /\ JumpStep(q, << >>, J) /\ ~Initializes(<< >>)
      /\ ~EndsIn(<< >>, Scoped)
  BY NoCalls
<1>2. Then(q, << >>)
  BY DEF Return
<1>. HIDE DEF Scoped
<1>. QED
  BY <1>1, <1>2, GoesOn

(* The call on top goes on as one call, and touches no scope.              *)
LEMMA GoesToOne ==
  ASSUME CompilerInv, todo # << >>, NEW q, NEW J, NEW a \in Calls, Then(q, <<a>>),
         Same(parser, q, J), J \subseteq Holds(Top),
         a.at \notin Immediate \cup {"var_defined"}, Fresh(q, a), Top.at # "var_defined",
         Top.at \in ExprCalls => a.at \in ExprCalls,
         Top.at \in InFunction <=> a.at \in InFunction,
         Top.at \in Scoped <=> a.at \in Scoped
  PROVE  Kept
<1>1. /\ CallsStep(q, <<a>>) /\ JumpStep(q, <<a>>, J) /\ ~Initializes(<<a>>)
      /\ EndsIn(<<a>>, Scoped) <=> a.at \in Scoped
  BY OneCall
<1>. QED
  BY <1>1, GoesOn

(* The call on top calls another one and goes on, and touches no scope.    *)
LEMMA GoesToTwo ==
  ASSUME CompilerInv, todo # << >>, NEW q, NEW J, NEW a \in Calls, NEW b \in Calls,
         Then(q, <<a, b>>), Same(parser, q, J), J \subseteq Holds(Top),
         b.at \notin Immediate \cup {"var_defined"}, Fresh(q, b), Top.at # "var_defined",
         a.at \notin Scoped \cup InFunction \cup Holders \cup {"var_defined"},
         a.at = "literal" => q.previous.type \in {"TRUE", "FALSE"},
         a.at = "binary" => q.previous.type \in BinaryTypes,
         b.at \in ExprCalls => a.at \in ExprCalls,
         Top.at \in ExprCalls => b.at \in ExprCalls,
         Top.at \in InFunction <=> b.at \in InFunction,
         Top.at \in Scoped <=> b.at \in Scoped
  PROVE  Kept
<1>1. /\ CallsStep(q, <<a, b>>) /\ JumpStep(q, <<a, b>>, J) /\ ~Initializes(<<a, b>>)
      /\ EndsIn(<<a, b>>, Scoped) <=> b.at \in Scoped
  BY TwoCalls
<1>. QED
  BY <1>1, GoesOn

(* One more helper after others.                                           *)
LEMMA Further ==
  ASSUME NEW p, Fine(p), text \in Texts, NEW q, NEW J, Same(p, q, J)
  PROVE  /\ Fine(q) /\ Same(p, Advance(q), J) /\ Same(p, ErrorAt(q), J)
         /\ \A type : Same(p, Consume(q, type), J)
         /\ \A bytes \in Seq(Bytes) : Same(p, Emit(q, bytes), J)
         /\ \A op \in Emitted : Same(p, EmitOp(q, op), J)
         /\ \A v : Same(p, AddConstant(q, v), J) /\ Same(p, EmitConstant(q, v), J)
         /\ \A start \in Nat : Same(p, EmitLoop(q, start), J)
         /\ \A op \in {"JMP", "JMP_FALSE"} : Same(p, EmitJump(q, op), J)
<1>1. Fine(q)
  BY DEF Same
<1>2. \A r : Same(q, r, {}) => Same(p, r, J)
  BY SameMore, SameTrans
<1>. QED
  BY <1>1, <1>2, HelpersKeep, JumpsKeep

(* Codes.                                                                  *)
LEMMA CodesAre ==
  /\ << >> \in Seq(Bytes)
  /\ \A n \in Bytes : <<n>> \in Seq(Bytes)
  /\ \A a \in Emitted : Opcode[a] \in Bytes /\ <<Opcode[a]>> \in Seq(Bytes)
  /\ \A a \in Emitted, b \in Emitted : <<Opcode[a], Opcode[b]>> \in Seq(Bytes)
  /\ \A a \in Emitted, n \in Bytes : <<Opcode[a], n>> \in Seq(Bytes)
BY OpcodeIsByte, EmptySeq
-----------------------------------------------------------------------------
(* The actions, one by one: the declarations and statements.               *)

(* tr_parser_compile reads the first token.                                *)
LEMMA CompileKeeps ==
  ASSUME CompilerInv, Compile
  PROVE  Kept
<1>1. todo # << >> /\ Top.at = "compile" /\ Then(Advance(parser), <<Do("script")>>)
  BY DEF Compile, At
<1>2. Same(parser, Advance(parser), {})
  BY <1>1, TopIs, HelpersKeep
<1>3. Do("script") \in Calls /\ Do("script").at = "script"
  BY CallForms DEF PlainCalls
<1>. QED
  BY <1>1, <1>2, <1>3, GoesToOne
     DEF Fresh, Holders, Immediate, PrefixCalls, ExprCalls, InFunction, Scoped

(* tr_parser_compile calls declaration until the end of the text.          *)
LEMMA ScriptKeeps ==
  ASSUME CompilerInv, Script
  PROVE  Kept
<1>1. todo # << >> /\ Top.at = "script" /\ Then(parser, <<Do("declaration"), Do("script")>>)
  BY DEF Script, At
<1>2. Same(parser, parser, {})
  BY <1>1, TopIs, SameSelf
<1>3. /\ Do("declaration") \in Calls /\ Do("declaration").at = "declaration"
      /\ Do("script") \in Calls /\ Do("script").at = "script"
  BY CallForms DEF PlainCalls
<1>. QED
  BY <1>1, <1>2, <1>3, GoesToTwo
     DEF Fresh, Holders, Immediate, PrefixCalls, ExprCalls, InFunction, Scoped

(* At the end the script returns nil.                                      *)
LEMMA ScriptEndKeeps ==
  ASSUME CompilerInv, ScriptEnd
  PROVE  Kept
<1>. DEFINE code == <<Opcode["NIL"], Opcode["RETURN"]>>
            q == Consume(Emit(Advance(parser), code), "EOF")
<1>1. todo # << >> /\ Top.at = "script" /\ Return(q)
  BY DEF ScriptEnd, At
<1>2. Fine(parser) /\ text \in Texts /\ code \in Seq(Bytes)
  BY <1>1, TopIs, CodesAre DEF Emitted
<1>3. Same(parser, Advance(parser), {})
  BY <1>2, HelpersKeep
<1>4. Same(parser, Emit(Advance(parser), code), {})
  BY <1>2, <1>3, Further
<1>5. Same(parser, q, {})
  BY <1>2, <1>4, Further
<1>. HIDE DEF q
<1>. QED
  BY <1>1, <1>5, Returns DEF InFunction, Scoped

(* declaration goes by the token it matches.                               *)
LEMMA DeclarationKeeps ==
  ASSUME CompilerInv, Declaration
  PROVE  Kept
<1>. DEFINE name == Declares(parser.current.type)
            q == IF name = "statement" THEN parser ELSE Advance(parser)
<1>1. todo # << >> /\ Top.at = "declaration" /\ Then(q, <<Do(name), Do("declared")>>)
  BY DEF Declaration, At
<1>2. Same(parser, q, {})
  BY <1>1, TopIs, HelpersKeep, SameSelf
<1>3. name \in {"func_declaration", "var_declaration", "for_statement", "if_statement",
                "return_statement", "while_statement", "statement"}
  BY DEF Declares
<1>. HIDE DEF name, q
<1>4. /\ Do(name) \in Calls /\ Do(name).at = name
      /\ Do("declared") \in Calls /\ Do("declared").at = "declared"
  BY <1>3, CallForms DEF PlainCalls
<1>5. /\ name \notin Scoped \cup InFunction \cup Holders \cup {"var_defined"}
      /\ name # "literal" /\ name # "binary"
  BY <1>3 DEF Scoped, InFunction, Holders
<1>6. Fresh(q, Do("declared"))
  BY <1>4 DEF Fresh, Holders
<1>7. \A n \in {"declaration", "declared"} :
        n \notin Immediate \cup ExprCalls \cup InFunction \cup Scoped \cup {"var_defined"}
  BY DEF Immediate, PrefixCalls, ExprCalls, InFunction, Scoped
<1>. QED
  BY <1>1, <1>2, <1>4, <1>5, <1>6, <1>7, GoesToTwo

(* Panic mode ends, and the error stays reported.                          *)
LEMMA CalmIsSame ==
  ASSUME NEW p, Fine(p), NEW q, q = [p EXCEPT !.panicking = FALSE]
  PROVE  Same(p, q, {})
<1>1. PICK S : Sound(p, S)
  BY DEF Fine
<1>2. q.fns = p.fns
  BY <1>1 DEF Sound, ParserSet
<1>3. Sound(q, S)
  BY <1>1 DEF Sound, ParserSet
<1>. QED
  BY <1>1, <1>2, <1>3, KeepsSelf DEF Same, Fine

(* declaration synchronizes after an error.                                *)
LEMMA DeclaredKeeps ==
  ASSUME CompilerInv, Declared
  PROVE  Kept
<1>1. todo # << >> /\ Top.at = "declared" /\ Fine(parser)
  BY TopIs DEF Declared, At
<1>2. CASE parser.panicking
  <2>. DEFINE q == [parser EXCEPT !.panicking = FALSE]
  <2>1. Then(q, <<Do("synchronize")>>)
    BY <1>2 DEF Declared
  <2>2. Same(parser, q, {})
    BY <1>1, CalmIsSame
  <2>3. Do("synchronize") \in Calls /\ Do("synchronize").at = "synchronize"
    BY CallForms DEF PlainCalls
  <2>. HIDE DEF q
  <2>. QED
    BY <1>1, <2>1, <2>2, <2>3, GoesToOne
       DEF Fresh, Holders, Immediate, PrefixCalls, ExprCalls, InFunction, Scoped
<1>3. CASE ~parser.panicking
  BY <1>1, <1>3, SameSelf, Returns DEF Declared, InFunction, Scoped
<1>. QED
  BY <1>2, <1>3

(* synchronize skips a token or stops.                                     *)
LEMMA SynchronizeKeeps ==
  ASSUME CompilerInv, Synchronize
  PROVE  Kept
<1>1. /\ todo # << >> /\ Top.at = "synchronize" /\ Fine(parser) /\ text \in Texts
      /\ Top \in Calls
  BY TopIs DEF Synchronize, At
<1>2. Return(parser) \/ Then(Advance(parser), <<Top>>)
  BY DEF Synchronize
<1>3. CASE Return(parser)
  BY <1>1, <1>3, SameSelf, Returns DEF InFunction, Scoped
<1>4. CASE Then(Advance(parser), <<Top>>)
  BY <1>1, <1>4, HelpersKeep, GoesToOne
     DEF Fresh, Holders, Immediate, PrefixCalls, ExprCalls, InFunction, Scoped
<1>. QED
  BY <1>2, <1>3, <1>4

(* A parse function consumes its last token and emits its instruction.     *)
LEMMA FinishCallKeeps ==
  ASSUME CompilerInv, FinishCall
  PROVE  Kept
<1>. DEFINE r == IF Top.token = None THEN parser ELSE Consume(parser, Top.token)
            q == Emit(r, Top.code)
<1>1. todo # << >> /\ Top.at = "finish" /\ Return(q)
  BY DEF FinishCall, At
<1>2. Top \in Calls /\ Fine(parser) /\ text \in Texts
  BY <1>1, TopIs
<1>3. Top.code \in Seq(Bytes)
  BY <1>1, <1>2 DEF Calls, PlainCalls, PrefixCalls, InFunction
<1>4. Same(parser, r, {})
  BY <1>2, HelpersKeep, SameSelf
<1>5. Same(parser, q, {})
  BY <1>2, <1>3, <1>4, Further
<1>. HIDE DEF q
<1>. QED
  BY <1>1, <1>5, Returns DEF InFunction, Scoped

(* statement begins a block in a scope of its own, or is an expression.    *)
LEMMA StatementKeeps ==
  ASSUME CompilerInv, Statement
  PROVE  Kept
<1>1. /\ todo # << >> /\ Top.at = "statement" /\ Fine(parser) /\ text \in Texts
      /\ ScopesOK(Fn(parser)) /\ Settled(Fn(parser))
  BY TopIs DEF Statement, At, ExprCalls, Immediate, PrefixCalls
<1>2. CASE Check(parser, "L_BRACE")
  <2>. DEFINE q == BeginScope(Advance(parser))  calls == <<Do("block"), Do("end_scope")>>
  <2>1. Then(q, calls)
    BY <1>2 DEF Statement
  <2>2. Same(parser, Advance(parser), {}) /\ Fine(Advance(parser))
    BY <1>1, HelpersKeep DEF Same
  <2>3. /\ Within(parser, Advance(parser)) /\ Fn(Advance(parser)).depth = Fn(parser).depth
        /\ ScopesOK(Fn(Advance(parser))) /\ Settled(Fn(Advance(parser)))
    BY <1>1, <2>2, SameIsWithin
  <2>4. /\ Within(Advance(parser), q) /\ ScopesOK(Fn(q)) /\ Settled(Fn(q))
        /\ Fn(q).depth = Fn(Advance(parser)).depth + 1
    BY <2>2, <2>3, BeginScopeKeeps
  <2>5. Within(parser, q)
    BY <1>1, <2>3, <2>4, WithinTrans
  <2>6. /\ Do("block") \in Calls /\ Do("block").at = "block"
        /\ Do("end_scope") \in Calls /\ Do("end_scope").at = "end_scope"
    BY CallForms DEF PlainCalls
  <2>. HIDE DEF q
  <2>7. /\ CallsStep(q, calls) /\ JumpStep(q, calls, {}) /\ ~Initializes(calls)
        /\ EndsIn(calls, Scoped)
    BY <1>1, <2>6, TwoCalls
       DEF Fresh, Holders, Immediate, PrefixCalls, ExprCalls, InFunction, Scoped
  <2>. HIDE DEF calls
  <2>8. ScopeStep(q, calls)
    <3>1. Fn(parser).depth \in Nat
      BY <1>1, FineFn
    <3>2. Top.at \notin Scoped /\ Top.at \notin ExprCalls
      BY <1>1 DEF Scoped, ExprCalls, Immediate, PrefixCalls
    <3>3. Fn(q).depth = Fn(parser).depth + 1 - 0
      BY <2>3, <2>4, <3>1
    <3>. QED
      BY <2>4, <2>5, <2>7, <3>2, <3>3 DEF ScopeStep, Within
  <2>. QED
    BY <1>1, <2>1, <2>5, <2>7, <2>8, StepKeeps DEF Step, Kept, Within
<1>3. CASE ~Check(parser, "L_BRACE")
  <2>1. Then(parser, <<Do("expression_statement")>>)
    BY <1>3 DEF Statement
  <2>2. /\ Do("expression_statement") \in Calls
        /\ Do("expression_statement").at = "expression_statement"
    BY CallForms DEF PlainCalls
  <2>. QED
    BY <1>1, <2>1, <2>2, SameSelf, GoesToOne
       DEF Fresh, Holders, Immediate, PrefixCalls, ExprCalls, InFunction, Scoped
<1>. QED
  BY <1>2, <1>3

(* An expression, and its value popped.                                    *)
LEMMA ExpressionStatementKeeps ==
  ASSUME CompilerInv, ExpressionStatement
  PROVE  Kept
<1>. DEFINE b == Finish("SEMICOLON", <<Opcode["POP"]>>)
<1>1. /\ todo # << >> /\ Top.at = "expression_statement" /\ Fine(parser)
      /\ Then(parser, <<Expression, b>>)
  BY TopIs DEF ExpressionStatement, At
<1>2. Expression \in Calls /\ Expression.at = "precedence" /\ b \in Calls /\ b.at = "finish"
  BY CallForms, CodesAre DEF Emitted
<1>. HIDE DEF b
<1>. QED
  BY <1>1, <1>2, SameSelf, GoesToTwo
     DEF Fresh, Holders, Immediate, PrefixCalls, ExprCalls, InFunction, Scoped

(* block calls declaration until its brace.                                *)
LEMMA BlockKeeps ==
  ASSUME CompilerInv, Block
  PROVE  Kept
<1>1. todo # << >> /\ Top.at = "block" /\ Fine(parser) /\ text \in Texts
  BY TopIs DEF Block, At
<1>2. \/ Return(Consume(parser, "R_BRACE"))
      \/ Then(parser, <<Do("declaration"), Do("block")>>)
  BY DEF Block
<1>3. /\ Do("declaration") \in Calls /\ Do("declaration").at = "declaration"
      /\ Do("block") \in Calls /\ Do("block").at = "block"
  BY CallForms DEF PlainCalls
<1>4. CASE Return(Consume(parser, "R_BRACE"))
  BY <1>1, <1>4, HelpersKeep, Returns DEF InFunction, Scoped
<1>5. CASE Then(parser, <<Do("declaration"), Do("block")>>)
  BY <1>1, <1>3, <1>5, SameSelf, GoesToTwo
     DEF Fresh, Holders, Immediate, PrefixCalls, ExprCalls, InFunction, Scoped
<1>. QED
  BY <1>2, <1>4, <1>5

(* The scope that statement or for_statement began ends.                   *)
LEMMA ScopeEndsKeeps ==
  ASSUME CompilerInv, ScopeEnds
  PROVE  Kept
<1>. DEFINE q == EndScope(parser)
<1>1. todo # << >> /\ Top.at = "end_scope" /\ Then(q, << >>)
  BY DEF ScopeEnds, At, Return
<1>2. /\ Fine(parser) /\ text \in Texts /\ ScopesOK(Fn(parser)) /\ Settled(Fn(parser))
      /\ Fn(parser).depth >= 1
  BY <1>1, TopIs DEF ExprCalls, Immediate, PrefixCalls, Scoped
<1>3. /\ Within(parser, q) /\ ScopesOK(Fn(q)) /\ Settled(Fn(q))
      /\ Fn(q).depth = Fn(parser).depth - 1
  BY <1>2, EndScopeKeeps
<1>. HIDE DEF q
<1>4. /\ CallsStep(q, << >>) /\ JumpStep(q, << >>, {}) /\ ~Initializes(<< >>)
      /\ ~EndsIn(<< >>, Scoped)
  BY <1>1, NoCalls DEF InFunction
<1>5. ScopeStep(q, << >>)
  <2>1. Top.at \in Scoped /\ Top.at \notin ExprCalls
    BY <1>1 DEF Scoped, ExprCalls, Immediate, PrefixCalls
  <2>2. Fn(q).depth = Fn(parser).depth + 0 - 1
    BY <1>2, <1>3, FineFn
  <2>. QED
    BY <1>3, <1>4, <2>1, <2>2 DEF ScopeStep, Within
<1>. QED
  BY <1>1, <1>3, <1>4, <1>5, StepKeeps DEF Step, Kept, Within

(* A step that may change the locals of the function, but neither begins   *)
(* nor ends a scope.                                                       *)
LEMMA Declaring ==
  ASSUME CompilerInv, todo # << >>, NEW q, NEW calls, Then(q, calls),
         Within(parser, q), ScopesOK(Fn(q)), Fn(q).depth = Fn(parser).depth,
         CallsStep(q, calls), JumpStep(q, calls, {}),
         EndsIn(calls, Scoped) <=> Top.at \in Scoped,
         Top.at \notin ExprCalls, Settled(Fn(q)) \/ Initializes(calls),
         Initializes(calls) => Roomy(q)
  PROVE  Kept
<1>1. Fn(parser).depth \in Nat
  BY TopIs, FineFn
<1>2. Fn(q).depth = Fn(parser).depth + (IF EndsIn(calls, Scoped) THEN 1 ELSE 0)
                                     - (IF Top.at \in Scoped THEN 1 ELSE 0)
  BY <1>1
<1>3. ScopeStep(q, calls)
  BY <1>2 DEF ScopeStep, Within
<1>. QED
  BY <1>3, StepKeeps DEF Step, Kept, Within

(* Roominess is of the locals only.                                        *)
LEMMA RoomySame ==
  ASSUME NEW p, NEW q, Roomy(p), Fn(q).depth = Fn(p).depth, Fn(q).locals = Fn(p).locals
  PROVE  Roomy(q)
BY DEF Roomy, ScopeDepth

(* A local declared waits for its initializer: the one case of a wait.     *)
LEMMA VarDeclarationKeeps ==
  ASSUME CompilerInv, VarDeclaration
  PROVE  Kept
<1>. DEFINE q == ParseVariable(parser)
            d == [at |-> "var_defined", global |-> VariableId(parser)]
            r == IF Check(q, "ASSIGN") THEN Advance(q) ELSE EmitOp(q, "NIL")
<1>1. /\ todo # << >> /\ Top.at = "var_declaration" /\ Fine(parser) /\ text \in Texts
      /\ ScopesOK(Fn(parser)) /\ Settled(Fn(parser))
  BY TopIs DEF VarDeclaration, At, ExprCalls, Immediate, PrefixCalls
<1>2. Then(r, <<Expression, d>>) \/ Then(r, <<d>>)
  BY DEF VarDeclaration
<1>3. d \in Calls /\ d.at = "var_defined"
  <2>1. d \in [at : {"var_defined"} \cup InFunction, global : Bytes]
    BY <1>1, VariableIdIsByte
  <2>. QED
    BY <2>1 DEF Calls
<1>4. Expression \in Calls /\ Expression.at = "precedence"
  BY CallForms
<1>5. /\ Within(parser, q) /\ Fn(q).depth = Fn(parser).depth /\ ScopesOK(Fn(q)) /\ Roomy(q)
      /\ Fine(q)
  BY <1>1, ParseVariableKeeps DEF Within
<1>6. Same(q, r, {})
  BY <1>1, <1>5, HelpersKeep DEF Emitted
<1>. HIDE DEF q, r, d
<1>7. /\ Within(q, r) /\ Fn(r).depth = Fn(q).depth /\ Fn(r).locals = Fn(q).locals
      /\ ScopesOK(Fn(r))
  BY <1>5, <1>6, SameIsWithin
<1>8. Within(parser, r) /\ Roomy(r) /\ Fn(r).depth = Fn(parser).depth
  BY <1>1, <1>5, <1>7, WithinTrans, RoomySame
<1>9. /\ Top.at \notin ExprCalls \cup Scoped \cup InFunction /\ Fresh(r, d)
      /\ d.at \notin Immediate \cup Scoped \cup InFunction
      /\ Expression.at \notin Scoped \cup InFunction \cup Holders \cup {"var_defined"}
      /\ Expression.at \in ExprCalls /\ Expression.at # "literal" /\ Expression.at # "binary"
  BY <1>1, <1>3, <1>4
     DEF Fresh, Holders, Immediate, PrefixCalls, ExprCalls, InFunction, Scoped
<1>10. CASE Then(r, <<Expression, d>>)
  <2>1. /\ CallsStep(r, <<Expression, d>>) /\ JumpStep(r, <<Expression, d>>, {})
        /\ Initializes(<<Expression, d>>) /\ ~EndsIn(<<Expression, d>>, Scoped)
    BY <1>3, <1>4, <1>9, TwoCalls
  <2>. QED
    BY <1>1, <1>7, <1>8, <1>9, <1>10, <2>1, Declaring
<1>11. CASE Then(r, <<d>>)
  <2>1. /\ CallsStep(r, <<d>>) /\ JumpStep(r, <<d>>, {})
        /\ Initializes(<<d>>) /\ ~EndsIn(<<d>>, Scoped)
    BY <1>3, <1>9, OneCall
  <2>. QED
    BY <1>1, <1>7, <1>8, <1>9, <1>11, <2>1, Declaring
<1>. QED
  BY <1>2, <1>10, <1>11

(* The wait ends.                                                          *)
LEMMA VarDefinedKeeps ==
  ASSUME CompilerInv, VarDefined
  PROVE  Kept
<1>. DEFINE q == Consume(parser, "SEMICOLON")
            r == DefineGlobal(q, Top.global)
<1>1. /\ todo # << >> /\ Top.at = "var_defined" /\ Fine(parser) /\ text \in Texts
      /\ ScopesOK(Fn(parser)) /\ Roomy(parser) /\ Top \in Calls /\ Then(r, << >>)
  BY TopIs DEF VarDefined, At, Return
<1>2. Top.global \in Bytes
  BY <1>1 DEF Calls, PlainCalls, PrefixCalls, InFunction
<1>3. Same(parser, q, {}) /\ Fine(q)
  BY <1>1, HelpersKeep DEF Same
<1>4. /\ Within(parser, q) /\ Fn(q).depth = Fn(parser).depth /\ ScopesOK(Fn(q)) /\ Roomy(q)
  BY <1>1, <1>3, SameIsWithin, RoomySame
<1>5. Within(q, r) /\ Fn(r).depth = Fn(q).depth /\ ScopesOK(Fn(r)) /\ Settled(Fn(r))
  BY <1>1, <1>2, <1>3, <1>4, DefineGlobalKeeps
<1>. HIDE DEF q, r
<1>6. Within(parser, r) /\ Fn(r).depth = Fn(parser).depth
  BY <1>1, <1>4, <1>5, WithinTrans
<1>7. /\ CallsStep(r, << >>) /\ JumpStep(r, << >>, {}) /\ ~Initializes(<< >>)
      /\ ~EndsIn(<< >>, Scoped) /\ Top.at \notin Scoped /\ Top.at \notin ExprCalls
  BY <1>1, NoCalls DEF InFunction, Scoped, ExprCalls, Immediate, PrefixCalls
<1>. QED
  BY <1>1, <1>5, <1>6, <1>7, Declaring
-----------------------------------------------------------------------------
(* The statements that jump.                                               *)

(* A jump emitted now is open, and after every byte there was.             *)
LEMMA NewJump ==
  ASSUME NEW p, Fine(p), NEW c, NEW J, Same(p, c, J), NEW op \in {"JMP", "JMP_FALSE"},
         NEW q, q = EmitJump(c, op)
  PROVE  /\ Fine(c) /\ Fine(q) /\ Same(c, q, {}) /\ Same(p, q, J)
         /\ Open(Fn(q), JumpOf(q)) /\ JumpOf(q) \in Nat
         /\ JumpOf(q) = Count(c) + 1 /\ Count(c) \in Nat /\ Count(p) \in Nat
         /\ Count(c) >= Count(p) /\ JumpOf(q) >= Count(p) /\ Count(q) \in Nat
<1>1. Fine(c)
  BY DEF Same
<1>2. Same(c, q, {}) /\ JumpOf(q) = Count(c) + 1 /\ Open(Fn(q), JumpOf(q))
  BY <1>1, JumpsKeep
<1>3. Same(p, q, J) /\ Fine(q)
  BY <1>2, SameMore, SameTrans DEF Same
<1>4. /\ Len(p.fns) \in Nat /\ Len(p.fns) \in 1 .. Len(p.fns) /\ Fn(p) = p.fns[Len(p.fns)]
      /\ Count(p) \in Nat /\ Count(p) = Len(Fn(p).code)
  BY FineFn
<1>5. /\ Fn(c) = c.fns[Len(c.fns)] /\ Count(c) \in Nat /\ Count(c) = Len(Fn(c).code)
      /\ Count(q) \in Nat
  BY <1>1, <1>3, FineFn
<1>6. Len(c.fns) = Len(p.fns) /\ Count(c) >= Count(p)
  BY <1>4, <1>5 DEF Same, KeepsCode
<1>. DEFINE j == JumpOf(q)  n == Count(c)  m == Count(p)
<1>. HIDE DEF j, n, m
<1>7. j \in Nat /\ j >= m
  <2>1. j = n + 1 /\ n \in Nat /\ m \in Nat /\ n >= m
    BY <1>2, <1>4, <1>5, <1>6 DEF j, n, m
  <2>. QED
    BY <2>1
<1>. QED
  BY <1>1, <1>2, <1>3, <1>4, <1>5, <1>6, <1>7 DEF j, n, m

(* A statement begins with an expression.                                  *)
LEMMA ExpressionFirst ==
  ASSUME CompilerInv, todo # << >>, NEW q, NEW b \in Calls, Then(q, <<Expression, b>>),
         Same(parser, q, {}), Fresh(q, b),
         b.at \notin Immediate \cup ExprCalls \cup InFunction \cup Scoped \cup {"var_defined"},
         Top.at \notin ExprCalls \cup InFunction \cup Scoped \cup {"var_defined"}
  PROVE  Kept
<1>1. Expression \in Calls /\ Expression.at = "precedence"
  BY CallForms
<1>2. /\ Expression.at \notin Scoped \cup InFunction \cup Holders \cup {"var_defined"}
      /\ Expression.at # "literal" /\ Expression.at # "binary"
  BY <1>1 DEF Scoped, InFunction, Holders
<1>. DEFINE calls == <<Expression, b>>
<1>3. /\ CallsStep(q, calls) /\ JumpStep(q, calls, {}) /\ ~Initializes(calls)
      /\ ~EndsIn(calls, Scoped) /\ Then(q, calls)
  BY <1>1, <1>2, TwoCalls
<1>. HIDE DEF calls
<1>4. {} \subseteq Holds(Top)
  OBVIOUS
<1>. QED
  BY <1>3, <1>4, GoesOn

(* The condition of an if.                                                 *)
LEMMA IfStatementKeeps ==
  ASSUME CompilerInv, IfStatement
  PROVE  Kept
<1>. DEFINE q == Consume(parser, "L_PAREN")  b == Do("if_then")
<1>1. /\ todo # << >> /\ Top.at = "if_statement" /\ Fine(parser) /\ text \in Texts
      /\ Then(q, <<Expression, b>>)
  BY TopIs DEF IfStatement, At
<1>2. /\ Expression \in Calls /\ Expression.at = "precedence"
      /\ b \in Calls /\ b.at = "if_then"
  BY CallForms DEF PlainCalls
<1>3. Same(parser, q, {}) /\ {} \subseteq Holds(Top)
  BY <1>1, HelpersKeep
<1>. HIDE DEF q, b
<1>4. /\ Fresh(q, b)
      /\ b.at \notin Immediate \cup ExprCalls \cup InFunction \cup Scoped \cup {"var_defined"}
      /\ Top.at \notin ExprCalls \cup InFunction \cup Scoped \cup {"var_defined"}
  BY <1>1, <1>2 DEF Fresh, Holders, Immediate, PrefixCalls, ExprCalls, InFunction, Scoped
<1>. QED
  BY <1>1, <1>2, <1>3, <1>4, ExpressionFirst

(* The jump over the first branch is left open for the call that ends it.  *)
LEMMA IfThenKeeps ==
  ASSUME CompilerInv, IfThen
  PROVE  Kept
<1>. DEFINE c == Consume(parser, "R_PAREN")
            q == EmitJump(c, "JMP_FALSE")
            r == EmitOp(q, "POP")
            b == [at |-> "if_else", jump |-> JumpOf(q)]
<1>1. /\ todo # << >> /\ Top.at = "if_then" /\ Fine(parser) /\ text \in Texts
      /\ Then(r, <<Do("statement"), b>>)
  BY TopIs DEF IfThen, At
<1>2. Same(parser, c, {})
  BY <1>1, HelpersKeep
<1>. HIDE DEF c
<1>3. /\ Same(parser, q, {}) /\ Fine(q) /\ Open(Fn(q), JumpOf(q)) /\ JumpOf(q) \in Nat
      /\ JumpOf(q) >= Count(parser)
  BY <1>1, <1>2, NewJump
<1>. HIDE DEF q
<1>4. Same(q, r, {}) /\ Same(parser, r, {})
  BY <1>1, <1>3, HelpersKeep, Further DEF Emitted
<1>5. Open(Fn(r), JumpOf(q))
  BY <1>3, <1>4, OpenStays
<1>6. b \in Calls /\ b.at = "if_else" /\ b.jump = JumpOf(q)
  <2>1. b \in [at : {"if_else", "if_end"}, jump : Nat]
    BY <1>3
  <2>. QED
    BY <2>1 DEF Calls
<1>7. Do("statement") \in Calls /\ Do("statement").at = "statement"
  BY CallForms DEF PlainCalls
<1>. HIDE DEF r, b
<1>8. Fresh(r, b)
  BY <1>3, <1>5, <1>6, HoldsJump DEF Fresh, Ordered
<1>. QED
  BY <1>1, <1>4, <1>6, <1>7, <1>8, GoesToTwo
     DEF Holders, Immediate, PrefixCalls, ExprCalls, InFunction, Scoped

(* It is patched, and the jump over the second branch left open.           *)
LEMMA IfElseKeeps ==
  ASSUME CompilerInv, IfElse
  PROVE  Kept
<1>. DEFINE q == EmitJump(parser, "JMP")
            s == PatchJump(q, Top.jump)
            r == EmitOp(s, "POP")
            t == IF Check(r, "ELSE") THEN Advance(r) ELSE r
            b == [at |-> "if_end", jump |-> JumpOf(q)]
<1>1. /\ todo # << >> /\ Top.at = "if_else" /\ Fine(parser) /\ text \in Texts /\ Top \in Calls
      /\ \A j \in Holds(Top) : Open(Fn(parser), j)
  BY TopIs DEF IfElse, At, InFunction
<1>2. Then(t, <<Do("statement"), b>>) \/ Then(t, <<b>>)
  BY DEF IfElse
<1>3. Holds(Top) = {Top.jump} /\ Top.jump \in Nat /\ Open(Fn(parser), Top.jump)
  BY <1>1, HoldsJump
<1>4. /\ Same(parser, q, {}) /\ Fine(q) /\ Open(Fn(q), JumpOf(q)) /\ JumpOf(q) \in Nat
      /\ JumpOf(q) = Count(parser) + 1 /\ Count(parser) \in Nat /\ JumpOf(q) >= Count(parser)
  BY <1>1, SameSelf, NewJump
<1>5. JumpOf(q) > Top.jump + 1
  <2>1. Top.jump + 2 <= Count(parser)
    BY <1>1, <1>3, FineFn DEF Open
  <2>. QED
    BY <1>3, <1>4, <2>1
<1>. HIDE DEF q
<1>6. Open(Fn(q), Top.jump)
  BY <1>1, <1>3, <1>4, OpenStays
<1>7. Same(q, s, {Top.jump}) /\ Fine(s)
  BY <1>4, <1>6, PatchKeeps DEF Same
<1>8. Open(Fn(s), JumpOf(q))
  BY <1>3, <1>4, <1>5, <1>7, OpenStays
<1>9. Same(parser, s, {Top.jump})
  BY <1>1, <1>4, <1>7, SameMore, SameTrans
<1>. HIDE DEF s
<1>10. /\ Same(s, r, {}) /\ Same(parser, r, {Top.jump}) /\ Fine(r)
  BY <1>1, <1>7, <1>9, HelpersKeep, Further DEF Emitted, Same
<1>. HIDE DEF r
<1>11. Same(s, t, {}) /\ Same(parser, t, {Top.jump})
  BY <1>1, <1>7, <1>10, Further
<1>. HIDE DEF t
<1>12. Open(Fn(t), JumpOf(q))
  BY <1>7, <1>8, <1>11, OpenStays
<1>13. b \in Calls /\ b.at = "if_end" /\ b.jump = JumpOf(q)
  <2>1. b \in [at : {"if_else", "if_end"}, jump : Nat]
    BY <1>4
  <2>. QED
    BY <2>1 DEF Calls
<1>14. Do("statement") \in Calls /\ Do("statement").at = "statement"
  BY CallForms DEF PlainCalls
<1>. HIDE DEF b
<1>15. Fresh(t, b) /\ {Top.jump} \subseteq Holds(Top)
  BY <1>3, <1>4, <1>12, <1>13, HoldsJump DEF Fresh, Ordered
<1>16. CASE Then(t, <<Do("statement"), b>>)
  BY <1>1, <1>11, <1>13, <1>14, <1>15, <1>16, GoesToTwo
     DEF Holders, Immediate, PrefixCalls, ExprCalls, InFunction, Scoped
<1>17. CASE Then(t, <<b>>)
  BY <1>1, <1>11, <1>13, <1>15, <1>17, GoesToOne
     DEF Holders, Immediate, PrefixCalls, ExprCalls, InFunction, Scoped
<1>. QED
  BY <1>2, <1>16, <1>17

(* That one is patched.                                                    *)
LEMMA IfEndKeeps ==
  ASSUME CompilerInv, IfEnd
  PROVE  Kept
<1>1. /\ todo # << >> /\ Top.at = "if_end" /\ Fine(parser) /\ Top \in Calls
      /\ \A j \in Holds(Top) : Open(Fn(parser), j)
      /\ Return(PatchJump(parser, Top.jump))
  BY TopIs DEF IfEnd, At, InFunction
<1>2. Holds(Top) = {Top.jump} /\ Open(Fn(parser), Top.jump)
  BY <1>1, HoldsJump
<1>3. Same(parser, PatchJump(parser, Top.jump), {Top.jump})
  BY <1>1, <1>2, PatchKeeps
<1>. QED
  BY <1>1, <1>2, <1>3, Returns DEF InFunction, Scoped

(* The condition of a while, at the start of its loop.                     *)
LEMMA WhileStatementKeeps ==
  ASSUME CompilerInv, WhileStatement
  PROVE  Kept
<1>. DEFINE q == Consume(parser, "L_PAREN")
            b == [at |-> "while_body", start |-> Count(parser)]
<1>1. /\ todo # << >> /\ Top.at = "while_statement" /\ Fine(parser) /\ text \in Texts
      /\ Then(q, <<Expression, b>>)
  BY TopIs DEF WhileStatement, At
<1>2. b \in Calls /\ b.at = "while_body"
  <2>1. b \in [at : {"while_body", "for_exit"}, start : Nat]
    BY <1>1, FineFn
  <2>. QED
    BY <2>1 DEF Calls
<1>3. Same(parser, q, {})
  BY <1>1, HelpersKeep
<1>. HIDE DEF q, b
<1>4. /\ Fresh(q, b)
      /\ b.at \notin Immediate \cup ExprCalls \cup InFunction \cup Scoped \cup {"var_defined"}
      /\ Top.at \notin ExprCalls \cup InFunction \cup Scoped \cup {"var_defined"}
  BY <1>1, <1>2 DEF Fresh, Holders, Immediate, PrefixCalls, ExprCalls, InFunction, Scoped
<1>. QED
  BY <1>1, <1>2, <1>3, <1>4, ExpressionFirst

(* The exit is left open for the call that ends the loop.                  *)
LEMMA WhileBodyKeeps ==
  ASSUME CompilerInv, WhileBody
  PROVE  Kept
<1>. DEFINE c == Consume(parser, "R_PAREN")
            q == EmitJump(c, "JMP_FALSE")
            r == EmitOp(q, "POP")
            b == [at |-> "loop_end", start |-> Top.start, exit |-> JumpOf(q)]
<1>1. /\ todo # << >> /\ Top.at = "while_body" /\ Fine(parser) /\ text \in Texts
      /\ Top \in Calls /\ Then(r, <<Do("statement"), b>>)
  BY TopIs DEF WhileBody, At
<1>2. Same(parser, c, {})
  BY <1>1, HelpersKeep
<1>3. Top.start \in Nat
  BY <1>1 DEF Calls, PlainCalls, PrefixCalls, InFunction
<1>. HIDE DEF c
<1>4. /\ Same(parser, q, {}) /\ Fine(q) /\ Open(Fn(q), JumpOf(q)) /\ JumpOf(q) \in Nat
      /\ JumpOf(q) >= Count(parser)
  BY <1>1, <1>2, NewJump
<1>. HIDE DEF q
<1>5. Same(q, r, {}) /\ Same(parser, r, {})
  BY <1>1, <1>4, HelpersKeep, Further DEF Emitted
<1>6. Open(Fn(r), JumpOf(q))
  BY <1>4, <1>5, OpenStays
<1>7. b \in Calls /\ b.at = "loop_end" /\ b.exit = JumpOf(q)
  <2>1. b \in [at : {"loop_end", "for_increment"}, start : Nat, exit : Nat \cup {-1}]
    BY <1>3, <1>4
  <2>. QED
    BY <2>1 DEF Calls
<1>8. Do("statement") \in Calls /\ Do("statement").at = "statement"
  BY CallForms DEF PlainCalls
<1>. HIDE DEF r, b
<1>9. Fresh(r, b)
  BY <1>4, <1>6, <1>7, HoldsExit DEF Fresh, Ordered
<1>10. /\ b.at \notin Immediate \cup ExprCalls \cup InFunction \cup Scoped \cup {"var_defined"}
      /\ Do("statement").at \notin Scoped \cup InFunction \cup Holders \cup {"var_defined"}
      /\ Do("statement").at # "literal" /\ Do("statement").at # "binary"
      /\ Top.at \notin ExprCalls \cup InFunction \cup Scoped \cup {"var_defined"}
  BY <1>1, <1>7, <1>8 DEF Fresh, Holders, Immediate, PrefixCalls, ExprCalls, InFunction, Scoped
<1>. QED
  BY <1>1, <1>5, <1>7, <1>8, <1>9, <1>10, GoesToTwo

(* The loop jumps back, and the exit, if any, is patched.                  *)
LEMMA LoopEndKeeps ==
  ASSUME CompilerInv, LoopEnd
  PROVE  Kept
<1>. DEFINE q == EmitLoop(parser, Top.start)
            r == IF Top.exit = -1 THEN q ELSE EmitOp(PatchJump(q, Top.exit), "POP")
<1>1. /\ todo # << >> /\ Top.at = "loop_end" /\ Fine(parser) /\ text \in Texts
      /\ Top \in Calls /\ Return(r) /\ \A j \in Holds(Top) : Open(Fn(parser), j)
  BY TopIs DEF LoopEnd, At, InFunction
<1>2. Holds(Top) = {Top.exit} \ {-1} /\ Top.exit \in Nat \cup {-1} /\ Top.start \in Nat
  BY <1>1, HoldsExit
<1>3. Same(parser, q, {}) /\ Fine(q)
  BY <1>1, <1>2, HelpersKeep DEF Same
<1>. HIDE DEF q
<1>4. Same(parser, r, Holds(Top))
  <2>1. CASE Top.exit = -1
    BY <1>3, <2>1, SameMore
  <2>2. CASE Top.exit # -1
    <3>. DEFINE s == PatchJump(q, Top.exit)
    <3>1. Holds(Top) = {Top.exit} /\ Open(Fn(parser), Top.exit)
      BY <1>1, <1>2, <2>2
    <3>2. Open(Fn(q), Top.exit)
      BY <1>1, <1>3, <3>1, OpenStays
    <3>3. Same(q, s, {Top.exit})
      BY <1>3, <3>2, PatchKeeps
    <3>4. Same(parser, s, {Top.exit})
      BY <1>1, <1>3, <3>3, SameMore, SameTrans
    <3>. HIDE DEF s
    <3>5. Same(parser, EmitOp(s, "POP"), {Top.exit})
      BY <1>1, <3>4, Further DEF Emitted
    <3>. QED
      BY <2>2, <3>1, <3>5 DEF s
  <2>. QED
    BY <2>1, <2>2
<1>. HIDE DEF r
<1>. QED
  BY <1>1, <1>4, Returns DEF InFunction, Scoped

(* A scope begins, that the last of the new calls will end.                *)
LEMMA Opening ==
  ASSUME CompilerInv, todo # << >>, NEW q, NEW calls, Then(q, calls),
         Within(parser, q), ScopesOK(Fn(q)), Settled(Fn(q)),
         Fn(q).depth = Fn(parser).depth + 1,
         CallsStep(q, calls), JumpStep(q, calls, {}), EndsIn(calls, Scoped),
         Top.at \notin ExprCalls, Top.at \notin Scoped, ~Initializes(calls)
  PROVE  Kept
<1>1. Fn(parser).depth \in Nat
  BY TopIs, FineFn
<1>2. Fn(q).depth = Fn(parser).depth + (IF EndsIn(calls, Scoped) THEN 1 ELSE 0)
                                     - (IF Top.at \in Scoped THEN 1 ELSE 0)
  BY <1>1
<1>3. ScopeStep(q, calls)
  BY <1>2 DEF ScopeStep, Within
<1>. QED
  BY <1>3, StepKeeps DEF Step, Kept, Within

(* A for begins a scope, which its calls to come will end.                 *)
LEMMA ForStatementKeeps ==
  ASSUME CompilerInv, ForStatement
  PROVE  Kept
<1>. DEFINE o == BeginScope(parser)
            q == Consume(o, "L_PAREN")
            r == IF Check(q, "SEMICOLON") \/ Check(q, "VAR") THEN Advance(q) ELSE q
            b == Do("for_condition")
            v == Do("var_declaration")
            e == Do("expression_statement")
<1>1. /\ todo # << >> /\ Top.at = "for_statement" /\ Fine(parser) /\ text \in Texts
      /\ ScopesOK(Fn(parser)) /\ Settled(Fn(parser))
  BY TopIs DEF ForStatement, At, ExprCalls, Immediate, PrefixCalls
<1>2. Then(r, <<b>>) \/ Then(r, <<v, b>>) \/ Then(r, <<e, b>>)
  BY DEF ForStatement
<1>3. /\ b \in Calls /\ b.at = "for_condition" /\ v \in Calls /\ v.at = "var_declaration"
      /\ e \in Calls /\ e.at = "expression_statement"
  BY CallForms DEF PlainCalls
<1>4. /\ Within(parser, o) /\ ScopesOK(Fn(o)) /\ Settled(Fn(o)) /\ Fine(o)
      /\ Fn(o).depth = Fn(parser).depth + 1
  BY <1>1, BeginScopeKeeps DEF Within
<1>. HIDE DEF o
<1>5. Same(o, q, {})
  BY <1>1, <1>4, HelpersKeep
<1>. HIDE DEF q
<1>6. Same(o, r, {})
  BY <1>1, <1>4, <1>5, Further
<1>. HIDE DEF r, b, v, e
<1>7. /\ Within(o, r) /\ Fn(r).depth = Fn(o).depth /\ ScopesOK(Fn(r)) /\ Settled(Fn(r))
  BY <1>4, <1>6, SameIsWithin
<1>8. Within(parser, r) /\ Fn(r).depth = Fn(parser).depth + 1
  BY <1>1, <1>4, <1>7, WithinTrans
<1>9. /\ Fresh(r, b) /\ b.at \in Scoped
      /\ b.at \notin Immediate \cup ExprCalls \cup InFunction \cup {"var_defined"}
      /\ Top.at \notin ExprCalls \cup InFunction \cup Scoped
  BY <1>1, <1>3 DEF Fresh, Holders, Immediate, PrefixCalls, ExprCalls, InFunction, Scoped
<1>10. \A a \in {v, e} :
         /\ a.at \notin Scoped \cup InFunction \cup Holders \cup {"var_defined"}
         /\ a.at # "literal" /\ a.at # "binary" /\ a \in Calls
  BY <1>3 DEF Scoped, InFunction, Holders
<1>11. CASE Then(r, <<b>>)
  <2>. DEFINE calls == <<b>>
  <2>1. /\ CallsStep(r, calls) /\ JumpStep(r, calls, {}) /\ EndsIn(calls, Scoped)
        /\ ~Initializes(calls) /\ Then(r, calls)
    BY <1>3, <1>9, <1>11, OneCall
  <2>. HIDE DEF calls
  <2>. QED
    BY <1>1, <1>7, <1>8, <1>9, <2>1, Opening
<1>12. ASSUME NEW a \in {v, e}, Then(r, <<a, b>>)
       PROVE  Kept
  <2>. DEFINE calls == <<a, b>>
  <2>1. /\ CallsStep(r, calls) /\ JumpStep(r, calls, {}) /\ EndsIn(calls, Scoped)
        /\ ~Initializes(calls) /\ Then(r, calls)
    BY <1>3, <1>9, <1>10, <1>12, TwoCalls
  <2>. HIDE DEF calls
  <2>. QED
    BY <1>1, <1>7, <1>8, <1>9, <2>1, Opening
<1>. QED
  BY <1>2, <1>11, <1>12

(* A for without a condition has no exit.                                  *)
LEMMA ForConditionKeeps ==
  ASSUME CompilerInv, ForCondition
  PROVE  Kept
<1>. DEFINE i == [at |-> "for_increment", start |-> Count(parser), exit |-> -1]
            b == [at |-> "for_exit", start |-> Count(parser)]
<1>1. /\ todo # << >> /\ Top.at = "for_condition" /\ Fine(parser) /\ text \in Texts
      /\ (Then(Advance(parser), <<i>>) \/ Then(parser, <<Expression, b>>))
  BY TopIs DEF ForCondition, At
<1>2. i \in Calls /\ i.at = "for_increment" /\ i.exit = -1
  <2>1. i \in [at : {"loop_end", "for_increment"}, start : Nat, exit : Nat \cup {-1}]
    BY <1>1, FineFn
  <2>. QED
    BY <2>1 DEF Calls
<1>3. b \in Calls /\ b.at = "for_exit"
  <2>1. b \in [at : {"while_body", "for_exit"}, start : Nat]
    BY <1>1, FineFn
  <2>. QED
    BY <2>1 DEF Calls
<1>. HIDE DEF i, b
<1>4. Expression \in Calls /\ Expression.at = "precedence"
  BY CallForms
<1>5. \A q : Fresh(q, i) /\ Fresh(q, b)
  BY <1>2, <1>3, HoldsExit DEF Fresh, Ordered, Holders
<1>6. Same(parser, Advance(parser), {}) /\ Same(parser, parser, {}) /\ {} \subseteq Holds(Top)
  BY <1>1, HelpersKeep, SameSelf
<1>7. /\ Top.at \in Scoped /\ i.at \in Scoped /\ b.at \in Scoped
      /\ \A n \in {Top.at, i.at, b.at} :
           n \notin Immediate \cup ExprCalls \cup InFunction \cup {"var_defined"}
      /\ Expression.at \notin Scoped \cup InFunction \cup Holders \cup {"var_defined"}
      /\ Expression.at # "literal" /\ Expression.at # "binary"
  BY <1>1, <1>2, <1>3, <1>4 DEF Scoped, Immediate, PrefixCalls, ExprCalls, InFunction, Holders
<1>8. CASE Then(Advance(parser), <<i>>)
  BY <1>1, <1>2, <1>5, <1>6, <1>7, <1>8, GoesToOne
<1>9. CASE Then(parser, <<Expression, b>>)
  BY <1>1, <1>3, <1>4, <1>5, <1>6, <1>7, <1>9, GoesToTwo
<1>. QED
  BY <1>1, <1>8, <1>9

(* The exit is left open for the increment.                                *)
LEMMA ForExitKeeps ==
  ASSUME CompilerInv, ForExit
  PROVE  Kept
<1>. DEFINE c == Consume(parser, "SEMICOLON")
            q == EmitJump(c, "JMP_FALSE")
            r == EmitOp(q, "POP")
            b == [at |-> "for_increment", start |-> Top.start, exit |-> JumpOf(q)]
<1>1. /\ todo # << >> /\ Top.at = "for_exit" /\ Fine(parser) /\ text \in Texts
      /\ Top \in Calls /\ Then(r, <<b>>)
  BY TopIs DEF ForExit, At
<1>2. Same(parser, c, {})
  BY <1>1, HelpersKeep
<1>3. Top.start \in Nat
  BY <1>1 DEF Calls, PlainCalls, PrefixCalls, InFunction
<1>. HIDE DEF c
<1>4. /\ Same(parser, q, {}) /\ Fine(q) /\ Open(Fn(q), JumpOf(q)) /\ JumpOf(q) \in Nat
      /\ JumpOf(q) >= Count(parser)
  BY <1>1, <1>2, NewJump
<1>. HIDE DEF q
<1>5. Same(q, r, {}) /\ Same(parser, r, {}) /\ {} \subseteq Holds(Top)
  BY <1>1, <1>4, HelpersKeep, Further DEF Emitted
<1>6. Open(Fn(r), JumpOf(q))
  BY <1>4, <1>5, OpenStays
<1>7. b \in Calls /\ b.at = "for_increment" /\ b.exit = JumpOf(q)
  <2>1. b \in [at : {"loop_end", "for_increment"}, start : Nat, exit : Nat \cup {-1}]
    BY <1>3, <1>4
  <2>. QED
    BY <2>1 DEF Calls
<1>. HIDE DEF r, b
<1>8. Fresh(r, b)
  BY <1>4, <1>6, <1>7, HoldsExit DEF Fresh, Ordered
<1>9. /\ Top.at \in Scoped /\ b.at \in Scoped
      /\ \A n \in {Top.at, b.at} :
           n \notin Immediate \cup ExprCalls \cup InFunction \cup {"var_defined"}
  BY <1>1, <1>7 DEF Scoped, Immediate, PrefixCalls, ExprCalls, InFunction
<1>. QED
  BY <1>1, <1>5, <1>7, <1>8, <1>9, GoesToOne

(* The body of a for, whose exit is still open.                            *)
LEMMA ForBodyKeeps ==
  ASSUME CompilerInv, todo # << >>, Top.at \in {"for_increment", "for_step"},
         NEW q, NEW J, J \subseteq Holds(Top), Same(parser, q, J), NEW start \in Nat,
         Then(q, ForBody(start)),
         \A j \in J : j \in Nat /\ (Top.exit # -1 => Top.exit + 1 < j)
  PROVE  Kept
<1>. DEFINE a == Do("statement")
            b == [at |-> "loop_end", start |-> start, exit |-> Top.exit]
            c == Do("end_scope")
            calls == <<a, b, c>>
<1>1. /\ Top \in Calls /\ Fine(parser) /\ \A j \in Holds(Top) : Open(Fn(parser), j)
  BY TopIs DEF InFunction
<1>2. Top.exit \in Nat \cup {-1} /\ (Top.exit # -1 => Top.exit \in Holds(Top))
  BY <1>1, HoldsExit, HoldsStep
<1>3. Then(q, calls)
  BY DEF ForBody
<1>4. /\ a \in Calls /\ a.at = "statement" /\ c \in Calls /\ c.at = "end_scope"
  BY CallForms DEF PlainCalls
<1>5. b \in Calls /\ b.at = "loop_end" /\ b.exit = Top.exit
  <2>1. b \in [at : {"loop_end", "for_increment"}, start : Nat, exit : Nat \cup {-1}]
    BY <1>2
  <2>. QED
    BY <2>1 DEF Calls
<1>. HIDE DEF a, b, c
<1>6. Fresh(q, b)
  <2>1. Ordered(b)
    BY <1>5 DEF Ordered
  <2>2. Holds(b) = {Top.exit} \ {-1}
    BY <1>5, HoldsExit
  <2>3. ASSUME Top.exit # -1
        PROVE  Open(Fn(q), Top.exit) /\ Top.exit \in Holds(Top)
    <3>1. \A j \in J : j \in Int /\ j > Top.exit + 1
      BY <1>2, <2>3
    <3>2. Open(Fn(parser), Top.exit)
      BY <1>1, <1>2, <2>3
    <3>. QED
      BY <1>1, <1>2, <2>3, <3>1, <3>2, OpenStays
  <2>. QED
    BY <2>1, <2>2, <2>3 DEF Fresh
<1>7. /\ a.at \notin Scoped \cup InFunction \cup Holders \cup Immediate \cup {"var_defined"}
      /\ b.at \notin Scoped \cup InFunction \cup ExprCalls \cup {"var_defined"}
      /\ c.at \notin InFunction \cup Holders \cup ExprCalls \cup {"var_defined"}
      /\ Top.at \notin ExprCalls \cup InFunction /\ c.at \in Scoped /\ Top.at \in Scoped
      /\ Top.at # "var_defined"
  BY <1>4, <1>5 DEF Scoped, InFunction, Holders, Immediate, PrefixCalls, ExprCalls
<1>8. /\ CallsStep(q, calls) /\ JumpStep(q, calls, J) /\ ~Initializes(calls)
      /\ EndsIn(calls, Scoped)
  BY <1>4, <1>5, <1>6, <1>7, ThreeCalls
<1>. HIDE DEF calls
<1>. QED
  BY <1>3, <1>7, <1>8, GoesOn

(* The jump over the increment is emitted after the exit.                  *)
LEMMA ForIncrementKeeps ==
  ASSUME CompilerInv, ForIncrement
  PROVE  Kept
<1>1. /\ todo # << >> /\ Top.at = "for_increment" /\ Fine(parser) /\ text \in Texts
      /\ Top \in Calls /\ \A j \in Holds(Top) : Open(Fn(parser), j)
  BY TopIs DEF ForIncrement, At, InFunction
<1>2. Holds(Top) = {Top.exit} \ {-1} /\ Top.exit \in Nat \cup {-1} /\ Top.start \in Nat
  BY <1>1, HoldsExit
<1>3. CASE Check(parser, "R_PAREN")
  <2>1. Then(Advance(parser), ForBody(Top.start)) /\ Same(parser, Advance(parser), {})
    BY <1>1, <1>3, HelpersKeep DEF ForIncrement
  <2>. QED
    BY <1>1, <1>2, <2>1, ForBodyKeeps
<1>4. CASE ~Check(parser, "R_PAREN")
  <2>. DEFINE q == EmitJump(parser, "JMP")
              b == [at |-> "for_step", start |-> Top.start, exit |-> Top.exit,
                    increment |-> Count(q), jump |-> JumpOf(q)]
  <2>1. Then(q, <<Expression, b>>)
    BY <1>4 DEF ForIncrement
  <2>2. /\ Same(parser, q, {}) /\ Fine(q) /\ Open(Fn(q), JumpOf(q)) /\ JumpOf(q) \in Nat
        /\ JumpOf(q) = Count(parser) + 1 /\ Count(parser) \in Nat
        /\ JumpOf(q) >= Count(parser) /\ Count(q) \in Nat
    BY <1>1, SameSelf, NewJump
  <2>. HIDE DEF q
  <2>3. b \in Calls /\ b.at = "for_step" /\ b.exit = Top.exit /\ b.jump = JumpOf(q)
    <3>1. b \in [at : {"for_step"}, start : Nat, exit : Nat \cup {-1}, increment : Nat,
                 jump : Nat]
      BY <1>2, <2>2
    <3>. QED
      BY <3>1 DEF Calls
  <2>4. Expression \in Calls /\ Expression.at = "precedence"
    BY CallForms
  <2>. HIDE DEF b
  <2>5. ASSUME Top.exit # -1
        PROVE  /\ Top.exit \in Holds(Top) /\ Open(Fn(q), Top.exit)
               /\ Top.exit + 1 < JumpOf(q)
    <3>1. Top.exit \in Holds(Top) /\ Top.exit \in Nat /\ Open(Fn(parser), Top.exit)
      BY <1>1, <1>2, <2>5
    <3>2. Open(Fn(q), Top.exit)
      BY <1>1, <2>2, <3>1, OpenStays
    <3>3. Top.exit + 2 <= Count(parser)
      BY <1>1, <3>1, FineFn DEF Open
    <3>. QED
      BY <2>2, <3>1, <3>2, <3>3
  <2>6. Ordered(b)
    BY <2>3, <2>5 DEF Ordered
  <2>7. Holds(b) = {Top.exit, JumpOf(q)} \ {-1}
    BY <2>3, HoldsStep
  <2>8. Fresh(q, b)
    BY <2>2, <2>5, <2>6, <2>7 DEF Fresh
  <2>9. /\ Top.at \in Scoped /\ b.at \in Scoped
        /\ \A n \in {Top.at, b.at} :
             n \notin Immediate \cup ExprCalls \cup InFunction \cup {"var_defined"}
        /\ Expression.at \notin Scoped \cup InFunction \cup Holders \cup {"var_defined"}
        /\ Expression.at # "literal" /\ Expression.at # "binary" /\ {} \subseteq Holds(Top)
    BY <1>1, <2>3, <2>4 DEF Scoped, Immediate, PrefixCalls, ExprCalls, InFunction, Holders
  <2>. QED
    BY <1>1, <2>1, <2>2, <2>3, <2>4, <2>8, <2>9, GoesToTwo
<1>. QED
  BY <1>3, <1>4

(* It is patched after the increment, with the exit still open for the     *)
(* body.                                                                   *)
LEMMA ForStepKeeps ==
  ASSUME CompilerInv, ForStep
  PROVE  Kept
<1>. DEFINE p == EmitOp(parser, "POP")
            q == Consume(p, "R_PAREN")
            r == EmitLoop(q, Top.start)
            s == PatchJump(r, Top.jump)
<1>1. /\ todo # << >> /\ Top.at = "for_step" /\ Fine(parser) /\ text \in Texts
      /\ Top \in Calls /\ \A j \in Holds(Top) : Open(Fn(parser), j)
      /\ Then(s, ForBody(Top.increment)) /\ Ordered(Top)
  BY TopIs DEF ForStep, At, InFunction
<1>2. /\ Holds(Top) = {Top.exit, Top.jump} \ {-1} /\ Top.exit \in Nat \cup {-1}
      /\ Top.jump \in Nat /\ Top.start \in Nat /\ Top.increment \in Nat
  BY <1>1, HoldsStep
<1>3. Same(parser, p, {})
  BY <1>1, HelpersKeep DEF Emitted
<1>. HIDE DEF p
<1>4. Same(parser, q, {})
  BY <1>1, <1>3, Further
<1>. HIDE DEF q
<1>5. Same(parser, r, {}) /\ Fine(r)
  BY <1>1, <1>2, <1>4, Further DEF Same
<1>. HIDE DEF r
<1>6. Open(Fn(parser), Top.jump) /\ Top.jump \in Holds(Top)
  BY <1>1, <1>2
<1>7. Open(Fn(r), Top.jump)
  BY <1>1, <1>5, <1>6, OpenStays
<1>8. Same(r, s, {Top.jump})
  BY <1>5, <1>7, PatchKeeps
<1>9. Same(parser, s, {Top.jump})
  BY <1>1, <1>5, <1>8, SameMore, SameTrans
<1>. HIDE DEF s
<1>10. \A j \in {Top.jump} : j \in Nat /\ (Top.exit # -1 => Top.exit + 1 < j)
  BY <1>1, <1>2 DEF Ordered
<1>. QED
  BY <1>1, <1>2, <1>6, <1>9, <1>10, ForBodyKeeps
-----------------------------------------------------------------------------
(* Expressions.                                                            *)

(* The rules of the table, for any type of token.                          *)
LEMMA RuleIs ==
  ASSUME NEW type
  PROVE  /\ GetRule(type).prefix \in PrefixCalls \cup {None}
         /\ GetRule(type).infix \in {"binary", "call", None}
         /\ GetRule(type).precedence \in 0 .. 9
         /\ GetRule(type).precedence # 0 => GetRule(type).infix # None
         /\ GetRule(type).infix = "binary" => type \in BinaryTypes
         /\ GetRule(type).prefix = "literal" => type \in {"TRUE", "FALSE"}
<1>1. CASE type \in BinaryTypes \cup {"L_PAREN"}
  BY <1>1 DEF GetRule, Rule, Prefix, Binary, BinaryTypes, PrefixCalls, None, PREC_NONE,
     PREC_EQ, PREC_COMP, PREC_TERM, PREC_FACTOR, PREC_CALL
<1>2. CASE type \notin BinaryTypes \cup {"L_PAREN"}
  BY <1>2 DEF GetRule, Rule, Prefix, Binary, BinaryTypes, PrefixCalls, None, PREC_NONE
<1>. QED
  BY <1>1, <1>2

(* The steps of an expression call calls of expressions only.              *)
LEMMA ExprReturns ==
  ASSUME CompilerInv, todo # << >>, NEW q, Return(q), Same(parser, q, {}), Top.at \in ExprCalls
  PROVE  Kept
<1>1. Top.at \notin InFunction \cup Scoped \cup {"var_defined"} /\ {} \subseteq Holds(Top)
  BY DEF ExprCalls, Immediate, PrefixCalls, InFunction, Scoped
<1>. QED
  BY <1>1, Returns

(* The same within an expression.                                          *)
LEMMA ExprGoes ==
  ASSUME CompilerInv, todo # << >>, NEW q, NEW a \in Calls, NEW b \in Calls,
         Then(q, <<a, b>>), Same(parser, q, {}), Top.at \in ExprCalls,
         a.at \in ExprCalls, b.at \in ExprCalls, b.at \notin Immediate,
         a.at = "literal" => q.previous.type \in {"TRUE", "FALSE"},
         a.at = "binary" => q.previous.type \in BinaryTypes
  PROVE  Kept
<1>1. /\ \A n \in ExprCalls :
           n \notin InFunction \cup Scoped \cup Holders \cup {"var_defined"}
      /\ {} \subseteq Holds(Top)
  BY DEF ExprCalls, Immediate, PrefixCalls, InFunction, Scoped, Holders
<1>2. Fresh(q, b)
  BY <1>1 DEF Fresh
<1>. DEFINE calls == <<a, b>>
<1>3. /\ CallsStep(q, calls) /\ JumpStep(q, calls, {}) /\ ~Initializes(calls)
      /\ ~EndsIn(calls, Scoped) /\ Then(q, calls)
  BY <1>1, <1>2, TwoCalls
<1>. HIDE DEF calls
<1>. QED
  BY <1>1, <1>3, GoesOn

(* return, which is an error in the script.                                *)
LEMMA ReturnStatementKeeps ==
  ASSUME CompilerInv, ReturnStatement
  PROVE  Kept
<1>. DEFINE q == IF Fn(parser).type = "SCRIPT" THEN ErrorAt(parser) ELSE parser
            r == Emit(Advance(q), <<Opcode["NIL"], Opcode["RETURN"]>>)
            b == Finish("SEMICOLON", <<Opcode["RETURN"]>>)
<1>1. /\ todo # << >> /\ Top.at = "return_statement" /\ Fine(parser) /\ text \in Texts
      /\ (Return(r) \/ Then(q, <<Expression, b>>))
  BY TopIs DEF ReturnStatement, At
<1>2. Same(parser, q, {})
  BY <1>1, HelpersKeep, SameSelf
<1>. HIDE DEF q
<1>3. Same(parser, Advance(q), {})
  BY <1>1, <1>2, Further
<1>4. Same(parser, r, {})
  BY <1>1, <1>3, Further, CodesAre DEF Emitted
<1>5. Expression \in Calls /\ Expression.at = "precedence" /\ b \in Calls /\ b.at = "finish"
  BY CallForms, CodesAre DEF Emitted
<1>. HIDE DEF r, b
<1>6. CASE Return(r)
  BY <1>1, <1>4, <1>6, Returns DEF InFunction, Scoped
<1>7. CASE Then(q, <<Expression, b>>)
  BY <1>1, <1>2, <1>5, <1>7, GoesToTwo
     DEF Fresh, Holders, Immediate, PrefixCalls, ExprCalls, InFunction, Scoped
<1>. QED
  BY <1>1, <1>6, <1>7

(* precedence calls the prefix rule of the token it read, which decides    *)
(* literal.                                                                *)
LEMMA PrefixRuleKeeps ==
  ASSUME CompilerInv, PrefixRule
  PROVE  Kept
<1>. DEFINE q == Advance(parser)
            prefix == GetRule(q.previous.type).prefix
            a == [at |-> prefix, canAssign |-> Top.prec <= PREC_ASSIGN]
            b == [Top EXCEPT !.at = "infix"]
<1>1. /\ todo # << >> /\ Top.at = "precedence" /\ Fine(parser) /\ text \in Texts
      /\ Top \in Calls /\ (Return(ErrorAt(q)) \/ (prefix # None /\ Then(q, <<a, b>>)))
  BY TopIs DEF PrefixRule, At
<1>2. Same(parser, q, {}) /\ Same(parser, ErrorAt(q), {})
  BY <1>1, HelpersKeep, Further
<1>3. /\ prefix \in PrefixCalls \cup {None}
      /\ prefix = "literal" => q.previous.type \in {"TRUE", "FALSE"}
  BY RuleIs
<1>4. b \in Calls /\ b.at = "infix"
  <2>1. Top \in [at : {"precedence", "infix"}, prec : Nat]
    BY <1>1 DEF Calls, PlainCalls, PrefixCalls, InFunction
  <2>2. b \in [at : {"precedence", "infix"}, prec : Nat] /\ b.at = "infix"
    BY <2>1
  <2>. QED
    BY <2>2 DEF Calls
<1>5. Top.at \in ExprCalls
  BY <1>1 DEF ExprCalls
<1>. HIDE DEF q, prefix, b
<1>6. CASE prefix # None /\ Then(q, <<a, b>>)
  <2>1. a.at = prefix /\ a \in Calls
    <3>1. a \in [at : PrefixCalls, canAssign : BOOLEAN]
      BY <1>3, <1>6
    <3>. QED
      BY <3>1 DEF Calls
  <2>. HIDE DEF a
  <2>2. /\ a.at \in ExprCalls /\ b.at \in ExprCalls /\ b.at \notin Immediate /\ a.at # "binary"
    BY <1>3, <1>4, <1>6, <2>1 DEF ExprCalls, Immediate, PrefixCalls
  <2>. QED
    BY <1>1, <1>2, <1>3, <1>4, <1>5, <1>6, <2>1, <2>2, ExprGoes
<1>7. CASE Return(ErrorAt(q))
  BY <1>1, <1>2, <1>5, <1>7, ExprReturns
<1>. QED
  BY <1>1, <1>6, <1>7

(* It calls binary for the tokens of a binary operator alone.              *)
LEMMA InfixRuleKeeps ==
  ASSUME CompilerInv, InfixRule
  PROVE  Kept
<1>. DEFINE rule == GetRule(parser.current.type)
            q == Advance(parser)
            a == Do(rule.infix)
            r == IF Top.prec <= PREC_ASSIGN /\ Check(parser, "ASSIGN")
                 THEN ErrorAt(q) ELSE parser
<1>1. /\ todo # << >> /\ Top.at = "infix" /\ Fine(parser) /\ text \in Texts
      /\ Top \in Calls
      /\ (Return(r) \/ (Top.prec < rule.precedence /\ Then(q, <<a, Top>>)))
  BY TopIs DEF InfixRule, At
<1>2. Same(parser, q, {}) /\ q.previous = parser.current
  BY <1>1, HelpersKeep
<1>3. Same(parser, r, {})
  BY <1>1, <1>2, Further, SameSelf
<1>4. Top.prec \in Nat
  BY <1>1 DEF Calls, PlainCalls, PrefixCalls, InFunction
<1>5. Top.at \in ExprCalls /\ Top.at \notin Immediate
  BY <1>1 DEF ExprCalls, Immediate, PrefixCalls
<1>6. CASE Top.prec < rule.precedence /\ Then(q, <<a, Top>>)
  <2>1. /\ rule.infix \in {"binary", "call", None} /\ rule.precedence \in 0 .. 9
        /\ rule.precedence # 0 => rule.infix # None
        /\ rule.infix = "binary" => q.previous.type \in BinaryTypes
    BY <1>2, RuleIs
  <2>2. rule.infix \in {"binary", "call"}
    BY <1>4, <1>6, <2>1
  <2>3. a \in Calls /\ a.at = rule.infix
    BY <2>2, CallForms DEF PlainCalls
  <2>. HIDE DEF rule, q, a
  <2>4. a.at \in ExprCalls /\ a.at # "literal"
    BY <2>2, <2>3 DEF ExprCalls, Immediate
  <2>. QED
    BY <1>1, <1>2, <1>5, <1>6, <2>1, <2>3, <2>4, ExprGoes
<1>. HIDE DEF r
<1>7. CASE Return(r)
  BY <1>1, <1>3, <1>5, <1>7, ExprReturns
<1>. QED
  BY <1>1, <1>6, <1>7

(* A number or a string is a constant.                                     *)
LEMMA ConstantKeeps ==
  ASSUME CompilerInv, Constant
  PROVE  Kept
<1>. DEFINE q == EmitConstant(parser, Literal[parser.previous.text])
<1>1. /\ todo # << >> /\ Top.at \in {"number", "string"} /\ Fine(parser) /\ text \in Texts
      /\ Return(q)
  BY TopIs DEF Constant, At
<1>2. Same(parser, q, {})
  BY <1>1, HelpersKeep
<1>. HIDE DEF q
<1>3. Top.at \in ExprCalls
  BY <1>1 DEF ExprCalls, Immediate, PrefixCalls
<1>. QED
  BY <1>1, <1>2, <1>3, ExprReturns

(* true and false, the only tokens that literal is called for.             *)
LEMMA LiteralValueKeeps ==
  ASSUME CompilerInv, LiteralValue
  PROVE  Kept
<1>. DEFINE q == EmitOp(parser, parser.previous.type)
<1>1. /\ todo # << >> /\ Top.at = "literal" /\ Fine(parser) /\ text \in Texts /\ Return(q)
      /\ parser.previous.type \in {"TRUE", "FALSE"}
  BY TopIs DEF LiteralValue, At, CompilerInv, TodoOK
<1>2. Same(parser, q, {})
  BY <1>1, HelpersKeep DEF Emitted
<1>. HIDE DEF q
<1>3. Top.at \in ExprCalls
  BY <1>1 DEF ExprCalls, Immediate, PrefixCalls
<1>. QED
  BY <1>1, <1>2, <1>3, ExprReturns

(* An expression in parentheses.                                           *)
LEMMA GroupingKeeps ==
  ASSUME CompilerInv, Grouping
  PROVE  Kept
<1>. DEFINE b == Finish("R_PAREN", << >>)
<1>1. /\ todo # << >> /\ Top.at = "grouping" /\ Fine(parser)
      /\ Then(parser, <<Expression, b>>)
  BY TopIs DEF Grouping, At
<1>2. Expression \in Calls /\ Expression.at = "precedence" /\ b \in Calls /\ b.at = "finish"
  BY CallForms, CodesAre
<1>3. Same(parser, parser, {})
  BY <1>1, SameSelf
<1>. HIDE DEF b
<1>4. /\ Top.at \in ExprCalls /\ Expression.at \in ExprCalls /\ b.at \in ExprCalls
      /\ b.at \notin Immediate /\ Expression.at # "literal" /\ Expression.at # "binary"
  BY <1>1, <1>2 DEF ExprCalls, Immediate, PrefixCalls
<1>. QED
  BY <1>1, <1>2, <1>3, <1>4, ExprGoes

(* An operand, and the instruction after it.                               *)
LEMMA UnaryKeeps ==
  ASSUME CompilerInv, Unary
  PROVE  Kept
<1>. DEFINE op == IF parser.previous.type = "EXCL" THEN "NOT" ELSE "NEGATE"
            a == Precedence(PREC_UNARY)
            b == Finish(None, <<Opcode[op]>>)
<1>1. /\ todo # << >> /\ Top.at = "unary" /\ Fine(parser) /\ Then(parser, <<a, b>>)
  BY TopIs DEF Unary, At
<1>2. /\ a \in Calls /\ a.at = "precedence"
  BY CallForms DEF PREC_UNARY
<1>3. b \in Calls /\ b.at = "finish"
  <2>1. op \in Emitted
    BY DEF Emitted
  <2>. HIDE DEF op
  <2>2. <<Opcode[op]>> \in Seq(Bytes)
    BY <2>1, CodesAre
  <2>. QED
    BY <2>2, CallForms
<1>4. Same(parser, parser, {})
  BY <1>1, SameSelf
<1>. HIDE DEF a, b
<1>5. /\ Top.at \in ExprCalls /\ a.at \in ExprCalls /\ b.at \in ExprCalls
      /\ b.at \notin Immediate /\ a.at # "literal" /\ a.at # "binary"
  BY <1>1, <1>2, <1>3 DEF ExprCalls, Immediate, PrefixCalls
<1>. QED
  BY <1>1, <1>2, <1>3, <1>4, <1>5, ExprGoes

(* The right operand, with the operator remembered.                        *)
LEMMA BinaryRightKeeps ==
  ASSUME CompilerInv, BinaryRight
  PROVE  Kept
<1>. DEFINE a == Precedence(GetRule(parser.previous.type).precedence + 1)
            b == [at |-> "binary_end", type |-> parser.previous.type,
                  left |-> parser.preprevious.type]
<1>1. /\ todo # << >> /\ Top.at = "binary" /\ Fine(parser) /\ Then(parser, <<a, b>>)
      /\ parser.previous.type \in BinaryTypes
  BY TopIs DEF BinaryRight, At, CompilerInv, TodoOK
<1>2. a \in Calls /\ a.at = "precedence"
  <2>1. GetRule(parser.previous.type).precedence + 1 \in Nat
    BY RuleIs
  <2>. QED
    BY <2>1, CallForms
<1>3. b \in Calls /\ b.at = "binary_end"
  <2>1. parser.preprevious \in Tokens
    BY <1>1 DEF Fine, Sound, ParserSet
  <2>2. b \in [at : {"binary_end"}, type : BinaryTypes, left : {t.type : t \in Tokens}]
    BY <1>1, <2>1
  <2>. QED
    BY <2>2 DEF Calls
<1>4. Same(parser, parser, {})
  BY <1>1, SameSelf
<1>. HIDE DEF a, b
<1>5. /\ Top.at \in ExprCalls /\ a.at \in ExprCalls /\ b.at \in ExprCalls
      /\ b.at \notin Immediate /\ a.at # "literal" /\ a.at # "binary"
  BY <1>1, <1>2, <1>3 DEF ExprCalls, Immediate, PrefixCalls
<1>. QED
  BY <1>1, <1>2, <1>3, <1>4, <1>5, ExprGoes

(* The instruction of the operator: one there is, for either kind of       *)
(* number.                                                                 *)
LEMMA BinaryEndKeeps ==
  ASSUME CompilerInv, BinaryEnd
  PROVE  Kept
<1>. DEFINE floating == "NUMBER" \in {parser.previous.type, Top.left}
            op == BinaryOp(Top.type, floating)
            q == EmitOp(parser, op)
<1>1. /\ todo # << >> /\ Top.at = "binary_end" /\ Fine(parser) /\ text \in Texts /\ Return(q)
      /\ Top \in Calls
  BY TopIs DEF BinaryEnd, At
<1>2. Top.type \in BinaryTypes
  BY <1>1 DEF Calls, PlainCalls, PrefixCalls, InFunction
<1>3. op \in Emitted
  <2>. HIDE DEF floating
  <2>. QED
    BY <1>2 DEF BinaryOp, BinaryTypes, Emitted
<1>. HIDE DEF op
<1>4. Same(parser, q, {})
  BY <1>1, <1>3, HelpersKeep
<1>. HIDE DEF q
<1>5. Top.at \in ExprCalls
  BY <1>1 DEF ExprCalls
<1>. QED
  BY <1>1, <1>4, <1>5, ExprReturns

(* The end of a call is code like any other.                               *)
LEMMA CallEndsSame ==
  ASSUME NEW p, Fine(p), text \in Texts, NEW q, Same(p, q, {}), NEW count \in Bytes
  PROVE  Same(p, CallEnds(q, count), {})
<1>1. Same(p, Consume(q, "R_PAREN"), {})
  BY Further
<1>2. <<Opcode["CALL"], count>> \in Seq(Bytes)
  BY CodesAre DEF Emitted
<1>. QED
  BY <1>1, <1>2, Further DEF CallEnds

(* A call of no arguments, or of a first one.                              *)
LEMMA CallKeeps ==
  ASSUME CompilerInv, Call
  PROVE  Kept
<1>. DEFINE b == [at |-> "arguments", count |-> 0]
<1>1. /\ todo # << >> /\ Top.at = "call" /\ Fine(parser) /\ text \in Texts
      /\ (Return(CallEnds(parser, 0)) \/ Then(parser, <<Expression, b>>))
  BY TopIs DEF Call, At
<1>2. b \in Calls /\ b.at = "arguments"
  <2>1. 0 \in 0 .. ByteMax
    BY ByteAssumption
  <2>2. b \in [at : {"arguments"}, count : 0 .. ByteMax]
    BY <2>1
  <2>. QED
    BY <2>2 DEF Calls
<1>3. Same(parser, parser, {}) /\ Same(parser, CallEnds(parser, 0), {})
  BY <1>1, SameSelf, CallEndsSame DEF Bytes
<1>4. Expression \in Calls /\ Expression.at = "precedence"
  BY CallForms
<1>. HIDE DEF b
<1>5. /\ Top.at \in ExprCalls /\ Expression.at \in ExprCalls /\ b.at \in ExprCalls
      /\ b.at \notin Immediate /\ Expression.at # "literal" /\ Expression.at # "binary"
  BY <1>1, <1>2, <1>4 DEF ExprCalls, Immediate, PrefixCalls
<1>6. CASE Return(CallEnds(parser, 0))
  BY <1>1, <1>3, <1>5, <1>6, ExprReturns
<1>7. CASE Then(parser, <<Expression, b>>)
  BY <1>1, <1>2, <1>3, <1>4, <1>5, <1>7, ExprGoes
<1>. QED
  BY <1>1, <1>6, <1>7

(* The count of the arguments stays a byte.                                *)
LEMMA ArgumentsKeeps ==
  ASSUME CompilerInv, Arguments
  PROVE  Kept
<1>. DEFINE q == IF Top.count = ByteMax THEN ErrorAt(parser) ELSE parser
            count == (Top.count + 1) % (ByteMax + 1)
            b == [Top EXCEPT !.count = count]
<1>1. /\ todo # << >> /\ Top.at = "arguments" /\ Fine(parser) /\ text \in Texts
      /\ Top \in Calls
      /\ (Return(CallEnds(q, count)) \/ Then(Advance(q), <<Expression, b>>))
  BY TopIs DEF Arguments, At
<1>2. Top \in [at : {"arguments"}, count : 0 .. ByteMax]
  BY <1>1 DEF Calls, PlainCalls, PrefixCalls, InFunction
<1>3. count \in 0 .. ByteMax /\ count \in Bytes
  <2>1. Top.count \in Nat /\ ByteMax \in Nat /\ ByteMax <= 255
    BY <1>2, ByteAssumption
  <2>2. \A n \in Nat, m \in Nat : (n + 1) % (m + 1) \in 0 .. m
    OBVIOUS
  <2>3. count \in 0 .. ByteMax
    BY <2>1, <2>2
  <2>. HIDE DEF count
  <2>. QED
    BY <2>1, <2>3 DEF Bytes
<1>. HIDE DEF count
<1>4. b \in Calls /\ b.at = "arguments"
  <2>1. b \in [at : {"arguments"}, count : 0 .. ByteMax] /\ b.at = "arguments"
    BY <1>2, <1>3
  <2>. QED
    BY <2>1 DEF Calls
<1>5. Same(parser, q, {})
  BY <1>1, HelpersKeep, SameSelf
<1>. HIDE DEF q, b
<1>6. Same(parser, Advance(q), {}) /\ Same(parser, CallEnds(q, count), {})
  BY <1>1, <1>3, <1>5, Further, CallEndsSame
<1>7. Expression \in Calls /\ Expression.at = "precedence"
  BY CallForms
<1>8. /\ Top.at \in ExprCalls /\ Expression.at \in ExprCalls /\ b.at \in ExprCalls
      /\ b.at \notin Immediate /\ Expression.at # "literal" /\ Expression.at # "binary"
  BY <1>1, <1>4, <1>7 DEF ExprCalls, Immediate, PrefixCalls
<1>9. CASE Return(CallEnds(q, count))
  BY <1>1, <1>6, <1>8, <1>9, ExprReturns
<1>10. CASE Then(Advance(q), <<Expression, b>>)
  BY <1>1, <1>4, <1>6, <1>7, <1>8, <1>10, ExprGoes
<1>. QED
  BY <1>1, <1>9, <1>10

(* The slot of a local or the constant of a global is a byte.              *)
LEMMA VariableKeeps ==
  ASSUME CompilerInv, Variable
  PROVE  Kept
<1>. DEFINE name == parser.previous.text
            local == Named(parser, name) # {}
            i == Resolve(parser, name)
            arg == IF local THEN (i - 1) % (ByteMax + 1) ELSE ConstantId(parser)
            set == IF local THEN "SET_LOCAL" ELSE "SET_GLOBAL"
            get == IF local THEN "GET_LOCAL" ELSE "GET_GLOBAL"
<1>1. /\ todo # << >> /\ Top.at = "variable" /\ Fine(parser) /\ text \in Texts
  BY TopIs DEF Variable, At
<1>2. PICK q : /\ q \in {AddConstant(parser, Str(name)), ErrorAt(parser), parser}
               /\ \/ Then(Advance(q), <<Expression, Finish(None, <<Opcode[set], arg>>)>>)
                  \/ Return(Emit(q, <<Opcode[get], arg>>))
  BY DEF Variable
<1>3. arg \in Bytes
  BY <1>1, ResolveIsSlot, HelpersKeep
<1>4. set \in Emitted /\ get \in Emitted
  BY DEF Emitted
<1>. HIDE DEF arg, set, get
<1>5. <<Opcode[set], arg>> \in Seq(Bytes) /\ <<Opcode[get], arg>> \in Seq(Bytes)
  BY <1>3, <1>4, CodesAre
<1>6. Same(parser, q, {})
  BY <1>1, <1>2, HelpersKeep, SameSelf
<1>. DEFINE b == Finish(None, <<Opcode[set], arg>>)
            r == Emit(q, <<Opcode[get], arg>>)
<1>7. Same(parser, Advance(q), {}) /\ Same(parser, r, {})
  BY <1>1, <1>5, <1>6, Further
<1>8. Expression \in Calls /\ Expression.at = "precedence" /\ b \in Calls /\ b.at = "finish"
  BY <1>5, CallForms
<1>. HIDE DEF b, r
<1>9. /\ Top.at \in ExprCalls /\ Expression.at \in ExprCalls /\ b.at \in ExprCalls
      /\ b.at \notin Immediate /\ Expression.at # "literal" /\ Expression.at # "binary"
  BY <1>1, <1>8 DEF ExprCalls, Immediate, PrefixCalls
<1>10. CASE Return(r)
  BY <1>1, <1>7, <1>9, <1>10, ExprReturns
<1>11. CASE Then(Advance(q), <<Expression, b>>)
  BY <1>1, <1>7, <1>8, <1>9, <1>11, ExprGoes
<1>. QED
  BY <1>2, <1>10, <1>11 DEF b, r
-----------------------------------------------------------------------------
(* Functions.                                                              *)

(* One more parameter is counted.                                          *)
LEMMA CountedIsSame ==
  ASSUME NEW p, Fine(p), NEW arity \in Nat
  PROVE  Same(p, WithFn(p, [Fn(p) EXCEPT !.arity = arity]), {})
<1>. DEFINE f == [Fn(p) EXCEPT !.arity = arity]
<1>1. PICK S : Sound(p, S)
  BY DEF Fine
<1>2. Fn(p) \in FnSet(S) /\ Count(p) \in Nat /\ Count(p) = Len(Fn(p).code)
  BY <1>1, FnIs
<1>3. /\ f \in FnSet(S) /\ f.depth = Fn(p).depth /\ f.locals = Fn(p).locals
      /\ f.code = Fn(p).code
  BY <1>2 DEF FnSet
<1>. HIDE DEF f
<1>4. Count(p) <= Len(f.code) /\ \A i \in 1 .. Count(p) : f.code[i] = Fn(p).code[i]
  BY <1>2, <1>3
<1>5. Grows(p, WithFn(p, f), S)
  BY <1>1, <1>3, <1>4, SteadyWith
<1>. QED
  BY <1>5, GrowsIsSame DEF f

(* A parameter is a local of the new function, initialized at once.        *)
LEMMA ParameterKeeps ==
  ASSUME CompilerInv, Parameter
  PROVE  Kept
<1>. DEFINE arity == Fn(parser).arity + 1
            o == WithFn(parser, [Fn(parser) EXCEPT !.arity = arity])
            q == IF arity > ByteMax THEN ErrorAt(o) ELSE o
            v == ParseVariable(q)
            r == DefineGlobal(v, VariableId(q))
            s == IF Check(r, "COMMA") THEN Advance(r) ELSE r
            a == IF Check(r, "COMMA") THEN Top ELSE [Top EXCEPT !.at = "func_body"]
<1>1. /\ todo # << >> /\ Top.at = "parameter" /\ Fine(parser) /\ text \in Texts
      /\ Top \in Calls /\ ScopesOK(Fn(parser)) /\ Settled(Fn(parser))
  BY TopIs DEF Parameter, At, ExprCalls, Immediate, PrefixCalls
<1>2. Then(s, <<a>>)
  BY DEF Parameter
<1>3. Top \in [at : {"var_defined"} \cup InFunction, global : Bytes]
  BY <1>1 DEF Calls, PlainCalls, PrefixCalls, InFunction
<1>4. a \in Calls /\ a.at \in {"parameter", "func_body"}
  <2>1. a \in [at : {"var_defined"} \cup InFunction, global : Bytes]
    BY <1>3 DEF InFunction
  <2>2. a \in Calls
    BY <2>1 DEF Calls
  <2>3. a.at \in {"parameter", "func_body"}
    BY <1>1, <1>3
  <2>. QED
    BY <2>2, <2>3
<1>5. Same(parser, o, {})
  <2>1. arity \in Nat
    BY <1>1, FineFn
  <2>. HIDE DEF arity
  <2>. QED
    BY <1>1, <2>1, CountedIsSame
<1>. HIDE DEF arity, o
<1>6. Same(parser, q, {}) /\ Fine(q)
  BY <1>1, <1>5, Further DEF Same
<1>. HIDE DEF q
<1>7. /\ Within(parser, q) /\ Fn(q).depth = Fn(parser).depth /\ ScopesOK(Fn(q))
      /\ Settled(Fn(q))
  BY <1>1, <1>6, SameIsWithin
<1>8. /\ Within(q, v) /\ Fn(v).depth = Fn(q).depth /\ ScopesOK(Fn(v)) /\ Roomy(v) /\ Fine(v)
  BY <1>1, <1>6, <1>7, ParseVariableKeeps DEF Within
<1>9. VariableId(q) \in Bytes
  BY <1>1, <1>6, VariableIdIsByte
<1>. HIDE DEF v
<1>10. /\ Within(v, r) /\ Fn(r).depth = Fn(v).depth /\ ScopesOK(Fn(r)) /\ Settled(Fn(r))
       /\ Fine(r)
  BY <1>1, <1>8, <1>9, DefineGlobalKeeps DEF Within
<1>. HIDE DEF r
<1>11. Same(r, s, {})
  BY <1>1, <1>10, HelpersKeep, SameSelf
<1>. HIDE DEF s, a
<1>12. /\ Within(r, s) /\ Fn(s).depth = Fn(r).depth /\ ScopesOK(Fn(s)) /\ Settled(Fn(s))
  BY <1>10, <1>11, SameIsWithin
<1>13. Within(parser, v)
  BY <1>1, <1>7, <1>8, WithinTrans
<1>14. Within(parser, r)
  BY <1>1, <1>10, <1>13, WithinTrans
<1>15. Within(parser, s)
  BY <1>1, <1>12, <1>14, WithinTrans
<1>16. /\ Fresh(s, a) /\ a.at \in InFunction /\ Top.at \in InFunction
       /\ a.at \notin Immediate \cup Scoped \cup {"var_defined"}
       /\ Top.at \notin ExprCalls \cup Scoped
  BY <1>1, <1>4 DEF Fresh, Holders, Immediate, PrefixCalls, ExprCalls, InFunction, Scoped
<1>. DEFINE calls == <<a>>
<1>17. /\ CallsStep(s, calls) /\ JumpStep(s, calls, {}) /\ ~Initializes(calls)
       /\ ~EndsIn(calls, Scoped) /\ Then(s, calls)
  BY <1>2, <1>4, <1>16, OneCall
<1>. HIDE DEF calls
<1>18. Fn(s).depth = Fn(parser).depth
  BY <1>7, <1>8, <1>10, <1>12
<1>. QED
  BY <1>1, <1>12, <1>15, <1>16, <1>17, <1>18, Declaring

(* The body of a function is a block.                                      *)
LEMMA FuncBodyKeeps ==
  ASSUME CompilerInv, FuncBody
  PROVE  Kept
<1>. DEFINE o == Consume(parser, "R_PAREN")
            q == Consume(o, "L_BRACE")
            a == Do("block")
            b == [Top EXCEPT !.at = "func_end"]
<1>1. /\ todo # << >> /\ Top.at = "func_body" /\ Fine(parser) /\ text \in Texts
      /\ Top \in Calls /\ Then(q, <<a, b>>)
  BY TopIs DEF FuncBody, At
<1>2. a \in Calls /\ a.at = "block"
  BY CallForms DEF PlainCalls
<1>3. b \in Calls /\ b.at = "func_end"
  <2>1. Top \in [at : {"var_defined"} \cup InFunction, global : Bytes]
    BY <1>1 DEF Calls, PlainCalls, PrefixCalls, InFunction
  <2>2. b \in [at : {"var_defined"} \cup InFunction, global : Bytes] /\ b.at = "func_end"
    BY <2>1 DEF InFunction
  <2>. QED
    BY <2>2 DEF Calls
<1>4. Same(parser, o, {})
  BY <1>1, HelpersKeep
<1>. HIDE DEF o
<1>5. Same(parser, q, {}) /\ {} \subseteq Holds(Top)
  BY <1>1, <1>4, Further
<1>. HIDE DEF q, a, b
<1>6. /\ Fresh(q, b) /\ b.at \in InFunction /\ Top.at \in InFunction
      /\ b.at \notin Immediate \cup ExprCalls \cup Scoped \cup {"var_defined"}
      /\ a.at \notin Scoped \cup InFunction \cup Holders \cup {"var_defined"}
      /\ a.at # "literal" /\ a.at # "binary"
      /\ Top.at \notin ExprCalls \cup Scoped \cup {"var_defined"}
  BY <1>1, <1>2, <1>3 DEF Fresh, Holders, Immediate, PrefixCalls, ExprCalls, InFunction, Scoped
<1>. DEFINE calls == <<a, b>>
<1>7. /\ CallsStep(q, calls) /\ JumpStep(q, calls, {}) /\ ~Initializes(calls)
      /\ ~EndsIn(calls, Scoped) /\ Then(q, calls)
  BY <1>1, <1>2, <1>3, <1>6, TwoCalls
<1>. HIDE DEF calls
<1>. QED
  BY <1>1, <1>5, <1>6, <1>7, GoesOn

(* The code of every function that is compiled before and after a step.    *)
CodeStep ==
  \A n \in DOMAIN parser.fns \cap DOMAIN parser'.fns :
    LET old == parser.fns[n].code  new == parser'.fns[n].code IN
    /\ Len(old) <= Len(new)
    /\ \A i \in DOMAIN old : new[i] # old[i] =>
         n = Len(parser.fns) /\ {i - 1, i - 2} \cap Holds(Top) # {}

(* What a step within the function keeps of the code is what CodeKept      *)
(* says.                                                                   *)
LEMMA KeptCode ==
  ASSUME Fine(parser), KeepsCode(parser, parser', Holds(Top))
  PROVE  CodeStep
<1>1. PICK S : Sound(parser, S)
  BY DEF Fine
<1>2. /\ parser.fns \in Seq(FnSet(S)) /\ Len(parser.fns) \in Nat
      /\ \A n \in 1 .. Len(parser.fns) : parser.fns[n].code \in Seq(Bytes)
  BY <1>1, FnIs
<1>3. ASSUME NEW n \in DOMAIN parser.fns \cap DOMAIN parser'.fns
      PROVE  /\ Len(parser.fns[n].code) <= Len(parser'.fns[n].code)
             /\ \A i \in DOMAIN parser.fns[n].code :
                  parser'.fns[n].code[i] # parser.fns[n].code[i] =>
                    n = Len(parser.fns) /\ {i - 1, i - 2} \cap Holds(Top) # {}
  <2>1. n \in 1 .. Len(parser.fns)
    BY <1>2
  <2>2. DOMAIN parser.fns[n].code = 1 .. Len(parser.fns[n].code)
    BY <1>2, <2>1
  <2>. QED
    BY <2>1, <2>2 DEF KeepsCode
<1>. QED
  BY <1>3 DEF CodeStep

(* A function begins or ends: the calls below the top stay, and so do the  *)
(* functions they compile for.                                             *)
LEMMA FunctionStep ==
  ASSUME CompilerInv, todo # << >>, NEW q, NEW calls, Then(q, calls), CallsFit(q, calls),
         Top.at \notin ExprCalls, Top.at \notin Scoped,
         \A k \in 1 .. Len(calls) :
           calls[k].at \notin Scoped \cup Holders \cup {"var_defined"},
         \A h \in 1 .. Len(todo') : Owner(h)' = Owner(h),
         Fine(q), Len(q.fns) = 1 + Cardinality(FunctionCalls'),
         \A h \in 1 .. Len(todo) - 1 : Owner(h) <= Len(q.fns),
         \A n \in 1 .. Len(q.fns) :
           /\ n <= Len(parser.fns) => /\ q.fns[n].depth = parser.fns[n].depth
                                      /\ \A j : Open(parser.fns[n], j) => Open(q.fns[n], j)
           /\ n > Len(parser.fns) => q.fns[n].depth = 1
           /\ ScopesOK(q.fns[n]) /\ Settled(q.fns[n]),
         \A n \in 1 .. Len(q.fns) - 1 :
           Joined /\ q.fns[n].depth > 0 => Len(q.fns[n].locals) >= 2
  PROVE  CompilerInv'
<1>. DEFINE N == Len(parser.fns)  M == Len(q.fns)  L == Len(todo)  K == Len(calls)
<1>1. /\ text \in Texts /\ todo \in Seq(Calls) /\ calls \in Seq(Calls) /\ Fine(parser)
      /\ parser' = q /\ text' = text
  BY DEF CompilerInv, TodoOK, CallsFit, Then
<1>2. /\ L \in Nat /\ L >= 1 /\ K \in Nat /\ Len(todo') = L - 1 + K /\ Top = CallAt(L)
      /\ \A h \in 1 .. L - 1 : CallAt(h)' = CallAt(h)
      /\ \A h \in 1 .. L : CallAt(h) \in Calls
  BY <1>1, ThenCalls
<1>3. \A h \in 1 .. Len(todo') :
        \/ h \in 1 .. L - 1 /\ CallAt(h)' = CallAt(h)
        \/ h >= L /\ \E m \in 1 .. K : CallAt(h)' = calls[m] /\ h + m = L + K
  BY <1>1, NewHeights
<1>4. N \in Nat /\ M \in Nat /\ M >= 1 /\ N >= 1 /\ Fn(q) = q.fns[M] /\ N = 1 + Cardinality(FunctionCalls)
  BY <1>1, FineFn DEF CompilerInv, DepthsOK
<1>5. \A h : Owner(h) \in 1 .. N
  BY <1>1, <1>4, CallsFinite
<1>6. \A k \in 1 .. K : Holds(calls[k]) = {} /\ Ordered(calls[k])
  BY <1>1, HoldsNothing DEF Holders, Ordered, K
<1>7. \A h \in 1 .. L : CallAt(h).at \in ExprCalls \cup {"var_defined"} =>
        \A g \in h + 1 .. L : CallAt(g).at \in ExprCalls
  BY DEF CompilerInv, TodoOK
<1>8. TodoOK'
  BY StepTodo
<1>. HIDE DEF L, K, N, M
<1>9. DepthsOK'
  <2>1. ASSUME NEW n
        PROVE  Scopes(n)' = Scopes(n)
    <3>1. Scopes(n)' = {h \in 1 .. Len(todo') : CallAt(h)'.at \in Scoped /\ Owner(h)' = n}
      BY DEF Scopes
    <3>2. Scopes(n) = {h \in 1 .. L : CallAt(h).at \in Scoped /\ Owner(h) = n}
      BY DEF Scopes, L
    <3>3. ASSUME NEW h \in Scopes(n)'
          PROVE  h \in Scopes(n)
      <4>1. h \in 1 .. Len(todo') /\ CallAt(h)'.at \in Scoped /\ Owner(h)' = n
        BY <3>1, <3>3
      <4>2. h \in 1 .. L - 1
        BY <1>3, <4>1 DEF K
      <4>3. h \in 1 .. L /\ CallAt(h)' = CallAt(h) /\ Owner(h) = n
        BY <1>2, <4>1, <4>2
      <4>. QED
        BY <3>2, <4>1, <4>3
    <3>4. ASSUME NEW h \in Scopes(n)
          PROVE  h \in Scopes(n)'
      <4>1. h \in 1 .. L /\ CallAt(h).at \in Scoped /\ Owner(h) = n
        BY <3>2, <3>4
      <4>2. h \in 1 .. L - 1
        BY <1>2, <4>1
      <4>3. h \in 1 .. Len(todo') /\ CallAt(h)' = CallAt(h) /\ Owner(h)' = n
        BY <1>2, <4>1, <4>2
      <4>. QED
        BY <3>1, <4>1, <4>3
    <3>. QED
      BY <3>3, <3>4
  <2>2. \A n \in 1 .. N : parser.fns[n].depth = Cardinality(Scopes(n)) + IF n = 1 THEN 0 ELSE 1
    BY DEF CompilerInv, DepthsOK, N
  <2>3. ASSUME NEW n \in 1 .. M
        PROVE  q.fns[n].depth = Cardinality(Scopes(n)) + IF n = 1 THEN 0 ELSE 1
    <3>1. CASE n <= N
      <4>1. n \in 1 .. N
        BY <3>1
      <4>. QED
        BY <2>2, <3>1, <4>1 DEF M, N
    <3>2. CASE ~(n <= N)
      <4>1. n > N /\ n # 1 /\ n \in 1 .. M
        BY <1>4, <3>2
      <4>2. Scopes(n) = {}
        BY <1>4, <1>5, <4>1 DEF Scopes
      <4>3. Cardinality(Scopes(n)) = 0
        BY <4>2, FS_EmptySet
      <4>4. q.fns[n].depth = 1
        BY <4>1 DEF M, N
      <4>. QED
        BY <4>1, <4>3, <4>4
    <3>. QED
      BY <3>1, <3>2
  <2>4. DepthsOK' <=>
          /\ Len(q.fns) = 1 + Cardinality(FunctionCalls')
          /\ \A n \in 1 .. M : q.fns[n].depth = Cardinality(Scopes(n)') + IF n = 1 THEN 0 ELSE 1
    BY <1>1 DEF DepthsOK, M
  <2>. QED
    BY <2>1, <2>3, <2>4
<1>10. LocalsOK'
  <2>1. ASSUME NEW h \in 1 .. Len(todo'), CallAt(h)'.at = "var_defined"
        PROVE  FALSE
    <3>1. h \in 1 .. L - 1
      BY <1>3, <2>1 DEF K
    <3>2. h \in 1 .. L /\ L \in h + 1 .. L /\ CallAt(h)' = CallAt(h)
      BY <1>2, <3>1
    <3>. QED
      BY <1>2, <1>7, <2>1, <3>2
  <2>2. ~Pending'
    BY <2>1 DEF Pending
  <2>3. M \in 1 .. M /\ \A n \in 1 .. M - 1 : n \in 1 .. M
    BY <1>4
  <2>4. /\ \A n \in 1 .. M : ScopesOK(q.fns[n])
        /\ \A n \in 1 .. M - 1 : /\ Settled(q.fns[n])
                                 /\ Joined /\ q.fns[n].depth > 0 => Len(q.fns[n].locals) >= 2
        /\ Settled(Fn(q))
    BY <1>4, <2>3 DEF M
  <2>5. LocalsOK' <=>
          /\ \A n \in 1 .. M : ScopesOK(q.fns[n])
          /\ \A n \in 1 .. M - 1 : /\ Settled(q.fns[n])
                                   /\ Joined /\ q.fns[n].depth > 0 => Len(q.fns[n].locals) >= 2
          /\ Settled(Fn(q)) \/ Pending'
          /\ Pending' => Roomy(q)
    BY <1>1 DEF LocalsOK, M
  <2>. QED
    BY <2>2, <2>4, <2>5
<1>11. JumpsOK'
  <2>1. /\ \A h \in 1 .. L : Ordered(CallAt(h))
        /\ \A h \in 1 .. L : \A j \in Holds(CallAt(h)) :
             /\ Open(parser.fns[Owner(h)], j)
             /\ \A g \in h + 1 .. L : Owner(g) = Owner(h) =>
                  \A i \in Holds(CallAt(g)) : i > j + 1
    BY DEF CompilerInv, JumpsOK, L
  <2>2. ASSUME NEW h \in 1 .. Len(todo'), ~(h \in 1 .. L - 1)
        PROVE  Holds(CallAt(h)') = {} /\ Ordered(CallAt(h)')
    BY <1>3, <1>6, <2>2
  <2>3. ASSUME NEW h \in 1 .. Len(todo'), NEW j \in Holds(CallAt(h)')
        PROVE  h \in 1 .. L - 1 /\ h \in 1 .. L /\ j \in Holds(CallAt(h))
               /\ CallAt(h)' = CallAt(h)
    <3>1. h \in 1 .. L - 1
      BY <2>2, <2>3
    <3>. QED
      BY <1>2, <2>3, <3>1
  <2>4. ASSUME NEW h \in 1 .. Len(todo')
        PROVE  Ordered(CallAt(h)')
    <3>1. CASE h \in 1 .. L - 1
      <4>1. h \in 1 .. L /\ CallAt(h)' = CallAt(h)
        BY <1>2, <3>1
      <4>. QED
        BY <2>1, <4>1
    <3>. QED
      BY <2>2, <3>1
  <2>5. ASSUME NEW h \in 1 .. Len(todo'), NEW j \in Holds(CallAt(h)')
        PROVE  Open(q.fns[Owner(h)'], j)
    <3>1. h \in 1 .. L - 1 /\ h \in 1 .. L /\ j \in Holds(CallAt(h)) /\ Owner(h)' = Owner(h)
      BY <2>3, <2>5
    <3>. SUFFICES ASSUME NEW n, n = Owner(h)
                  PROVE  Open(q.fns[n], j)
      BY <3>1
    <3>2. n \in 1 .. M /\ n <= N
      BY <1>4, <1>5, <3>1 DEF L, M
    <3>3. Open(parser.fns[n], j)
      BY <2>1, <3>1
    <3>. QED
      BY <3>2, <3>3 DEF M, N
  <2>6. ASSUME NEW h \in 1 .. Len(todo'), NEW j \in Holds(CallAt(h)'),
               NEW g \in h + 1 .. Len(todo'), Owner(g)' = Owner(h)',
               NEW i \in Holds(CallAt(g)')
        PROVE  i > j + 1
    <3>1. g \in 1 .. Len(todo')
      BY <1>2
    <3>2. g \in 1 .. L - 1 /\ i \in Holds(CallAt(g))
      BY <2>3, <2>6, <3>1
    <3>3. h \in 1 .. L /\ j \in Holds(CallAt(h))
      BY <2>3
    <3>4. g \in h + 1 .. L /\ Owner(g) = Owner(h)
      BY <1>2, <2>6, <3>1, <3>2
    <3>. QED
      BY <2>1, <3>2, <3>3, <3>4
  <2>7. ASSUME NEW h \in 1 .. Len(todo')
        PROVE  /\ Ordered(CallAt(h)')
               /\ \A j \in Holds(CallAt(h)') :
                    /\ Open(q.fns[Owner(h)'], j)
                    /\ \A g \in h + 1 .. Len(todo') : Owner(g)' = Owner(h)' =>
                         \A i \in Holds(CallAt(g)') : i > j + 1
    BY <2>4, <2>5, <2>6
  <2>8. JumpsOK' <=>
          \A h \in 1 .. Len(todo') :
            /\ Ordered(CallAt(h)')
            /\ \A j \in Holds(CallAt(h)') :
                 /\ Open(parser'.fns[Owner(h)'], j)
                 /\ \A g \in h + 1 .. Len(todo') : Owner(g)' = Owner(h)' =>
                      \A i \in Holds(CallAt(g)') : i > j + 1
    BY DEF JumpsOK
  <2>. QED
    BY <1>1, <2>7, <2>8
<1>12. Fine(parser)'
  BY <1>1 DEF Fine, Sound
<1>. QED
  BY <1>1, <1>8, <1>9, <1>10, <1>11, <1>12 DEF CompilerInv

(* A function begins on top of the stack.                                  *)
LEMMA FunctionBegins ==
  ASSUME todo \in Seq(Calls), todo # << >>, NEW q, NEW c \in Calls, Then(q, <<c>>),
         c.at \in InFunction, Top.at \notin InFunction
  PROVE  /\ Cardinality(FunctionCalls') = Cardinality(FunctionCalls) + 1
         /\ \A h \in 1 .. Len(todo') : Owner(h)' = Owner(h)
<1>. DEFINE L == Len(todo)  calls == <<c>>
<1>1. calls \in Seq(Calls) /\ Len(calls) = 1 /\ calls[1] = c
  OBVIOUS
<1>. HIDE DEF calls
<1>2. /\ L \in Nat /\ L >= 1 /\ Len(todo') = L - 1 + 1 /\ Top = CallAt(L)
      /\ \A h \in 1 .. L - 1 : CallAt(h)' = CallAt(h)
      /\ \A h : h = L - 1 + 1 => CallAt(h)' = calls[1 + 1 - 1]
  <2>1. Then(q, calls)
    BY DEF calls
  <2>2. /\ Len(todo) \in Nat /\ Len(todo) >= 1 /\ Len(todo') = Len(todo) - 1 + Len(calls)
        /\ Top = CallAt(Len(todo))
        /\ \A h \in 1 .. Len(todo) - 1 : CallAt(h)' = CallAt(h)
        /\ \A k \in 1 .. Len(calls) : \A h : h = Len(todo) - 1 + k =>
             CallAt(h)' = calls[Len(calls) + 1 - k]
    BY <1>1, <2>1, ThenCalls
  <2>3. 1 \in 1 .. Len(calls)
    BY <1>1
  <2>. QED
    BY <1>1, <2>2, <2>3
<1>. HIDE DEF L
<1>3. Len(todo') = L /\ \A h : h = L => CallAt(h)' = c
  BY <1>1, <1>2
<1>4. L \notin FunctionCalls
  BY <1>2 DEF FunctionCalls
<1>5. ASSUME NEW h
      PROVE  h \in FunctionCalls' <=> h \in FunctionCalls \cup {L}
  <2>1. h \in FunctionCalls' <=> h \in 1 .. L /\ CallAt(h)'.at \in InFunction
    BY <1>3 DEF FunctionCalls
  <2>2. h \in FunctionCalls <=> h \in 1 .. L /\ CallAt(h).at \in InFunction
    BY DEF FunctionCalls, L
  <2>3. CASE h = L
    BY <1>2, <1>3, <2>1, <2>3
  <2>4. CASE h # L
    <3>1. h \in 1 .. L => h \in 1 .. L - 1
      BY <1>2, <2>4
    <3>. QED
      BY <1>2, <2>1, <2>2, <2>4, <3>1
  <2>. QED
    BY <2>3, <2>4
<1>6. FunctionCalls' = FunctionCalls \cup {L}
  BY <1>5
<1>7. IsFiniteSet(FunctionCalls) /\ Cardinality(FunctionCalls) \in Nat
  BY CallsFinite
<1>8. Cardinality(FunctionCalls') = Cardinality(FunctionCalls) + 1
  BY <1>4, <1>6, <1>7, FS_AddElement
<1>9. ASSUME NEW h \in 1 .. Len(todo')
      PROVE  Owner(h)' = Owner(h)
  <2>1. Owner(h)' = 1 + Cardinality({g \in FunctionCalls' : g < h})
    BY DEF Owner
  <2>2. ~(L < h)
    BY <1>2, <1>3
  <2>3. {g \in FunctionCalls' : g < h} = {g \in FunctionCalls : g < h}
    BY <1>6, <2>2
  <2>. QED
    BY <2>1, <2>3 DEF Owner
<1>. QED
  BY <1>8, <1>9

(* The function on top of the stack ends.                                  *)
LEMMA FunctionEnds ==
  ASSUME todo \in Seq(Calls), todo # << >>, NEW q, Then(q, << >>), Top.at \in InFunction
  PROVE  /\ Cardinality(FunctionCalls) \in Nat /\ Cardinality(FunctionCalls) >= 1
         /\ Cardinality(FunctionCalls') = Cardinality(FunctionCalls) - 1
         /\ \A h \in 1 .. Len(todo') : Owner(h)' = Owner(h)
         /\ \A h \in 1 .. Len(todo) - 1 : Owner(h) <= Cardinality(FunctionCalls)
<1>. DEFINE L == Len(todo)
<1>1. /\ L \in Nat /\ L >= 1 /\ Len(todo') = L - 1 /\ Top = CallAt(L)
      /\ \A h \in 1 .. L - 1 : CallAt(h)' = CallAt(h)
  <2>1. << >> \in Seq(Calls) /\ Len(<< >>) = 0
    BY EmptySeq
  <2>2. /\ Len(todo) \in Nat /\ Len(todo) >= 1 /\ Len(todo') = Len(todo) - 1 + 0
        /\ Top = CallAt(Len(todo))
        /\ \A h \in 1 .. Len(todo) - 1 : CallAt(h)' = CallAt(h)
    BY <2>1, ThenCalls
  <2>. QED
    BY <2>2
<1>2. L \in FunctionCalls
  BY <1>1 DEF FunctionCalls
<1>. HIDE DEF L
<1>3. FunctionCalls' = FunctionCalls \ {L}
  <2>1. ASSUME NEW h
        PROVE  h \in FunctionCalls' <=> h \in FunctionCalls \ {L}
    <3>1. h \in FunctionCalls' <=> h \in 1 .. L - 1 /\ CallAt(h)'.at \in InFunction
      BY <1>1 DEF FunctionCalls
    <3>2. h \in FunctionCalls <=> h \in 1 .. L /\ CallAt(h).at \in InFunction
      BY DEF FunctionCalls, L
    <3>3. h \in 1 .. L - 1 <=> h \in 1 .. L /\ h # L
      BY <1>1
    <3>. QED
      BY <1>1, <3>1, <3>2, <3>3
  <2>. QED
    BY <2>1
<1>4. IsFiniteSet(FunctionCalls) /\ Cardinality(FunctionCalls) \in Nat
  BY CallsFinite
<1>5. Cardinality(FunctionCalls') = Cardinality(FunctionCalls) - 1
  BY <1>2, <1>3, <1>4, FS_RemoveElement
<1>6. Cardinality(FunctionCalls) # 0
  BY <1>2, <1>4, FS_EmptySet
<1>7. ASSUME NEW h \in 1 .. L - 1
      PROVE  Owner(h)' = Owner(h) /\ Owner(h) <= Cardinality(FunctionCalls)
  <2>1. Owner(h)' = 1 + Cardinality({g \in FunctionCalls' : g < h})
    BY DEF Owner
  <2>2. ~(L < h) /\ h \in Int /\ h <= L
    BY <1>1
  <2>3. {g \in FunctionCalls' : g < h} = {g \in FunctionCalls : g < h}
    BY <1>3, <2>2
  <2>4. Owner(h) <= Cardinality(FunctionCalls)
    BY <1>2, <2>2, OwnerBelow
  <2>. QED
    BY <2>1, <2>3, <2>4 DEF Owner
<1>. DEFINE n == Cardinality(FunctionCalls)
<1>. HIDE DEF n
<1>8. n \in Nat /\ n # 0
  BY <1>4, <1>6 DEF n
<1>9. n >= 1
  BY <1>8
<1>. QED
  BY <1>1, <1>5, <1>7, <1>8, <1>9 DEF n, L

(* There is a slot for the function itself.                                *)
LEMMA SlotsArePositive == 1 \in 1 .. SlotsMax
<1>1. SlotsMax \in Nat /\ SlotsMax >= 1
  BY ByteAssumption DEF SlotsMax
<1>. QED
  BY <1>1

(* What tr_func_new makes: no code, and the slot of the function itself.   *)
LEMMA NewFuncIs ==
  ASSUME NEW type \in {"SCRIPT", "FUNC"}, NEW S
  PROVE  /\ NewFunc(type) \in FnSet(S) /\ NewFunc(type).depth = 0
         /\ ScopesOK(NewFunc(type)) /\ Settled(NewFunc(type))
<1>. DEFINE f == NewFunc(type)
<1>1. /\ f \in FnSet(S) /\ f.depth = 0 /\ Len(f.locals) = 1 /\ f.locals[1].depth = 0
  <2>1. None \in NamesRead
    <3>1. EOF \in Tokens /\ EOF.text = None
      BY DEF Tokens, EOF, Token
    <3>. QED
      BY <3>1 DEF NamesRead
  <2>2. Local(None, 0) \in LocalSet /\ Local(None, 0).depth = 0
    BY <2>1 DEF Local, LocalSet
  <2>. DEFINE l == Local(None, 0)
  <2>. HIDE DEF l
  <2>3. <<l>> \in Seq(LocalSet) /\ Len(<<l>>) = 1 /\ <<l>>[1] = l
    BY <2>2 DEF l
  <2>4. << >> \in Seq(Bytes) /\ << >> \in Seq(S)
    BY EmptySeq
  <2>5. f = [type |-> type, arity |-> 0, code |-> << >>, consts |-> << >>,
             depth |-> 0, locals |-> <<l>>]
    BY DEF NewFunc, l
  <2>. HIDE DEF f
  <2>6. f \in FnSet(S)
    BY <2>3, <2>4, <2>5 DEF FnSet
  <2>. QED
    BY <2>2, <2>3, <2>5, <2>6 DEF l
<1>. HIDE DEF f
<1>2. Settled(f)
  <2>1. \A i \in 1 .. Len(f.locals) : i = 1
    BY <1>1
  <2>. QED
    BY <1>1, <2>1 DEF Settled
<1>3. ScopesOK(f)
  <2>1. /\ \A i \in 1 .. Len(f.locals) : i = 1
        /\ \A i \in 1 .. Len(f.locals) : \A j \in i + 1 .. Len(f.locals) : FALSE
    BY <1>1
  <2>2. 1 \in 1 .. SlotsMax
    BY SlotsArePositive
  <2>. QED
    BY <1>1, <1>2, <2>1, <2>2 DEF ScopesOK
<1>. QED
  BY <1>1, <1>2, <1>3 DEF f

(* A new function after the others.                                        *)
LEMMA NewFuncKeeps ==
  ASSUME NEW p, Fine(p), NEW r, r = [p EXCEPT !.fns = Append(@, NewFunc("FUNC"))]
  PROVE  /\ Fine(r) /\ Len(r.fns) = Len(p.fns) + 1 /\ Fn(r) = NewFunc("FUNC")
         /\ \A n \in 1 .. Len(p.fns) : r.fns[n] = p.fns[n]
         /\ ScopesOK(Fn(r)) /\ Settled(Fn(r)) /\ Fn(r).depth = 0
<1>. DEFINE f == NewFunc("FUNC")  fns == Append(p.fns, f)
<1>1. PICK S : Sound(p, S)
  BY DEF Fine
<1>2. p \in ParserSet(S) /\ p.fns \in Seq(FnSet(S)) /\ Len(p.fns) \in Nat
  BY <1>1, FnIs DEF Sound
<1>3. f \in FnSet(S) /\ f.depth = 0 /\ ScopesOK(f) /\ Settled(f)
  BY NewFuncIs
<1>. HIDE DEF f
<1>4. /\ fns \in Seq(FnSet(S)) /\ Len(fns) = Len(p.fns) + 1 /\ fns[Len(p.fns) + 1] = f
      /\ \A n \in 1 .. Len(p.fns) : fns[n] = p.fns[n]
  BY <1>2, <1>3, AppendProperties
<1>. HIDE DEF fns
<1>5. r = [p EXCEPT !.fns = fns]
  BY DEF fns, f
<1>6. r \in ParserSet(S) /\ r.fns = fns /\ r.pos = p.pos /\ r.panicking = p.panicking
      /\ r.error = p.error
  BY <1>2, <1>4, <1>5 DEF ParserSet
<1>7. Sound(r, S)
  BY <1>1, <1>2, <1>4, <1>6 DEF Sound
<1>8. Fn(r) = f
  BY <1>2, <1>4, <1>6 DEF Fn
<1>. QED
  BY <1>3, <1>4, <1>6, <1>7, <1>8 DEF Fine, f

(* The function being compiled is given up for the one around it.          *)
LEMMA DropKeeps ==
  ASSUME NEW p, Fine(p), Len(p.fns) >= 2,
         NEW r, r = [p EXCEPT !.fns = SubSeq(@, 1, Len(@) - 1)]
  PROVE  /\ Fine(r) /\ Len(r.fns) = Len(p.fns) - 1
         /\ \A n \in 1 .. Len(p.fns) - 1 : r.fns[n] = p.fns[n]
         /\ Fn(r) = p.fns[Len(p.fns) - 1]
<1>. DEFINE fns == SubSeq(p.fns, 1, Len(p.fns) - 1)
<1>1. PICK S : Sound(p, S)
  BY DEF Fine
<1>2. p \in ParserSet(S) /\ p.fns \in Seq(FnSet(S)) /\ Len(p.fns) \in Nat
  BY <1>1, FnIs DEF Sound
<1>3. /\ fns \in Seq(FnSet(S)) /\ Len(fns) = Len(p.fns) - 1
      /\ \A n \in 1 .. Len(p.fns) - 1 : fns[n] = p.fns[n]
  BY <1>2, SubSeqProperties
<1>. HIDE DEF fns
<1>4. r = [p EXCEPT !.fns = fns]
  BY DEF fns
<1>5. r \in ParserSet(S) /\ r.fns = fns /\ r.pos = p.pos /\ r.panicking = p.panicking
      /\ r.error = p.error
  BY <1>2, <1>3, <1>4 DEF ParserSet
<1>6. Sound(r, S)
  BY <1>1, <1>2, <1>3, <1>5 DEF Sound
<1>7. Fn(r) = p.fns[Len(p.fns) - 1]
  <2>. SUFFICES ASSUME NEW n, n = Len(p.fns) - 1
                PROVE  fns[Len(fns)] = p.fns[n]
    BY <1>5 DEF Fn
  <2>1. n \in 1 .. Len(p.fns) - 1 /\ Len(fns) = n
    BY <1>2, <1>3
  <2>. QED
    BY <1>3, <2>1
<1>. QED
  BY <1>2, <1>3, <1>5, <1>6, <1>7 DEF Fine

(* A function begins above the others, whose code, locals and jumps stay.  *)
LEMMA FuncDeclarationKeeps ==
  ASSUME CompilerInv, FuncDeclaration
  PROVE  CompilerInv' /\ CodeStep
<1>. DEFINE v == ParseVariable(parser)
            q == MarkInitialized(v)
            o == [q EXCEPT !.fns = Append(@, NewFunc("FUNC"))]
            r == BeginScope(o)
            s == Consume(r, "L_PAREN")
            c == [at |-> IF Check(s, "R_PAREN") THEN "func_body" ELSE "parameter",
                  global |-> VariableId(parser)]
            N == Len(parser.fns)
<1>1. /\ todo # << >> /\ Top.at = "func_declaration" /\ Fine(parser) /\ text \in Texts
      /\ ScopesOK(Fn(parser)) /\ Settled(Fn(parser)) /\ todo \in Seq(Calls)
      /\ Then(s, <<c>>)
  BY TopIs DEF FuncDeclaration, At, ExprCalls, Immediate, PrefixCalls, CompilerInv, TodoOK
<1>2. c \in Calls /\ c.at \in {"func_body", "parameter"}
  <2>1. c \in [at : {"var_defined"} \cup InFunction, global : Bytes]
    BY <1>1, VariableIdIsByte DEF InFunction
  <2>. QED
    BY <2>1 DEF Calls
<1>3. /\ Within(parser, v) /\ Fn(v).depth = Fn(parser).depth /\ ScopesOK(Fn(v)) /\ Roomy(v)
      /\ Fine(v)
  BY <1>1, ParseVariableKeeps DEF Within
<1>. HIDE DEF v
<1>4. /\ Within(v, q) /\ Fn(q).depth = Fn(v).depth /\ ScopesOK(Fn(q)) /\ Settled(Fn(q))
      /\ Len(Fn(q).locals) = Len(Fn(v).locals) /\ Fine(q)
  BY <1>3, MarkInitializedKeeps DEF Within
<1>. HIDE DEF q
<1>5. /\ Fine(o) /\ Len(o.fns) = Len(q.fns) + 1 /\ Fn(o) = NewFunc("FUNC")
      /\ \A n \in 1 .. Len(q.fns) : o.fns[n] = q.fns[n]
      /\ ScopesOK(Fn(o)) /\ Settled(Fn(o)) /\ Fn(o).depth = 0
  BY <1>1, <1>4, NewFuncKeeps
<1>. HIDE DEF o
<1>6. /\ Within(o, r) /\ ScopesOK(Fn(r)) /\ Settled(Fn(r)) /\ Fn(r).depth = 1 /\ Fine(r)
  <2>1. /\ Within(o, r) /\ ScopesOK(Fn(r)) /\ Settled(Fn(r)) /\ Fn(r).depth = Fn(o).depth + 1
    BY <1>5, BeginScopeKeeps
  <2>. QED
    BY <1>5, <2>1 DEF Within
<1>. HIDE DEF r
<1>7. Same(r, s, {})
  BY <1>1, <1>6, HelpersKeep
<1>. HIDE DEF s
<1>8. /\ Within(r, s) /\ ScopesOK(Fn(s)) /\ Settled(Fn(s)) /\ Fn(s).depth = 1 /\ Fine(s)
  BY <1>6, <1>7, SameIsWithin DEF Within
<1>9. Within(parser, q) /\ Within(o, s) /\ Fn(q).depth = Fn(parser).depth
  BY <1>1, <1>3, <1>4, <1>5, <1>6, <1>8, WithinTrans
<1>10. /\ N \in Nat /\ N \in 1 .. N /\ Fn(parser) = parser.fns[N] /\ Fn(q) = q.fns[N]
       /\ Len(q.fns) = N /\ Len(o.fns) = N + 1 /\ Len(s.fns) = N + 1
       /\ Fn(s) = s.fns[N + 1]
  <2>1. /\ N \in Nat /\ N \in 1 .. N /\ Fn(parser) = parser.fns[N]
        /\ Fn(q) = q.fns[Len(q.fns)] /\ Fn(s) = s.fns[Len(s.fns)]
    BY <1>1, <1>4, <1>8, FineFn
  <2>2. Len(q.fns) = N /\ Len(s.fns) = Len(o.fns)
    BY <1>9 DEF Within, KeepsCode
  <2>. QED
    BY <1>5, <2>1, <2>2
<1>11. Joined /\ Fn(q).depth > 0 => Len(Fn(q).locals) >= 2
  <2>1. Fn(v).depth \in Nat
    BY <1>3, FineFn
  <2>2. ASSUME Joined, Fn(q).depth > 0
        PROVE  Len(Fn(v).locals) >= 2
    <3>1. ScopeDepth(v) # 0
      BY <1>4, <2>1, <2>2 DEF ScopeDepth
    <3>. QED
      BY <1>3, <3>1 DEF Roomy
  <2>. QED
    BY <1>4, <2>2
<1>. HIDE DEF N
<1>12. ASSUME NEW n \in 1 .. N
       PROVE  /\ s.fns[n].depth = q.fns[n].depth /\ s.fns[n].locals = q.fns[n].locals
              /\ s.fns[n].depth = parser.fns[n].depth
              /\ n # N => s.fns[n].locals = parser.fns[n].locals
              /\ KeepsCode(parser, q, {}) /\ KeepsCode(o, s, {})
              /\ o.fns[n] = q.fns[n]
  <2>1. o.fns[n] = q.fns[n]
    BY <1>5, <1>10
  <2>2. s.fns[n].depth = o.fns[n].depth /\ s.fns[n].locals = o.fns[n].locals
    <3>1. n \in 1 .. Len(o.fns) - 1
      BY <1>10
    <3>. QED
      BY <1>9, <3>1 DEF Within
  <2>3. n # N => q.fns[n].depth = parser.fns[n].depth /\ q.fns[n].locals = parser.fns[n].locals
    <3>1. n # N => n \in 1 .. N - 1
      BY <1>10
    <3>. QED
      BY <1>9, <3>1 DEF Within, N
  <2>4. n = N => q.fns[n].depth = parser.fns[n].depth
    BY <1>9, <1>10
  <2>. QED
    BY <1>9, <2>1, <2>2, <2>3, <2>4 DEF Within
<1>13. KeepsCode(parser, q, {}) /\ KeepsCode(o, s, {})
  BY <1>9 DEF Within
<1>14. ASSUME NEW n \in 1 .. N, NEW j, Open(parser.fns[n], j)
       PROVE  Open(s.fns[n], j)
  <2>1. PICK S : Sound(parser, S)
    BY <1>1 DEF Fine
  <2>2. PICK T : Sound(q, T)
    BY <1>4 DEF Fine
  <2>3. PICK U : Sound(o, U)
    BY <1>5 DEF Fine
  <2>4. PICK V : Sound(s, V)
    BY <1>8 DEF Fine
  <2>5. n \in 1 .. Len(parser.fns) /\ \A i \in {} : i \in Int /\ (i > j + 1 \/ j > i + 1)
    BY DEF N
  <2>6. Open(q.fns[n], j)
    BY <1>13, <1>14, <2>1, <2>2, <2>5, OpenKept
  <2>7. Open(o.fns[n], j) /\ n \in 1 .. Len(o.fns)
    BY <1>10, <1>12, <2>6
  <2>. QED
    BY <1>13, <2>3, <2>4, <2>5, <2>7, OpenKept
<1>15. ASSUME NEW n \in 1 .. N
       PROVE  /\ ScopesOK(s.fns[n]) /\ Settled(s.fns[n])
              /\ Joined /\ s.fns[n].depth > 0 => Len(s.fns[n].locals) >= 2
  <2>1. CASE n = N
    <3>1. ScopesOK(q.fns[n]) /\ Settled(q.fns[n])
          /\ (Joined /\ q.fns[n].depth > 0 => Len(q.fns[n].locals) >= 2)
      BY <1>4, <1>10, <1>11, <2>1
    <3>. QED
      BY <1>12, <3>1 DEF ScopesOK, Settled
  <2>2. CASE n # N
    <3>1. n \in 1 .. N - 1
      BY <1>10, <2>2
    <3>2. ScopesOK(parser.fns[n]) /\ Settled(parser.fns[n])
          /\ (Joined /\ parser.fns[n].depth > 0 => Len(parser.fns[n].locals) >= 2)
      BY <3>1 DEF CompilerInv, LocalsOK, N
    <3>. QED
      BY <1>12, <2>2, <3>2 DEF ScopesOK, Settled
  <2>. QED
    BY <2>1, <2>2
<1>16. /\ Top.at \notin InFunction /\ c.at \in InFunction
       /\ c.at \notin Immediate \cup ExprCalls \cup Scoped \cup Holders \cup {"var_defined"}
       /\ Top.at \notin ExprCalls /\ Top.at \notin Scoped
  BY <1>1, <1>2 DEF Immediate, PrefixCalls, ExprCalls, InFunction, Scoped, Holders
<1>. HIDE DEF c
<1>17. /\ Cardinality(FunctionCalls') = Cardinality(FunctionCalls) + 1
       /\ \A h \in 1 .. Len(todo') : Owner(h)' = Owner(h)
  BY <1>1, <1>2, <1>16, FunctionBegins
<1>18. N = 1 + Cardinality(FunctionCalls) /\ \A h : Owner(h) \in 1 .. N
       /\ Cardinality(FunctionCalls) \in Nat
  BY <1>1, CallsFinite DEF CompilerInv, DepthsOK, N
<1>. DEFINE calls == <<c>>
<1>19. calls \in Seq(Calls) /\ Len(calls) = 1 /\ calls[1] = c /\ Then(s, calls)
  BY <1>1, <1>2
<1>. HIDE DEF calls
<1>20. /\ CallsFit(s, calls)
       /\ \A k \in 1 .. Len(calls) :
            calls[k].at \notin Scoped \cup Holders \cup {"var_defined"}
  <2>1. /\ \A k \in 2 .. Len(calls) : FALSE
        /\ \A k \in 1 .. Len(calls) - 1 : FALSE
        /\ \A k \in 1 .. Len(calls) : k = 1
    BY <1>19
  <2>2. c.at # "literal" /\ c.at # "binary"
    BY <1>2
  <2>. QED
    BY <1>16, <1>19, <2>1, <2>2 DEF CallsFit
<1>21. Len(s.fns) = 1 + Cardinality(FunctionCalls')
  <2>. DEFINE m == Cardinality(FunctionCalls)  k == Cardinality(FunctionCalls')
  <2>. HIDE DEF m, k
  <2>1. m \in Nat /\ k = m + 1 /\ N = 1 + m /\ Len(s.fns) = N + 1
    BY <1>10, <1>17, <1>18 DEF m, k
  <2>2. Len(s.fns) = 1 + k
    BY <2>1
  <2>. QED
    BY <2>2 DEF k
<1>22. \A n \in 1 .. Len(s.fns) :
         /\ n <= N => /\ s.fns[n].depth = parser.fns[n].depth
                      /\ \A j : Open(parser.fns[n], j) => Open(s.fns[n], j)
         /\ n > N => s.fns[n].depth = 1
         /\ ScopesOK(s.fns[n]) /\ Settled(s.fns[n])
  <2>. SUFFICES ASSUME NEW n \in 1 .. Len(s.fns)
                PROVE  /\ n <= N => /\ s.fns[n].depth = parser.fns[n].depth
                                    /\ \A j : Open(parser.fns[n], j) => Open(s.fns[n], j)
                       /\ n > N => s.fns[n].depth = 1
                       /\ ScopesOK(s.fns[n]) /\ Settled(s.fns[n])
    OBVIOUS
  <2>1. CASE n <= N
    <3>1. n \in 1 .. N /\ ~(n > N)
      BY <1>10, <2>1
    <3>. QED
      BY <1>12, <1>14, <1>15, <3>1
  <2>2. CASE ~(n <= N)
    <3>1. n = N + 1
      BY <1>10, <2>2
    <3>. QED
      BY <1>8, <1>10, <2>2, <3>1
  <2>. QED
    BY <2>1, <2>2
<1>23. \A n \in 1 .. Len(s.fns) - 1 :
         Joined /\ s.fns[n].depth > 0 => Len(s.fns[n].locals) >= 2
  <2>1. \A n \in 1 .. Len(s.fns) - 1 : n \in 1 .. N
    BY <1>10
  <2>. QED
    BY <1>15, <2>1
<1>24. \A h \in 1 .. Len(todo) - 1 : Owner(h) <= Len(s.fns)
  BY <1>10, <1>18
<1>25. CompilerInv'
  BY <1>1, <1>8, <1>16, <1>17, <1>19, <1>20, <1>21, <1>22, <1>23, <1>24, FunctionStep DEF N
<1>26. CodeStep
  <2>1. PICK S : Sound(parser, S)
    BY <1>1 DEF Fine
  <2>2. DOMAIN parser.fns = 1 .. N /\ \A n \in 1 .. N : parser.fns[n].code \in Seq(Bytes)
    <3>1. /\ parser.fns \in Seq(FnSet(S))
          /\ \A n \in 1 .. Len(parser.fns) : parser.fns[n].code \in Seq(Bytes)
      BY <2>1, FnIs
    <3>2. DOMAIN parser.fns = 1 .. Len(parser.fns)
      BY <3>1
    <3>. QED
      BY <3>1, <3>2 DEF N
  <2>3. parser' = s
    BY <1>1 DEF Then
  <2>4. ASSUME NEW n \in 1 .. N
        PROVE  /\ Len(parser.fns[n].code) <= Len(s.fns[n].code)
               /\ \A i \in DOMAIN parser.fns[n].code : s.fns[n].code[i] = parser.fns[n].code[i]
    <3>1. DOMAIN parser.fns[n].code = 1 .. Len(parser.fns[n].code)
          /\ Len(parser.fns[n].code) \in Nat
      BY <2>2
    <3>2. /\ Len(parser.fns[n].code) <= Len(q.fns[n].code)
          /\ \A i \in 1 .. Len(parser.fns[n].code) : q.fns[n].code[i] = parser.fns[n].code[i]
      BY <1>13 DEF KeepsCode, N
    <3>3. n \in 1 .. Len(o.fns)
      BY <1>10
    <3>4. /\ Len(q.fns[n].code) <= Len(s.fns[n].code)
          /\ \A i \in 1 .. Len(q.fns[n].code) : s.fns[n].code[i] = q.fns[n].code[i]
      BY <1>12, <1>13, <3>3 DEF KeepsCode
    <3>5. Len(q.fns[n].code) \in Nat /\ Len(s.fns[n].code) \in Nat
      <4>1. PICK T : Sound(q, T)
        BY <1>4 DEF Fine
      <4>2. PICK V : Sound(s, V)
        BY <1>8 DEF Fine
      <4>3. n \in 1 .. Len(q.fns) /\ n \in 1 .. Len(s.fns)
        BY <1>10
      <4>4. Len(q.fns[n].code) \in Nat
        BY <4>1, <4>3, FnIs
      <4>5. Len(s.fns[n].code) \in Nat
        BY <4>2, <4>3, FnIs
      <4>. QED
        BY <4>4, <4>5
    <3>. DEFINE a == Len(parser.fns[n].code)  b == Len(q.fns[n].code)  d == Len(s.fns[n].code)
    <3>. HIDE DEF a, b, d
    <3>6. a \in Nat /\ b \in Nat /\ d \in Nat /\ a <= b /\ b <= d
      BY <3>1, <3>2, <3>4, <3>5 DEF a, b, d
    <3>7. a <= d /\ \A i \in 1 .. a : i \in 1 .. b
      BY <3>6
    <3>. QED
      BY <3>1, <3>2, <3>4, <3>7 DEF a, b, d
  <2>. QED
    BY <2>2, <2>3, <2>4 DEF CodeStep
<1>. QED
  BY <1>25, <1>26

(* The function around goes on where it was, with its jumps still open.    *)
LEMMA FuncEndKeeps ==
  ASSUME CompilerInv, FuncEnd
  PROVE  CompilerInv' /\ CodeStep
<1>. DEFINE f == Fn(Emit(parser, <<Opcode["NIL"], Opcode["RETURN"]>>))
            o == [parser EXCEPT !.fns = SubSeq(@, 1, Len(@) - 1)]
            q == EmitOp(o, "CLOSURE")
            r == EmitConstant(q, Func(Function(f.arity, f.code, f.consts)))
            e == Emit(r, <<ConstantId(q)>>)
            s == DefineGlobal(e, Top.global)
            N == Len(parser.fns)
<1>1. /\ todo # << >> /\ Top.at = "func_end" /\ Fine(parser) /\ text \in Texts
      /\ Top \in Calls /\ todo \in Seq(Calls) /\ Then(s, << >>)
  BY TopIs DEF FuncEnd, At, Return, CompilerInv, TodoOK
<1>2. Top.global \in Bytes
  BY <1>1 DEF Calls, PlainCalls, PrefixCalls, InFunction
<1>3. /\ Cardinality(FunctionCalls) \in Nat /\ Cardinality(FunctionCalls) >= 1
      /\ Cardinality(FunctionCalls') = Cardinality(FunctionCalls) - 1
      /\ \A h \in 1 .. Len(todo') : Owner(h)' = Owner(h)
      /\ \A h \in 1 .. Len(todo) - 1 : Owner(h) <= Cardinality(FunctionCalls)
  BY <1>1, FunctionEnds DEF InFunction
<1>. DEFINE m == Cardinality(FunctionCalls)
<1>4. N = 1 + m
  BY DEF CompilerInv, DepthsOK
<1>. HIDE DEF N, m
<1>5. m \in Nat /\ m >= 1 /\ N \in Nat /\ N >= 2 /\ N - 1 = m
  <2>1. m \in Nat /\ m >= 1
    BY <1>3 DEF m
  <2>. QED
    BY <1>4, <2>1
<1>6. /\ Fine(o) /\ Len(o.fns) = N - 1 /\ Fn(o) = parser.fns[N - 1]
      /\ \A n \in 1 .. N - 1 : o.fns[n] = parser.fns[n]
  BY <1>1, <1>5, DropKeeps DEF N
<1>7. \A n \in 1 .. N - 1 :
        /\ ScopesOK(parser.fns[n]) /\ Settled(parser.fns[n])
        /\ Joined /\ parser.fns[n].depth > 0 => Len(parser.fns[n].locals) >= 2
  <2>1. \A n \in 1 .. N - 1 : n \in 1 .. N
    BY <1>5
  <2>. QED
    BY <2>1 DEF CompilerInv, LocalsOK, N
<1>8. ScopesOK(Fn(o)) /\ Settled(Fn(o)) /\ Roomy(o)
  <2>1. N - 1 \in 1 .. N - 1
    BY <1>5
  <2>2. /\ ScopesOK(Fn(o)) /\ Settled(Fn(o))
        /\ Joined /\ Fn(o).depth > 0 => Len(Fn(o).locals) >= 2
    BY <1>6, <1>7, <2>1
  <2>3. Fn(o).depth \in Nat
    BY <1>6, FineFn
  <2>. HIDE DEF o
  <2>. QED
    BY <2>2, <2>3 DEF Roomy, ScopeDepth
<1>. HIDE DEF o
<1>9. Same(o, q, {}) /\ Fine(q)
  BY <1>1, <1>6, HelpersKeep DEF Emitted, Same
<1>10. <<ConstantId(q)>> \in Seq(Bytes)
  BY <1>1, <1>9, HelpersKeep, CodesAre
<1>. HIDE DEF q, f
<1>11. Same(o, r, {})
  BY <1>1, <1>6, <1>9, Further
<1>. HIDE DEF r
<1>12. Same(o, e, {}) /\ Fine(e)
  BY <1>1, <1>6, <1>10, <1>11, Further DEF Same
<1>. HIDE DEF e
<1>13. /\ Within(o, e) /\ ScopesOK(Fn(e)) /\ Roomy(e) /\ Fn(e).depth = Fn(o).depth
  BY <1>6, <1>8, <1>12, SameIsWithin, RoomySame
<1>14. /\ Within(e, s) /\ Fn(s).depth = Fn(e).depth /\ ScopesOK(Fn(s)) /\ Settled(Fn(s))
       /\ Fine(s)
  BY <1>1, <1>2, <1>12, <1>13, DefineGlobalKeeps DEF Within
<1>. HIDE DEF s
<1>15. Within(o, s) /\ Fn(s).depth = Fn(o).depth
  BY <1>6, <1>13, <1>14, WithinTrans
<1>16. /\ Len(s.fns) = N - 1 /\ Fn(s) = s.fns[N - 1] /\ KeepsCode(o, s, {})
       /\ \A n \in 1 .. N - 2 :
            s.fns[n].depth = parser.fns[n].depth /\ s.fns[n].locals = parser.fns[n].locals
  <2>1. Len(s.fns) = N - 1 /\ KeepsCode(o, s, {})
    BY <1>6, <1>15 DEF Within, KeepsCode
  <2>2. Fn(s) = s.fns[Len(s.fns)]
    BY <1>14, FineFn
  <2>3. ASSUME NEW n \in 1 .. N - 2
        PROVE  s.fns[n].depth = parser.fns[n].depth /\ s.fns[n].locals = parser.fns[n].locals
    <3>1. n \in 1 .. Len(o.fns) - 1 /\ n \in 1 .. N - 1
      BY <1>5, <1>6
    <3>. QED
      BY <1>6, <1>15, <3>1 DEF Within
  <2>. QED
    BY <2>1, <2>2, <2>3
<1>17. ASSUME NEW n \in 1 .. N - 1
       PROVE  /\ s.fns[n].depth = parser.fns[n].depth
              /\ ScopesOK(s.fns[n]) /\ Settled(s.fns[n])
  <2>1. CASE n = N - 1
    BY <1>6, <1>14, <1>15, <1>16, <2>1
  <2>2. CASE n # N - 1
    <3>1. n \in 1 .. N - 2
      BY <1>5, <2>2
    <3>2. s.fns[n].depth = parser.fns[n].depth /\ s.fns[n].locals = parser.fns[n].locals
      BY <1>16, <3>1
    <3>3. ScopesOK(parser.fns[n]) /\ Settled(parser.fns[n])
      BY <1>7
    <3>. QED
      BY <3>2, <3>3 DEF ScopesOK, Settled
  <2>. QED
    BY <2>1, <2>2
<1>18. ASSUME NEW n \in 1 .. N - 1, NEW j, Open(parser.fns[n], j)
       PROVE  Open(s.fns[n], j)
  <2>1. PICK S : Sound(o, S)
    BY <1>6 DEF Fine
  <2>2. PICK T : Sound(s, T)
    BY <1>14 DEF Fine
  <2>3. /\ n \in 1 .. Len(o.fns) /\ Open(o.fns[n], j)
        /\ \A i \in {} : i \in Int /\ (i > j + 1 \/ j > i + 1)
    BY <1>6, <1>18
  <2>4. KeepsCode(o, s, {})
    BY <1>16
  <2>. QED
    BY <2>1, <2>2, <2>3, <2>4, OpenKept
<1>19. \A n \in 1 .. Len(s.fns) - 1 :
         Joined /\ s.fns[n].depth > 0 => Len(s.fns[n].locals) >= 2
  <2>. SUFFICES ASSUME NEW n \in 1 .. Len(s.fns) - 1
                PROVE  Joined /\ s.fns[n].depth > 0 => Len(s.fns[n].locals) >= 2
    OBVIOUS
  <2>1. n \in 1 .. N - 2 /\ n \in 1 .. N - 1
    BY <1>5, <1>16
  <2>2. s.fns[n].depth = parser.fns[n].depth /\ s.fns[n].locals = parser.fns[n].locals
    BY <1>16, <2>1
  <2>3. Joined /\ parser.fns[n].depth > 0 => Len(parser.fns[n].locals) >= 2
    BY <1>7, <2>1
  <2>. QED
    BY <2>2, <2>3
<1>20. /\ CallsFit(s, << >>)
       /\ \A k \in 1 .. Len(<< >>) :
            << >>[k].at \notin Scoped \cup Holders \cup {"var_defined"}
  <2>1. << >> \in Seq(Calls) /\ Len(<< >>) = 0
    BY EmptySeq
  <2>. QED
    BY <2>1 DEF CallsFit
<1>21. Top.at \notin ExprCalls /\ Top.at \notin Scoped
  BY <1>1 DEF ExprCalls, Immediate, PrefixCalls, Scoped
<1>22. /\ Len(s.fns) = 1 + Cardinality(FunctionCalls')
       /\ \A h \in 1 .. Len(todo) - 1 : Owner(h) <= Len(s.fns)
  <2>. DEFINE k == Cardinality(FunctionCalls')
  <2>. HIDE DEF k
  <2>1. k = m - 1
    BY <1>3 DEF k, m
  <2>2. Len(s.fns) = 1 + k
    BY <1>5, <1>16, <2>1
  <2>3. \A h \in 1 .. Len(todo) - 1 : Owner(h) <= m
    BY <1>3 DEF m
  <2>. QED
    BY <1>5, <1>16, <2>2, <2>3 DEF k
<1>23. \A n \in 1 .. Len(s.fns) :
         /\ n <= N => /\ s.fns[n].depth = parser.fns[n].depth
                      /\ \A j : Open(parser.fns[n], j) => Open(s.fns[n], j)
         /\ n > N => s.fns[n].depth = 1
         /\ ScopesOK(s.fns[n]) /\ Settled(s.fns[n])
  <2>1. \A n \in 1 .. Len(s.fns) : n \in 1 .. N - 1 /\ ~(n > N)
    BY <1>5, <1>16
  <2>. QED
    BY <1>17, <1>18, <2>1
<1>24. CompilerInv'
  <2>. DEFINE calls == << >>
  <2>1. /\ Then(s, calls) /\ CallsFit(s, calls)
        /\ \A k \in 1 .. Len(calls) :
             calls[k].at \notin Scoped \cup Holders \cup {"var_defined"}
    BY <1>1, <1>20
  <2>. HIDE DEF calls
  <2>. QED
    BY <1>1, <1>3, <1>14, <1>19, <1>21, <1>22, <1>23, <2>1, FunctionStep DEF N
<1>25. CodeStep
  <2>1. PICK S : Sound(parser, S)
    BY <1>1 DEF Fine
  <2>2. PICK T : Sound(s, T)
    BY <1>14 DEF Fine
  <2>3. DOMAIN parser.fns = 1 .. N /\ \A n \in 1 .. N : parser.fns[n].code \in Seq(Bytes)
    <3>1. /\ parser.fns \in Seq(FnSet(S))
          /\ \A n \in 1 .. Len(parser.fns) : parser.fns[n].code \in Seq(Bytes)
      BY <2>1, FnIs
    <3>2. DOMAIN parser.fns = 1 .. Len(parser.fns)
      BY <3>1
    <3>. QED
      BY <3>1, <3>2 DEF N
  <2>4. parser' = s /\ DOMAIN s.fns = 1 .. N - 1
    <3>1. s.fns \in Seq(FnSet(T))
      BY <2>2, FnIs
    <3>2. DOMAIN s.fns = 1 .. Len(s.fns)
      BY <3>1
    <3>. QED
      BY <1>1, <1>16, <3>2 DEF Then
  <2>5. ASSUME NEW n \in 1 .. N - 1
        PROVE  /\ Len(parser.fns[n].code) <= Len(s.fns[n].code)
               /\ \A i \in DOMAIN parser.fns[n].code : s.fns[n].code[i] = parser.fns[n].code[i]
    <3>1. n \in 1 .. N
      BY <1>5
    <3>2. DOMAIN parser.fns[n].code = 1 .. Len(parser.fns[n].code)
      BY <2>3, <3>1
    <3>3. n \in 1 .. Len(o.fns) /\ o.fns[n] = parser.fns[n]
      BY <1>6
    <3>. QED
      BY <1>16, <3>2, <3>3 DEF KeepsCode
  <2>. QED
    BY <2>3, <2>4, <2>5 DEF CodeStep
<1>. QED
  BY <1>24, <1>25
-----------------------------------------------------------------------------
(* The program: what it begins with, and every step of it.                 *)

(* tr_parser_init leaves a script without code and one call to make.       *)
LEMMA InitHolds == Init => CompilerInv
<1>. SUFFICES ASSUME Init
              PROVE  CompilerInv
  OBVIOUS
<1>. DEFINE f == NewFunc("SCRIPT")
<1>1. f \in FnSet({}) /\ f.depth = 0 /\ ScopesOK(f) /\ Settled(f)
  BY NewFuncIs
<1>2. /\ text \in Texts /\ todo = <<Do("compile")>>
      /\ parser = [pos |-> 0, preprevious |-> NoToken, previous |-> NoToken,
                   current |-> NoToken, error |-> FALSE, panicking |-> FALSE, fns |-> <<f>>]
  BY DEF Init
<1>. HIDE DEF f
<1>3. /\ <<f>> \in Seq(FnSet({})) /\ Len(<<f>>) = 1 /\ <<f>>[1] = f
  BY <1>1
<1>4. Fn(parser) = f /\ Len(parser.fns) = 1 /\ \A n \in 1 .. 1 : parser.fns[n] = f
  <2>1. parser.fns = <<f>>
    BY <1>2
  <2>. QED
    BY <1>3, <2>1 DEF Fn
<1>5. Fine(parser)
  <2>1. NoToken \in Tokens
    BY DEF Tokens
  <2>2. text \in Seq(Tokens)
    BY <1>2, TextIs
  <2>3. Sound(parser, {})
    BY <1>2, <1>3, <2>1, <2>2 DEF Sound, ParserSet
  <2>. QED
    BY <2>3 DEF Fine
<1>6. /\ todo \in Seq(Calls) /\ Len(todo) = 1 /\ Top = Do("compile")
      /\ \A h \in 1 .. Len(todo) : CallAt(h) = Do("compile")
  <2>. DEFINE c == Do("compile")
  <2>1. c \in Calls
    BY CallForms DEF PlainCalls
  <2>. HIDE DEF c
  <2>2. todo = <<c>>
    BY <1>2 DEF c
  <2>3. todo \in Seq(Calls) /\ Len(todo) = 1 /\ todo[1] = c
    BY <2>1, <2>2
  <2>4. \A h \in 1 .. 1 : Len(todo) + 1 - h = 1
    BY <2>3
  <2>. QED
    BY <2>3, <2>4 DEF CallAt, Top, c
<1>7. Do("compile").at = "compile" /\ Do("compile") \in Calls
  BY CallForms DEF PlainCalls
<1>8. \A h \in 1 .. Len(todo) :
        CallAt(h).at \notin Immediate \cup ExprCalls \cup InFunction \cup Scoped \cup Holders
                            \cup {"var_defined"}
  BY <1>6, <1>7 DEF Immediate, PrefixCalls, ExprCalls, InFunction, Scoped, Holders
<1>9. TodoOK
  BY <1>6, <1>7, <1>8 DEF TodoOK, At
<1>10. DepthsOK
  <2>1. FunctionCalls = {} /\ \A n : Scopes(n) = {}
    BY <1>8 DEF FunctionCalls, Scopes
  <2>2. Cardinality(FunctionCalls) = 0 /\ \A n : Cardinality(Scopes(n)) = 0
    BY <2>1, FS_EmptySet
  <2>. QED
    BY <1>1, <1>4, <2>2 DEF DepthsOK
<1>11. LocalsOK
  <2>1. ~Pending
    BY <1>8 DEF Pending
  <2>. QED
    BY <1>1, <1>4, <2>1 DEF LocalsOK
<1>12. JumpsOK
  <2>1. \A h \in 1 .. Len(todo) : Holds(CallAt(h)) = {} /\ Ordered(CallAt(h))
    BY <1>6, <1>7, <1>8, HoldsNothing DEF Ordered, Holders
  <2>. QED
    BY <2>1 DEF JumpsOK
<1>. QED
  BY <1>2, <1>5, <1>9, <1>10, <1>11, <1>12 DEF CompilerInv

(* Every parse function keeps the invariant, and the code emitted before.  *)
LEMMA NextKeeps ==
  ASSUME CompilerInv, Next
  PROVE  CompilerInv' /\ CodeStep
<1>1. ASSUME Kept
      PROVE  CompilerInv' /\ CodeStep
  BY <1>1, KeptCode DEF CompilerInv, Kept
<1>2. CASE Compile
  BY <1>1, <1>2, CompileKeeps
<1>3. CASE Script
  BY <1>1, <1>3, ScriptKeeps
<1>4. CASE ScriptEnd
  BY <1>1, <1>4, ScriptEndKeeps
<1>5. CASE Declaration
  BY <1>1, <1>5, DeclarationKeeps
<1>6. CASE Declared
  BY <1>1, <1>6, DeclaredKeeps
<1>7. CASE Synchronize
  BY <1>1, <1>7, SynchronizeKeeps
<1>8. CASE FinishCall
  BY <1>1, <1>8, FinishCallKeeps
<1>9. CASE Statement
  BY <1>1, <1>9, StatementKeeps
<1>10. CASE ExpressionStatement
  BY <1>1, <1>10, ExpressionStatementKeeps
<1>11. CASE Block
  BY <1>1, <1>11, BlockKeeps
<1>12. CASE ScopeEnds
  BY <1>1, <1>12, ScopeEndsKeeps
<1>13. CASE VarDeclaration
  BY <1>1, <1>13, VarDeclarationKeeps
<1>14. CASE VarDefined
  BY <1>1, <1>14, VarDefinedKeeps
<1>15. CASE IfStatement
  BY <1>1, <1>15, IfStatementKeeps
<1>16. CASE IfThen
  BY <1>1, <1>16, IfThenKeeps
<1>17. CASE IfElse
  BY <1>1, <1>17, IfElseKeeps
<1>18. CASE IfEnd
  BY <1>1, <1>18, IfEndKeeps
<1>19. CASE WhileStatement
  BY <1>1, <1>19, WhileStatementKeeps
<1>20. CASE WhileBody
  BY <1>1, <1>20, WhileBodyKeeps
<1>21. CASE LoopEnd
  BY <1>1, <1>21, LoopEndKeeps
<1>22. CASE ForStatement
  BY <1>1, <1>22, ForStatementKeeps
<1>23. CASE ForCondition
  BY <1>1, <1>23, ForConditionKeeps
<1>24. CASE ForExit
  BY <1>1, <1>24, ForExitKeeps
<1>25. CASE ForIncrement
  BY <1>1, <1>25, ForIncrementKeeps
<1>26. CASE ForStep
  BY <1>1, <1>26, ForStepKeeps
<1>27. CASE FuncDeclaration
  BY <1>27, FuncDeclarationKeeps
<1>28. CASE Parameter
  BY <1>1, <1>28, ParameterKeeps
<1>29. CASE FuncBody
  BY <1>1, <1>29, FuncBodyKeeps
<1>30. CASE FuncEnd
  BY <1>30, FuncEndKeeps
<1>31. CASE ReturnStatement
  BY <1>1, <1>31, ReturnStatementKeeps
<1>32. CASE PrefixRule
  BY <1>1, <1>32, PrefixRuleKeeps
<1>33. CASE InfixRule
  BY <1>1, <1>33, InfixRuleKeeps
<1>34. CASE Constant
  BY <1>1, <1>34, ConstantKeeps
<1>35. CASE LiteralValue
  BY <1>1, <1>35, LiteralValueKeeps
<1>36. CASE Grouping
  BY <1>1, <1>36, GroupingKeeps
<1>37. CASE Unary
  BY <1>1, <1>37, UnaryKeeps
<1>38. CASE BinaryRight
  BY <1>1, <1>38, BinaryRightKeeps
<1>39. CASE BinaryEnd
  BY <1>1, <1>39, BinaryEndKeeps
<1>40. CASE Call
  BY <1>1, <1>40, CallKeeps
<1>41. CASE Arguments
  BY <1>1, <1>41, ArgumentsKeeps
<1>42. CASE Variable
  BY <1>1, <1>42, VariableKeeps
<1>. QED
  BY <1>2, <1>3, <1>4, <1>5, <1>6, <1>7, <1>8, <1>9, <1>10, <1>11, <1>12, <1>13,
     <1>14, <1>15, <1>16, <1>17, <1>18, <1>19, <1>20, <1>21, <1>22, <1>23, <1>24,
     <1>25, <1>26, <1>27, <1>28, <1>29, <1>30, <1>31, <1>32, <1>33, <1>34, <1>35,
     <1>36, <1>37, <1>38, <1>39, <1>40, <1>41, <1>42 DEF Next

(* So does a step that changes nothing.                                    *)
LEMMA StutterKeeps ==
  ASSUME CompilerInv, UNCHANGED vars
  PROVE  CompilerInv'
<1>1. text' = text /\ parser' = parser /\ todo' = todo
  BY DEF vars
<1>2. /\ \A h : CallAt(h)' = CallAt(h)
      /\ Top' = Top
  BY <1>1 DEF CallAt, Top
<1>3. FunctionCalls' = FunctionCalls
  BY <1>1, <1>2 DEF FunctionCalls
<1>4. \A h : Owner(h)' = Owner(h)
  BY <1>3 DEF Owner
<1>5. \A n : Scopes(n)' = Scopes(n)
  BY <1>1, <1>2, <1>4 DEF Scopes
<1>6. Fine(parser)'
  BY <1>1 DEF CompilerInv, Fine, Sound
<1>7. TodoOK'
  BY <1>1, <1>2 DEF CompilerInv, TodoOK, At
<1>8. DepthsOK'
  BY <1>1, <1>3, <1>5 DEF CompilerInv, DepthsOK
<1>9. LocalsOK'
  BY <1>1, <1>2 DEF CompilerInv, LocalsOK, Pending, Fn
<1>10. JumpsOK'
  BY <1>1, <1>2, <1>4 DEF CompilerInv, JumpsOK
<1>. QED
  BY <1>1, <1>6, <1>7, <1>8, <1>9, <1>10 DEF CompilerInv

(* The compiler keeps its invariant for as long as it runs.                *)
LEMMA CompilerInvariant == Spec => []CompilerInv
<1>1. CompilerInv /\ [Next]_vars => CompilerInv'
  BY NextKeeps, StutterKeeps
<1>. QED
  BY <1>1, InitHolds, PTL DEF Spec

(* The registers of the compiler are typed.                                *)
LEMMA TypedInv == CompilerInv => TypeOK
<1>. SUFFICES ASSUME CompilerInv
              PROVE  TypeOK
  OBVIOUS
<1>1. PICK S : Sound(parser, S)
  BY DEF CompilerInv, Fine
<1>2. /\ parser.fns \in Seq(FnSet(S)) /\ DOMAIN parser.fns = 1 .. Len(parser.fns)
      /\ \A n \in 1 .. Len(parser.fns) : parser.fns[n] \in FnSet(S)
  BY <1>1, FnIs
<1>3. \A n \in DOMAIN parser.fns : ScopesOK(parser.fns[n])
  BY <1>2 DEF CompilerInv, LocalsOK
<1>4. ASSUME NEW n \in DOMAIN parser.fns
      PROVE  LET f == parser.fns[n] IN
             /\ f.arity \in Nat /\ f.depth \in Nat
             /\ f.code \in Seq(0 .. 255)
             /\ Len(f.locals) \in 1 .. SlotsMax /\ f.locals[1].depth = 0
             /\ \A i \in DOMAIN f.locals : f.locals[i].depth \in -1 .. f.depth
  <2>. DEFINE f == parser.fns[n]
  <2>1. f \in FnSet(S) /\ ScopesOK(f)
    BY <1>2, <1>3
  <2>. HIDE DEF f
  <2>2. /\ f.arity \in Nat /\ f.depth \in Nat /\ f.code \in Seq(Bytes)
        /\ DOMAIN f.locals = 1 .. Len(f.locals)
    BY <2>1 DEF FnSet
  <2>3. /\ Len(f.locals) \in 1 .. SlotsMax /\ f.locals[1].depth = 0
        /\ \A i \in DOMAIN f.locals : f.locals[i].depth \in -1 .. f.depth
    BY <2>1, <2>2 DEF ScopesOK
  <2>. QED
    BY <2>2, <2>3 DEF f, Bytes
<1>5. text \in Seq(Tokens)
  BY TextIs DEF CompilerInv
<1>6. /\ parser.pos \in 0 .. Len(text)
      /\ {parser.preprevious, parser.previous, parser.current} \subseteq Tokens
      /\ parser.error \in BOOLEAN /\ parser.panicking \in BOOLEAN
      /\ parser.panicking => parser.error
  BY <1>1, <1>5 DEF Sound, ParserSet
<1>7. Len(parser.fns) = 1 + Cardinality(FunctionCalls)
  BY DEF CompilerInv, DepthsOK
<1>. QED
  BY <1>4, <1>5, <1>6, <1>7 DEF TypeOK

(* A jump that is open is in the code and as emit_jump wrote it.           *)
LEMMA HeldInv == CompilerInv => JumpsHeld
<1>. SUFFICES ASSUME CompilerInv, NEW h \in 1 .. Len(todo), NEW j \in Holds(CallAt(h))
              PROVE  /\ \A i \in {j + 1, j + 2} :
                          /\ i <= Len(parser.fns[Owner(h)].code)
                          /\ parser.fns[Owner(h)].code[i] = 255
                     /\ \A g \in h + 1 .. Len(todo) : Owner(g) = Owner(h) =>
                          \A i \in Holds(CallAt(g)) : i > j + 1
  BY DEF JumpsHeld
<1>1. /\ Open(parser.fns[Owner(h)], j)
      /\ \A g \in h + 1 .. Len(todo) : Owner(g) = Owner(h) =>
           \A i \in Holds(CallAt(g)) : i > j + 1
  BY DEF CompilerInv, JumpsOK
<1>2. Owner(h) \in 1 .. Len(parser.fns)
  BY CallsFinite DEF CompilerInv, TodoOK, DepthsOK
<1>. DEFINE f == parser.fns[Owner(h)]
<1>3. Len(f.code) \in Nat
  BY <1>2, FnIs DEF CompilerInv, Fine
<1>. HIDE DEF f
<1>4. \A i \in {j + 1, j + 2} : i <= Len(f.code) /\ f.code[i] = 255
  BY SMTT(30), <1>1, <1>3 DEF Open, f
<1>. QED
  BY <1>1, <1>4 DEF f
-----------------------------------------------------------------------------
(* The registers of the compiler keep their ranges for every text, every   *)
(* limit of the chunks and both readings of the scopes: no function ends   *)
(* that function() did not begin, no error is forgotten in panic mode.     *)
THEOREM TypesHold == Spec => []TypeOK
BY CompilerInvariant, TypedInv, PTL

(* Every jump that waits for its target waits in the code of its function, *)
(* as emit_jump wrote it, and for one call alone: whatever is nested in a  *)
(* statement leaves the jumps of the statement alone.                      *)
THEOREM JumpsAreHeld == Spec => []JumpsHeld
BY CompilerInvariant, HeldInv, PTL

(* Code emitted is never changed but by patch_jump, where a call of the    *)
(* function being compiled left a jump open.                               *)
THEOREM CodeIsKept == Spec => CodeKept
<1>1. CompilerInv /\ [Next]_vars => [CodeStep]_vars
  BY NextKeeps
<1>. QED
  BY <1>1, CompilerInvariant, PTL DEF Spec, CodeKept, CodeStep
=============================================================================
