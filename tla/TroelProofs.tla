---------------------------- MODULE TroelProofs ----------------------------
(***************************************************************************)
(* For every text that fits a frame, main runs what was compiled without   *)
(* undefined behaviour (TextsRunDefined): the theorems of the compiler and *)
(* those of the machine, put together. There are three parts.              *)
(*   - What is compiled of a text without functions is one script with no  *)
(*     parameter, whose constants are strings in use, longs and doubles    *)
(*     (BareInv): with CodeIsBalanced, a member of Programs.               *)
(*   - Programs is certified, so that the theorems of TrVMVerifiedProofs   *)
(*     are about a machine that runs it: V.                                *)
(*   - The machine of main, which can begin with any code, does what V     *)
(*     does once it has begun with a program (MainInv).                    *)
(***************************************************************************)
EXTENDS Troel, TrBalanceProofs

(* Constants in use, and what the machine can be given to run.             *)
Known == {v \in M!Value : ~ IsWild(v)}
Programs ==
  {f \in [arity : {0}, code : Seq(Bytes), consts : Seq(Known)] :
     Balanced(f, TRUE) /\ FitsSlots(Reached(f), f)}
-----------------------------------------------------------------------------
(* The compiler.                                                           *)

(* A script with no parameter, whose constants are known.                  *)
Alone(f) ==
  /\ f = [type |-> f.type, arity |-> 0, code |-> f.code, consts |-> f.consts,
          depth |-> f.depth, locals |-> f.locals]
  /\ f.consts \in Seq(Known)

(* A parser with an error, or of one such function; and one that is typed. *)
Bare(p) == p.error \/ \E f : p.fns = <<f>> /\ Alone(f)
Sane(p) == IsParser(p) /\ ReadOK(p) /\ Bare(p)

(* What emits, patches or declares leaves its constants and its arity.     *)
LEMMA AloneChanged ==
  ASSUME NEW f, Alone(f)
  PROVE  /\ \A c : Alone([f EXCEPT !.code = c])
         /\ \A i, j, a, b : Alone([f EXCEPT !.code[i] = a, !.code[j] = b])
         /\ \A d : Alone([f EXCEPT !.depth = d])
         /\ \A l : Alone([f EXCEPT !.locals = l])
         /\ \A d, l : Alone([f EXCEPT !.depth = d, !.locals = l])
         /\ \A c \in Seq(Known) : Alone([f EXCEPT !.consts = c])
<1>1. f \in [type : {f.type}, arity : {0}, code : {f.code}, consts : {f.consts},
             depth : {f.depth}, locals : {f.locals}] /\ f.consts \in Seq(Known)
  BY DEF Alone
<1>2. ASSUME NEW c
      PROVE  Alone([f EXCEPT !.code = c])
  BY <1>1 DEF Alone
<1>3. ASSUME NEW i, NEW j, NEW a, NEW b
      PROVE  Alone([f EXCEPT !.code[i] = a, !.code[j] = b])
  <2>. DEFINE c == [[f.code EXCEPT ![i] = a] EXCEPT ![j] = b]
  <2>1. [f EXCEPT !.code[i] = a, !.code[j] = b] = [f EXCEPT !.code = c]
    BY <1>1
  <2>. QED
    BY <1>2, <2>1
<1>4. ASSUME NEW d
      PROVE  Alone([f EXCEPT !.depth = d])
  BY <1>1 DEF Alone
<1>5. ASSUME NEW l
      PROVE  Alone([f EXCEPT !.locals = l])
  BY <1>1 DEF Alone
<1>6. ASSUME NEW d, NEW l
      PROVE  Alone([f EXCEPT !.depth = d, !.locals = l])
  <2>. DEFINE g == [f EXCEPT !.depth = d, !.locals = l]
  <2>1. g \in [type : {f.type}, arity : {0}, code : {f.code}, consts : {f.consts},
               depth : {d}, locals : {l}]
    BY <1>1
  <2>. HIDE DEF g
  <2>2. Alone(g)
    BY <1>1, <2>1 DEF Alone
  <2>. QED
    BY <2>2 DEF g
<1>7. ASSUME NEW c \in Seq(Known)
      PROVE  Alone([f EXCEPT !.consts = c])
  BY <1>1 DEF Alone
<1>. QED
  BY <1>2, <1>3, <1>4, <1>5, <1>6, <1>7

(* A parser that has read as much, of the same functions or after an error.*)
LEMMA SaneSame ==
  ASSUME NEW p, NEW q, Sane(p), Still(p, q), q.fns = p.fns
  PROVE  Sane(q)
BY StillReads DEF Sane, Bare, Still

(* So it stays if its function does.                                       *)
LEMMA SaneWith ==
  ASSUME NEW p, Sane(p), NEW g, Alone(Fn(p)) => Alone(g)
  PROVE  Sane(WithFn(p, g))
<1>1. Still(p, WithFn(p, g)) /\ WithFn(p, g).error = p.error
  BY WithFnStill DEF Sane
<1>2. ASSUME NEW f, p.fns = <<f>>, Alone(f)
      PROVE  WithFn(p, g).fns = <<g>> /\ Alone(g)
  <2>1. Fn(p) = f /\ Len(p.fns) = 1
    BY <1>2 DEF Fn
  <2>. DEFINE s == [p.fns EXCEPT ![Len(p.fns)] = g]
  <2>2. s = <<g>>
    BY <1>2, <2>1
  <2>3. WithFn(p, g) = [p EXCEPT !.fns = s]
    BY DEF WithFn
  <2>. HIDE DEF s
  <2>4. WithFn(p, g).fns = s
    BY <2>3 DEF Sane, IsParser
  <2>. QED
    BY <1>2, <2>1, <2>2, <2>4
<1>. QED
  BY <1>1, <1>2, StillReads DEF Sane, Bare, Still

(* Reading tokens and reporting errors change no function.                 *)
LEMMA SaneRead ==
  ASSUME NEW p, Sane(p), text \in Texts
  PROVE  /\ Sane(Advance(p)) /\ Sane(ErrorAt(p))
         /\ \A type : Sane(Consume(p, type))
<1>1. Sane(Advance(p))
  BY AdvanceReads DEF Sane, Bare
<1>2. Sane(ErrorAt(p))
  BY SaneSame, ErrorAtIs DEF Sane
<1>. QED
  BY <1>1, <1>2 DEF Consume

(* What emits appends to the code.                                         *)
LEMMA SaneEmit ==
  ASSUME NEW p, Sane(p)
  PROVE  /\ \A b : Sane(Emit(p, b)) /\ \A op : Sane(EmitOp(p, op)) /\ Sane(EmitJump(p, op))
<1>1. ASSUME NEW b
      PROVE  Sane(Emit(p, b))
  <2>. DEFINE g == [Fn(p) EXCEPT !.code = @ \o b]
  <2>1. Alone(Fn(p)) => Alone(g)
    BY AloneChanged
  <2>. HIDE DEF g
  <2>2. Sane(WithFn(p, g))
    BY <2>1, SaneWith
  <2>. QED
    BY <2>2 DEF Emit, g
<1>. QED
  BY <1>1 DEF EmitOp, EmitJump

(* A constant added is known, or there was an error.                       *)
LEMMA SaneAdd ==
  ASSUME NEW p, Sane(p), NEW v, v \in Known \/ p.error
  PROVE  Sane(AddConstant(p, v)) /\ Sane(EmitConstant(p, v))
<1>. DEFINE g == [Fn(p) EXCEPT !.consts = Append(@, v)]
<1>1. Sane(AddConstant(p, v))
  <2>0. CASE p.error
    <3>1. Still(p, AddConstant(p, v))
      BY HelpersStill DEF Sane
    <3>. QED
      BY <2>0, <3>1, StillReads DEF Sane, Bare, Still
  <2>1. CASE v \in Known
    <3>1. Alone(Fn(p)) => Alone(g)
      <4>1. Alone(Fn(p)) => Append(Fn(p).consts, v) \in Seq(Known)
        BY <2>1 DEF Alone
      <4>. QED
        BY <4>1, AloneChanged
    <3>. HIDE DEF g
    <3>2. Sane(WithFn(p, g))
      BY <3>1, SaneWith
    <3>3. Sane(ErrorAt(WithFn(p, g)))
      BY <3>2, SaneSame, ErrorAtIs DEF Sane
    <3>. QED
      BY <3>2, <3>3 DEF AddConstant, g
  <2>. QED
    BY <2>0, <2>1
<1>. QED
  BY <1>1, SaneEmit DEF EmitConstant

(* Patching and looping change code.                                       *)
LEMMA SanePatch ==
  ASSUME NEW p, Sane(p)
  PROVE  (\A j : Sane(PatchJump(p, j))) /\ (\A s : Sane(EmitLoop(p, s)))
<1>1. ASSUME NEW j
      PROVE  Sane(PatchJump(p, j))
  <2>. DEFINE k == Count(p) - j - 2
              q == IF k > JumpMax THEN ErrorAt(p) ELSE p
              g == [Fn(q) EXCEPT !.code[j + 1] = TwoBytes(k)[1], !.code[j + 2] = TwoBytes(k)[2]]
  <2>1. PatchJump(p, j) = WithFn(q, g)
    BY DEF PatchJump
  <2>2. Sane(q)
    BY SaneSame, ErrorAtIs DEF Sane
  <2>. HIDE DEF q, k
  <2>3. Alone(Fn(q)) => Alone(g)
    BY AloneChanged
  <2>. HIDE DEF g
  <2>. QED
    BY <2>1, <2>2, <2>3, SaneWith
<1>2. ASSUME NEW s
      PROVE  Sane(EmitLoop(p, s))
  <2>. DEFINE q == EmitOp(p, "LOOP")
              k == Count(q) - s + 2
              r == IF k > JumpMax THEN ErrorAt(q) ELSE q
  <2>1. Sane(q)
    BY SaneEmit
  <2>2. Sane(r)
    BY <2>1, SaneSame, ErrorAtIs DEF Sane
  <2>3. EmitLoop(p, s) = Emit(r, TwoBytes(k))
    BY DEF EmitLoop
  <2>. HIDE DEF r
  <2>. QED
    BY <2>2, <2>3, SaneEmit
<1>. QED
  BY <1>1, <1>2

(* What begins and ends scopes changes depth, locals and code.             *)
LEMMA SaneScope ==
  ASSUME NEW p, Sane(p)
  PROVE  /\ Sane(BeginScope(p)) /\ Sane(EndScope(p)) /\ Sane(MarkInitialized(p))
         /\ \A name : Sane(AddLocal(p, name))
         /\ \A g : Sane(DefineGlobal(p, g))
<1>1. ASSUME NEW g, NEW d, NEW l, g = [Fn(p) EXCEPT !.depth = d, !.locals = l]
      PROVE  Sane(WithFn(p, g))
  <2>1. Alone(Fn(p)) => Alone(g)
    BY <1>1, AloneChanged
  <2>. QED
    BY <2>1, SaneWith
<1>2. Sane(BeginScope(p))
  <2>. DEFINE g == [Fn(p) EXCEPT !.depth = @ + 1]
  <2>1. Alone(Fn(p)) => Alone(g)
    BY AloneChanged
  <2>. HIDE DEF g
  <2>2. Sane(WithFn(p, g))
    BY <2>1, SaneWith
  <2>. QED
    BY <2>2 DEF BeginScope, g
<1>3. Sane(EndScope(p))
  <2>1. \E d, n, b : EndScope(p) =
          Emit(WithFn(p, [Fn(p) EXCEPT !.depth = d, !.locals = SubSeq(@, 1, n)]), b)
    BY DEF EndScope
  <2>2. PICK d, n, b : EndScope(p) =
          Emit(WithFn(p, [Fn(p) EXCEPT !.depth = d, !.locals = SubSeq(@, 1, n)]), b)
    BY <2>1
  <2>. DEFINE g == [Fn(p) EXCEPT !.depth = d, !.locals = SubSeq(@, 1, n)]
  <2>3. Alone(Fn(p)) => Alone(g)
    BY AloneChanged
  <2>4. EndScope(p) = Emit(WithFn(p, g), b)
    BY <2>2
  <2>. HIDE DEF g
  <2>. QED
    BY <2>3, <2>4, SaneWith, SaneEmit
<1>4. Sane(MarkInitialized(p))
  <2>. DEFINE g == [Fn(p) EXCEPT !.locals[Len(Fn(p).locals)].depth = Fn(p).depth]
  <2>1. Alone(Fn(p)) => Alone(g)
    BY AloneChanged
  <2>. HIDE DEF g
  <2>2. Sane(WithFn(p, g))
    BY <2>1, SaneWith
  <2>. QED
    BY <2>2 DEF MarkInitialized, g
<1>5. ASSUME NEW name
      PROVE  Sane(AddLocal(p, name))
  <2>. DEFINE g == [Fn(p) EXCEPT !.locals = Append(@, Local(name, -1))]
  <2>1. Alone(Fn(p)) => Alone(g)
    BY AloneChanged
  <2>. HIDE DEF g
  <2>2. Sane(WithFn(p, g)) /\ Sane(ErrorAt(p))
    BY <2>1, SaneWith, SaneSame, ErrorAtIs DEF Sane
  <2>. QED
    BY <2>2 DEF AddLocal, g
<1>. QED
  BY <1>2, <1>3, <1>4, <1>5, SaneEmit DEF DefineGlobal

(* The names and literals of a text are known.                             *)
LEMMA TokensKnown ==
  ASSUME NEW p, ReadOK(p), text \in Texts
  PROVE  /\ p.previous.type = "IDENT" => Str(p.previous.text) \in Known
         /\ p.previous.type \in {"NUMBER", "INT", "STRING"} => Literal[p.previous.text] \in Known
<1>1. p.previous \in Tokens
  <2>1. p.previous \in {text[i] : i \in 1 .. Len(text)} \cup {EOF, NoToken}
    BY DEF ReadOK
  <2>. QED
    BY <2>1 DEF Tokens
<1>2. ASSUME NEW s \in GlobalNames
      PROVE  Str(s) \in Known
  <2>1. Str(s) \in [type : {"STR"}, s : GlobalNames] /\ ~ IsWild(Str(s))
    BY DEF Str, IsWild
  <2>. QED
    BY <2>1 DEF Known, M!Value
<1>. QED
  BY <1>1, <1>2, MainAssumption DEF Known

(* The name of a variable is an identifier, or there is an error.          *)
LEMMA SaneParse ==
  ASSUME NEW p, Sane(p), text \in Texts
  PROVE  Sane(ParseVariable(p))
<1>. DEFINE c == Consume(p, "IDENT")  d == DeclareVariable(c)  v == Str(d.previous.text)
<1>1. Sane(c)
  BY SaneRead
<1>2. ~ c.error => c.previous.type = "IDENT"
  BY ConsumeReads DEF Sane
<1>. HIDE DEF c
<1>3. Sane(d)
  <2>1. Sane(ErrorAt(c))
    BY <1>1, SaneSame, ErrorAtIs DEF Sane
  <2>. QED
    BY <1>1, <2>1, SaneScope DEF d, DeclareVariable
<1>4. Still(c, d)
  BY <1>1, HelpersStill DEF Sane
<1>. HIDE DEF d
<1>5. v \in Known \/ d.error
  BY <1>2, <1>3, <1>4, TokensKnown DEF Sane, Still
<1>. HIDE DEF v
<1>6. Sane(AddConstant(d, v))
  BY <1>3, <1>5, SaneAdd
<1>. QED
  BY <1>3, <1>6 DEF ParseVariable, c, d, v

(* No error is forgotten.                                                  *)
Errs(p) == IsParser(p) /\ ReadOK(p) /\ p.error

(* Reading keeps an error, and so does what only changes functions.        *)
LEMMA ErrorStays ==
  ASSUME NEW p, Errs(p), text \in Texts
  PROVE  /\ Errs(Advance(p)) /\ Errs(ParseVariable(p))
         /\ \A type : Errs(Consume(p, type))
         /\ \A q : Still(p, q) => Errs(q)
BY AdvanceReads, ConsumeReads, ParseVariableReads, StillReads DEF Errs, Still

(* Only the functions change, or the panic ends.                           *)
LEMMA FieldStill ==
  ASSUME NEW p, IsParser(p)
  PROVE  /\ \A fns : Still(p, [p EXCEPT !.fns = fns])
         /\ Still(p, [p EXCEPT !.panicking = FALSE])
         /\ [p EXCEPT !.panicking = FALSE].fns = p.fns
<1>1. ASSUME NEW fns
      PROVE  Still(p, [p EXCEPT !.fns = fns])
  BY DEF IsParser, Still
<1>2. Still(p, [p EXCEPT !.panicking = FALSE])
  <2>. DEFINE q == [p EXCEPT !.panicking = FALSE]
  <2>1. q = [p EXCEPT !.panicking = FALSE]
    OBVIOUS
  <2>. HIDE DEF q
  <2>2. Still(p, q)
    BY <2>1 DEF IsParser, Still
  <2>. QED
    BY <2>1, <2>2
<1>3. [p EXCEPT !.panicking = FALSE].fns = p.fns
  BY DEF IsParser
<1>. QED
  BY <1>1, <1>2, <1>3

(* function() and what it calls are not called without a FUNC token.       *)
LEMMA FunctionsErr ==
  ASSUME CompilerInv, TextInv, Bare(parser), todo # << >>, NoFunctions, Plain,
         Top.at \in {"func_declaration"} \cup InFunction
  PROVE  Errs(parser)
<1>1. IsParser(parser) /\ ReadOK(parser) /\ (~ parser.error => Settles(Top, parser))
  BY TopReads
<1>. SUFFICES ASSUME ~ parser.error PROVE FALSE
  BY <1>1 DEF Errs
<1>2. CASE Top.at = "func_declaration"
  <2>1. parser.previous.type = "FUNC"
    BY <1>1, <1>2 DEF Settles
  <2>. QED
    BY <1>1, <2>1 DEF ReadOK, NoFunctions, EOF, NoToken, Token
<1>3. CASE Top.at \in InFunction
  <2>1. Len(parser.fns) = 1
    BY DEF Bare
  <2>2. Len(parser.fns) = 1 + Cardinality(FunctionCalls)
    BY DEF CompilerInv, DepthsOK
  <2>3. IsFiniteSet(FunctionCalls) /\ Cardinality(FunctionCalls) \in Nat
    BY CallsFinite, FS_CardinalityType DEF CompilerInv, TodoOK
  <2>4. Len(todo) \in FunctionCalls
    BY <1>3, TopReads DEF FunctionCalls, CallAt
  <2>. DEFINE n == Cardinality(FunctionCalls)
  <2>5. n # 0 /\ n \in Nat /\ Len(parser.fns) = 1 + n
    BY <2>2, <2>3, <2>4, FS_EmptySet
  <2>. HIDE DEF n
  <2>6. \A k \in Nat : k # 0 => 1 + k # 1
    OBVIOUS
  <2>7. 1 + n # 1
    BY <2>5, <2>6
  <2>. QED
    BY <2>1, <2>5, <2>7
<1>. QED
  BY <1>2, <1>3

(* There, an error is all that must be kept.                               *)
LEMMA FunctionsStay ==
  ASSUME text \in Texts, Errs(parser), FuncDeclaration \/ Parameter \/ FuncBody \/ FuncEnd
  PROVE  Sane(parser')
<1>0. \A q : Errs(q) => Sane(q)
  BY DEF Errs, Sane, Bare
<1>. DEFINE p == parser
<1>1. CASE FuncDeclaration
  <2>. DEFINE q == MarkInitialized(ParseVariable(p))
              a == [q EXCEPT !.fns = Append(@, NewFunc("FUNC"))]
              r == BeginScope(a)
              s == Consume(r, "L_PAREN")
  <2>1. Errs(q)
    BY ErrorStays, HelpersStill DEF Errs
  <2>2. Errs(a)
    BY <2>1, ErrorStays, FieldStill DEF Errs
  <2>. HIDE DEF a
  <2>3. Errs(r)
    BY <2>2, ErrorStays, HelpersStill DEF Errs
  <2>4. Errs(s)
    BY <2>3, ErrorStays
  <2>. QED
    BY <1>0, <1>1, <2>4 DEF FuncDeclaration, Then, a
<1>2. CASE Parameter
  <2>. DEFINE c == WithFn(p, [Fn(p) EXCEPT !.arity = Fn(p).arity + 1])
              q == IF Fn(p).arity + 1 > ByteMax THEN ErrorAt(c) ELSE c
              d == ParseVariable(q)
              r == DefineGlobal(d, VariableId(q))
  <2>1. Errs(c)
    BY ErrorStays, WithFnStill DEF Errs
  <2>2. Errs(q)
    BY <2>1, ErrorStays, ErrorAtIs DEF Errs
  <2>. HIDE DEF q
  <2>3. Errs(d)
    BY <2>2, ErrorStays
  <2>. HIDE DEF d
  <2>4. Errs(r)
    BY <2>3, ErrorStays, HelpersStill DEF Errs
  <2>5. Errs(Advance(r))
    BY <2>4, ErrorStays
  <2>6. parser' = r \/ parser' = Advance(r)
    BY <1>2 DEF Parameter, Then, q, d
  <2>. HIDE DEF r
  <2>. QED
    BY <1>0, <2>4, <2>5, <2>6
<1>3. CASE FuncBody
  <2>1. Errs(Consume(p, "R_PAREN"))
    BY ErrorStays
  <2>2. Errs(Consume(Consume(p, "R_PAREN"), "L_BRACE"))
    BY <2>1, ErrorStays
  <2>. QED
    BY <1>0, <1>3, <2>2 DEF FuncBody, Then
<1>4. CASE FuncEnd
  <2>. DEFINE a == [p EXCEPT !.fns = SubSeq(@, 1, Len(@) - 1)]
              q == EmitOp(a, "CLOSURE")
  <2>1. Errs(a)
    BY ErrorStays, FieldStill DEF Errs
  <2>. HIDE DEF a
  <2>2. Errs(q)
    BY <2>1, ErrorStays, HelpersStill DEF Errs
  <2>3. PICK v, b, g : parser' = DefineGlobal(Emit(EmitConstant(q, v), b), g)
    BY <1>4 DEF FuncEnd, Then, Return, a
  <2>. HIDE DEF q
  <2>4. Errs(EmitConstant(q, v))
    BY <2>2, ErrorStays, HelpersStill DEF Errs
  <2>5. Errs(Emit(EmitConstant(q, v), b))
    BY <2>4, ErrorStays, HelpersStill DEF Errs
  <2>6. Errs(DefineGlobal(Emit(EmitConstant(q, v), b), g))
    BY <2>5, ErrorStays, HelpersStill DEF Errs
  <2>. QED
    BY <1>0, <2>3, <2>6
<1>. QED
  BY <1>1, <1>2, <1>3, <1>4
-----------------------------------------------------------------------------
(* Of a plain text without functions.                                      *)
BareInv == NoFunctions /\ Plain => Bare(parser)

(* A compiler that has returned takes no step.                             *)
LEMMA NextWorks == Next => todo # << >>
BY DEF Next, At, Compile, Script, ScriptEnd, Declaration, Declared, Synchronize,
   FinishCall, Statement, ExpressionStatement, Block, ScopeEnds, VarDeclaration,
   VarDefined, IfStatement, IfThen, IfElse, IfEnd, WhileStatement, WhileBody, LoopEnd,
   ForStatement, ForCondition, ForExit, ForIncrement, ForStep, FuncDeclaration, Parameter,
   FuncBody, FuncEnd, ReturnStatement, PrefixRule, InfixRule, Constant, LiteralValue,
   Grouping, Unary, BinaryRight, BinaryEnd, Call, Arguments, Variable

(* The text stays.                                                         *)
LEMMA TextStays == Next => text' = text
BY DEF Next, Then, Return, Compile, Script, ScriptEnd, Declaration, Declared, Synchronize,
   FinishCall, Statement, ExpressionStatement, Block, ScopeEnds, VarDeclaration,
   VarDefined, IfStatement, IfThen, IfElse, IfEnd, WhileStatement, WhileBody, LoopEnd,
   ForStatement, ForCondition, ForExit, ForIncrement, ForStep, FuncDeclaration, Parameter,
   FuncBody, FuncEnd, ReturnStatement, PrefixRule, InfixRule, Constant, LiteralValue,
   Grouping, Unary, BinaryRight, BinaryEnd, Call, Arguments, Variable

(* variable, number and string are the rules of their tokens alone.        *)
LEMMA TypesOfRules ==
  ASSUME NEW type
  PROVE  /\ GetRule(type).prefix = "variable" => type = "IDENT"
         /\ GetRule(type).prefix \in {"number", "string"} => type \in {"NUMBER", "INT", "STRING"}
BY DEF GetRule, Rule, Prefix, Binary, None

(* Each action keeps the script alone and its constants known.             *)
LEMMA SaneNext ==
  ASSUME CompilerInv, TextInv, Sane(parser), todo # << >>, NoFunctions, Plain, Next
  PROVE  Sane(parser')
<1>1. text \in Texts /\ (~ parser.error => Settles(Top, parser))
  BY TopReads
<1>. DEFINE p == parser
<1>2. /\ Sane(Advance(p)) /\ Sane(ErrorAt(p)) /\ Sane(ErrorAt(Advance(p)))
      /\ \A type : Sane(Consume(p, type))
  BY <1>1, SaneRead
<1>3. CASE Compile \/ Script \/ Declaration \/ Synchronize \/ ExpressionStatement \/ Block
           \/ IfStatement \/ WhileStatement \/ ForCondition \/ PrefixRule \/ InfixRule
           \/ Grouping \/ Unary \/ BinaryRight
  BY <1>2, <1>3 DEF Compile, Script, Declaration, Synchronize, ExpressionStatement, Block,
     IfStatement, WhileStatement, ForCondition, PrefixRule, InfixRule, Grouping, Unary,
     BinaryRight, Then, Return
<1>4. CASE Declared
  <2>. DEFINE q == [p EXCEPT !.panicking = FALSE]
  <2>3. Sane(q)
    BY SaneSame, FieldStill DEF Sane
  <2>. HIDE DEF q
  <2>4. parser' = p \/ parser' = q
    BY <1>4 DEF Declared, Then, Return, q
  <2>. QED
    BY <2>3, <2>4
<1>5. CASE ScriptEnd
  <2>1. Sane(Emit(Advance(p), <<Opcode["NIL"], Opcode["RETURN"]>>))
    BY <1>2, SaneEmit
  <2>2. Sane(Consume(Emit(Advance(p), <<Opcode["NIL"], Opcode["RETURN"]>>), "EOF"))
    BY <1>1, <2>1, SaneRead
  <2>. QED
    BY <1>5, <2>2 DEF ScriptEnd, Then, Return
<1>6. CASE FinishCall \/ BinaryEnd \/ LiteralValue
  BY <1>2, <1>6, SaneEmit DEF FinishCall, BinaryEnd, LiteralValue, Then, Return
<1>7. CASE Statement \/ ScopeEnds
  BY <1>2, <1>7, SaneScope DEF Statement, ScopeEnds, Then, Return
<1>8. CASE VarDeclaration
  <2>1. Sane(ParseVariable(p))
    BY <1>1, SaneParse
  <2>2. Sane(Advance(ParseVariable(p))) /\ Sane(EmitOp(ParseVariable(p), "NIL"))
    BY <1>1, <2>1, SaneRead, SaneEmit
  <2>. QED
    BY <1>8, <2>2 DEF VarDeclaration, Then
<1>9. CASE VarDefined
  BY <1>2, <1>9, SaneScope DEF VarDefined, Then, Return
<1>10. ASSUME NEW type
       PROVE  Sane(EmitOp(EmitJump(Consume(p, type), "JMP_FALSE"), "POP"))
  <2>1. Sane(EmitJump(Consume(p, type), "JMP_FALSE"))
    BY <1>2, SaneEmit
  <2>. QED
    BY <2>1, SaneEmit
<1>11. CASE IfThen \/ WhileBody \/ ForExit
  BY <1>10, <1>11 DEF IfThen, WhileBody, ForExit, Then
<1>12. CASE IfElse
  <2>. DEFINE r == EmitOp(PatchJump(EmitJump(p, "JMP"), Top.jump), "POP")
  <2>1. Sane(EmitJump(p, "JMP"))
    BY SaneEmit
  <2>2. Sane(PatchJump(EmitJump(p, "JMP"), Top.jump))
    BY <2>1, SanePatch
  <2>3. Sane(r)
    BY <2>2, SaneEmit
  <2>4. Sane(Advance(r))
    BY <1>1, <2>3, SaneRead
  <2>. QED
    BY <1>12, <2>3, <2>4 DEF IfElse, Then
<1>13. CASE IfEnd
  BY <1>13, SanePatch DEF IfEnd, Then, Return
<1>14. CASE LoopEnd
  <2>. DEFINE q == EmitLoop(p, Top.start)
  <2>1. Sane(q)
    BY SanePatch
  <2>2. Sane(PatchJump(q, Top.exit))
    BY <2>1, SanePatch
  <2>3. Sane(EmitOp(PatchJump(q, Top.exit), "POP"))
    BY <2>2, SaneEmit
  <2>. QED
    BY <1>14, <2>1, <2>3 DEF LoopEnd, Then, Return
<1>15. CASE ForStatement
  <2>. DEFINE q == Consume(BeginScope(p), "L_PAREN")
  <2>1. Sane(BeginScope(p))
    BY SaneScope
  <2>2. Sane(q)
    BY <1>1, <2>1, SaneRead
  <2>3. Sane(Advance(q))
    BY <1>1, <2>2, SaneRead
  <2>. QED
    BY <1>15, <2>2, <2>3 DEF ForStatement, Then
<1>16. CASE ForIncrement
  BY <1>2, <1>16, SaneEmit DEF ForIncrement, Then
<1>17. CASE ForStep
  <2>. DEFINE q == Consume(EmitOp(p, "POP"), "R_PAREN")
  <2>1. Sane(EmitOp(p, "POP"))
    BY SaneEmit
  <2>2. Sane(q)
    BY <1>1, <2>1, SaneRead
  <2>3. Sane(EmitLoop(q, Top.start))
    BY <2>2, SanePatch
  <2>4. Sane(PatchJump(EmitLoop(q, Top.start), Top.jump))
    BY <2>3, SanePatch
  <2>. QED
    BY <1>17, <2>4 DEF ForStep, Then
<1>18. CASE FuncDeclaration \/ Parameter \/ FuncBody \/ FuncEnd
  <2>1. Top.at \in {"func_declaration"} \cup InFunction
    BY <1>18 DEF FuncDeclaration, Parameter, FuncBody, FuncEnd, At, InFunction
  <2>2. Errs(p)
    BY <2>1, FunctionsErr DEF Sane
  <2>. QED
    BY <1>1, <1>18, <2>2, FunctionsStay
<1>19. CASE ReturnStatement
  <2>. DEFINE q == IF Fn(p).type = "SCRIPT" THEN ErrorAt(p) ELSE p
  <2>1. Sane(q)
    BY <1>2
  <2>2. Sane(Advance(q))
    BY <1>1, <2>1, SaneRead
  <2>3. Sane(Emit(Advance(q), <<Opcode["NIL"], Opcode["RETURN"]>>))
    BY <2>2, SaneEmit
  <2>. QED
    BY <1>19, <2>1, <2>3 DEF ReturnStatement, Then, Return
<1>20. CASE Constant
  <2>0. Top.at \in {"number", "string"}
    BY <1>20 DEF Constant, At
  <2>1. ~ p.error => p.previous.type \in {"NUMBER", "INT", "STRING"}
    BY <1>1, <2>0, TypesOfRules DEF Settles, PrefixCalls
  <2>2. Literal[p.previous.text] \in Known \/ p.error
    BY <1>1, <2>1, TokensKnown DEF Sane
  <2>3. Sane(EmitConstant(p, Literal[p.previous.text]))
    BY <2>2, SaneAdd
  <2>. QED
    BY <1>20, <2>3 DEF Constant, Then, Return
<1>21. ASSUME NEW q, Sane(q), NEW count
       PROVE  Sane(CallEnds(q, count))
  BY <1>1, <1>21, SaneRead, SaneEmit DEF CallEnds
<1>22. CASE Call
  BY <1>21, <1>22 DEF Call, Then, Return
<1>23. CASE Arguments
  <2>. DEFINE q == IF Top.count = ByteMax THEN ErrorAt(p) ELSE p
              count == (Top.count + 1) % (ByteMax + 1)
  <2>1. Sane(q)
    BY <1>2
  <2>2. Sane(Advance(q)) /\ Sane(CallEnds(q, count))
    BY <1>1, <1>21, <2>1, SaneRead
  <2>. QED
    BY <1>23, <2>2 DEF Arguments, Then, Return
<1>24. CASE Variable
  <2>. DEFINE name  == p.previous.text
              local == Named(p, name) # {}
              i == Resolve(p, name)
              q == CASE ~local -> AddConstant(p, Str(name))
                     [] local /\ Locals(p)[i].depth = -1 -> ErrorAt(p)
                     [] OTHER -> p
  <2>0. Top.at = "variable"
    BY <1>24 DEF Variable, At
  <2>1. ~ p.error => p.previous.type = "IDENT"
    BY <1>1, <2>0, TypesOfRules DEF Settles, PrefixCalls
  <2>2. Str(name) \in Known \/ p.error
    BY <1>1, <2>1, TokensKnown DEF Sane
  <2>3. Sane(AddConstant(p, Str(name)))
    BY <2>2, SaneAdd
  <2>4. Sane(q)
    BY <1>2, <2>3
  <2>5. parser' = Advance(q) \/ \E b : parser' = Emit(q, b)
    BY <1>24 DEF Variable, Then, Return
  <2>. HIDE DEF q
  <2>. QED
    BY <1>1, <2>4, <2>5, SaneRead, SaneEmit
<1>. QED
  BY <1>3, <1>4, <1>5, <1>6, <1>7, <1>8, <1>9, <1>11, <1>12, <1>13, <1>14, <1>15, <1>16,
     <1>17, <1>18, <1>19, <1>20, <1>22, <1>23, <1>24 DEF Next

(* BareInv is inductive, given what is typed and what has been read.       *)
LEMMA BareKept == CompilerInv /\ TextInv /\ BareInv /\ [Next]_vars => BareInv'
<1>1. ASSUME CompilerInv, TextInv, BareInv, Next, NoFunctions', Plain'
      PROVE  Bare(parser')
  <2>1. text' = text /\ todo # << >>
    BY <1>1, NextWorks, TextStays
  <2>2. NoFunctions /\ Plain
    BY <1>1, <2>1 DEF NoFunctions, Plain, Minuends, Conditional
  <2>3. Sane(parser)
    BY <1>1, <2>1, <2>2, TopReads DEF Sane, BareInv
  <2>. QED
    BY <1>1, <2>1, <2>2, <2>3, SaneNext DEF Sane
<1>2. ASSUME BareInv, UNCHANGED vars
      PROVE  BareInv'
  BY <1>2 DEF BareInv, vars, NoFunctions, Plain, Minuends, Conditional, Bare
<1>. QED
  BY <1>1, <1>2 DEF BareInv, Bare

(* tr_parser_init leaves the function of the script, empty.                *)
LEMMA BareBegins == Init => BareInv
<1>1. Alone(NewFunc("SCRIPT"))
  BY DEF Alone, NewFunc
<1>. QED
  BY <1>1 DEF Init, BareInv, Bare

(* What is compiled without functions is a script alone.                   *)
LEMMA BareHolds == Spec => []BareInv
  BY BareBegins, BareKept, CompilerInvariant, TextHolds, PTL DEF Spec
-----------------------------------------------------------------------------
(* The machine.                                                            *)

(* The machine that runs nothing but programs.                             *)
V == INSTANCE TrVMVerifiedProofs
       WITH Funcs <- Programs, Scripts <- Programs, Names <- GlobalNames,
            Heights <- [f \in Programs |-> Reached(f)]

(* Both read code and values alike.                                        *)
LEMMA SameCertificate ==
  ASSUME NEW h, NEW f, NEW b
  PROVE  V!Certifies(h, f, b) <=> Certifies(h, f, b)
BY DEF V!Certifies, V!Balances, V!FitsSlots, V!Needs, V!Follows, V!OpAt, V!OPS, V!ByteAt,
   V!HasBytes, V!Operand, V!Short, V!HasName, V!HasConstant, V!ConstantAt, V!IsWild,
   V!IsFunc, V!IBinaryOps, V!FBinaryOps, V!SlotsMax, Certifies, Balances, FitsSlots,
   Needs, Follows, OpAt, OPS, ByteAt, HasBytes, Operand, Short, HasName, HasConstant,
   ConstantAt, IsWild, IsFunc, IBinaryOps, FBinaryOps, SlotsMax

(* A known constant is a value of the machine, and neither a function nor  *)
(* a closure.                                                              *)
LEMMA KnownValues ==
  \A v \in Known : v \in V!Value /\ ~ V!IsWild(v) /\ ~ IsFunc(v) /\ ~ IsClosure(v)
<1>1. \A v \in M!Value :
        v \in V!Value \cup [type : {"OBJ"}, func : {}] \cup [type : {"OBJ"}, closure : {}]
  BY DEF M!Value, V!Value, M!Nil, V!Nil, M!NullPtr, V!NullPtr, M!Long, V!Long, M!CFuncs,
     V!CFuncs, M!Types, V!Types
<1>2. [type : {"OBJ"}, func : {}] = {} /\ [type : {"OBJ"}, closure : {}] = {}
  OBVIOUS
<1>3. \A v \in Known : ~ IsFunc(v) /\ ~ IsClosure(v)
  <2>1. \A v \in [type : {"LNG"}, l : M!Long] : ~ IsFunc(v) /\ ~ IsClosure(v)
    BY DEF IsFunc, IsClosure
  <2>2. \A v \in [type : {"DBL"}, d : {0, 1}] : ~ IsFunc(v) /\ ~ IsClosure(v)
    BY DEF IsFunc, IsClosure
  <2>3. \A v \in [type : {"BOOL"}, b : BOOLEAN] : ~ IsFunc(v) /\ ~ IsClosure(v)
    BY DEF IsFunc, IsClosure
  <2>4. \A v \in [type : {"STR"}, s : GlobalNames] : ~ IsFunc(v) /\ ~ IsClosure(v)
    BY DEF IsFunc, IsClosure
  <2>5. \A v \in [type : {"CFUNC"}, c : M!CFuncs] : ~ IsFunc(v) /\ ~ IsClosure(v)
    BY DEF IsFunc, IsClosure
  <2>6. \A v \in [type : M!Types \cup {"ANY"}, wild : {TRUE}] : ~ IsFunc(v) /\ ~ IsClosure(v)
    BY DEF IsFunc, IsClosure
  <2>7. \A v \in {M!Nil, M!NullPtr} : ~ IsFunc(v) /\ ~ IsClosure(v)
    BY DEF M!Nil, M!NullPtr, IsFunc, IsClosure
  <2>8. \A v \in M!Value : ~ IsFunc(v) /\ ~ IsClosure(v)
    BY <1>2, <2>1, <2>2, <2>3, <2>4, <2>5, <2>6, <2>7 DEF M!Value
  <2>. QED
    BY <2>8 DEF Known
<1>. QED
  BY <1>1, <1>2, <1>3 DEF Known, V!IsWild, IsWild

(* Programs are functions as the machine expects them.                     *)
LEMMA MachineAssumption == V!VMAssumption
<1>1. \A f \in Programs : f.arity \in Nat /\ f.code \in Seq(0 .. 255) /\ f.consts \in Seq(V!Value)
  <2>1. TAKE f \in Programs
  <2>2. f.arity = 0 /\ f.code \in Seq(0 .. 255) /\ f.consts \in Seq(Known)
    BY DEF Programs, Bytes
  <2>3. f.consts \in Seq(V!Value)
    BY <2>2, KnownValues
  <2>. QED
    BY <2>2, <2>3
<1>. QED
  BY <1>1, MainAssumption DEF V!VMAssumption

(* Offsets and heights are integers.                                       *)
LEMMA ReachedInts ==
  ASSUME NEW f, f.code \in Seq(Bytes), f.arity \in Nat
  PROVE  Reached(f) \subseteq Int \X Int
<1>. DEFINE H == Int \X Int  n == Len(f.code)
<1>1. n \in Nat
  OBVIOUS
<1>2. Closed(H, f)
  <2>. SUFFICES ASSUME NEW s \in H, Needs(f, s[1], s[2])
                PROVE  Follows(f, s[1], s[2]) \subseteq H
    BY DEF Closed
  <2>1. s[1] \in Int /\ s[2] \in Int
    OBVIOUS
  <2>2. \A k \in Nat : HasBytes(f, s[1], k) => \A j \in 0 .. k : ByteAt(f, s[1] + j) \in Int
    <3>. SUFFICES ASSUME NEW k \in Nat, HasBytes(f, s[1], k), NEW j \in 0 .. k
                  PROVE  ByteAt(f, s[1] + j) \in Int
      OBVIOUS
    <3>1. s[1] + j + 1 \in 1 .. Len(f.code)
      BY <1>1, <2>1 DEF HasBytes
    <3>2. f.code[s[1] + j + 1] \in Bytes
      BY <3>1
    <3>3. \A b \in Bytes : b \in Int
      BY DEF Bytes
    <3>. QED
      BY <3>2, <3>3 DEF ByteAt
  <2>3. HasBytes(f, s[1], 1) => Operand(f, s[1]) \in Int
    BY <2>1, <2>2 DEF Operand
  <2>4. HasBytes(f, s[1], 2) => Short(f, s[1]) \in Int
    BY <2>1, <2>2 DEF Short
  <2>. DEFINE op == OpAt(f, s[1])
  <2>5. /\ op = "CALL" => Operand(f, s[1]) \in Int
        /\ op \in {"JMP", "LOOP", "JMP_FALSE"} => Short(f, s[1]) \in Int
    BY <2>3, <2>4 DEF Needs
  <2>. HIDE DEF op
  <2>. QED
    BY <2>1, <2>5 DEF Follows, op
<1>3. <<0, f.arity + 1>> \in H
  OBVIOUS
<1>. HIDE DEF H, n
<1>4. PICK r : /\ r = [k \in 0 .. n |-> IF k = 0 THEN {<<0, f.arity + 1>>} ELSE After(f, r[k - 1])]
               /\ ReachedIn(f, n) = r[n]
  BY <1>1, <1>2, <1>3, ReachedIs
<1>5. \A k \in 0 .. n : r[k] = IF k = 0 THEN {<<0, f.arity + 1>>} ELSE After(f, r[k - 1])
  BY <1>4
<1>6. \A k \in 0 .. n : r[k] \subseteq H
  <2>. DEFINE Out == {k \in 0 .. n : ~ (r[k] \subseteq H)}
  <2>1. SUFFICES ASSUME Out # {}
                 PROVE  FALSE
    OBVIOUS
  <2>2. Out \in SUBSET Nat
    OBVIOUS
  <2>3. PICK m \in Out : \A k \in Out : m <= k
    BY <2>1, <2>2, LeastOf
  <2>4. m # 0 /\ m \in 0 .. n
    BY <1>3, <1>5, <2>3
  <2>5. m - 1 \in 0 .. n /\ ~ (m <= m - 1)
    BY <1>1, <2>4
  <2>6. r[m - 1] \in SUBSET H
    BY <2>3, <2>5
  <2>7. r[m] = After(f, r[m - 1])
    BY <1>5, <2>3, <2>4
  <2>8. r[m] \subseteq H
    BY <1>2, <2>6, <2>7, AfterIn
  <2>. QED
    BY <2>3, <2>8
<1>7. n \in 0 .. n
  BY <1>1
<1>. QED
  BY <1>4, <1>6, <1>7 DEF Reached, H, n

(* What Reached gives of a program is its certificate.                     *)
LEMMA ProgramsCertified == V!CertifiedAssumption
<1>1. \A f \in Programs : f.arity = 0
  BY DEF Programs
<1>2. ASSUME NEW f \in Programs
      PROVE  /\ \A i \in 1 .. Len(f.consts) : ~ V!IsWild(f.consts[i])
             /\ Reached(f) \subseteq Int \X Int
             /\ V!Certifies(Reached(f), f, TRUE)
  <2>1. f.arity = 0 /\ f.code \in Seq(Bytes) /\ f.consts \in Seq(Known)
    BY DEF Programs
  <2>2. \A i \in 1 .. Len(f.consts) : f.consts[i] \in Known
    BY <2>1
  <2>3. Certifies(Reached(f), f, TRUE)
    BY DEF Programs, Certifies, Balanced
  <2>4. Reached(f) \subseteq Int \X Int
    BY <2>1, ReachedInts
  <2>5. V!Certifies(Reached(f), f, TRUE)
    BY <2>3, SameCertificate
  <2>. QED
    BY <2>2, <2>4, <2>5, KnownValues
<1>. QED
  BY <1>1, <1>2 DEF V!CertifiedAssumption

(* A program has no closures.                                              *)
LEMMA ProgramsClosureless == V!ClosureFree
<1>. SUFFICES ASSUME NEW f \in Programs, NEW i \in 1 .. Len(f.consts)
              PROVE  ~ V!IsFunc(f.consts[i]) /\ ~ V!IsClosure(f.consts[i])
  BY DEF V!ClosureFree
<1>1. f.consts \in Seq(Known)
  BY DEF Programs
<1>2. f.consts[i] \in Known
  BY <1>1
<1>. QED
  BY <1>2, KnownValues DEF V!IsFunc, V!IsClosure, IsFunc, IsClosure

(* Both machines do the same.                                              *)
LEMMA SameStep == M!Step => V!Step
<1>. USE DEF M!F, V!F, M!IP, V!IP, M!Frame, V!Frame, M!Op, V!Op, M!Arg, V!Arg, M!Running,
     V!Running, M!HasBytes, V!HasBytes, M!OpAt, V!OpAt, M!OPS, V!OPS, M!ByteAt, V!ByteAt,
     M!Operand, V!Operand, M!Short, V!Short, M!HasConstant, V!HasConstant, M!ConstantAt,
     V!ConstantAt, M!HasName, V!HasName, M!NameAt, V!NameAt, M!IBinaryOps, V!IBinaryOps,
     M!FBinaryOps, V!FBinaryOps
<1>. USE DEF M!Nil, V!Nil, M!NullPtr, V!NullPtr, M!Lng, V!Lng, M!Dbl, V!Dbl, M!Bool,
     V!Bool, M!CFunc, V!CFunc, M!Closure, V!Closure, M!Wild, V!Wild, M!IsWild, V!IsWild,
     M!IsFunc, V!IsFunc, M!IsClosure, V!IsClosure, M!Types, V!Types, M!TypesOf, V!TypesOf,
     M!Absent, V!Absent, M!Falsey, V!Falsey, M!LongOf, V!LongOf, M!Long, V!Long, M!Wrap,
     V!Wrap, M!Abs, V!Abs, M!Quotient, V!Quotient, M!Arith, V!Arith, M!Traps, V!Traps,
     M!Negated, V!Negated, M!Toggled, V!Toggled, M!BytesToggled, V!BytesToggled,
     M!Printable, V!Printable, M!Inserted, V!Inserted, M!Deleted, V!Deleted
<1>. USE DEF M!StackMax, V!StackMax, M!SlotsMax, V!SlotsMax, M!Pushable, V!Pushable,
     M!Peekable, V!Peekable, M!Peek, V!Peek, M!Popped, V!Popped, M!Below, V!Below, M!Drop,
     V!Drop, M!PutAt, V!PutAt, M!Push, V!Push, M!Replace2, V!Replace2, M!Goto, V!Goto,
     M!Advance, V!Advance, M!SlotOf, V!SlotOf, M!Negatable, V!Negatable, M!Unnegatable,
     V!Unnegatable, M!NegateTypes, V!NegateTypes, M!Exec, V!Exec, M!Goes, V!Goes,
     M!RuntimeErr, V!RuntimeErr
<1>. USE DEF M!HasConst, V!HasConst, M!HasLocal, V!HasLocal, M!SafeCall, V!SafeCall,
     M!SafeNegate, V!SafeNegate, M!SafeNot, V!SafeNot, M!Safe, V!Safe, M!CallFails,
     V!CallFails, M!Results, V!Results, M!Skipped, V!Skipped
<1>. QED
  BY DEF M!Step, V!Step, M!CallClosure, V!CallClosure, M!CallCFunc, V!CallCFunc,
     M!CallError, V!CallError, M!Return, V!Return, M!PushOp, V!PushOp, M!UndefinedGlobal,
     V!UndefinedGlobal, M!SetLocal, V!SetLocal, M!SetGlobal, V!SetGlobal, M!DefineGlobal,
     V!DefineGlobal, M!Pop, V!Pop, M!Jump, V!Jump, M!Compare, V!Compare, M!IBinary,
     V!IBinary, M!FBinary, V!FBinary, M!Negate, V!Negate, M!Not, V!Not, M!Skip, V!Skip,
     M!Undefined, V!Undefined

(* Both machines begin alike.                                              *)
LEMMA SameBegin ==
  /\ M!Init => V!Init
  /\ \A f : M!RunChunk(f) => V!RunChunk(f)
BY DEF M!Init, V!Init, M!RunChunk, V!RunChunk, M!CFuncs, V!CFuncs, M!CFunc, V!CFunc,
   M!Absent, V!Absent, M!StackMax, V!StackMax, M!SlotsMax, V!SlotsMax, M!Unset, V!Unset,
   M!Wild, V!Wild, M!Pushable, V!Pushable, M!Func, V!Func, M!CallFails, V!CallFails,
   M!Enter, V!Enter

(* A run goes on, or is over for good.                                     *)
LEMMA StepRuns == M!Step => life' = life /\ status = "running" /\ status' # "idle"
BY DEF M!Step, M!CallClosure, M!CallCFunc, M!CallError, M!Return, M!PushOp,
   M!UndefinedGlobal, M!SetLocal, M!SetGlobal, M!DefineGlobal, M!Pop, M!Jump, M!Compare,
   M!IBinary, M!FBinary, M!Negate, M!Not, M!Skip, M!Undefined, M!Goes, M!RuntimeErr,
   M!Exec, M!Running

(* The script fits the slots of its frame, at every height it reaches.     *)
FitsFrame == FitsSlots(Reached(Compiled), Compiled)

(* What was compiled can be run, if it fits.                               *)
Ready == Plain /\ NoFunctions /\ FitsFrame => Compiled \in Programs

(* What the machine keeps on programs: it has no closures.                 *)
ProgramInv == V!VInv /\ V!NoClosures

(* A machine is new, or runs what was accepted and is as it should be.     *)
MainInv ==
  /\ status = "idle" => M!Init
  /\ status # "idle" => Accepted
  /\ status # "idle" /\ Plain /\ NoFunctions /\ FitsFrame => life = "clean" /\ ProgramInv

(* The bytes of the one are those of the other.                            *)
LEMMA BytesAssumption == V!ByteAssumption
  BY ByteAssumption DEF V!ByteAssumption

(* The invariant of the machine on certified code, for programs.           *)
LEMMA InvKept == ProgramInv /\ [V!Next]_(V!vars) => ProgramInv'
<1>1. V!VInv /\ [V!Next]_(V!vars) => V!VInv'
  BY V!NextHolds, BytesAssumption, MachineAssumption, ProgramsCertified
<1>2. V!TypeOK /\ V!NoClosures /\ [V!Next]_(V!vars) => V!NoClosures'
  BY V!NoClosuresKept, ProgramsClosureless, BytesAssumption, MachineAssumption,
     ProgramsCertified
<1>. QED
  BY <1>1, <1>2 DEF ProgramInv, V!VInv

(* A new machine has it.                                                   *)
LEMMA InvBegins == M!Init => ProgramInv
<1>1. M!Init => V!VInv
  BY V!InitHolds, SameBegin, BytesAssumption, MachineAssumption, ProgramsCertified
<1>2. M!Init => V!NoClosures
  BY V!NoClosuresBegin, SameBegin, BytesAssumption, MachineAssumption, ProgramsCertified
<1>. QED
  BY <1>1, <1>2 DEF ProgramInv

(* What is said of the compiler stays while its state does.                *)
LEMMA SameText ==
  ASSUME UNCHANGED vars
  PROVE  (Accepted' <=> Accepted) /\ Compiled' = Compiled /\ (Plain' <=> Plain)
         /\ (NoFunctions' <=> NoFunctions) /\ (FitsFrame' <=> FitsFrame)
<1>1. text' = text /\ parser' = parser /\ todo' = todo
  BY DEF vars
<1>2. Compiled' = Compiled
  BY <1>1 DEF Compiled, Fn
<1>. QED
  BY <1>1, <1>2 DEF Accepted, Done, Plain, Minuends, Conditional, NoFunctions, FitsFrame

(* While main compiles the machine waits, and from then on it is at work   *)
(* on a program.                                                           *)
LEMMA MainKept ==
  ASSUME MainInv, Accepted => Ready, [MainNext]_mainVars
  PROVE  MainInv'
<1>1. CASE UNCHANGED mainVars
  <2>1. UNCHANGED vars /\ UNCHANGED machine
    BY <1>1 DEF mainVars
  <2>2. status' = status /\ life' = life /\ (M!Init => M!Init') /\ UNCHANGED V!vars
    BY <2>1 DEF machine, M!Init, V!vars
  <2>3. ProgramInv => ProgramInv'
    BY <2>2, InvKept
  <2>. QED
    BY <2>1, <2>2, <2>3, SameText DEF MainInv
<1>2. CASE Compiles
  <2>1. ~ Accepted /\ UNCHANGED machine
    BY <1>2, NextWorks DEF Compiles, Accepted, Done
  <2>2. status = "idle" /\ M!Init
    BY <2>1 DEF MainInv
  <2>3. status' = "idle" /\ M!Init'
    BY <2>1, <2>2 DEF machine, M!Init
  <2>. QED
    BY <2>3 DEF MainInv
<1>3. CASE Runs
  <2>1. Accepted /\ status = "idle" /\ M!RunChunk(Compiled) /\ UNCHANGED vars
    BY <1>3 DEF Runs
  <2>2. M!Init
    BY <2>1 DEF MainInv
  <2>3. status' # "idle" /\ life' = "clean"
    BY <2>1, <2>2 DEF M!RunChunk, M!Init
  <2>4. ASSUME Plain, NoFunctions, FitsFrame
        PROVE  ProgramInv'
    <3>1. Compiled \in Programs
      BY <2>1, <2>4 DEF Ready
    <3>2. V!Next
      BY <2>1, <3>1, SameBegin DEF V!Next
    <3>. QED
      BY <2>2, <3>2, InvBegins, InvKept
  <2>. QED
    BY <2>1, <2>3, <2>4, SameText DEF MainInv
<1>4. CASE Executes
  <2>1. M!Step /\ UNCHANGED vars
    BY <1>4 DEF Executes
  <2>2. life' = life /\ status # "idle" /\ status' # "idle"
    BY <2>1, StepRuns
  <2>3. ProgramInv => ProgramInv'
    BY <2>1, SameStep, InvKept DEF V!Next
  <2>. QED
    BY <2>1, <2>2, <2>3, SameText DEF MainInv
<1>. QED
  BY <1>1, <1>2, <1>3, <1>4 DEF MainNext

(* This is what RunsDefined asks for.                                      *)
LEMMA MainDefined == MainInv => (FitsFrame => RunsDefined)
<1>. SUFFICES ASSUME MainInv, FitsFrame, Plain, NoFunctions
              PROVE  status # "undefined" /\ (status = "ok" => top = 0 /\ frames = << >>)
  BY DEF RunsDefined
<1>1. CASE status = "idle"
  BY <1>1
<1>2. CASE status # "idle"
  <2>1. V!VInv /\ V!NoClosures /\ V!Clean
    BY <1>2 DEF MainInv, ProgramInv, V!Clean
  <2>2. status # "undefined"
    BY <2>1, V!ClosurelessDefined, BytesAssumption, MachineAssumption, ProgramsCertified
  <2>3. V!LeavesNothing
    BY <2>1 DEF V!VInv, V!Holds
  <2>. QED
    BY <2>1, <2>2, <2>3 DEF V!LeavesNothing
<1>. QED
  BY <1>1, <1>2
-----------------------------------------------------------------------------
(* An accepted text that fits a frame is a program.                        *)
LEMMA AcceptedReady ==
  ASSUME CompilerInv, BalanceInv, BareInv, Accepted
  PROVE  Ready
<1>. SUFFICES ASSUME Plain, NoFunctions, FitsFrame
              PROVE  Compiled \in Programs
  BY DEF Ready
<1>1. todo = << >> /\ ~ parser.error
  BY DEF Accepted, Done
<1>2. PICK f : parser.fns = <<f>> /\ Alone(f)
  BY <1>1 DEF BareInv, Bare
<1>3. Fn(parser) = f /\ f.arity = 0 /\ f.consts \in Seq(Known)
  BY <1>2 DEF Fn, Alone
<1>4. f.code \in Seq(Bytes)
  BY <1>3, FineFn DEF CompilerInv
<1>5. Compiled = [arity |-> 0, code |-> f.code, consts |-> f.consts]
  BY <1>3 DEF Compiled, Function
<1>6. Functions(f.consts) = {}
  <2>1. \A i \in DOMAIN f.consts : f.consts[i] \in Known
    BY <1>3
  <2>. QED
    BY <2>1, KnownValues DEF Functions
<1>7. Balanced(Compiled, TRUE)
  <2>1. Live(parser)
    BY <1>1, <1>3, <1>6 DEF Live
  <2>. QED
    BY <1>1, <2>1 DEF BalanceInv
<1>8. Compiled \in [arity : {0}, code : Seq(Bytes), consts : Seq(Known)]
  BY <1>3, <1>4, <1>5
<1>. QED
  BY <1>7, <1>8 DEF Programs, FitsFrame

(* To main, compiling is one of the steps of the compiler.                 *)
LEMMA MainCompiles == [MainNext]_mainVars => [Next]_vars
  BY DEF MainNext, Compiles, Runs, Executes, mainVars

(* Nothing has been compiled or run yet.                                   *)
LEMMA MainBegins == MainInit => Init /\ MainInv
BY DEF MainInit, MainInv, M!Init

(* MainInv is an invariant: compiled text is ready to be run.              *)
LEMMA MainHolds == MainSpec => []MainInv
<1>1. MainSpec => Spec
  BY MainCompiles, MainBegins, PTL DEF MainSpec, Spec
<1>2. CompilerInv /\ BalanceInv /\ BareInv => (Accepted => Ready)
  BY AcceptedReady
<1>3. MainInv /\ (Accepted => Ready) /\ [MainNext]_mainVars => MainInv'
  BY MainKept
<1>. QED
  BY <1>1, <1>2, <1>3, MainBegins, CompilerInvariant, BalanceHolds, BareHolds, PTL DEF MainSpec

(* For every text, whatever the limits of compiler and machine: what is    *)
(* compiled of a plain text without functions, if it fits the slots of a   *)
(* frame, runs without undefined behaviour, and a run that ends well       *)
(* leaves nothing behind (tr_parser_compile, tr_vm_do_chunk).              *)
THEOREM TextsRunDefined == MainSpec => [](FitsFrame => RunsDefined)
  BY MainHolds, MainDefined, PTL
=============================================================================
