----------------------------- MODULE TrCompiler -----------------------------
(***************************************************************************)
(* The one-pass compiler of src/src/tr_parser.c, from tokens to functions. *)
(* A parse function of the C is an action for each stretch of it between   *)
(* two calls of other parse functions; todo is the C stack, the innermost  *)
(* call first, each with the locals it will need.  What the small helpers  *)
(* do to struct tr_parser is an operator on its record.                    *)
(*                                                                         *)
(* At this commit the scopes are in two records: blocks count in those of  *)
(* the function (function->locals), declarations look at those of the      *)
(* compiler (compiler->scope_depth, compiler->locals), which nothing       *)
(* changes.  Joined is FALSE for the code as it is; TRUE reads both as the *)
(* one record of the function being compiled, without which no variable is *)
(* ever local.  compiler->enclosing is set nowhere: no variable is an      *)
(* upvalue.  p->function is read as p->compiler->function throughout.      *)
(***************************************************************************)
EXTENDS Bytecode, FiniteSets

CONSTANTS
  Texts,     \* what the lexer may return: sequences of tokens, then TOKEN_EOF
  Literal,   \* the constants made of the texts of number and string tokens
  JumpMax,   \* UINT16_MAX
  Joined     \* whether the scopes of function and compiler are one record

None == ""   \* no text, no rule, no token to consume

Token(type, t) == [type |-> type, text |-> t]
EOF == Token("EOF", None)
NoToken == Token("L_PAREN", None)    \* zeroed
Tokens == {EOF, NoToken} \cup UNION {{t[i] : i \in 1 .. Len(t)} : t \in Texts}

ASSUME CompilerAssumption ==
  /\ ByteMax # 0 /\ JumpMax \in Nat /\ JumpMax <= 65535 /\ Joined \in BOOLEAN
  /\ \A t \in Texts : t \in Seq(Tokens)

(* number() and string() make no function of their text *)
ASSUME LiteralAssumption ==
  \A t \in Tokens : t.type \in {"NUMBER", "INT", "STRING"} => ~ IsFunc(Literal[t.text])

VARIABLES
  text,      \* the tokens, of which parser.pos are read
  parser,    \* struct tr_parser; fns are the functions begun, innermost last
  todo       \* the calls in progress, innermost first

vars == <<text, parser, todo>>
-----------------------------------------------------------------------------
(* The rule table.  A type without a row has neither rule, at PREC_NONE;   *)
(* and_ has a row at PREC_NONE and or_ has none: neither is ever called.   *)

PREC_NONE   == 0
PREC_ASSIGN == 1
PREC_EQ     == 4
PREC_COMP   == 5
PREC_TERM   == 6
PREC_FACTOR == 7
PREC_UNARY  == 8
PREC_CALL   == 9

Rule(prefix, infix, prec) == [prefix |-> prefix, infix |-> infix, precedence |-> prec]
Prefix(name) == Rule(name, None, PREC_NONE)
Binary(prec) == Rule(None, "binary", prec)

GetRule(type) ==
  CASE type = "L_PAREN" -> Rule("grouping", "call", PREC_CALL)
    [] type = "MINUS" -> Rule("unary", "binary", PREC_TERM)
    [] type = "PLUS"  -> Binary(PREC_TERM)
    [] type \in {"SLASH", "STAR"} -> Binary(PREC_FACTOR)
    [] type \in {"NE", "EQ"} -> Binary(PREC_EQ)
    [] type \in {"GT", "GTEQ", "LT", "LTEQ"} -> Binary(PREC_COMP)
    [] type = "EXCL"   -> Prefix("unary")
    [] type = "IDENT"  -> Prefix("variable")
    [] type = "STRING" -> Prefix("string")
    [] type \in {"NUMBER", "INT"} -> Prefix("number")
    [] type \in {"FALSE", "TRUE"} -> Prefix("literal")
    [] OTHER -> Prefix(None)

(* the instruction of a binary operator: floating is for + - * / only *)
BinaryOp(type, floating) ==
  CASE type = "EQ" -> "EQUAL" [] type = "NE" -> "NEQUAL"
    [] type = "PLUS"  -> IF floating THEN "FADD" ELSE "IADD"
    [] type = "MINUS" -> IF floating THEN "FSUB" ELSE "ISUB"
    [] type = "STAR"  -> IF floating THEN "FMUL" ELSE "IMUL"
    [] type = "SLASH" -> IF floating THEN "FDIV" ELSE "IDIV"
    [] OTHER -> type
-----------------------------------------------------------------------------
(* Tokens, errors and chunks.                                              *)

(* tr_lexer_next_token, asked again after an error token *)
Unread(p) == {i \in p.pos + 1 .. Len(text) : text[i].type # "ERR"}
NextPos(p) == IF Unread(p) = {} THEN Len(text)
              ELSE CHOOSE i \in Unread(p) : \A j \in Unread(p) : i <= j

Advance(p) ==
  [p EXCEPT !.pos = NextPos(p), !.preprevious = p.previous, !.previous = p.current,
            !.current = IF Unread(p) = {} THEN EOF ELSE text[NextPos(p)]]

Check(p, type) == p.current.type = type

ErrorAt(p) == IF p.panicking THEN p ELSE [p EXCEPT !.panicking = TRUE, !.error = TRUE]

Consume(p, type) == IF Check(p, type) THEN Advance(p) ELSE ErrorAt(p)

Fn(p) == p.fns[Len(p.fns)]
WithFn(p, f) == [p EXCEPT !.fns[Len(p.fns)] = f]
Count(p) == Len(Fn(p).code)

Emit(p, bytes) == WithFn(p, [Fn(p) EXCEPT !.code = @ \o bytes])
EmitOp(p, op) == Emit(p, <<Opcode[op]>>)

(* The index of the next constant, 0 when it does not fit in a byte; the   *)
(* constant is added all the same.                                         *)
TooMany(p) == Len(Fn(p).consts) > ByteMax
ConstantId(p) == IF TooMany(p) THEN 0 ELSE Len(Fn(p).consts)
(* mutant of AddConstant: nobody is told *)
AddConstantSilent(p, v) == WithFn(p, [Fn(p) EXCEPT !.consts = Append(@, v)])

AddConstant(p, v) ==
  LET q == WithFn(p, [Fn(p) EXCEPT !.consts = Append(@, v)])
  IN  IF TooMany(p) THEN ErrorAt(q) ELSE q

EmitConstant(p, v) == Emit(AddConstant(p, v), <<Opcode["CONSTANT"], ConstantId(p)>>)

(* Jumps: two bytes, written when the target is known, cut to 16 bits.     *)
TwoBytes(n) == LET m == n % (JumpMax + 1) IN <<m \div 256, m % 256>>

EmitJump(p, op) == Emit(p, <<Opcode[op], 255, 255>>)
JumpOfLate(p) == Count(p) - 1 \* mutant of JumpOf
JumpOf(p) == Count(p) - 2     \* the result of emit_jump, when p is after it

(* mutants of PatchJump: one byte late; a jump too far is not reported *)
PatchJumpLate(p, jump) ==
  LET j == Count(p) - jump - 2 IN
  WithFn(p, [Fn(p) EXCEPT !.code[jump + 2] = TwoBytes(j)[1],
                          !.code[jump + 3] = TwoBytes(j)[2]])
PatchJumpSilent(p, jump) ==
  LET j == Count(p) - jump - 2 IN
  WithFn(p, [Fn(p) EXCEPT !.code[jump + 1] = TwoBytes(j)[1],
                          !.code[jump + 2] = TwoBytes(j)[2]])

PatchJump(p, jump) ==
  LET j == Count(p) - jump - 2
      q == IF j > JumpMax THEN ErrorAt(p) ELSE p
  IN  WithFn(q, [Fn(q) EXCEPT !.code[jump + 1] = TwoBytes(j)[1],
                              !.code[jump + 2] = TwoBytes(j)[2]])

(* mutant of EmitLoop: the operand is not counted *)
EmitLoopShort(p, start) ==
  LET offset == Count(p) + 1 - start IN
  Emit(EmitOp(p, "LOOP"), TwoBytes(offset))

EmitLoop(p, start) ==
  LET q == EmitOp(p, "LOOP")
      offset == Count(q) - start + 2
  IN  Emit(IF offset > JumpMax THEN ErrorAt(q) ELSE q, TwoBytes(offset))
-----------------------------------------------------------------------------
(* Functions, scopes and variables.                                        *)

Local(name, depth) == [name |-> name, depth |-> depth]

(* tr_func_new, with slot 0 reserved for the function itself *)
NewFunc(type) == [type |-> type, arity |-> 0, code |-> << >>, consts |-> << >>,
                  depth |-> 0, locals |-> <<Local(None, 0)>>]

ScopeDepth(p) == IF Joined THEN Fn(p).depth ELSE 0
Locals(p) == IF Joined THEN Fn(p).locals ELSE <<Local(None, 0)>>

BeginScope(p) == WithFn(p, [Fn(p) EXCEPT !.depth = @ + 1])

(* mutant of EndScope: the values of its locals stay on the stack *)
EndScopeKeepsValues(p) ==
  LET depth == Fn(p).depth - 1 IN
  WithFn(p, [Fn(p) EXCEPT !.depth = depth,
                          !.locals = SelectSeq(@, LAMBDA l : l.depth <= depth)])

(* locals of the scope that ends are popped; slot 0 is of depth 0 *)
EndScope(p) ==
  LET depth == Fn(p).depth - 1
      kept  == CHOOSE n \in DOMAIN Fn(p).locals :
                 /\ Fn(p).locals[n].depth <= depth
                 /\ \A i \in n + 1 .. Len(Fn(p).locals) : Fn(p).locals[i].depth > depth
      pops  == [i \in 1 .. Len(Fn(p).locals) - kept |-> Opcode["POP"]]
  IN  Emit(WithFn(p, [Fn(p) EXCEPT !.depth = depth, !.locals = SubSeq(@, 1, kept)]), pops)

(* mutant of Redeclares: the loop has no break *)
RedeclaresOuter(p, name) == \E i \in DOMAIN Locals(p) : Locals(p)[i].name = name

(* The innermost scope has a local of this name: those of it are at the    *)
(* end, and those not initialized are taken for its own.                   *)
Redeclares(p, name) ==
  \E i \in DOMAIN Locals(p) :
    /\ Locals(p)[i].name = name
    /\ \A j \in i .. Len(Locals(p)) :
         Locals(p)[j].depth = -1 \/ Locals(p)[j].depth >= ScopeDepth(p)

AddLocal(p, name) ==
  IF Len(Locals(p)) = SlotsMax THEN ErrorAt(p)
  ELSE WithFn(p, [Fn(p) EXCEPT !.locals = Append(@, Local(name, -1))])

MarkInitialized(p) ==
  IF ScopeDepth(p) = 0 THEN p
  ELSE WithFn(p, [Fn(p) EXCEPT !.locals[Len(Fn(p).locals)].depth = Fn(p).depth])

DeclareVariable(p) ==
  LET name == p.previous.text IN
  IF ScopeDepth(p) = 0 THEN p
  ELSE AddLocal(IF Redeclares(p, name) THEN ErrorAt(p) ELSE p, name)

(* parse_variable, and the index it returns *)
ParseVariable(p) ==
  LET q == DeclareVariable(Consume(p, "IDENT"))
  IN  IF ScopeDepth(p) > 0 THEN q ELSE AddConstant(q, Str(q.previous.text))

(* mutant of VariableId, which is to look at the other scope *)
VariableIdInBlocks(p) == IF Fn(p).depth > 0 THEN 0 ELSE ConstantId(p)
VariableId(p) == IF ScopeDepth(p) > 0 THEN 0 ELSE ConstantId(p)

DefineGlobal(p, global) ==
  IF ScopeDepth(p) > 0 THEN MarkInitialized(p)
  ELSE Emit(p, <<Opcode["DEFINE_GLOBAL"], global>>)

(* the locals a name may mean; resolve_local takes the last *)
Named(p, name) == {i \in DOMAIN Locals(p) : Locals(p)[i].name = name}
Resolve(p, name) == CHOOSE i \in Named(p, name) : \A j \in Named(p, name) : j <= i
-----------------------------------------------------------------------------
(* The control stack.                                                      *)

Do(name) == [at |-> name]
Precedence(prec) == [at |-> "precedence", prec |-> prec]
Expression == Precedence(PREC_ASSIGN)

(* the end of a parse function: a token to consume, if any, and code *)
Finish(token, code) == [at |-> "finish", token |-> token, code |-> code]

Top == Head(todo)
At(name) == todo # << >> /\ Top.at = name

(* the call on top goes on to calls, with the parser as q *)
Then(q, calls) ==
  /\ parser' = q
  /\ todo' = calls \o Tail(todo)
  /\ UNCHANGED text

Return(q) == Then(q, << >>)
-----------------------------------------------------------------------------
(* tr_parser_init and tr_parser_compile                                    *)

Init ==
  /\ text \in Texts
  /\ parser = [pos |-> 0, preprevious |-> NoToken, previous |-> NoToken,
               current |-> NoToken, error |-> FALSE, panicking |-> FALSE,
               fns |-> <<NewFunc("SCRIPT")>>]
  /\ todo = <<Do("compile")>>

Compile == At("compile") /\ Then(Advance(parser), <<Do("script")>>)

Script ==
  /\ At("script") /\ ~Check(parser, "EOF")
  /\ Then(parser, <<Do("declaration"), Do("script")>>)

ScriptEnd ==
  /\ At("script") /\ Check(parser, "EOF")
  /\ Return(Consume(Emit(Advance(parser), <<Opcode["NIL"], Opcode["RETURN"]>>), "EOF"))

(* the parse function that declaration() calls for the token it matches *)
Declares(type) ==
  CASE type = "FUNC" -> "func_declaration" [] type = "VAR" -> "var_declaration"
    [] type = "FOR"  -> "for_statement"    [] type = "IF"  -> "if_statement"
    [] type = "RETURN" -> "return_statement" [] type = "WHILE" -> "while_statement"
    [] OTHER -> "statement"

Declaration ==
  /\ At("declaration")
  /\ LET calls == Declares(parser.current.type) IN
     Then(IF calls = "statement" THEN parser ELSE Advance(parser),
          <<Do(calls), Do("declared")>>)

(* mutant of Declared: the error is forgotten with the panic *)
DeclaredForgets ==
  /\ At("declared")
  /\ IF parser.panicking
     THEN Then([parser EXCEPT !.panicking = FALSE, !.error = FALSE], <<Do("synchronize")>>)
     ELSE Return(parser)

Declared ==
  /\ At("declared")
  /\ IF parser.panicking
     THEN Then([parser EXCEPT !.panicking = FALSE], <<Do("synchronize")>>)
     ELSE Return(parser)

Starts == {"CLASS", "FUNC", "VAR", "FOR", "IF", "WHILE", "RETURN"}

(* mutant of Synchronize: the end of the text does not stop it *)
SynchronizePastEnd ==
  /\ At("synchronize")
  /\ IF parser.current.type \in Starts \/ parser.previous.type = "SEMICOLON"
     THEN Return(parser)
     ELSE Then(Advance(parser), <<Top>>)

Synchronize ==
  /\ At("synchronize")
  /\ IF parser.current.type \in {"EOF"} \cup Starts \/ parser.previous.type = "SEMICOLON"
     THEN Return(parser)
     ELSE Then(Advance(parser), <<Top>>)

(* What is left of a parse function after its last call of another.        *)
FinishCall ==
  /\ At("finish")
  /\ Return(Emit(IF Top.token = None THEN parser ELSE Consume(parser, Top.token), Top.code))
-----------------------------------------------------------------------------
(* Statements                                                              *)

Statement ==
  /\ At("statement")
  /\ IF Check(parser, "L_BRACE")
     THEN Then(BeginScope(Advance(parser)), <<Do("block"), Do("end_scope")>>)
     ELSE Then(parser, <<Do("expression_statement")>>)

ExpressionStatement ==
  /\ At("expression_statement")
  /\ Then(parser, <<Expression, Finish("SEMICOLON", <<Opcode["POP"]>>)>>)

Block ==
  /\ At("block")
  /\ IF parser.current.type \in {"R_BRACE", "EOF"}
     THEN Return(Consume(parser, "R_BRACE"))
     ELSE Then(parser, <<Do("declaration"), Do("block")>>)

ScopeEnds == At("end_scope") /\ Return(EndScope(parser))

VarDeclaration ==
  /\ At("var_declaration")
  /\ LET q == ParseVariable(parser)
         defined == [at |-> "var_defined", global |-> VariableId(parser)]
     IN  IF Check(q, "ASSIGN")
         THEN Then(Advance(q), <<Expression, defined>>)
         ELSE Then(EmitOp(q, "NIL"), <<defined>>)

VarDefined ==
  /\ At("var_defined")
  /\ Return(DefineGlobal(Consume(parser, "SEMICOLON"), Top.global))

IfStatement ==
  At("if_statement") /\ Then(Consume(parser, "L_PAREN"), <<Expression, Do("if_then")>>)

IfThen ==
  /\ At("if_then")
  /\ LET q == EmitJump(Consume(parser, "R_PAREN"), "JMP_FALSE")
     IN  Then(EmitOp(q, "POP"), <<Do("statement"), [at |-> "if_else", jump |-> JumpOf(q)]>>)

IfElse ==
  /\ At("if_else")
  /\ LET q == EmitJump(parser, "JMP")
         r == EmitOp(PatchJump(q, Top.jump), "POP")
         end == [at |-> "if_end", jump |-> JumpOf(q)]
     IN  IF Check(r, "ELSE") THEN Then(Advance(r), <<Do("statement"), end>>)
                             ELSE Then(r, <<end>>)

IfEnd == At("if_end") /\ Return(PatchJump(parser, Top.jump))

WhileStatement ==
  /\ At("while_statement")
  /\ Then(Consume(parser, "L_PAREN"),
          <<Expression, [at |-> "while_body", start |-> Count(parser)]>>)

WhileBody ==
  /\ At("while_body")
  /\ LET q == EmitJump(Consume(parser, "R_PAREN"), "JMP_FALSE")
     IN  Then(EmitOp(q, "POP"),
              <<Do("statement"),
                [at |-> "loop_end", start |-> Top.start, exit |-> JumpOf(q)]>>)

(* the end of while and for, which may have no condition to exit by *)
LoopEnd ==
  /\ At("loop_end")
  /\ LET q == EmitLoop(parser, Top.start) IN
     Return(IF Top.exit = -1 THEN q ELSE EmitOp(PatchJump(q, Top.exit), "POP"))

ForStatement ==
  /\ At("for_statement")
  /\ LET q == Consume(BeginScope(parser), "L_PAREN") IN
     CASE Check(q, "SEMICOLON") -> Then(Advance(q), <<Do("for_condition")>>)
       [] Check(q, "VAR") -> Then(Advance(q), <<Do("var_declaration"), Do("for_condition")>>)
       [] OTHER -> Then(q, <<Do("expression_statement"), Do("for_condition")>>)

ForCondition ==
  /\ At("for_condition")
  /\ IF Check(parser, "SEMICOLON")
     THEN Then(Advance(parser),
               <<[at |-> "for_increment", start |-> Count(parser), exit |-> -1]>>)
     ELSE Then(parser, <<Expression, [at |-> "for_exit", start |-> Count(parser)]>>)

ForExit ==
  /\ At("for_exit")
  /\ LET q == EmitJump(Consume(parser, "SEMICOLON"), "JMP_FALSE")
     IN  Then(EmitOp(q, "POP"),
              <<[at |-> "for_increment", start |-> Top.start, exit |-> JumpOf(q)]>>)

ForBody(start) ==
  << Do("statement"), [at |-> "loop_end", start |-> start, exit |-> Top.exit],
     Do("end_scope") >>

ForIncrement ==
  /\ At("for_increment")
  /\ IF Check(parser, "R_PAREN")
     THEN Then(Advance(parser), ForBody(Top.start))
     ELSE LET q == EmitJump(parser, "JMP") IN
          Then(q, <<Expression, [at |-> "for_step", start |-> Top.start, exit |-> Top.exit,
                                 increment |-> Count(q), jump |-> JumpOf(q)]>>)

ForStep ==
  /\ At("for_step")
  /\ LET q == Consume(EmitOp(parser, "POP"), "R_PAREN")
     IN  Then(PatchJump(EmitLoop(q, Top.start), Top.jump), ForBody(Top.increment))
-----------------------------------------------------------------------------
(* Functions                                                               *)

FuncDeclaration ==
  /\ At("func_declaration")
  /\ LET q == MarkInitialized(ParseVariable(parser))
         r == BeginScope([q EXCEPT !.fns = Append(@, NewFunc("FUNC"))])
         s == Consume(r, "L_PAREN")
         global == VariableId(parser)
     IN  Then(s, <<[at |-> IF Check(s, "R_PAREN") THEN "func_body" ELSE "parameter",
                    global |-> global]>>)

Parameter ==
  /\ At("parameter")
  /\ LET arity == Fn(parser).arity + 1
         counted == WithFn(parser, [Fn(parser) EXCEPT !.arity = arity])
         q == IF arity > ByteMax THEN ErrorAt(counted) ELSE counted
         r == DefineGlobal(ParseVariable(q), VariableId(q))
     IN  IF Check(r, "COMMA") THEN Then(Advance(r), <<Top>>)
                              ELSE Then(r, <<[Top EXCEPT !.at = "func_body"]>>)

(* mutant of FuncBody: parser_end_func is not called *)
FuncBodyEndless ==
  /\ At("func_body")
  /\ Then(Consume(Consume(parser, "R_PAREN"), "L_BRACE"), <<Do("block")>>)

FuncBody ==
  /\ At("func_body")
  /\ Then(Consume(Consume(parser, "R_PAREN"), "L_BRACE"),
          <<Do("block"), [Top EXCEPT !.at = "func_end"]>>)

(* parser_end_func; the index of the function is emitted after OP_CLOSURE  *)
(* and OP_CONSTANT, twice                                                  *)
FuncEnd ==
  /\ At("func_end")
  /\ LET f == Fn(Emit(parser, <<Opcode["NIL"], Opcode["RETURN"]>>))
         q == EmitOp([parser EXCEPT !.fns = SubSeq(@, 1, Len(@) - 1)], "CLOSURE")
         r == EmitConstant(q, Func(Function(f.arity, f.code, f.consts)))
     IN  Return(DefineGlobal(Emit(r, <<ConstantId(q)>>), Top.global))

ReturnStatement ==
  /\ At("return_statement")
  /\ LET q == IF Fn(parser).type = "SCRIPT" THEN ErrorAt(parser) ELSE parser IN
     IF Check(q, "SEMICOLON")
     THEN Return(Emit(Advance(q), <<Opcode["NIL"], Opcode["RETURN"]>>))
     ELSE Then(q, <<Expression, Finish("SEMICOLON", <<Opcode["RETURN"]>>)>>)
-----------------------------------------------------------------------------
(* Expressions                                                             *)

PrefixRule ==
  /\ At("precedence")
  /\ LET q == Advance(parser)
         prefix == GetRule(q.previous.type).prefix
     IN  IF prefix = None THEN Return(ErrorAt(q))
         ELSE Then(q, <<[at |-> prefix, canAssign |-> Top.prec <= PREC_ASSIGN],
                        [Top EXCEPT !.at = "infix"]>>)

InfixRule ==
  /\ At("infix")
  /\ LET rule == GetRule(parser.current.type)
         q == Advance(parser)
     IN  IF Top.prec < rule.precedence THEN Then(q, <<Do(rule.infix), Top>>)
         ELSE Return(IF Top.prec <= PREC_ASSIGN /\ Check(parser, "ASSIGN")
                     THEN ErrorAt(q) ELSE parser)

(* number and string *)
Constant ==
  /\ At("number") \/ At("string")
  /\ Return(EmitConstant(parser, Literal[parser.previous.text]))

LiteralValue == At("literal") /\ Return(EmitOp(parser, parser.previous.type))

Grouping == At("grouping") /\ Then(parser, <<Expression, Finish("R_PAREN", << >>)>>)

Unary ==
  /\ At("unary")
  /\ LET op == IF parser.previous.type = "EXCL" THEN "NOT" ELSE "NEGATE"
     IN  Then(parser, <<Precedence(PREC_UNARY), Finish(None, <<Opcode[op]>>)>>)

(* mutants of BinaryRight: the right operand is any expression; the loop   *)
(* of precedence() taken to be not strict                                  *)
BinaryRightAny ==
  /\ At("binary")
  /\ Then(parser,
          << Expression, [at |-> "binary_end", type |-> parser.previous.type,
                          left |-> parser.preprevious.type] >>)

BinaryRightLow ==
  /\ At("binary")
  /\ Then(parser,
          << Precedence(GetRule(parser.previous.type).precedence - 1),
             [at |-> "binary_end", type |-> parser.previous.type,
              left |-> parser.preprevious.type] >>)

BinaryRight ==
  /\ At("binary")
  /\ Then(parser,
          << Precedence(GetRule(parser.previous.type).precedence + 1),
             [at |-> "binary_end", type |-> parser.previous.type,
              left |-> parser.preprevious.type] >>)

BinaryEnd ==
  /\ At("binary_end")
  /\ LET floating == "NUMBER" \in {parser.previous.type, Top.left}
     IN  Return(EmitOp(parser, BinaryOp(Top.type, floating)))

CallEnds(p, count) == Emit(Consume(p, "R_PAREN"), <<Opcode["CALL"], count>>)

Call ==
  /\ At("call")
  /\ IF Check(parser, "R_PAREN")
     THEN Return(CallEnds(parser, 0))
     ELSE Then(parser, <<Expression, [at |-> "arguments", count |-> 0]>>)

(* count is a uint8_t *)
Arguments ==
  /\ At("arguments")
  /\ LET q == IF Top.count = ByteMax THEN ErrorAt(parser) ELSE parser
         count == (Top.count + 1) % (ByteMax + 1)
     IN  IF Check(q, "COMMA")
         THEN Then(Advance(q), <<Expression, [Top EXCEPT !.count = count]>>)
         ELSE Return(CallEnds(q, count))

Variable ==
  /\ At("variable")
  /\ LET name  == parser.previous.text
         local == Named(parser, name) # {}
         i == Resolve(parser, name)
         q == CASE ~local -> AddConstant(parser, Str(name))
                [] local /\ Locals(parser)[i].depth = -1 -> ErrorAt(parser)
                [] OTHER -> parser
         arg == IF local THEN (i - 1) % (ByteMax + 1) ELSE ConstantId(parser)
     IN  IF Top.canAssign /\ Check(q, "ASSIGN")
         THEN Then(Advance(q),
                   <<Expression,
                     Finish(None, <<Opcode[IF local THEN "SET_LOCAL" ELSE "SET_GLOBAL"], arg>>)>>)
         ELSE Return(Emit(q, <<Opcode[IF local THEN "GET_LOCAL" ELSE "GET_GLOBAL"], arg>>))
-----------------------------------------------------------------------------
Next ==
  \/ Compile \/ Script \/ ScriptEnd \/ Declaration \/ Declared \/ Synchronize
  \/ FinishCall \/ Statement \/ ExpressionStatement \/ Block \/ ScopeEnds
  \/ VarDeclaration \/ VarDefined \/ IfStatement \/ IfThen \/ IfElse \/ IfEnd
  \/ WhileStatement \/ WhileBody \/ LoopEnd
  \/ ForStatement \/ ForCondition \/ ForExit \/ ForIncrement \/ ForStep
  \/ FuncDeclaration \/ Parameter \/ FuncBody \/ FuncEnd \/ ReturnStatement
  \/ PrefixRule \/ InfixRule \/ Constant \/ LiteralValue \/ Grouping \/ Unary
  \/ BinaryRight \/ BinaryEnd \/ Call \/ Arguments \/ Variable

Spec == Init /\ [][Next]_vars

(* tr_parser_compile runs until it returns *)
FairSpec == Spec /\ WF_vars(Next)

Done == todo = << >>
Compiled == Function(Fn(parser).arity, Fn(parser).code, Fn(parser).consts)
-----------------------------------------------------------------------------
InFunction == {"parameter", "func_body", "func_end"}

(* The calls in progress by their height on the C stack, the outermost one *)
(* at 1, and the function that the call there compiles for.                *)
CallAt(h) == todo[Len(todo) + 1 - h]
FunctionCalls == {h \in 1 .. Len(todo) : CallAt(h).at \in InFunction}
Owner(h) == 1 + Cardinality({g \in FunctionCalls : g < h})

(* The registers are in range, and the tokens are those of the text.  No   *)
(* function is ended that function() did not begin: there is one for each  *)
(* of its calls in progress, and the script.  In panic mode the error was  *)
(* reported.                                                               *)
TypeOK ==
  /\ text \in Seq(Tokens)
  /\ parser.pos \in 0 .. Len(text)
  /\ {parser.preprevious, parser.previous, parser.current} \subseteq Tokens
  /\ parser.error \in BOOLEAN /\ parser.panicking \in BOOLEAN
  /\ parser.panicking => parser.error
  /\ Len(parser.fns) = 1 + Cardinality(FunctionCalls)
  /\ \A n \in DOMAIN parser.fns : LET f == parser.fns[n] IN
       /\ f.arity \in Nat /\ f.depth \in Nat
       /\ f.code \in Seq(0 .. 255)
       /\ Len(f.locals) \in 1 .. SlotsMax /\ f.locals[1].depth = 0
       /\ \A i \in DOMAIN f.locals : f.locals[i].depth \in -1 .. f.depth

(* the jumps that a call is to patch *)
Holds(c) == ({c[r] : r \in {"jump", "exit"} \cap DOMAIN c}) \ {-1}

(* Every jump that waits for its target is in the code of the function     *)
(* being compiled when the wait ends, its two bytes still as emit_jump     *)
(* wrote them, and no two calls in progress wait for the same one: nested  *)
(* statements and functions leave each other's jumps alone (emit_jump,     *)
(* patch_jump).                                                            *)
JumpsHeld ==
  \A h \in 1 .. Len(todo) : \A j \in Holds(CallAt(h)) :
    /\ \A i \in {j + 1, j + 2} :
         i <= Len(parser.fns[Owner(h)].code) /\ parser.fns[Owner(h)].code[i] = 255
    /\ \A g \in h + 1 .. Len(todo) : Owner(g) = Owner(h) =>
         \A i \in Holds(CallAt(g)) : i > j + 1

(* Code only grows.  A byte once emitted is changed only by patch_jump, in *)
(* the function being compiled, and only where emit_jump left it open.     *)
CodeKept ==
  [][\A n \in DOMAIN parser.fns \cap DOMAIN parser'.fns :
       LET old == parser.fns[n].code  new == parser'.fns[n].code IN
       /\ Len(old) <= Len(new)
       /\ \A i \in DOMAIN old : new[i] # old[i] =>
            n = Len(parser.fns) /\ {i - 1, i - 2} \cap Holds(Top) # {}]_vars

(* Every text is compiled or given up: no error makes the compiler read    *)
(* the same token for ever (synchronize, which may return at once, block   *)
(* and the loop of tr_parser_compile).                                     *)
CompileEnds == <>Done
=============================================================================
