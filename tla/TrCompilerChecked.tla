------------------------- MODULE TrCompilerChecked -------------------------
(***************************************************************************)
(* What the code of an accepted text is to be, by the interpreter's own    *)
(* needs (Certificate) and by the disassembler's reading of it.            *)
(***************************************************************************)
EXTENDS TrCompiler, Certificate, Disassembler, FiniteSets

Accepted == Done /\ ~parser.error

Operands == {"IDENT", "INT", "STRING", "R_PAREN"}

(* The tokens a minus is binary after.  A parenthesis may also be that of  *)
(* a condition, with a statement after it: if (x) -1;                      *)
Conditional == \E i \in 1 .. Len(text) : text[i].type \in {"IF", "WHILE", "FOR"}
Minuends == {"IDENT", "INT", "NUMBER", "STRING"} \cup IF Conditional THEN {} ELSE {"R_PAREN"}

(* The text uses none of the constructs whose instructions the interpreter *)
(* lacks or gets wrong: Booleans, comparisons, unary minus.                *)
Gaps == {"TRUE", "FALSE", "EQ", "NE", "LT", "LTEQ", "GT", "GTEQ"}
Plain ==
  \A i \in 1 .. Len(text) :
    /\ text[i].type \notin Gaps
    /\ text[i].type = "MINUS" => i > 1 /\ text[i - 1].type \in Minuends

Functions(consts) == {consts[k].func : k \in {i \in DOMAIN consts : IsFunc(consts[i])}}

(* f, the functions it declares, and those they declare, n deep *)
Bodies(f, n) ==
  LET bodies[k \in 0 .. n] ==
        IF k = 0 THEN {f}
        ELSE bodies[k - 1] \cup UNION {Functions(g.consts) : g \in bodies[k - 1]}
  IN bodies[n]
AllBodies == Bodies(Compiled, Cardinality({i \in 1 .. Len(text) : text[i].type = "FUNC"}))

(* Every function of an accepted plain text that declares no other, whose  *)
(* OP_CLOSURE is never right, has the code the interpreter needs: jumps    *)
(* land on instructions, operands name constants and slots that are there, *)
(* calls have the arguments they count, and every path keeps the stack     *)
(* balanced (patch_jump, emit_loop, end_scope, argument_list, constants).  *)
CodeBalanced ==
  Accepted /\ Plain =>
    \A f \in AllBodies : Functions(f.consts) = {} => Balanced(f, f = Compiled)

(* Between two declarations the run has one slot for each local of the     *)
(* function being compiled, on every path that leads there: the number of  *)
(* a local is the slot its value is in (add_local, end_scope, POPs).       *)
SlotsAreLocals ==
  /\ At("declaration") \/ At("script") \/ At("block")
  /\ ~parser.error /\ Plain /\ Functions(Fn(parser).consts) = {}
  => \A s \in Reached(Compiled) :
       s[1] = Len(Compiled.code) => s[2] = Len(Locals(parser))

(* All names of the text are of globals: what is declared in blocks is too *)
(* as long as the scopes are in two records.                               *)
Global == ~Joined \/ \A i \in 1 .. Len(text) : text[i].type \notin {"L_BRACE", "FOR"}
NoFunctions == \A i \in 1 .. Len(text) : text[i].type # "FUNC"

Value(token) == IF token.type = "IDENT" THEN Str(token.text) ELSE Literal[token.text]
Names == {i \in 1 .. Len(text) : text[i].type \in {"IDENT", "INT", "STRING"}}
Uses == {i \in Listed(Compiled) : OpAt(Compiled, i) \in NamedOps}

(* Every name and literal of an accepted text is named by one instruction, *)
(* and none by another: a full pool gives no name the constant of another  *)
(* (ident_constant, emit_constant, define_global, variable).               *)
NamesKept ==
  Accepted /\ Global /\ NoFunctions =>
    LET f == Compiled IN
    \A v \in {Value(text[i]) : i \in Names} \cup {f.consts[k] : k \in DOMAIN f.consts} :
      Cardinality({i \in Uses : ConstantAt(f, Operand(f, i)) = v}) =
      Cardinality({i \in Names : Value(text[i]) = v})

(* The disassembler reads nothing that is not there of an accepted text    *)
(* without functions, and agrees with the interpreter on where its         *)
(* instructions begin, but for OP_NEGATE, which may skip a byte            *)
(* (parser_end_func, tr_parser_compile).                                   *)
DecodersAgree ==
  Accepted /\ NoFunctions =>
    /\ \A i \in Listed(Compiled) : Readable(Compiled, i)
    /\ Plain => \A s \in Reached(Compiled) :
         s[1] < Len(Compiled.code) => s[1] \in Listed(Compiled)
=============================================================================
