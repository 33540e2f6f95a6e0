# A TLA+ development for troel

troel is a small scripting language in C: a lexer, a one-pass compiler to
bytecode, and a stack machine with call frames and a table of globals. This
directory models all of these in TLA+, and `main`, which puts them together,
checks the models with TLC on small instances and proves theorems about four of
them with TLAPS: the table, the lexer, the compiler and the interpreter, and about the
last two together. Paths
such as `tr_table.c:73` are relative to `src/src/`.

The commit modelled is in the middle of a change: `tr_parser.c`, `tr_vm.c` and
`troelc.c` use fields that no struct has (`function->locals`, `p->function`), so
that the program as a whole does not compile. The functions modelled here are
each complete, and every definition is translated from their code as written;
section 2 says how the two unknown fields are read.

## 1. The system

| part | state | operations | model |
|---|---|---|---|
| lexer (`tr_lexer.c`) | position in the text, `eof`, the 512-byte buffer and its `size`, `line` | `tr_lexer_next_token` | `TrLexer` |
| compiler (`tr_parser.c`) | three tokens, `error`, `panicking`, the chunk being written, locals, scope depth, upvalues | `tr_parser_compile`, a function for each construct | `TrCompiler`, `TrCompilerChecked`, `TrGrammar` |
| interpreter (`tr_vm.c`) | value stack and `stackTop`, frames and `frame_count`, globals | `tr_vm_do_chunk`, one case per opcode | `TrVM`, `TrVMVerified`, `WindowStack` |
| hash table (`tr_table.c`) | `entries`, `capacity`, `count` | insert, get, delete, free | `TrTable`, `GlobalsMap` |
| native library (`tr_stdlib.c`) | none | `print`, `clock` | in `TrVM` |
| values (`tr_value.h`) | none | truth, the tagged union | in `TrVM` |
| strings and their hash (`tr_value.c`) | none | copy, murmur hash | a constant function in `TrTable` |
| chunks and constants (`tr_vm.c:13-67`) | growable arrays | add | `Bytecode`, in `TrCompiler` |
| disassembler (`tr_debug.c`) | none | `tr_chunk_disassemble` | `Disassembler` |
| driver (`troelc.c`) | what it compiled | `main` | `Troel`, `TroelMeaning` |
| objects, allocator | none of their own | | not modelled |

How they interact: `main` opens `example.tr`, and the compiler pulls tokens from
the lexer one at a time, three of them alive at once; it writes bytes and
constants into a chunk, which is disassembled when no error was reported. Then
`main` runs it: `tr_vm_do_chunk` pushes the script, enters it with
`call` and runs the loop. The loop reads the chunk, trusts it in everything, and
calls the hash table for globals and the native library for C functions. There
are no threads and no callbacks into the machine; nothing is persisted.

What is hard in it is therefore not concurrency but long sequences of legal
calls, and state that outlives the step it was meant for:

* the table: deletions leave tombstones that are counted but reused, growth
  rehashes and recounts, and the search loop has no exit but an empty slot;
* the interpreter: nothing is bounds-checked except the number of frames; frames
  share the stack, overlapping in callee and arguments; a failed run leaves its
  frames behind; `OP_NEGATE` and `OP_NOT` work on the slot above the top;
* the lexer: the buffer keeps what earlier tokens wrote, error tokens do not
  empty it, and `match` reads it in place of the next character;
* the compiler: what it emits is the only thing between the interpreter and
  undefined behaviour. Jumps wait for their targets across whatever is nested
  in them; the number of a local must be the stack slot its value will be in;
  after an error tokens are skipped until a statement seems to begin; and
  indices, counts and offsets are cut to a byte or two.

`PROJECT.json` lists each hazard with its line and the properties that cover it.

Correctness, part by part:

* table: every call answers as a map from names to values would; every call
  returns; no key twice; every key reachable; the count right.
* interpreter, on any code: registers in range, no global is there that no code
  declared, code without loops ends. On code as it needs it: nothing is undefined
  but the print of a closure, windows of calls are separate, nothing is left
  behind by a run.
* lexer: tokens and blanks tile the text but for what `match` swallows, lines are
  counted but in comments, the end is reached, the buffer is not overrun by texts
  shorter than it.
* compiler: it ends on every text, reports errors exactly for texts outside the
  language, emits code that meets the contract of the interpreter and computes
  what the text says, and accepts nothing that its limits cut.
* disassembler: it reads a chunk as the interpreter does.
* `main`: no accepted text leads the interpreter into undefined behaviour.

## 2. The modules

| module | what it is |
|---|---|
| `GlobalsMap` | abstract: a map with one call outstanding |
| `TrTable` | the hash table, one step per loop iteration |
| `TrTableProofs` | theorems about `TrTable` |
| `MCTrTable` | four keys with chosen hashes |
| `Bytecode` | values, opcodes, and how code and constants are read |
| `Certificate` | what the interpreter needs of its code |
| `WindowStack` | abstract: calls as a stack of separate stacks |
| `TrVM` | the interpreter, one action per group of opcodes |
| `TrVMProofs` | theorems about `TrVM`, on any code |
| `MCTrVMPrograms` | programs, well formed or not |
| `TrVMVerified` | `TrVM` on certified code; refinement to `WindowStack` |
| `TrVMVerifiedProofs` | theorems about it: no undefined behaviour; the refinement |
| `MCTrVMVerified` | certified programs that use every opcode |
| `TrLexer` | the lexer, one step per loop iteration |
| `TrLexerProofs` | theorems about `TrLexer` |
| `MCTrLexer` | all short texts over an alphabet |
| `TrCompiler` | the compiler, one action per stretch of a parse function |
| `TrCompilerProofs` | lemmas about its helpers; theorems about `TrCompiler` |
| `Disassembler` | the decoder of `tr_debug.c` |
| `TrCompilerChecked` | what accepted code must be: certified, readable, complete |
| `TrBalanceFacts` | certificates of unfinished code; what is read; expressions keep them |
| `TrBalanceProofs` | statements keep them; theorem: accepted code is balanced |
| `TrGrammar` | references: the language, the order of operators, scopes |
| `Spelling`, `MCTrCompiler` | texts for the compiler |
| `Troel` | `main`: `TrCompiler`, then an instance of `TrVM` |
| `TroelProofs` | theorem: the texts that fit a frame run without undefined behaviour |
| `TroelMeaning`, `MCTroel` | what a text denotes; texts for `main` |

`TrCompiler` and `TrVM` extend `Bytecode`; `TrVMVerified` and `TrCompilerChecked`
both extend `Certificate`, one as its assumption, the other as its obligation;
`Troel` composes the two machines. `TrGrammar`, `Spelling` and `TroelMeaning` have
`RECURSIVE` operators and serve model checking only.

An operator commented "mutant of X" is X with a bug that is easy to make in that
code. No specification uses it: put in place of X it breaks one property, which
shows that the property depends on that line of the code.

### TrTable

`entries`, `capacity` and `count` are the struct; `op` and `pc` are the call in
progress; `index` and `tombstone` are locals of `tr_table_find_entry`; `fresh` and
`scan` are the new array and the loop index of `table_adjust_capacity`. `Probe` is
one iteration of the `for (;;)`, in the table (`pc = "find"`) or in the array
being filled (`"refind"`). `InsertGrows`, `RehashSkip`, `RehashFind`, `RehashMove`
and `RehashEnd` are growth; `InsertDone`, `GetDone` and `DeleteDone` are what each
function does with the entry it got. A string is its content, since the code
compares with `strcmp`; `Hash` is any function to the naturals. The load test
`count + 1 > capacity * 0.7` is in integers, `10 * (count + 1) > 7 * capacity`; the
two agree for every capacity 8, 24, 56, ... an `int` can hold. Growth by
`capacity * 2 + 8` is `capacity * 2 + Growth`, so that small tables grow often.

### TrVM

`stack` and `top` are `vm->stack` and `stackTop`; a frame is function, `ip` and
`slots` (an index). Code is bytes: an opcode without a case in the switch is
skipped and its operands are then executed, as in C. `RunChunk` is
`tr_vm_do_chunk`; `CallClosure`, `CallCFunc` and `CallError` are `OP_CALL` with
`call_value` and `call`; `Return`, `PushOp`, `Jump`, `Compare`, `IBinary`,
`FBinary`, `Negate`, `Not` and the rest are the cases.

Where the C would read or write outside an array, follow a pointer that is none,
or use bytes nobody has written, `Safe` is false and the machine stops in status
`"undefined"`. The last is `print` of a closure (`Printable`):
`tr_debug_print_val` has no case for it (`tr_debug.c:40-51`) and leaves the buffer
of `tr_print` as it was, which is then printed as a string. An integer division
that traps gives `"trap"`. Slots never written have type `"ANY"`, and instructions
that test such a type choose any. Payloads read as another type (`tr_vm_ipop` of a
pointer) are any long. Overflow wraps, which is what builds for two's complement
machines produce. A double is only zero or not.

The quirks of the code are in the model: `OP_EQUAL` pushes nothing for values of
one type, operands of arithmetic are reversed, a Boolean is falsey when true,
`OP_NEGATE` and `OP_NOT` act above the top, `OP_NEGATE` falls into
`OP_DEFINE_GLOBAL`, popping an empty stack gives a null pointer, and
`tr_vm_do_chunk` ignores a failed `call`.

`life` is a history variable: `"reused"` once a chunk was run after a failure.
`tr_vm_runtime_err` resets the stack but not the frames, so that such a run can
return into frames of the failed one; what `TrVMVerified` promises is for machines
without that history, what `TrVM` promises is for all.

The globals are a map from names. `TrTable` implements that map (theorem
`TableImplementsMap`), which is why the interpreter is modelled over it.
`OP_SET_GLOBAL` inserts the value to find out whether the name is new, and if so
deletes it: `UndefinedGlobal` does both (`Inserted`, then `Deleted`), in one
action, as nothing can run between them. `OnlyDeclared` says that no such
insertion lasts. `OP_NOT` of a Boolean first changes the lowest byte of the slot
above the top, then tests its `long` (`BytesToggled`, `Toggled`).

### TrVMVerified

The interpreter checks nothing, so what it promises depends on its code.
`Certifies` (in `Certificate`) says what it needs: a set `Heights[f]` of pairs of an
offset and a number of slots, closed under the instructions (`Follows`), each of
which has what it needs there (`Needs`), in the manner of bytecode verifiers, and
none of more than the slots of a frame (`FitsSlots`). This is the contract the
compiler is to meet. It allows for the quirks: `OP_EQUAL` has two successors, and
`OP_NEGATE` needs the next byte to be a constant's index. `Reached` computes the
least such set of a function, by following its instructions; a function is
`Balanced` when that set has what it needs everywhere.

A certificate is about heights, and values it leaves open, so that one access
remains: `UndefinedOnlyByPrint` says that certified code is undefined only where it
prints a closure, which the script `Prints` of the run does.

### TrLexer

`pc` is where `tr_lexer_next_token` is. Each character read is a step; `Advance`
writes it to the buffer, `Getc` drops it. `source` keeps its old contents, as the
code never clears it, and `size` survives an `ErrorToken`. A write, or `match`'s
read, at index `BufMax` stops the lexer in `"undefined"`. The string reader and
the file reader give the same results and are one. `asked` is a history variable:
the position at which the token was asked for.

`TokensTile` is about texts that are `Tokenized`, of characters the lexer knows and
without comments (an unknown character becomes the beginning of the next token,
and so does the line break that ends a comment). `match` compares the buffer and
not the next character: after the token `"="` the lexer reads `=x` as `==`, and the
`x` is gone. So the property says what such a token is: it keeps its first
character and has swallowed the next, and it happens only when a string earlier
in the text began with its second character.

`LinesExact` is about all texts: the line is at most the number of line breaks
read, and less only by breaks that are `Missable`, on a line with a comment or
swallowed by an operator. In `Clean` texts, `Tokenized` ones without a string
together with `=`, `&` or `|`, it is that number.

### TrCompiler

`parser` is `struct tr_parser` with the compilers begun (`fns`, innermost last:
type, arity, code, constants, scope depth, locals). `todo` is the C stack, the
innermost call first, each with the locals it needs when it goes on: the jump an
`if` is to patch, the operator of a `binary`, the count of arguments so far. A
parse function is one action for each stretch between two calls of other parse
functions: `if_statement` is `IfStatement`, `IfThen`, `IfElse`, `IfEnd`;
`precedence` is `PrefixRule` and one `InfixRule` for each turn of its loop. What
helpers do to the struct (`Advance`, `Consume`, `EmitJump`, `PatchJump`,
`EndScope`, `AddLocal`, ...) are operators from record to record, composed in the
order of the calls. `Texts` holds sequences of tokens; an error token is dropped
by `advance` without a word, as in C. There is no nondeterminism but the choice of
the text.

How the code is read where it does not compile. `p->function` is
`p->compiler->function`. Blocks raise and lower the scope depth of the function
(`function->locals`, `tr_parser.c:467-481`), whereas declarations look at the
depth and the locals of the compiler (`compiler->scope_depth`), which nothing
changes: with `Joined = FALSE` the model does the same, and every variable is a
global. `Joined = TRUE` reads the two as one record, which is the only reading
under which `add_local`, `resolve_local` and `end_scope` do anything; the runs
`scopes` and `limits` use it, so that this code is checked too.
`compiler->enclosing` is set nowhere, so `resolve_upvalue` always returns at its
first line.

Opcodes, the rule table and the quirks are as written: `and_` and `or_` cannot be
reached, the loop of `precedence` is strict, floating instructions are chosen by
the tokens next to the operator, `function()` emits the constant of the function
twice, and a constant that does not fit is added all the same.

`TypeOK` has, besides types, that there is one function begun for each call of
`function()` in progress. `JumpsHeld`: the jumps that wait in `todo` are each in the
code of the function it will be patched in, still open and not overlapping.
`CodeKept`: a step changes no byte that was emitted before, but for the jump that
the innermost call is patching.

### TrCompilerChecked and Disassembler

A text is `Accepted` when `tr_parser_compile` is done and no error was reported.
`CodeBalanced`: all code of an accepted text is `Balanced`. It is about `Plain`
texts, without Booleans, comparisons and unary minus, whose instructions the
interpreter lacks or gets wrong (`OP_EQUAL` pushes nothing for equal types), and
skips functions that declare functions, whose `OP_CLOSURE` is wrong (finding 2). A
minus is binary after a name, a literal or a closing parenthesis, but the
parenthesis may be that of a condition, as in `if (x) -1;`: in a text with
conditions `Plain` has no minus after one (`Minuends`). `SlotsAreLocals` follows
the unfinished code at every statement: on each path there the stack holds one
slot per local. `NamesKept` counts: each name and literal of the text has its
instruction, with its own constant.

`Disassembler` is the second decoder of the bytecode, in `tr_debug.c`.
`DecodersAgree`: it finds instructions where the interpreter does, and reads
nothing that is not there. `OP_NEGATE`, which may swallow a byte, and functions
are excepted.

### TrGrammar

References, written from the shape of the parse functions but without their
looking ahead. `Grammar` is the language as data and `Ends` a recognizer that
tries every derivation; `AcceptsGrammar` says that errors are reported for exactly
the texts outside it, so that panic mode loses no error and invents none.
`Postfix` is the order an expression is computed in, found by splitting the whole
of it at the operator that is computed last (`ComputedLast`); `GroupsByLevel`
compares it with the emitted code, for all operators. `binary()` asks for one
level more than its own and `precedence` compares strictly, so that an operator
leaves to its right operand only what binds tighter by two levels: `1 + 2 * 3` is
`(1 + 2) * 3`, and the reference says so. Nothing in the repository says that
anything else was meant, though the names of the levels (`tr_parser.c:12-24`)
suggest it. `ScopesAsWritten` finds from braces alone the names declared twice in
a block and the initializers that read their own variable.

### Troel and TroelMeaning

`Compiles` is `tr_parser_compile`, `Runs` the hand-over when no error was
reported, `Executes` the interpreter. `RunsDefined` says that any accepted plain
text without functions runs without undefined behaviour and, if it ends well,
leaves the stack empty. `ComputesText` evaluates `Straight` texts, of assignments
of expressions with the four operations, with a little denotational semantics, and
compares the globals: the lexer apart, this is the whole path from tokens to
values. The operands of `-` and `/` are exchanged, as in the machine, so that
`1 - 2` is 1 and `0 / 2` traps: a text ends in a trap only if it has a division whose
right operand, as the machine takes it, is zero.

## 3. Runs

| run | configuration | states | shows |
|---|---|---|---|
| `table` | 4 keys, 2 values, `Growth` 2 | 278,086 | the layout invariants; the table implements `GlobalsMap`; every call returns |
| `programs` | 11 scripts, 2 frames of 5 slots | 25,618 | `TypeOK`, `OnlyDeclared`, `RunsEnd` |
| `verified` | 3 scripts, 7 functions, 3 frames of 5 slots | 1,258 | nothing undefined but the print of a closure; windows are separate |
| `lexer` | texts up to 4 of 9 characters, and 81 of 6, buffer of 5 | 161,629 | `FitsShortInput`, `LinesExact`, `TokensTile`, `ReachesEnd` |
| `compiler` | 2,533 texts, `Joined` FALSE, limits as in C | 103,318 | the language accepted, the code emitted, that compilation ends |
| `scopes` | 894 texts, `Joined` TRUE, limits as in C | 51,002 | `SlotsAreLocals`, `ScopesAsWritten` |
| `limits` | 70 texts, `Joined` TRUE, `ByteMax` 3, `JumpMax` 15 | 3,840 | `CodeBalanced`, `NamesKept` at the limits |
| `main` | 2,367 texts, compiled and run | 117,809 | `RunsDefined`, `ComputesText`, `MainEnds` |
| `negate` | one text | violation | finding 1 |
| `example` | `example.tr` | violation | finding 2 |
| `decimal` | one text | violation | finding 3 |
| `redeclare` | one text | violation | finding 4 |

The bounds. In `table` the capacities are 0, 2, 6, 14 and the hashes make keys
collide and wrap at each of them: tombstones before, between and behind keys, a
table with as many used slots as the load allows, and a rehash that drops
tombstones all occur. In `verified`, `deep` recurses to the frame limit, `loops`
goes round its loop, and the scripts run in any order any number of times.
`SlotsMax` stands for the 256 slots a frame may have and `FramesMax` for 256
frames: only their product and the limit check matter, and both are reached. The
scripts of `programs` are run one after another on one machine, as an embedder
would, failures in between; `rec` alone is not what the compiler emits, as no
small text makes a closure (finding 2), and is there so that failed runs leave
frames behind. In `lexer`, the buffer of 5 is overrun by some of the texts and not
by others; the texts of 6 characters are the string `"="`, an `=` and any two
more, the shortest in which `match` is wrong. `LongMax` is 1 in these, so that
arithmetic wraps and the division that overflows happens, and 3 in `main`.

The compiler's texts are statements that use every construct, and all their
edits: every token left out, replaced by or followed by each of a few others
(`EditsOf`). Almost all of these are broken, in every way one token can break a
text, at every place, nested ones included; error recovery is entered with
each kind of call in progress. Chains of up to four operands put every pair and
most triples of operators next to each other. In `scopes` the texts nest blocks,
loops, branches and functions to depth two, which has an outer, an own and an
ended scope, with names that collide. In `limits` each limit is met one below, at
and one above (`n` from 2 to 5 with `ByteMax` 3; bodies of 1 to 12 statements with
`JumpMax` 15), for constants of names, literals and calls, locals, parameters,
arguments, and jumps of `if`, `else`, `while` and both of `for`. The counts are
compared with the limit and then cut by the same constant, so that small limits
behave as 255 and 65535 do. In `main` there are
assignments of up to three operands and the four operations, in every grouping,
and edits of programs with branches, loops and calls of the native functions.

`CHECK_DEADLOCK FALSE` is set where the system really stops: an interpreter after
undefined behaviour or a trap, a lexer after an overrun, a compiler that returned,
and `main` after it.

Fairness. The table's `FairSpec` is weak fairness of `Work`: a C function that was
called runs on; nobody has to call it. The interpreter's is weak fairness of
`Step` and not of `RunChunk`, for the same reason. The lexer's is weak fairness of
`Next`, the calls included: `tr_parser_compile` asks for tokens until it gets
`TOKEN_EOF` (`tr_parser.c:727`), and `advance` until it gets one that is no error
(`tr_parser.c:86`). The compiler's is weak fairness of `Next`: `tr_parser_compile`
runs until it returns. `FairMainSpec` is that of the whole process, which runs on
until `main` returns; `MainEnds` is about texts without loops, as others need not
end.

## 4. Findings

1. `OP_NEGATE` looks at the slot above its operand (`tr_vm.c:314`).
   `print("x"); -1;`, compiled and run, fails with "Attempted to negate non number type"
   (`tr_vm.c:322`), of the string that was popped. Run `negate`.
2. A function declaration emits `OP_CLOSURE, OP_CONSTANT, id, id`
   (`tr_parser.c:568-569`). `OP_CLOSURE` takes `OP_CONSTANT` as its operand and the
   index is executed; for the first function of a script it is 1, `OP_RETURN`.
   `example.tr` ends with `TR_VM_E_OK` at its first statement. Run `example`.
3. A number with a decimal point is a `TOKEN_INT` (`tr_lexer.c:100`), whereas
   `tr_parser.c:114` has "Decimal means floating points!!" for `TOKEN_NUMBER`, a
   token no text gives. Run `decimal`.
4. `declare_variable` tests `compiler->scope_depth` (`tr_parser.c:288`), which blocks do
   not change. `{ var x; var x; }` is compiled, and the message of
   `tr_parser.c:297`, "Redeclaring previously declared variable", is never given.
   Run `redeclare`. With the scopes in one record it is given exactly where it
   should be (run `scopes`).

## 5. Proofs: the hash table

`TrTableProofs` proves, for any keys, values, hash function and growth constant of
at least 2 (`TableAssumption`): `Spec => []TableInv`, its consequences `TypeOK`,
`CountExact`, `ProbeMeetsEmptySlot`, `KeysUnique` and `KeysReachable`, and
`Spec => ImplementsMap`, the refinement of `GlobalsMap`.

`TableInv` is inductive; the properties alone are not. That keys stay unique
needs that a search that ended found the key or a slot on the key's path with the
key nowhere (`Landed`), which needs what a search in progress knows (`Walked`),
which needs that keys are reachable. That an empty slot is met needs the exact
count and the load bound (`LoadBounded`), and the load bound after growth needs
that no more keys were moved than slots scanned (`GrowthFaithful`). The argument:

* paths: `PathStep`, `PathFull`, `PathTotal` and `PathPrefix` are the arithmetic of
  cyclic probe paths; `PathFull` says a probe back at its home has seen all;
* `EmptySlotExists`: fewer used slots than the capacity leave an empty one, so
  that no probe comes back to its home (`ProbeStep`);
* `AbsentAtEmptySlot`: a probe at an empty slot knows the key is nowhere;
* `PutKeepsLayout`: storing a key where a search landed keeps uniqueness and
  reachability, in the table and in the array being filled;
* one lemma per action, then `NextKeepsInv`;
* for the refinement, `MapPut`, `MapBury` and `MapMoved` say what storing,
  deleting and growing do to the map an array stands for; one lemma per action
  maps it to a step of `GlobalsMap` or a stutter.

That probes end is `CallsReturn`, a liveness property, model-checked in
`table`; the theorem `ProbesEnd` is its safety half.

## 6. Proofs: the lexer

`TrLexerProofs` proves for any texts, classes of characters and buffer size
(`LexerAssumption`) `Spec => []TypeOK` and `Spec => []FitsShortInput`: a run of the
lexer overruns the buffer only on a text at least as long as the buffer less one.
The inductive invariant `LexerInv` compares `size` with the number of characters
read, where the one read past the end counts; error tokens, which leave `size`
alone, are why the whole text and not its longest token is the bound.

`LinesAreExact` (`Spec => []LinesExact`) and `TokensTileText` (`Spec => TokensTile`)
need that letters and digits are different characters and neither blanks nor
operators (`CharAssumption`, true of `isalpha` and `isdigit`). The invariant is
`TileInv == LexerInv /\ WhereBreaksGo /\ LinesExact /\ (Tokenized(input) => Tiles)`.
`WhereBreaksGo` is of any text: a line break that is not skipped ends a comment, and
an operator is the character last read, so that a break that `match` swallows
follows it. `Tiles` has

* `BufferEmptied`: between tokens the buffer is empty and no comment is being
  read; without it a token could begin with the rest of an earlier one;
* `StaleFromString`: where `match` looks, after the first character, there is an `=`,
  `&` or `|` only if an earlier string began with it. Every longer token overwrites
  that place, and the end of an operator's token is written to it;
* `BeginsToken`: which character the token in progress began with;
* `BufferIsText`: the buffer is the last `size` characters of the text, and those
  before it since the call are blanks. This is the property on the way to a token.

## 7. Proofs: the interpreter

On any code, well formed or not (`TrVMProofs`, from `VMAssumption`: there is a
frame, functions are bytes and values, scripts are functions, a long holds 1):
`Spec => []TypeOK`, and `Spec => []OnlyDeclared` (`NoneUndeclared`), that a global
that is there was declared by an instruction of some function or is a native. The
code stops in `"undefined"` where the C would leave an array, and the proof is
that every other step keeps stack, frames and globals typed: the payloads read as
another type, the slots never written and the wrapping of arithmetic included.
Wherever C may read anything, the model's choice is over `Value`, so that `TypeOK`
bounds it. `NoClosures` is that no slot and no global is a closure; code without
`OP_CLOSURE` and without functions among its constants (`ClosureFree`) keeps it,
as no instruction makes one of anything else.

On certified code (`TrVMVerifiedProofs`, from `CertifiedAssumption`: `Heights` has
a certificate of each function): `UndefinedOnlyByPrint` (`UndefinedByPrint`),
`HeightsHold`, `LeavesNothing` and `NothingWild`. They are proved together, as
`VInv`, for none is inductive alone. A push has a slot to go to only if the frames
below take no more than `SlotsMax` slots each (`FramesFit`), which is what
`STACK_MAX` is reckoned from (`SlotsOfFrames`); that an access is defined needs
the height at that offset; the height after a `return` needs that the caller's
height was certified for what follows its call; and the arguments of a call are
its own because no frame begins above a later one (`FramesOrdered`). `AtWork` says
what all this gives the instruction about to be executed, and there is one lemma
for each action. The premise `Clean`, that no earlier run failed on this machine,
cannot be dropped: after a failure the frames stay. `RunsAreDefined` adds
`NoClosures`: certified code that is `ClosureFree` is never undefined.

`WindowsAreKept` (also there) is `Spec => ImplementsWindows`: the frames that
overlap on one stack are, to every instruction, a stack of separate stacks
(`WindowStack`). The refinement mapping cuts the stack at `slots` of each frame, and
`WindowsAre` says what the pieces are as sequences. An instruction that is neither
call nor return changes the last window alone (`WorkIsWork`); `CallIsCall`,
`ReturnIsReturn` and `RunIsStart` put the windows after a step together from those
before it; the end of a run and a failure are `Stop`. The stale frames of a machine
that failed are outside it, as `Clean` says.

## 8. Proofs: the compiler

`TrCompilerProofs` proves for any texts, any limits `ByteMax` and `JumpMax` of the
chunks and both readings of the scopes (`CompilerAssumption`):

* `TypesHold`: `Spec => []TypeOK`;
* `JumpsAreHeld`: `Spec => []JumpsHeld`, that each jump waiting for its target
  lies in its function's code as `emit_jump` wrote it, for one call alone;
* `CodeIsKept`: `Spec => CodeKept`, that a byte emitted is changed by `patch_jump`
  only, where the call that returns had left a jump open.

`ByteMax # 0` is assumed because the code needs it: `mark_initialized` takes the
last local to be the one just declared, and with no slot for any local that would
be slot 0, the function's own.

The C stack is what the induction is over. `todo` changes at its head, so that
positions in it move; a call is named by its height instead (`CallAt`), and
`Owner` says which function the call at a height compiles for, by counting the
calls of `function()` below it. `CompilerInv` has

* `TodoOK`: each call has the locals it needs, and which calls can be on top of
  which: an expression calls nothing but parts of expressions, and a rule that
  reads the previous token (`literal`, `binary`) is only ever on top, where that
  token is still the one it was chosen by. That the instruction emitted exists
  at all depends on it;
* `DepthsOK`: the depth of a function is the number of the calls that will end a
  scope of it, one more in a function. Otherwise `end_scope` could find no slot
  to keep;
* `LocalsOK`: locals are in the order of their scopes, so that those of the scope
  that ends are the last ones; one waits for its initializer only while its
  declaration is in progress, and it is the last;
* `JumpsOK`: `JumpsHeld` and that the exit of a `for` comes before the jump over its
  increment. The loop patches the one and hands on the other: that patching
  leaves it open is what the order is for.

Most parse functions only change the call on top, the calls it makes and the
function being compiled. `Step` is the conjunction of what such a step has to show
of its own part, `StepKeeps` that it then keeps all of `CompilerInv` and all code
but the jumps of the call on top, whatever waits below it. Each action has a lemma
that it is a `Step`, mostly by one of a few forms: it returns (`Returns`), goes on
as one call (`GoesToOne`), makes one and goes on (`GoesToTwo`), or is part of an
expression (`ExprGoes`). The two actions that begin and end a function shift what
the heights are worth and go by `FunctionStep`. The first part of the module has
what each helper (`Advance`, `Emit`, `PatchJump`, `EndScope`, ...) does to the
record, in three grades: it only emits (`Same`), it also touches the scopes
(`Within`), it patches a jump.

`TrBalanceFacts` and `TrBalanceProofs` prove, from the same assumptions and that the
literals of a text are no functions (`LiteralAssumption`: `number` and `string` make
longs, doubles and strings), that the compiler keeps its part of the contract:

* `CodeIsBalanced`: `Spec => []CodeBalanced`, for every text, limit and reading.

That the code of a text is balanced is seen only when it is complete: until then
jumps have no targets, and `Reached` runs into their placeholders. The invariant
is of a certificate of unfinished code instead. `Cert(f, H, O, e)` says that `H`
gives offsets of the code, its end included, one height each, `e` that of the end,
and that each instruction there has what it needs (`Needs`) and is followed by
offsets and heights of `H` (`Follows`), but for the jumps in `O`, whose targets
wait. `Typing(f, H, O, e, r)` adds what the calls in progress owe: `r` has one
record for each call that compiles for `f`, with the height it will find (`in`)
and the one it leaves (`out`). An expression leaves one more (`FitsExpression`), a
statement none, and a block what its locals were (`LocalsTo`); a loop's start has
the height of its end (`FitsMarks`); every jump of `O` is held by one of the
calls. `TypedBy(f, todo)` is that there are such heights. `BalanceInv` has

* `TypedBy` of the function being compiled, while there are calls;
* `Good`: a set of functions, with all that are declared so far, each balanced
  unless it declares others. The heights of one function at a time are enough: a
  function that declared another is from then on outside `CodeBalanced`;
* at the end, that the script is balanced.

`TextInv` is what the tokens add (`TextHolds`). `binary` and `unary` choose their
instruction by the previous token and those next to it, so that the proof needs
that the token a rule was chosen by is still the previous one, and that a minus
with something to subtract from is never read as the unary one (`Settles`). In
this proof `Plain` turned out to have been too weak, by the text `if (x) -1;` above,
which no run had; `compiler` has it now.

The last step is from the certificate to `Balanced`, which asks for the least
closed set, `Reached`. `BalancedIfAny`: if any set with one height for each offset
balances a function, then `Reached` does. `Reached` is an iteration, and that each
of its stages is inside the set is shown by the least stage that is not, as
induction is out of reach here; that it has ended by then is counted.

The actions are proved as in `TrCompilerProofs`, by form: `Goes` for a step that
only emits, `Moved` for one that also changes the scopes, where the locals outside
the depth at hand must stay as they were, and `Finished` for the two that end a
function.

`TroelProofs` joins the two halves, for every text and all limits of the compiler
and the machine, from the assumptions above and that names are strings in use and
literals longs, doubles and strings in use (`MainAssumption`):

* `TextsRunDefined`: `MainSpec => [](FitsFrame => RunsDefined)`.

`CodeIsBalanced` is of any function that declares no other. What a text without
functions gives is one script, with no parameter, whose constants are such
literals and names: that is `BareInv`, which needs that `function()` is not begun
without a `fn` token (`Settles`) unless there was an error. So what is accepted is
in `Programs`, the functions that are balanced and fit (`AcceptedReady`), and
`Programs` with `Reached` meets `CertifiedAssumption`: `V` is the machine of
`TrVMVerifiedProofs` for them. The machine of `main` may begin with any code;
`MainInv` says that it is new while the compiler is at work, that it begins only
with what was accepted, and that on such code its state satisfies the invariant of
`V`, whose steps its own then are (`SameStep`). Such a script makes no closure, so
that the exception of `UndefinedOnlyByPrint` does not arise.

`FitsFrame`, that no height of the script exceeds the slots of a frame, is a premise
and not a conclusion: the compiler counts no temporaries (section 9), and without
it the property is false.

## 9. What is only model-checked, and what is not modelled

Only model-checked: liveness (`CallsReturn`, `RunsEnd`, `ReachesEnd`, `CompileEnds`,
`MainEnds`), which is out of the prover's reach, and of the compiler and its
composition the following.

* What compares the compiler with a reference (`AcceptsGrammar`, `GroupsByLevel`,
  `ScopesAsWritten`, `ComputesText`): the references are recursive over data.
* `NamesKept` and `DecodersAgree`, which compare the instructions the disassembler
  lists, or their number, with the tokens of the whole text: they are
  statements by induction over the code, a byte of which has no meaning but for
  all those before it.
* `SlotsAreLocals`, of unfinished code at a statement. `BalanceInv` gives the height
  there that it claims; but `Reached` also follows the placeholder 0xffff of a jump
  that has no target yet, and in a function of more than 65535 bytes that may be
  the end of the code, so that the property is not one for all texts.
* `RunsDefined` without the premise `FitsFrame`: it holds of the texts of the run,
  all of which fit, and is not one for all texts.

Not modelled, and known gaps:

* in the compiler: `add_upvalue`, and `resolve_upvalue` past its first line (its
  result differs between a new and a known upvalue, and its initializer swaps
  two fields, but it cannot be reached); `and_` and `or_`, neither reachable;
  `tr_chunk_free` and `tr_constants_free`, called from a destructor nothing calls;
  the doubling of arrays;
* between lexer and compiler: the compiler's texts are tokens; that the two
  together keep three tokens alive in one 512-byte buffer is not modelled,
  `tr_token_cpy` copying each;
* between compiler and interpreter: `FitsSlots`. The compiler counts no temporaries,
  so that a call of 255 arguments, or as many nested constants, is accepted and
  needs more slots than a frame has;
* parameters are globals, and `OP_DEFINE_GLOBAL` pops them in reverse: not a
  property, as no call gets as far as a function's code (finding 2);
* `OP_CLOSURE` in the disassembler indexes the constants with its operand, which is
  `OP_CONSTANT`, unchecked (`tr_debug.c:144`): `DecodersAgree` leaves functions out;
* in the interpreter: `OP_GET_UPVAL` and `OP_SET_UPVAL`, which have no case and are
  skipped, are never emitted; `tr_vm_free` (no caller);
* in debug builds (`tr_vm.h:11-13`) the loop prints every slot before each instruction
  (`tr_vm.c:248-260`). It changes nothing, but prints with `tr_debug_print_val`, so that a
  closure in any slot, and not only one given to `print`, leaves its buffer
  as it was: the model is of builds with `NDEBUG`;
* after a failed run the machine has stale frames, and a later run may resume them
  (`tr_vm.c:149`, `235`). The model does so too; no property is claimed of such runs
  but those on any code;
* error tokens are dropped without a report (`tr_parser.c:86`), by the reference of
  `AcceptsGrammar` too;
* `tr_table_insert_all` (no caller); ownership of memory, strings and objects
  (nothing is collected, and allocation failure ends the process); the contents
  of doubles; output, that of the disassembler included; the
  murmur hash, of which the table uses only that it is a function.

## 10. Plan

Done: table, interpreter, lexer, compiler, disassembler and the composition in
`main`, checked; the proofs of sections 5 to 8. What could come next:

1. A bound on temporaries: that the heights of a function are at most its arity,
   one, and the instructions before them gives `FitsFrame` for short code.
2. That the offsets the disassembler lists are those of the certificate, from
   which `DecodersAgree` would follow.
3. The lexer in front of the compiler, characters to behaviour;
   `tr_table_insert_all`; upvalues once the code sets `compiler->enclosing`.
